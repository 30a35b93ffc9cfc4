------------------------------- MODULE Lookup ------------------------------
(***************************************************************************)
(* A key lookup: the panel asks the worker, the worker fetches from GitHub *)
(* or the key server under one deadline, reads a capped body, checks its   *)
(* shape, and answers with lines or with a code.  The network may redirect,*)
(* fail, trickle or never answer; the worker may stop.                     *)
(***************************************************************************)
EXTENDS FiniteSets, Naturals

CONSTANTS PubLine,     \* the keys an account may have, a line each
          Oversized,   \* those longer than the cap for one key
          Unusable,    \* those the engine refuses
          MaxKeys,     \* lines the worker forwards
          MaxLookups   \* lookups in a behaviour

ASSUME LineAssumption ==
    IsFiniteSet(PubLine) /\ Oversized \subseteq PubLine /\ Unusable \subseteq PubLine /\ MaxKeys \in Nat

VARIABLES asks,     \* the panel's lookup: the parser is busy until it is answered
          request,  \* the worker's request
          reply,    \* its answer, on the way
          account,  \* what the account really holds
          shown,    \* what the panel shows
          lookups

lookupVars == <<asks, request, reply, account, shown, lookups>>

NoAsk == "none"
NoRequest == [at |-> "none"]
NoReply == [kind |-> "none"]
Failed(code) == [kind |-> "failed", code |-> code]
Dead == [kind |-> "undefined"]

lookupInit == asks = NoAsk /\ request = NoRequest /\ reply = NoReply /\ account = {} /\ shown = NoReply /\ lookups = 0
----------------------------------------------------------------------------
\* classifyLookup: key server shapes first; anything else that is no name is refused.
Target(input) ==
    CASE input \in {"address", "hex"} -> "keyserver" [] input = "name" -> "github" [] OTHER -> "invalid"
Ask(input, keys) ==
    /\ asks = NoAsk /\ lookups < MaxLookups /\ lookups' = lookups + 1
    /\ IF Target(input) = "invalid" THEN shown' = Failed("invalid") /\ UNCHANGED <<asks, account>>
       ELSE /\ asks' = Target(input) /\ account' = keys
            /\ shown' = NoReply
    /\ UNCHANGED <<request, reply>>
\* The worker builds the URL again from what it was sent.
StartFetch ==
    /\ asks # NoAsk /\ request = NoRequest /\ reply = NoReply
    /\ request' = [at |-> "connecting", deadline |-> TRUE, name |-> "asked"]
    /\ UNCHANGED <<asks, reply, account, shown, lookups>>
Answers(r) == reply' = r /\ request' = NoRequest
Redirect(name) == Answers(Failed("offline"))
Redirected ==
    /\ request.at = "connecting"
    /\ Redirect("other")
    /\ UNCHANGED <<asks, account, shown, lookups>>
FetchFails ==
    /\ request.at = "connecting" /\ Answers(Failed("offline"))
    /\ UNCHANGED <<asks, account, shown, lookups>>
HeadersOnly(r) == [r EXCEPT !.at = "body", !.deadline = FALSE]  \* mutant
WithBody(r) == [r EXCEPT !.at = "body"]
Headers ==
    /\ request.at = "connecting" /\ request' = WithBody(request)
    /\ UNCHANGED <<asks, reply, account, shown, lookups>>
\* AbortController: the same timer until the body is read.
Deadline ==
    /\ request.at \in {"connecting", "body"} /\ request.deadline
    /\ Answers(Failed(IF request.at = "connecting" THEN "offline" ELSE "server-error"))
    /\ UNCHANGED <<asks, account, shown, lookups>>

\* parseGithubKeysResponse and parseKeyserverKeyResponse.
SkipsThem(lines, kept) == 0  \* mutant
HeldBack(lines, kept) == Cardinality(lines \ kept)
NoKeys(lines, held) == lines = {} /\ held = 0
Github(listed) ==
    {IF NoKeys(lines, HeldBack(listed, lines)) THEN Failed("no-keys")
     ELSE [kind |-> "lines", lines |-> lines, omitted |-> HeldBack(listed, lines), name |-> request.name] :
     lines \in {s \in SUBSET (listed \ Oversized) :
                  Cardinality(s) = IF Cardinality(listed \ Oversized) > MaxKeys THEN MaxKeys ELSE Cardinality(listed \ Oversized)}}
Keyserver(listed) ==
    IF listed = {} THEN {Failed("not-found")}
    ELSE {[kind |-> "lines", lines |-> {k}, omitted |-> HeldBack(listed, {k}), name |-> request.name] : k \in listed}
Body ==
    /\ request.at = "body"
    /\ \E r \in (IF asks = "github" THEN Github(account) ELSE Keyserver(account))
                \cup {Failed(code) : code \in {"not-found", "rate-limited", "server-error"}} : Answers(r)
    /\ UNCHANGED <<asks, account, shown, lookups>>
\* Chrome stops the worker: the panel's sendMessage ends without an answer.
WorkerDies ==
    /\ request # NoRequest /\ Answers(Dead)
    /\ UNCHANGED <<asks, account, shown, lookups>>

\* runKeyLookup: the engine decides what is a key, and each line that is none is said.
Engine(r) == [kind |-> "keys", keys |-> r.lines \ Unusable, refused |-> r.lines \cap Unusable, omitted |-> r.omitted, name |-> r.name]
Outcome ==
    CASE reply = Dead -> Failed("unreachable")
      [] reply.kind = "failed" -> reply
      [] OTHER -> IF asks = "keyserver" /\ reply.lines \subseteq Unusable THEN Failed("not-a-key") ELSE Engine(reply)
Answered ==
    /\ asks # NoAsk /\ reply # NoReply
    /\ shown' = Outcome /\ asks' = NoAsk /\ reply' = NoReply
    /\ UNCHANGED <<request, account, lookups>>

lookupNext ==
    \/ \E input \in {"address", "hex", "name", "words"}, keys \in SUBSET PubLine : Ask(input, keys)
    \/ StartFetch \/ Redirected \/ FetchFails \/ Headers \/ Deadline \/ Body \/ WorkerDies \/ Answered
LookupFairness == WF_lookupVars(StartFetch) /\ WF_lookupVars(Deadline) /\ WF_lookupVars(Answered)
lookupSpec == lookupInit /\ [][lookupNext]_lookupVars /\ LookupFairness
----------------------------------------------------------------------------
lookupTypeOK ==
    /\ asks \in {NoAsk, "github", "keyserver"} /\ request.at \in {"none", "connecting", "body"}
    /\ reply.kind \in {"none", "failed", "undefined", "lines"} /\ account \subseteq PubLine
    /\ shown.kind \in {"none", "failed", "keys"}

(* A list of keys is never silently short: every key of the account is a    *)
(* member, a line said to be refused, or one of those held back and said.   *)
NothingSilentlyMissing ==
    shown.kind = "keys" => Cardinality(account) = Cardinality(shown.keys) + Cardinality(shown.refused) + shown.omitted

(* "This account has no keys" is said only of an account without keys.      *)
NoKeysIsTrue == shown = Failed("no-keys") => account = {}

(* What is shown is what stands under the name the user asked for.          *)
AskedNameOnly == shown.kind = "keys" => shown.name = "asked"

(* The parser is busy while a lookup runs and refuses every import; however *)
(* slow the answer trickles, it is free again.                              *)
LookupsEnd == asks # NoAsk ~> asks = NoAsk

(* What a lookup promises (keyserver.ts, background.ts, fetch-keys.ts): keys *)
(* that are not shown are mentioned, "no keys" is said only of an account   *)
(* without, and only the name that was asked for is looked up.              *)
LookupsAreHonest == lookupTypeOK /\ NothingSilentlyMissing /\ NoKeysIsTrue /\ AskedNameOnly
=============================================================================
