---------------------------- MODULE OpenMessage ----------------------------
(***************************************************************************)
(* How the engine opens a message (gpg-wasm/src/decrypt.rs, sign.rs and    *)
(* limits.rs, called through lib/pgp/wasm-public.ts).  One request is      *)
(* answered at a time: the header is walked packet by packet, the framing  *)
(* of a pasted signed message is checked, the OpenPGP parser takes the     *)
(* message apart, and its output is read under a ceiling.                  *)
(*                                                                         *)
(* The parser is a library: the model leaves it every reading the code     *)
(* around it guards against: a malformed message read as whatever comes    *)
(* first in it, a signed body read otherwise than it is shown.             *)
(***************************************************************************)
EXTENDS Integers, Sequences, FiniteSets

CONSTANTS
    Requests,                \* the requests the engine is asked to answer
    None,                    \* no ceiling, no key, no frame
    MAX_DECRYPTED_BYTES, MAX_EXPANSION_RATIO, MIN_EXPANSION_ALLOWANCE,
    MAX_VERIFIED_BYTES, MAX_SIGNED_INPUT_BYTES, MAX_SIGNED_LINES,
    ReadAhead                \* the parser's own buffer

ASSUME OpenLimits ==
    /\ {MAX_DECRYPTED_BYTES, MAX_EXPANSION_RATIO, MIN_EXPANSION_ALLOWANCE,
        MAX_VERIFIED_BYTES, MAX_SIGNED_INPUT_BYTES, MAX_SIGNED_LINES,
        ReadAhead} \subseteq Nat
    /\ MIN_EXPANSION_ALLOWANCE <= MAX_DECRYPTED_BYTES

\* A request is for so many packets, lines and signatures.  Inside a compressed
\* packet only session keys and content are modelled; outside, any packet.
SessionTags == {"SKESK", "PKESK", "Marker", "CompressedData"}
ContainerTags == {"SEIP", "AED"}
Content == {"SEIP", "AED", "Signed", "Literal"}

IsSeq(s) == s \in Seq({s[i] : i \in DOMAIN s})
ASSUME RequestAssumption ==
    \A r \in Requests :
        /\ IsSeq(r.candidates) /\ IsSeq(r.message.packets)
        /\ IsSeq(r.message.lines) /\ IsSeq(r.message.results)
        /\ \A i \in DOMAIN r.message.packets :
               r.message.packets[i].deep =>
                   r.message.packets[i].tag \in SessionTags \union Content
        /\ {r.message.len, r.message.size} \subseteq Nat
        /\ r.cap \in Nat \union {None}

VARIABLES
    request,                 \* what was asked: an entry point and a message
    phase,                   \* where the engine is with it
    at,                      \* the packet the header walk looks at
    seen,                    \* what the walk found
    framing,                 \* what check_signed_framing found
    layer,                   \* how the parser read the message
    inflated,                \* how much the parser decompressed before a read
    answer                   \* what the caller gets

openVars == <<request, phase, at, seen, framing, layer, inflated, answer>>

Unanswered == [kind |-> "none"]
Error(code) == [kind |-> "error", code |-> code]
message == request.message
packets == message.packets

OpenInit ==
    /\ request \in Requests
    /\ phase = IF request.entry = "verify" THEN "frame" ELSE "walk"
    /\ at = 1
    /\ seen = [password |-> FALSE, publicKey |-> FALSE, container |-> "none",
               handles |-> {}]
    /\ framing = None /\ layer = None /\ inflated = 0
    /\ answer = Unanswered

---------------------------------------------------------------------------
(* The walk over the packets in front of the encrypted container.          *)

\* scan_session_packets goes by tag, so a version the parser cannot read
\* still counts; recipient_handles takes only the packets it can read.
Visit(p) == [seen EXCEPT
    !.password  = @ \/ p.tag = "SKESK",
    !.publicKey = @ \/ p.tag = "PKESK",
    !.container = IF p.tag \in ContainerTags THEN p.tag ELSE @,
    !.handles   = IF p.tag = "PKESK" /\ p.known /\ p.named
                  THEN @ \union {p.to} ELSE @]

\* Nothing but a session-key packet is stepped over inside a compressed
\* packet: stepping over it would inflate it.
WalkGoesOn(p) ==
    /\ p.tag \notin ContainerTags
    /\ p.deep => p.tag \in SessionTags

WalkHeader ==
    /\ phase = "walk" /\ at <= Len(packets)
    /\ LET p == packets[at] IN
        /\ seen' = Visit(p)
        /\ IF WalkGoesOn(p)
           THEN at' = at + 1 /\ UNCHANGED phase
           ELSE phase' = "asked" /\ UNCHANGED at
    /\ UNCHANGED <<request, framing, layer, inflated, answer>>

EndOfHeader ==
    /\ phase = "walk" /\ at > Len(packets)
    /\ phase' = "asked"
    /\ UNCHANGED <<request, at, seen, framing, layer, inflated, answer>>

Unencrypted ==
    ~seen.password /\ ~seen.publicKey /\ seen.container = "none"

Answer(a) ==
    /\ answer' = a /\ phase' = "done"
    /\ UNCHANGED <<request, at, seen, framing, layer, inflated>>
GoTo(p) ==
    /\ phase' = p
    /\ UNCHANGED <<request, at, seen, framing, layer, inflated, answer>>

---------------------------------------------------------------------------
(* The entry points, once the header is known.                             *)

Asked(entry) == phase = "asked" /\ request.entry = entry

MessageEncryption ==
    /\ Asked("messageEncryption")
    /\ Answer([kind |-> "shape", password |-> seen.password,
               publicKey |-> seen.publicKey, encrypted |-> ~Unencrypted])

\* The first of the candidates that owns a recipient the message names.
SelectDecryptionKey ==
    /\ Asked("selectDecryptionKey")
    /\ LET c == request.candidates
           hits == {i \in DOMAIN c : c[i] \in seen.handles}
       IN Answer([kind |-> "selected",
                  key |-> IF hits = {} THEN None
                          ELSE c[CHOOSE i \in hits : \A j \in hits : i <= j]])

\* A message nothing encrypts is refused before a key or a password is used.
\* request.key is None when the handle is not in the store any more.
DecryptWithHandle ==
    /\ Asked("decryptWithHandle")
    /\ \/ Unencrypted /\ Answer(Error("NotEncrypted"))
       \/ ~Unencrypted /\ request.key = None /\ Answer(Error("Locked"))
       \/ ~Unencrypted /\ request.key # None /\ GoTo("parse")

RefusesFormat == seen.container = "AED"

DecryptWithPassword ==
    /\ Asked("decryptWithPassword")
    /\ \/ Unencrypted /\ Answer(Error("NotEncrypted"))
       \/ ~Unencrypted /\ RefusesFormat /\ Answer(Error("OcbUnsupported"))
       \/ ~Unencrypted /\ ~RefusesFormat /\ GoTo("parse")

\* Text that holds an armor line is framed as verify frames it; other bytes
\* that hold one must be binary packets from top to bottom.
ReadsAsBinary ==
    /\ message.form = "binary" /\ packets # <<>>
    /\ \A i \in DOMAIN packets : packets[i].known

OpenUnencrypted ==
    /\ Asked("openUnencrypted")
    /\ \/ ~Unencrypted /\ Answer(Error("Encrypted"))
       \/ Unencrypted /\ message.form = "text" /\ GoTo("frame")
       \/ /\ Unencrypted /\ message.form # "text"
          /\ \/ message.armor /\ ~ReadsAsBinary
                /\ Answer(Error("TextOutsideSignature"))
             \/ ~(message.armor /\ ~ReadsAsBinary) /\ GoTo("parse")

---------------------------------------------------------------------------
(* The framing of a pasted signed message, as classes of lines:            *)
(*   begin, mbegin, sig, end, mend   the armor lines                       *)
(*   indented                        an armor line with a space before it  *)
(*   hash, header                    a well-formed header line             *)
(*   text, escaped, dash             words; behind "- "; behind a bare "-" *)
(*   hidden                          words behind another kind of break    *)
(*   base64, blank                                                         *)

lines == message.lines

NotBlank == {i \in DOMAIN lines : lines[i] # "blank"}
Trimmed == SubSeq(lines, CHOOSE i \in NotBlank : \A j \in NotBlank : i <= j,
                         CHOOSE i \in NotBlank : \A j \in NotBlank : i >= j)

\* How many lines at the front of s are of a kind.
Leading(s, kind) ==
    CHOOSE n \in 0..Len(s) :
        /\ \A i \in 1..n : s[i] = kind
        /\ n < Len(s) => s[n + 1] # kind

Drop(s, n) == SubSeq(s, n + 1, Len(s))

\* Armor headers, a blank line, base64, the END line last.
ArmoredOk(s, end) ==
    /\ s # <<>> /\ s[Len(s)] = end
    /\ LET body == SubSeq(s, 1, Len(s) - 1)
           n == Leading(body, "header")
           rest == Drop(body, n)
           data == IF rest # <<>> /\ rest[1] = "blank" THEN Tail(rest) ELSE rest
       IN /\ (rest = <<>> \/ rest[1] # "blank") => n = 0
          /\ data # <<>> /\ \A i \in DOMAIN data : data[i] = "base64"

Unescaped(l) == IF l = "escaped" THEN "text" ELSE l
BareDash == {"dash", "begin", "sig", "end", "mbegin", "mend"}

\* What the block shows: the body with its dash escapes undone, Inline for a
\* message whose text is not in view, or a refusal.
CleartextFraming(s) ==
    LET n == Leading(s, "hash")
        rest == Drop(s, n + 1)
        sigs == {i \in DOMAIN rest : rest[i] = "sig"}
        sig == CHOOSE i \in sigs : \A j \in sigs : i <= j
        body == SubSeq(rest, 1, sig - 1)
    IN IF /\ n < Len(s) /\ sigs # {}
          /\ s[n + 1] = "blank"
          /\ ArmoredOk(Drop(rest, sig), "end")
          /\ \A i \in DOMAIN body : body[i] \notin BareDash
       THEN [kind |-> "cleartext", shown |-> [i \in DOMAIN body |-> Unescaped(body[i])]]
       ELSE [kind |-> "refused", code |-> "TextOutsideSignature"]

Holds(kinds) == \E i \in DOMAIN lines : lines[i] \in kinds

CheckSignedFraming ==
    IF ~Holds({"begin", "mbegin", "indented"})
    THEN [kind |-> "refused", code |-> "NotPgpData"]
    ELSE IF Len(lines) > MAX_SIGNED_LINES + 1
    THEN [kind |-> "refused", code |-> "TooManyLines"]
    ELSE IF ~Holds({"hidden"}) /\ Trimmed[1] = "mbegin" /\ ArmoredOk(Tail(Trimmed), "mend")
    THEN [kind |-> "inline"]
    ELSE IF ~Holds({"hidden"}) /\ Trimmed[1] = "begin"
    THEN CleartextFraming(Tail(Trimmed))
    ELSE [kind |-> "refused", code |-> "TextOutsideSignature"]

CheckFraming ==
    /\ phase = "frame"
    /\ IF message.len > MAX_SIGNED_INPUT_BYTES THEN Answer(Error("TooLarge"))
       ELSE IF CheckSignedFraming.kind = "refused"
       THEN Answer(Error(CheckSignedFraming.code))
       ELSE /\ framing' = CheckSignedFraming
            /\ phase' = "parse"
            /\ UNCHANGED <<request, at, seen, layer, inflated, answer>>

---------------------------------------------------------------------------
(* The ceilings on what is read.                                           *)

Lesser(a, b) == IF a < b THEN a ELSE b
Greater(a, b) == IF a > b THEN a ELSE b

DecryptLimit(len) ==
    Lesser(Greater(len * MAX_EXPANSION_RATIO, MIN_EXPANSION_ALLOWANCE),
           MAX_DECRYPTED_BYTES)

Limit == IF request.entry = "verify" THEN MAX_VERIFIED_BYTES
         ELSE DecryptLimit(message.len)

Capped == request.cap # None /\ request.cap < Limit

\* stream_buffer: an unattended run bounds the parser's read-ahead as well.
StreamBuffer == IF Capped THEN request.cap + 1 ELSE ReadAhead

\* read_within, and read_capped behind it: one byte past the ceiling tells.
ReadFails == message.size > (IF Capped THEN request.cap ELSE Limit)
ReadError == IF Capped THEN "OutputCapReached" ELSE "TooLarge"

---------------------------------------------------------------------------
(* The parser (a library).                                                 *)

Contents == {i \in DOMAIN packets : packets[i].tag \in Content}
FirstContent == packets[CHOOSE i \in Contents : \A j \in Contents : i <= j]

\* One piece of content, session keys only in front of an encrypted one.
WellFormed ==
    /\ Cardinality(Contents) = 1
    /\ packets[Len(packets)].tag \in Content
    /\ FirstContent.tag \in {"Signed", "Literal"} =>
           \A i \in DOMAIN packets : packets[i].tag \notin {"SKESK", "PKESK"}

Readings ==
    LET first == IF FirstContent.tag \in ContainerTags THEN "encrypted" ELSE "plain"
    IN IF Contents = {} THEN {"malformed"}
       ELSE IF WellFormed THEN {first} ELSE {"malformed", first}

OpensTo(k) == \E i \in DOMAIN packets :
    packets[i].tag = "PKESK" /\ packets[i].known /\ packets[i].to = k
AcceptsPassword(w) == \E i \in DOMAIN packets :
    packets[i].tag = "SKESK" /\ packets[i].known /\ packets[i].to = w

\* What the key or the password makes of an encrypted layer.  The handle looks
\* at public-key packets only and the password at password packets only.
Credential(k, w) == IF request.entry = "decryptWithPassword"
                    THEN AcceptsPassword(w) ELSE OpensTo(k)

Parsed(l, n) ==
    /\ layer' = l /\ inflated' = n /\ phase' = "read"
    /\ UNCHANGED <<request, at, seen, framing, answer>>

\* Every failure of the password's parse is a wrong password, except that the
\* size was the trouble.
AllWrapped(code) == "SymmetricWrongPassword"   \* mutant
Wrapped(code) ==
    IF request.entry = "decryptWithPassword"
       /\ code \notin {"OutputCapReached", "TooLarge"}
    THEN "SymmetricWrongPassword" ELSE code

Failed(l, code) ==
    /\ layer' = l /\ answer' = Error(Wrapped(code)) /\ phase' = "done"
    /\ UNCHANGED <<request, at, seen, framing, inflated>>

Parse ==
    /\ phase = "parse"
    /\ \E l \in Readings :
        \/ l = "malformed" /\ Failed(l, "Malformed")
        \/ l = "plain" /\ Parsed(l, Lesser(message.size, StreamBuffer))
        \/ /\ l = "encrypted"
           /\ IF request.entry \in {"verify", "openUnencrypted"}
              THEN Failed(l, "Encrypted")
              ELSE \/ FirstContent.tag = "AED" /\ Failed(l, "Malformed")
                   \/ FirstContent.tag = "SEIP"
                      /\ ~Credential(request.key, request.password)
                      /\ Failed(l, "NoDecryptionKey")
                   \/ FirstContent.tag = "SEIP"
                      /\ Credential(request.key, request.password)
                      /\ Parsed(l, Lesser(message.size, StreamBuffer))

---------------------------------------------------------------------------
(* The signatures, and what is handed to the caller.                       *)

\* The report of process_signatures: one bad signature makes the whole message
\* invalid, whatever else is on it.
Good(rs) == {i \in DOMAIN rs : rs[i].kind = "good"}
Missing(rs) == {i \in DOMAIN rs : rs[i].kind = "missing"}
First(S) == CHOOSE i \in S : \A j \in S : i <= j

AnyBad(rs) == \E i \in DOMAIN rs : rs[i].kind = "bad"

ProcessSignatures(rs) ==
    IF AnyBad(rs)
    THEN [status |-> "invalid", signer |-> None, current |-> FALSE, others |-> {}, unverified |-> 0]
    ELSE IF Good(rs) # {}
    THEN LET g == rs[First(Good(rs))] IN
         [status |-> "valid", signer |-> g.by, current |-> g.current,
          others |-> {rs[i].by : i \in Good(rs)} \ {g.by},
          unverified |-> Cardinality(Missing(rs))]
    ELSE [status |-> IF Missing(rs) # {} THEN "unknown_key" ELSE "unsigned",
          signer |-> IF Missing(rs) # {} THEN rs[First(Missing(rs))].by ELSE None,
          current |-> FALSE, others |-> {}, unverified |-> 0]

\* check_cleartext_body: what is shown is what was verified.
BodyHolds(body) == framing # None /\ framing.kind = "cleartext" => body = framing.shown

IsDecrypt == request.entry \in {"decryptWithHandle", "decryptWithPassword"}

\* The parse that made the plaintext decides whether it was encrypted at all.
NeverEncrypted == IsDecrypt /\ layer # "encrypted"

\* The readings of a body the parser may give: as shown, or cut differently.
VerifiedBodies ==
    IF framing # None /\ framing.kind = "cleartext"
    THEN {framing.shown} \union
         (IF framing.shown = <<>> THEN {} ELSE {Tail(framing.shown)})
    ELSE {None}

Read ==
    /\ phase = "read"
    /\ \/ ReadFails /\ Failed(layer, ReadError)
       \/ message.damaged /\ Failed(layer, "Damaged")
       \/ /\ ~ReadFails /\ ~message.damaged
          /\ \E body \in VerifiedBodies :
               IF ~BodyHolds(body) THEN Failed(layer, "TextOutsideSignature")
               ELSE IF NeverEncrypted THEN Answer(Error("NotEncrypted"))
               ELSE Answer([kind |-> "content", body |-> body,
                            report |-> ProcessSignatures(message.results)])

\* The wrapper of the call knows the ceiling's message by its value and turns
\* it into a thing of its own; the caller then waits for a click.
WithOutputCap ==
    /\ phase = "done" /\ answer.kind = "error" /\ answer.code = "OutputCapReached"
    /\ answer' = [kind |-> "waits"]
    /\ UNCHANGED <<request, phase, at, seen, framing, layer, inflated>>

OpenNext ==
    \/ WalkHeader \/ EndOfHeader
    \/ MessageEncryption \/ SelectDecryptionKey
    \/ DecryptWithHandle \/ DecryptWithPassword \/ OpenUnencrypted
    \/ CheckFraming \/ Parse \/ Read \/ WithOutputCap

OpenSpec == OpenInit /\ [][OpenNext]_openVars

---------------------------------------------------------------------------
(* Properties                                                              *)

Contented == answer.kind = "content"

(* A message is shown as decrypted only when it had an encrypted layer and the *)
(* caller's own key or password, whichever it chose, opened that layer: a      *)
(* public signed message never passes for a private one, and a password packet *)
(* never stands in for the key.                                                *)
DecryptedMeansEncrypted ==
    Contented /\ IsDecrypt =>
        /\ layer = "encrypted"
        /\ request.entry = "decryptWithHandle" => OpensTo(request.key)
        /\ request.entry = "decryptWithPassword" => AcceptsPassword(request.password)

(* And the other way round: what is opened as unencrypted, or verified, hides  *)
(* nothing behind a key.                                                       *)
OpenedMeansPlain ==
    Contented /\ ~IsDecrypt => layer = "plain"

(* "Wrong password, or damaged" is said only of a wrong password or of damage: *)
(* a right password is never blamed for the size of the message, for a format  *)
(* the engine cannot read, or for a message that was never encrypted.          *)
PasswordIsNotBlamed ==
    answer.kind = "error" /\ answer.code = "SymmetricWrongPassword" =>
        /\ \/ ~AcceptsPassword(request.password)
           \/ message.damaged
           \/ layer = "malformed" /\ ~WellFormed
        /\ WellFormed => FirstContent.tag # "AED"

(* The form tells the caller to ask for a password whenever the message has a  *)
(* password packet in front, also one of a version the parser cannot read.     *)
ShapeIsWhole ==
    answer.kind = "shape" =>
        (answer.password <=>
            \E i \in 1..Lesser(at, Len(packets)) : packets[i].tag = "SKESK")

(* A key is preselected only when the message is addressed to it.              *)
SelectedKeyOpens ==
    answer.kind = "selected" /\ answer.key # None => OpensTo(answer.key)

(* A signature is called valid only when none on the message is bad, the       *)
(* signer named is one whose signature is good, and it is called current only  *)
(* when that signer's key is.                                                  *)
ValidMeansGood ==
    Contented /\ answer.report.status = "valid" =>
        /\ \A i \in DOMAIN message.results : message.results[i].kind # "bad"
        /\ \E i \in DOMAIN message.results :
              /\ message.results[i].kind = "good"
              /\ message.results[i].by = answer.report.signer
              /\ answer.report.current => message.results[i].current

(* Whatever words a reader of the paste sees are words the signature covers:   *)
(* when a pasted signed message is accepted, its words form one run, nothing   *)
(* is written before or after it, and they are what was verified.              *)
Words == {"text", "escaped", "dash", "hidden", "indented"}
ShownIsSigned ==
    Contented /\ framing # None /\ framing.kind = "cleartext" =>
        LET words == {i \in DOMAIN lines : lines[i] \in Words}
            sigs == {i \in DOMAIN lines : lines[i] = "sig"}
        IN /\ answer.body = framing.shown
           /\ Cardinality(sigs) = 1
           /\ \A i \in words : \A s \in sigs : i < s
           /\ \A i \in words : \E j \in 1..(i - 1) : lines[j] = "begin"
           /\ Cardinality(words) <= Len(framing.shown)
           /\ ~Holds({"hidden", "dash"})

(* An unattended run never inflates more than one byte past its ceiling, and   *)
(* no answer is larger than the ceiling that applies to it.                    *)
CeilingsHold ==
    /\ Capped => inflated <= request.cap + 1
    /\ Contented => message.size <= (IF Capped THEN request.cap ELSE Limit)

(* All of it at once: what the engine says of a message is true of it.         *)
OpenedHonestly ==
    /\ DecryptedMeansEncrypted /\ OpenedMeansPlain /\ PasswordIsNotBlamed
    /\ ShapeIsWhole /\ SelectedKeyOpens /\ ValidMeansGood /\ ShownIsSigned
    /\ CeilingsHold
============================================================================
