------------------------------ MODULE KeyAccess ------------------------------
(***************************************************************************)
(* What the key session promises to the rest of the panel, without         *)
(* handles, WASM or generations: a key becomes usable only as the answer   *)
(* to a request for it, one request answers each of its keys at most once, *)
(* and a lock of any key withdraws every outstanding request (the comments *)
(* at src/hooks/useKeySession.ts:72-97 and 119-131).                       *)
(***************************************************************************)
CONSTANTS Keys, Calls

VARIABLES
  usable,   \* keys an operation can use now
  asked,    \* call -> keys it may still make usable
  busy      \* calls whose request is being worked on

vars == <<usable, asked, busy>>

NothingAsked == [c \in Calls |-> {}]

Init == usable = {} /\ asked = NothingAsked /\ busy = {}

\* A user asks for keys; doing so may withdraw other calls (a new ceremony
\* aborts the one before it).  A call asks once, when it begins.
Ask(c, K) ==
  /\ c \notin busy
  /\ c \in busy' /\ busy' \subseteq busy \cup {c}
  /\ asked' \in [Calls -> SUBSET Keys]
  /\ asked'[c] = K
  /\ \A d \in Calls \ {c} : asked'[d] \in {{}, asked[d]}
  /\ UNCHANGED usable

\* A call gives up on some of its keys (refused, or not what it can open), or
\* ends when it has none left.
Narrow(c, K) ==
  /\ K \subseteq asked[c]
  /\ asked' = [asked EXCEPT ![c] = K]
  /\ \/ busy' = busy
     \/ K = {} /\ busy' = busy \ {c}
  /\ UNCHANGED usable

Answer(c, k) ==
  /\ k \in asked[c]
  /\ usable' = usable \cup {k}
  /\ asked' = [asked EXCEPT ![c] = @ \ {k}]
  /\ UNCHANGED busy

LockKeys(K) ==
  /\ usable' = usable \ K
  /\ asked' = NothingAsked
  /\ UNCHANGED busy

Next ==
  \/ \E c \in Calls, K \in SUBSET Keys : Ask(c, K) \/ Narrow(c, K)
  \/ \E c \in Calls, k \in Keys : Answer(c, k)
  \/ \E K \in SUBSET Keys : LockKeys(K)

Spec == Init /\ [][Next]_vars
=============================================================================
