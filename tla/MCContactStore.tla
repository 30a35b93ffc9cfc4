--------------------------- MODULE MCContactStore ---------------------------
(***************************************************************************)
(* One contact; one call in one window, or one call in each of two.        *)
(***************************************************************************)
EXTENDS ContactStore, TLC

CONSTANTS alice, left, right, one, two

MCOneWindow == [t \in Tasks |-> left]
MCTwoWindows == (one :> left) @@ (two :> right)

\* The two windows, each with its call, may be swapped: nothing tells them apart.
MCSwap == {p \in Permutations({one, two, left, right}) : \A t \in {one, two} :
             p[t] \in {one, two} /\ p[MCTwoWindows[t]] = MCTwoWindows[p[t]]}

\* Two windows that stay open and unlocked, and a ledger that stays where it
\* is: what locks, closings and a lost ledger do is left to the runs of one
\* window and to MCPanel.
WindowsNext ==
  \/ \E t \in Tasks : \/ Get(t) \/ NoteAbsent(t) \/ PeekFloor(t) \/ EnterLedger(t) \/ LeaveLedger(t)
                      \/ Claim(t) \/ Set(t) \/ Finish(t)
  \/ \E t \in Tasks, op \in Changes \cup {"load"}, id \in Ids : Start(t, op, id)
  \/ \E w \in Windows : Dismiss(w)
  \/ ClockMoves \/ OlderCopy
WindowsSpec == Init /\ [][WindowsNext]_vars
=============================================================================
