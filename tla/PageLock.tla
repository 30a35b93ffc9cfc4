------------------------------ MODULE PageLock ------------------------------
(***************************************************************************)
(* The mutex of one extension page: withLock in lib/storage/engine.ts.    *)
(*                                                                         *)
(* The locks of a key form a chain of promises.  A call awaits the promise *)
(* that was in the map when it arrived, leaves its own there, and resolves *)
(* it whether its task returned or threw.  The map's entry removes itself  *)
(* when nobody queued behind it, so that a long session does not keep one  *)
(* entry per key for ever.  Keys are independent of each other: the module *)
(* is the chain of one key.                                                *)
(***************************************************************************)
EXTENDS Naturals, FiniteSets

CONSTANTS LockCall,  \* the calls of withLock, each made at most once
          NoCall     \* "no entry in the map" and "nobody to wait for"

\* A page makes finitely many calls, and none of them is "no entry".
ASSUME LockAssumption == IsFiniteSet(LockCall) /\ NoCall \notin LockCall

VARIABLES tail,      \* locks.get(key): the call whose promise is in the map
          prev,      \* for each call, the promise it awaits
          lockPc,    \* where each call is
          resolved,  \* the calls whose promise has been resolved
          turns      \* the order in which the calls arrived (an observer)

lockVars == <<tail, prev, lockPc, resolved, turns>>

LockTypeOK ==
    /\ tail \in LockCall \cup {NoCall}
    /\ prev \in [LockCall -> LockCall \cup {NoCall}]
    /\ lockPc \in [LockCall -> {"new", "waiting", "running", "done"}]
    /\ resolved \subseteq LockCall
    /\ turns \in [LockCall -> 0 .. Cardinality(LockCall)]

LockInit ==
    /\ tail = NoCall
    /\ prev = [c \in LockCall |-> NoCall]
    /\ lockPc = [c \in LockCall |-> "new"]
    /\ resolved = {}
    /\ turns = [c \in LockCall |-> 0]

Arrived == {c \in LockCall : lockPc[c] # "new"}

\* The synchronous part of withLock, up to the first await.
Enter(c) ==
    /\ lockPc[c] = "new"
    /\ prev' = [prev EXCEPT ![c] = tail]
    /\ tail' = c
    /\ lockPc' = [lockPc EXCEPT ![c] = "waiting"]
    /\ turns' = [turns EXCEPT ![c] = Cardinality(Arrived) + 1]
    /\ UNCHANGED resolved

\* What `await prev` needs: the missing entry counts as a resolved promise.
PrevResolved(c) == prev[c] = NoCall \/ prev[c] \in resolved

\* `await prev` is over: the task starts.
Run(c) ==
    /\ lockPc[c] = "waiting"
    /\ PrevResolved(c)
    /\ lockPc' = [lockPc EXCEPT ![c] = "running"]
    /\ UNCHANGED <<tail, prev, resolved, turns>>

\* What the finally block leaves in the map.
TailRemoved(c) == NoCall  \* mutant: without the check that it is still ours
TailAfter(c) == IF tail = c THEN NoCall ELSE tail

\* The promises that are resolved once the task has returned or thrown.
Resolved(c) == resolved \cup {c}

\* The finally block: the task returned or threw, which it does not tell apart.
Leave(c) ==
    /\ lockPc[c] = "running"
    /\ resolved' = Resolved(c)
    /\ tail' = TailAfter(c)
    /\ lockPc' = [lockPc EXCEPT ![c] = "done"]
    /\ UNCHANGED <<prev, turns>>

LockNext == \E c \in LockCall : Enter(c) \/ Run(c) \/ Leave(c)

\* An awaited promise that is resolved is delivered, and a task that runs
\* ends: every task is storage and WASM calls that settle.
LockFairness == \A c \in LockCall : WF_lockVars(Run(c)) /\ WF_lockVars(Leave(c))

LockSpec == LockInit /\ [][LockNext]_lockVars /\ LockFairness

-----------------------------------------------------------------------------
\* At most one task of a key runs at a time, also when a call arrives at the
\* moment the last one finishes and removes the entry.  The whole read-modify-
\* write of every store relies on it.
OneAtATime ==
    \A c, d \in LockCall : lockPc[c] = "running" /\ lockPc[d] = "running" => c = d

\* Tasks run in the order of arrival, whatever the earlier ones ended with.
FirstComeFirstServed ==
    \A c, d \in LockCall :
        /\ c \in Arrived /\ d \in Arrived
        /\ turns[c] < turns[d]
        /\ lockPc[d] \in {"running", "done"}
        => lockPc[c] = "done"

\* The map holds an entry exactly while somebody is queued or running, and it
\* is the last arrival: no entry outlives the work and none is lost early.
EntryOnlyWhileBusy ==
    LET busy == {c \in LockCall : lockPc[c] \in {"waiting", "running"}}
    IN  IF busy = {} THEN tail = NoCall
        ELSE tail \in busy /\ \A c \in busy : turns[c] <= turns[tail]

\* Every call that arrived gets its turn and ends.
EveryTurnComes ==
    \A c \in LockCall : lockPc[c] = "waiting" ~> lockPc[c] = "done"

\* The safety of it.
TurnsAreKept == LockTypeOK /\ OneAtATime /\ FirstComeFirstServed /\ EntryOnlyWhileBusy

(* What withLock promises a page (engine.ts:23-36): its calls run one at a   *)
(* time in the order they came, a key has an entry only while a call holds  *)
(* or waits for it, and every call's turn comes, whatever those before it   *)
(* did.                                                                     *)
CallsTakeTurns ==
    /\ [](LockTypeOK /\ OneAtATime /\ FirstComeFirstServed /\ EntryOnlyWhileBusy)
    /\ EveryTurnComes
=============================================================================
