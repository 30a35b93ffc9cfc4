-------------------------- MODULE ContactStoreProofs --------------------------
(***************************************************************************)
(* What the integrity ledger remembers, for any number of windows, calls,  *)
(* contacts and copies of the store; and what the ways keys come in make   *)
(* of the contacts, for any keys, accounts, certificates and backups.      *)
(*                                                                         *)
(* Of the ledger there are six inductive invariants: the types with the    *)
(* budget of generations, the ledger's lock, the revocation floor, what    *)
(* has been seen, the marks, and the device nobody disturbs.  All but the  *)
(* first two speak of a device that was not locked yet: a lock in the      *)
(* middle of an update of the ledger makes it forget (the run              *)
(* ContactStoreLockFloor).  Each of the ways in has one of its own: what   *)
(* was found when a text was read still holds of the contacts as they are  *)
(* when its rows are saved, unless another writer was faster.              *)
(***************************************************************************)
EXTENDS ContactStore, ImportSsh, ImportCert, BulkImport, Names, FiniteSetTheorems, TLAPS

\* Mutations that have yet to claim their generation.
Pending == {t \in Tasks : tasks[t].op # "load" /\ tasks[t].pc \notin {"set", "mark", "done"}}
Newest == MaxTime + spent.saves - Cardinality(Pending)

GensUpTo(n) ==
  /\ \A b \in past : b.gen <= n
  /\ ledger.mark <= n /\ seen <= n
  /\ \A t \in Tasks : tasks[t].gen <= n /\ tasks[t].in.mark <= n /\ tasks[t].seenThen <= n

GensAreBudgeted ==
  /\ blob \in past
  /\ IsFiniteSet(Pending) /\ Cardinality(Pending) <= spent.saves
  /\ GensUpTo(Newest)

\* Only a mutation gets as far as saving.
MaySave(x) == x.pc \in {"floor2", "record2", "claim", "set", "mark"} => x.op # "load"
SaversMutate == \A t \in Tasks : MaySave(tasks[t])

TypeInv == TypeOK /\ SaversMutate /\ GensAreBudgeted

-----------------------------------------------------------------------------
\* Updates of the ledger exclude each other, and until the holder leaves the
\* ledger is what it read, or gone.
HolderIsWaiting == \A t \in holders : tasks[t].pc \in Waiting /\ tasks[t].in.state = "good"
OneHolder == \A t, u \in holders : t = u
NothingIsHeld == ledger.suspect = L!NotHeld /\ \A t \in Tasks : tasks[t].in.suspect = L!NotHeld
LostIsEmpty ==
  ledger.state # "good" => ledger.mark = L!Unmarked /\ ledger.floor = {} /\ ledger.lost = "none"

HolderKnowsLedger ==
  \A t \in holders : ~tasks[t].fresh =>
    ledger = tasks[t].in \/ (ledger.state # "good" /\ spent.gone > 0)

\* Without a lock every call has its session, and replaces only what is lost.
Unlocked == spent.locks = 0
CallsAreOpen == \A t \in Tasks : tasks[t].pc # "idle" => Open(t)
ReplacedIsLost == \A t \in holders : tasks[t].fresh => ledger.state # "good"

LockInv ==
  /\ HolderIsWaiting /\ OneHolder /\ NothingIsHeld /\ LostIsEmpty /\ HolderKnowsLedger
  /\ Unlocked => CallsAreOpen /\ ReplacedIsLost

-----------------------------------------------------------------------------
\* The floor a call began with is in the ledger, and in the list once it was
\* applied.
FloorIsKept == \A t \in Tasks : tasks[t].pc # "idle" => tasks[t].floorThen \subseteq ledger.floor
FlooredBlob == {"record", "record2", "claim", "set", "mark", "done"}
FloorIsApplied ==
  \A t \in Tasks : tasks[t].pc \in FlooredBlob =>
    \A i \in tasks[t].floorThen : tasks[t].view[i] # "active"

Untouched == Unlocked /\ spent.gone = 0
FloorInv == Untouched => FloorIsKept /\ FloorIsApplied

-----------------------------------------------------------------------------
\* A ledger that is not marked lost covers every generation that a finished
\* call returned, and those that a call has observed since.
Covers(l, gen) == gen <= 0 \/ gen <= l.mark
Observed == {"floor", "floor2", "record", "record2", "claim", "done"}
Knows(l) ==
  \/ l.lost # "none"
  \/ l.state # "good" /\ spent.gone > 0
  \/ /\ Covers(l, seen)
     /\ \A t \in Tasks : tasks[t].pc \in Observed /\ tasks[t].seenThen # L!Unmarked =>
          Covers(l, tasks[t].gen)

SeenIsNewest == \A t \in Tasks : tasks[t].seenThen <= seen
AbsentIsUnseen ==
  /\ ~blob.sealed => seen = 0 /\ \A t \in Tasks : tasks[t].pc # "set" => tasks[t].gen = 0
  /\ \A t \in Tasks : tasks[t].pc = "absent" => tasks[t].seenThen <= 0 /\ tasks[t].gen = 0
SeenInv == SeenIsNewest /\ AbsentIsUnseen

OlderWasWarned ==
  \A t \in Tasks :
    tasks[t].op = "load" /\ tasks[t].pc \in {"floor", "record", "done"}
      /\ tasks[t].gen < tasks[t].seenThen => tasks[t].warned
LostWasWarned == \A t \in holders : tasks[t].in.lost # "none" => tasks[t].warned

Traceable == Unlocked /\ (OthersCarry \/ spent.gone = 0)
MarkInv ==
  /\ LostWasWarned
  /\ Traceable => Knows(ledger) /\ (\A t \in holders : Knows(tasks[t].in)) /\ OlderWasWarned

-----------------------------------------------------------------------------
(* Types *)

LEMMA TaskUpdates ==
  ASSUME NEW x \in Task
  PROVE  /\ \A v \in Phases : [x EXCEPT !.pc = v] \in Task
         /\ \A v \in Changes \cup {"load"} : [x EXCEPT !.op = v] \in Task
         /\ \A v \in Ids : [x EXCEPT !.id = v] \in Task
         /\ \A v \in Contacts : [x EXCEPT !.view = v] \in Task
         /\ \A v \in L!Generation : [x EXCEPT !.gen = v] \in Task
         /\ \A v \in SUBSET Ids : [x EXCEPT !.ids = v] \in Task
         /\ \A v \in L!Ledgers : [x EXCEPT !.in = v] \in Task
         /\ \A v \in BOOLEAN : [x EXCEPT !.fresh = v] \in Task
         /\ \A v \in BOOLEAN : [x EXCEPT !.warned = v] \in Task
         /\ \A v \in SUBSET Ids : [x EXCEPT !.floorThen = v] \in Task
         /\ \A v \in L!Generation \cup {L!Unmarked} : [x EXCEPT !.seenThen = v] \in Task
  BY DEF Task

LEMMA Generations ==
  /\ MaxGen \in Nat /\ L!Generation = 0 .. MaxGen
  /\ 0 \in L!Generation /\ L!Unmarked = -1
<1>1. MaxGen \in Nat
  BY BoundsAssumption DEF MaxGen
<1> QED
  BY <1>1 DEF L!Generation, L!Unmarked

\* The values a ledger takes, and what each update leaves of it.
LEMMA LedgerValues ==
  /\ L!EmptyLedger \in L!Ledgers /\ L!AbsentLedger \in L!Ledgers /\ L!JunkLedger \in L!Ledgers
  /\ L!NotHeld \in L!Held \cup {L!NotHeld}
<1>1. L!EmptyLedger \in L!Ledgers
  BY DEF L!EmptyLedger, L!Ledgers
<1>2. \A l \in L!Ledgers : [l EXCEPT !.state = "absent"] \in L!Ledgers
                           /\ [l EXCEPT !.state = "junk"] \in L!Ledgers
  BY DEF L!Ledgers
<1> QED
  BY <1>1, <1>2 DEF L!AbsentLedger, L!JunkLedger

LEMMA ReplacementValue ==
  ASSUME NEW found \in {"good", "absent", "junk"}, NEW carry \in BOOLEAN
  PROVE  /\ L!Replacement(found, carry) \in L!Ledgers
         /\ L!Replacement(found, carry).state = "good"
         /\ L!Replacement(found, carry).mark = L!Unmarked
         /\ L!Replacement(found, carry).floor = {}
         /\ L!Replacement(found, carry).suspect = L!NotHeld
         /\ L!Replacement(found, carry).lost =
              IF found = "junk" THEN "ledger-unreadable" ELSE IF carry THEN "missing" ELSE "none"
<1>1. \A l \in L!Ledgers : \A v \in {"none", "missing", "ledger-unreadable"} :
        [l EXCEPT !.lost = v] \in L!Ledgers
  BY DEF L!Ledgers
<1>2. L!Replacement(found, carry) \in L!Ledgers
  BY <1>1, LedgerValues DEF L!Replacement
<1> QED
  BY <1>2 DEF L!Replacement, L!EmptyLedger

LEMMA ObservedLedger ==
  ASSUME NEW l \in L!Ledgers, NEW gen \in L!Generation
  PROVE  /\ L!ObserveGeneration(l, gen, FALSE) \in L!Ledgers
         /\ L!ObserveGeneration(l, gen, FALSE) =
              IF L!Older(l, gen) THEN l ELSE [l EXCEPT !.mark = gen]
<1>1. \A g \in L!Generation : [l EXCEPT !.mark = g] \in L!Ledgers
  BY DEF L!Ledgers
<1> QED
  BY <1>1 DEF L!ObserveGeneration

LEMMA WrittenLedger ==
  ASSUME NEW l \in L!Ledgers, NEW gen \in L!Generation, NEW ids \in SUBSET Ids
  PROVE  /\ L!RecordWrite(l, gen) \in L!Ledgers
         /\ L!RecordRevoked(l, ids) \in L!Ledgers
<1>1. \A g \in L!Generation : [l EXCEPT !.mark = g] \in L!Ledgers
  BY DEF L!Ledgers
<1>2. \A f \in SUBSET Ids : [l EXCEPT !.floor = f] \in L!Ledgers
  BY DEF L!Ledgers
<1>3. l.floor \cup ids \in SUBSET Ids
  BY DEF L!Ledgers
<1>4. [l EXCEPT !.floor = l.floor \cup ids] \in L!Ledgers
  BY <1>2, <1>3
<1> QED
  BY <1>1, <1>4 DEF L!RecordWrite, L!RecordRevoked

\* Nothing holds the contacts at an older copy, so dismissing takes only the
\* lost mark away.
LEMMA DismissedLedger ==
  ASSUME NEW l \in L!Ledgers, l.suspect = L!NotHeld
  PROVE  /\ L!Acknowledge(l) \in L!Ledgers
         /\ L!Acknowledge(l).mark = l.mark /\ L!Acknowledge(l).floor = l.floor
         /\ L!Acknowledge(l).state = l.state /\ L!Acknowledge(l).suspect = L!NotHeld
<1>1. \A y \in L!Ledgers : [y EXCEPT !.lost = "none"] \in L!Ledgers
  BY DEF L!Ledgers
<1>2. \A y \in L!Ledgers : [y EXCEPT !.suspect = L!NotHeld] \in L!Ledgers
  BY DEF L!Ledgers
<1>3. \A y \in L!Ledgers : [y EXCEPT !.mark = l.mark] \in L!Ledgers
  BY DEF L!Ledgers
<1>4. [[[l EXCEPT !.lost = "none"] EXCEPT !.suspect = L!NotHeld] EXCEPT !.mark = l.mark] \in L!Ledgers
  BY <1>1, <1>2, <1>3
<1>5. l.mark = (IF l.suspect # L!NotHeld /\ l.mark = l.suspect.mark THEN l.suspect.gen ELSE l.mark)
  OBVIOUS
<1>6. L!Acknowledge(l) = [[[l EXCEPT !.lost = "none"] EXCEPT !.suspect = L!NotHeld] EXCEPT !.mark = l.mark]
  BY <1>5 DEF L!Acknowledge
<1>7. L!Acknowledge(l) \in L!Ledgers
  BY <1>4, <1>6
<1> QED
  BY <1>5, <1>7 DEF L!Acknowledge, L!Ledgers

LEMMA IdleTaskType ==
  /\ IdleTask \in Task /\ IdleTask.pc = "idle" /\ IdleTask.op = "load" /\ IdleTask.gen = 0
  /\ IdleTask.seenThen = 0 /\ IdleTask.in = L!AbsentLedger /\ Nobody \in Contacts
<1>1. (CHOOSE i \in Ids : TRUE) \in Ids
  BY IdsAssumption
<1>2. Nobody \in Contacts
  BY DEF Nobody, Contacts, Status
<1>3. "idle" \in Phases /\ "load" \in Changes \cup {"load"}
  BY DEF Phases
<1> QED
  BY <1>1, <1>2, <1>3, LedgerValues, Generations DEF IdleTask, Task

\* What a task keeps from one of its steps to the next.
Keeps(y, x) ==
  /\ y.op = x.op /\ y.gen = x.gen /\ y.in = x.in /\ y.fresh = x.fresh
  /\ y.warned = x.warned /\ y.floorThen = x.floorThen /\ y.seenThen = x.seenThen

LEMMA ChangedType ==
  ASSUME TypeOK, NEW t \in Tasks, tasks[t].op # "load", NEW c \in Contacts
  PROVE  Changed(t, c) \in Contacts
<1>1. tasks[t] \in Task
  BY DEF TypeOK
<1>2. tasks[t].op \in {"add", "revoke", "remove"} /\ tasks[t].id \in Ids
  BY <1>1 DEF Task, Changes
<1>3. \A v \in Status : [c EXCEPT ![tasks[t].id] = v] \in Contacts
  BY <1>2 DEF Contacts
<1>4. "active" \in Status /\ "revoked" \in Status /\ "none" \in Status
  BY DEF Status
<1>5. CASE tasks[t].op = "add"
  BY <1>3, <1>4, <1>5 DEF Changed
<1>6. CASE tasks[t].op = "revoke"
  BY <1>3, <1>4, <1>6 DEF Changed
<1>7. CASE tasks[t].op = "remove"
  BY <1>3, <1>4, <1>7 DEF Changed
<1> QED
  BY <1>2, <1>5, <1>6, <1>7

LEMMA AfterLoadValue ==
  ASSUME TypeOK, NEW t \in Tasks, NEW c \in Contacts
  PROVE  LET y == AfterLoad(t, c) IN
         /\ y \in Task /\ Keeps(y, tasks[t])
         /\ tasks[t].op = "load" => y.pc = "done" /\ y.view = c
         /\ tasks[t].op # "load" => \/ y.pc = "claim" /\ y.view = Nobody
                                    \/ y.pc = "floor2"
<1> DEFINE x == tasks[t]
<1>1. x \in Task
  BY DEF TypeOK
<1>2. "done" \in Phases /\ "claim" \in Phases /\ "floor2" \in Phases
  BY DEF Phases
<1>3. CASE x.op = "load"
  <2>1. [[x EXCEPT !.pc = "done"] EXCEPT !.view = c] \in Task
    BY <1>1, <1>2, TaskUpdates
  <2>2. AfterLoad(t, c) = [[x EXCEPT !.pc = "done"] EXCEPT !.view = c]
    BY <1>3 DEF AfterLoad
  <2>3. Keeps(AfterLoad(t, c), x) /\ AfterLoad(t, c).pc = "done" /\ AfterLoad(t, c).view = c
    BY <1>1, <1>3 DEF AfterLoad, Keeps, Task
  <2> QED
    BY <1>3, <2>1, <2>2, <2>3
<1>4. CASE x.op # "load"
  <2> DEFINE d == Changed(t, c)
  <2>1. d \in Contacts
    BY <1>4, ChangedType
  <2>2. CASE d = Nobody
    <3>1. [[x EXCEPT !.pc = "claim"] EXCEPT !.view = d] \in Task
      BY <1>1, <1>2, <2>1, TaskUpdates
    <3>2. AfterLoad(t, c) = [[x EXCEPT !.pc = "claim"] EXCEPT !.view = d]
      BY <1>4, <2>2 DEF AfterLoad, SaveFrom
    <3> HIDE DEF d
    <3>3. Keeps([[x EXCEPT !.pc = "claim"] EXCEPT !.view = d], x)
          /\ [[x EXCEPT !.pc = "claim"] EXCEPT !.view = d].pc = "claim"
          /\ [[x EXCEPT !.pc = "claim"] EXCEPT !.view = d].view = d
      BY <1>1 DEF Keeps, Task
    <3> QED
      BY <1>4, <2>2, <3>1, <3>2, <3>3
  <2>3. CASE d # Nobody
    <3>1. [[x EXCEPT !.pc = "floor2"] EXCEPT !.view = d] \in Task
      BY <1>1, <1>2, <2>1, TaskUpdates
    <3>2. AfterLoad(t, c) = [[x EXCEPT !.pc = "floor2"] EXCEPT !.view = d]
      BY <1>4, <2>3 DEF AfterLoad, SaveFrom
    <3> HIDE DEF d
    <3>3. Keeps([[x EXCEPT !.pc = "floor2"] EXCEPT !.view = d], x)
          /\ [[x EXCEPT !.pc = "floor2"] EXCEPT !.view = d].pc = "floor2"
      BY <1>1 DEF Keeps, Task
    <3> QED
      BY <1>4, <3>1, <3>2, <3>3
  <2> QED
    BY <2>2, <2>3
<1> QED
  BY <1>3, <1>4

\* Where an update of the ledger leaves its task.
LEMMA AfterValue ==
  ASSUME TypeOK, NEW t \in Tasks, tasks[t].pc \in Waiting
  PROVE  LET x == tasks[t]
             y == After(t) IN
         /\ y \in Task /\ Keeps(y, x)
         /\ x.pc = "observe" => \/ x.op = "load" /\ y.pc = "done" /\ y.view = Nobody
                                \/ x.op # "load" /\ y.pc = "claim" /\ y.view = Nobody
                                \/ x.op # "load" /\ y.pc = "floor2"
                                \/ y.pc = "floor"
         /\ x.pc = "record" => \/ x.op = "load" /\ y.pc = "done" /\ y.view = x.view
                               \/ x.op # "load" /\ y.pc = "claim" /\ y.view = Nobody
                               \/ x.op # "load" /\ y.pc = "floor2"
         /\ x.pc = "record2" => y.pc = "claim" /\ y.view = x.view
         /\ x.pc = "mark" => y.pc = "done" /\ y.view = x.view
<1> DEFINE x == tasks[t]
<1>1. x \in Task /\ x.view \in Contacts /\ Nobody \in Contacts
  BY IdleTaskType DEF TypeOK, Task
<1>2. "done" \in Phases /\ "claim" \in Phases /\ "floor" \in Phases
  BY DEF Phases
<1>3. \A v \in {"done", "claim", "floor"} :
        /\ [x EXCEPT !.pc = v] \in Task /\ Keeps([x EXCEPT !.pc = v], x)
        /\ [x EXCEPT !.pc = v].pc = v /\ [x EXCEPT !.pc = v].view = x.view
  <2>1. \A v \in Phases : [x EXCEPT !.pc = v] \in Task
    BY <1>1, TaskUpdates
  <2> QED
    BY <1>1, <1>2, <2>1 DEF Keeps, Task
<1>4. CASE x.pc = "observe" /\ x.view = Nobody
  <2>1. After(t) = AfterLoad(t, Nobody)
    BY <1>4 DEF After
  <2> QED
    BY <1>1, <1>4, <2>1, AfterLoadValue
<1>5. CASE x.pc = "observe" /\ x.view # Nobody
  <2>1. After(t) = [x EXCEPT !.pc = "floor"]
    BY <1>5 DEF After
  <2> QED
    BY <1>3, <1>5, <2>1
<1>6. CASE x.pc = "record"
  <2>1. After(t) = AfterLoad(t, x.view)
    BY <1>6 DEF After
  <2> QED
    BY <1>1, <1>6, <2>1, AfterLoadValue
<1>7. CASE x.pc = "record2"
  <2>1. After(t) = [x EXCEPT !.pc = "claim"]
    BY <1>7 DEF After
  <2> QED
    BY <1>3, <1>7, <2>1
<1>8. CASE x.pc = "mark"
  <2>1. After(t) = [x EXCEPT !.pc = "done"]
    BY <1>8 DEF After
  <2> QED
    BY <1>3, <1>8, <2>1
<1> QED
  BY <1>4, <1>5, <1>6, <1>7, <1>8 DEF Waiting

-----------------------------------------------------------------------------
(* The budget of generations *)

\* Mutations that end, or claim nothing more, free what they had of it.
LEMMA BudgetKept ==
  ASSUME TypeInv, spent'.saves = spent.saves, Pending' \subseteq Pending
  PROVE  /\ IsFiniteSet(Pending') /\ Cardinality(Pending') \in Nat
         /\ Cardinality(Pending') <= spent'.saves
         /\ Newest \in Nat /\ Newest' \in Nat /\ Newest <= Newest' /\ Newest' <= MaxGen
<1>1. IsFiniteSet(Pending) /\ Cardinality(Pending) <= spent.saves /\ spent.saves \in 0 .. MaxSaves
  BY DEF TypeInv, GensAreBudgeted, TypeOK
<1>2. IsFiniteSet(Pending') /\ Cardinality(Pending') <= Cardinality(Pending)
  BY <1>1, FS_Subset
<1>3. Cardinality(Pending) \in Nat /\ Cardinality(Pending') \in Nat
  BY <1>1, <1>2, FS_CardinalityType
<1> QED
  BY <1>1, <1>2, <1>3, BoundsAssumption DEF Newest, MaxGen

\* The claim of a generation makes room for one more.
LEMMA BudgetClaimed ==
  ASSUME TypeInv, spent'.saves = spent.saves, NEW t \in Pending, Pending' = Pending \ {t}
  PROVE  Newest' = Newest + 1
<1>1. IsFiniteSet(Pending) /\ Cardinality(Pending) <= spent.saves /\ spent.saves \in 0 .. MaxSaves
  BY DEF TypeInv, GensAreBudgeted, TypeOK
<1>2. Cardinality(Pending') = Cardinality(Pending) - 1 /\ Cardinality(Pending) \in Nat
  BY <1>1, FS_RemoveElement, FS_CardinalityType
<1> QED
  BY <1>1, <1>2, BoundsAssumption DEF Newest

LEMMA BudgetBegun ==
  ASSUME TypeInv, spent.saves < MaxSaves, spent'.saves = spent.saves + 1,
         NEW t, t \notin Pending, Pending' = Pending \cup {t}
  PROVE  /\ IsFiniteSet(Pending') /\ Cardinality(Pending') <= spent'.saves
         /\ Newest' = Newest /\ Newest \in Nat
<1>1. IsFiniteSet(Pending) /\ Cardinality(Pending) <= spent.saves /\ spent.saves \in 0 .. MaxSaves
  BY DEF TypeInv, GensAreBudgeted, TypeOK
<1>2. IsFiniteSet(Pending') /\ Cardinality(Pending') = Cardinality(Pending) + 1
      /\ Cardinality(Pending) \in Nat
  BY <1>1, FS_AddElement, FS_CardinalityType
<1> QED
  BY <1>1, <1>2, BoundsAssumption DEF Newest

\* A value a task may take in a step that neither begins a mutation nor claims.
Fits(y, t) ==
  /\ y \in Task
  /\ y.op # "load" /\ y.pc \notin {"set", "mark", "done"} => t \in Pending
  /\ y.gen <= Newest /\ y.in.mark <= Newest /\ y.seenThen <= Newest
  /\ MaySave(y)

LEMMA IdleFits ==
  ASSUME TypeInv, NEW t \in Tasks
  PROVE  Fits(IdleTask, t) /\ Newest \in Nat /\ Newest <= MaxGen
<1>1. Newest \in Nat /\ Newest <= MaxGen
  <2>1. IsFiniteSet(Pending) /\ Cardinality(Pending) <= spent.saves /\ spent.saves \in 0 .. MaxSaves
    BY DEF TypeInv, GensAreBudgeted, TypeOK
  <2> QED
    BY <2>1, FS_CardinalityType, BoundsAssumption DEF Newest, MaxGen
<1>2. L!AbsentLedger.mark = -1
  BY DEF L!AbsentLedger, L!EmptyLedger, L!Unmarked
<1> QED
  BY <1>1, <1>2, IdleTaskType DEF Fits, MaySave

LEMMA KeepsFits ==
  ASSUME TypeInv, NEW t \in Tasks, NEW y \in Task, Keeps(y, tasks[t]), MaySave(y),
         tasks[t].pc \notin {"set", "mark", "done"} \/ y.pc \in {"set", "mark", "done"}
  PROVE  Fits(y, t)
<1>1. tasks[t].gen <= Newest /\ tasks[t].in.mark <= Newest /\ tasks[t].seenThen <= Newest
  BY DEF TypeInv, GensAreBudgeted, GensUpTo
<1> QED
  BY <1>1 DEF Fits, Keeps, Pending

LEMMA TaskStepBudget ==
  ASSUME TypeInv, NEW t \in Tasks, NEW y, Fits(y, t), Become(t, y),
         spent'.saves = spent.saves, blob' \in past', past' \subseteq Blobs,
         \A b \in past' : b.gen <= Newest,
         ledger' \in L!Ledgers, ledger'.mark <= Newest, seen' <= Newest, seen' \in L!Generation
  PROVE  tasks' \in [Tasks -> Task] /\ SaversMutate' /\ GensAreBudgeted'
<1>1. tasks' = [tasks EXCEPT ![t] = y] /\ tasks \in [Tasks -> Task] /\ y \in Task
  BY DEF Become, TypeInv, TypeOK, Fits
<1>2. tasks' \in [Tasks -> Task] /\ tasks'[t] = y /\ \A u \in Tasks \ {t} : tasks'[u] = tasks[u]
  BY <1>1
<1>3. Pending' \subseteq Pending
  BY <1>2 DEF Pending, Fits
<1>4. /\ IsFiniteSet(Pending') /\ Cardinality(Pending') <= spent'.saves
      /\ Newest \in Nat /\ Newest' \in Nat /\ Newest <= Newest'
  BY <1>3, BudgetKept
<1>5. \A b \in past' : b.gen <= Newest'
  <2>1. \A b \in Blobs : b.gen \in Int
    BY Generations DEF Blobs
  <2> QED
    BY <1>4, <2>1
<1>6. \A u \in Tasks : tasks'[u].gen <= Newest' /\ tasks'[u].in.mark <= Newest' /\ tasks'[u].seenThen <= Newest'
  <2>1. \A x \in Task : x.gen \in Int /\ x.in.mark \in Int /\ x.seenThen \in Int
    BY Generations DEF Task, L!Ledgers
  <2>2. \A u \in Tasks : tasks[u].gen <= Newest /\ tasks[u].in.mark <= Newest /\ tasks[u].seenThen <= Newest
    BY DEF TypeInv, GensAreBudgeted, GensUpTo
  <2>3. \A u \in Tasks : tasks'[u].gen <= Newest /\ tasks'[u].in.mark <= Newest /\ tasks'[u].seenThen <= Newest
    BY <1>2, <2>2 DEF Fits
  <2> QED
    BY <1>2, <1>4, <2>1, <2>3
<1>7. ledger'.mark <= Newest' /\ seen' <= Newest'
  BY <1>4, Generations DEF L!Ledgers
<1>8. SaversMutate'
  BY <1>2 DEF SaversMutate, TypeInv, Fits
<1> QED
  BY <1>2, <1>4, <1>5, <1>6, <1>7, <1>8 DEF GensAreBudgeted, GensUpTo

\* What a step of a task may change besides itself.
LEMMA TaskStepTypes ==
  ASSUME TypeInv, NEW t \in Tasks, NEW y, Fits(y, t), Become(t, y), UNCHANGED <<session, env>>,
         blob' \in past', past' \subseteq Blobs, \A b \in past' : b.gen <= Newest,
         ledger' \in L!Ledgers, ledger'.mark <= Newest, seen' <= Newest, seen' \in L!Generation,
         holders' \subseteq Tasks, issues' \in [Windows -> SUBSET IssueKinds]
  PROVE  TypeInv'
<1>1. tasks' \in [Tasks -> Task] /\ SaversMutate' /\ GensAreBudgeted'
  BY TaskStepBudget DEF env
<1>2. blob' \in Blobs
  OBVIOUS
<1> QED
  BY <1>1, <1>2 DEF TypeInv, TypeOK, env

LEMMA QuietStorage ==
  ASSUME TypeInv, UNCHANGED storage
  PROVE  blob' \in past' /\ past' \subseteq Blobs /\ \A b \in past' : b.gen <= Newest
BY DEF TypeInv, TypeOK, GensAreBudgeted, GensUpTo, storage

LEMMA QuietLedger ==
  ASSUME TypeInv
  PROVE  /\ ledger' = ledger => ledger' \in L!Ledgers /\ ledger'.mark <= Newest
         /\ seen' = seen => seen' <= Newest /\ seen' \in L!Generation
         /\ holders' = holders => holders' \subseteq Tasks
         /\ issues' = issues => issues' \in [Windows -> SUBSET IssueKinds]
         /\ \A t \in Tasks : Release(t) => holders' \subseteq Tasks
BY DEF TypeInv, TypeOK, GensAreBudgeted, GensUpTo, Release

LEMMA ReportTypes ==
  ASSUME TypeInv, NEW t \in Tasks, NEW kinds \in SUBSET IssueKinds, Report(t, kinds)
  PROVE  issues' \in [Windows -> SUBSET IssueKinds]
<1>1. WindowOf[t] \in Windows
  BY TasksAssumption
<1>2. issues \in [Windows -> SUBSET IssueKinds]
  BY DEF TypeInv, TypeOK
<1>3. issues[WindowOf[t]] \cup kinds \in SUBSET IssueKinds
  BY <1>1, <1>2
<1> QED
  BY <1>2, <1>3 DEF Report

-----------------------------------------------------------------------------
(* Every action keeps the types *)

LEMMA GetValue ==
  ASSUME TypeInv, NEW t \in Tasks, Get(t)
  PROVE  LET x == tasks[t] IN
         \E y \in Task :
           /\ Become(t, y)
           /\ \/ y = IdleTask
              \/ /\ Keeps(y, x) /\ y.pc = "absent" /\ ~blob.sealed
              \/ /\ y.pc = "observe" /\ blob.sealed /\ y.gen = blob.gen
                 /\ y.op = x.op /\ y.in = x.in /\ y.fresh = x.fresh /\ y.warned = x.warned
                 /\ y.floorThen = x.floorThen /\ y.seenThen = x.seenThen
<1> DEFINE x == tasks[t]
<1>1. x \in Task /\ x.pc = "get"
  BY DEF TypeInv, TypeOK, Get
<1>2. CASE ~blob.sealed /\ GoTo(t, "absent")
  <2>1. [x EXCEPT !.pc = "absent"] \in Task /\ Keeps([x EXCEPT !.pc = "absent"], x)
        /\ [x EXCEPT !.pc = "absent"].pc = "absent"
    BY <1>1 DEF Task, Keeps, Phases
  <2> QED
    BY <1>2, <2>1 DEF GoTo
<1>3. CASE Fail(t)
  BY <1>3, IdleTaskType DEF Fail
<1>4. CASE blob.sealed /\ Become(t, [x EXCEPT !.pc = "observe", !.view = blob.contacts, !.gen = blob.gen])
  <2> DEFINE y == [[[x EXCEPT !.pc = "observe"] EXCEPT !.view = blob.contacts] EXCEPT !.gen = blob.gen]
  <2>1. blob.contacts \in Contacts /\ blob.gen \in L!Generation
    BY DEF TypeInv, TypeOK, Blobs
  <2>2. "observe" \in Phases
    BY DEF Phases, Waiting
  <2>3. y \in Task
    BY <1>1, <2>1, <2>2, TaskUpdates
  <2>4. /\ y.pc = "observe" /\ y.op = x.op /\ y.in = x.in /\ y.seenThen = x.seenThen
        /\ y.gen = blob.gen /\ y.fresh = x.fresh /\ y.warned = x.warned /\ y.floorThen = x.floorThen
    BY <1>1 DEF Task
  <2>5. Become(t, y)
    BY <1>4
  <2> HIDE DEF y
  <2> QED
    BY <1>4, <2>3, <2>4, <2>5
<1> QED
  BY <1>2, <1>3, <1>4 DEF Get

LEMMA GetTypes ==
  ASSUME TypeInv, NEW t \in Tasks, Get(t)
  PROVE  TypeInv'
<1> DEFINE x == tasks[t]
<1>1. UNCHANGED <<storage, ledger, holders, session, issues, env, seen>> /\ x.pc = "get"
  BY DEF Get
<1>2. PICK y \in Task :
        /\ Become(t, y)
        /\ \/ y = IdleTask
           \/ Keeps(y, x) /\ y.pc = "absent"
           \/ /\ y.pc = "observe" /\ y.gen = blob.gen
              /\ y.op = x.op /\ y.in = x.in /\ y.seenThen = x.seenThen
  BY GetValue
<1>3. blob.gen <= Newest /\ x.in.mark <= Newest /\ x.seenThen <= Newest
  BY DEF TypeInv, GensAreBudgeted, GensUpTo
<1>4. Fits(y, t)
  BY <1>1, <1>2, <1>3, IdleFits, KeepsFits DEF Fits, MaySave, Pending
<1> QED
  BY <1>1, <1>2, <1>4, QuietStorage, QuietLedger, TaskStepTypes

LEMMA NoteAbsentValue ==
  ASSUME TypeInv, NEW t \in Tasks, NoteAbsent(t)
  PROVE  LET x == tasks[t] IN
         \E y \in Task, kinds \in SUBSET IssueKinds :
           /\ Become(t, y) /\ Report(t, kinds)
           /\ y.op = x.op /\ y.gen = x.gen /\ y.in = x.in /\ y.fresh = x.fresh
           /\ y.floorThen = x.floorThen /\ y.seenThen = x.seenThen
           /\ x.op = "load" => y.pc = "done" /\ y.view = Nobody
           /\ x.op # "load" => \/ y.pc = "claim" /\ y.view = Nobody
                               \/ y.pc = "floor2"
           /\ kinds # {} =>
                \/ ledger.state = "good" /\ ledger.mark # L!Unmarked
                \/ ledger.state = "absent" /\ OthersCarry
<1> DEFINE x == tasks[t]
           a == AfterLoad(t, Nobody)
           kinds == IF ~Open(t) THEN {}
                    ELSE IF ledger.state = "good" /\ ledger.mark # L!Unmarked THEN {"missing-store"}
                    ELSE IF ledger.state = "absent" /\ OthersCarry THEN {"missing"}
                    ELSE {}
           y == [a EXCEPT !.warned = kinds # {}]
<1>1. /\ a \in Task /\ Keeps(a, x)
      /\ x.op = "load" => a.pc = "done" /\ a.view = Nobody
      /\ x.op # "load" => \/ a.pc = "claim" /\ a.view = Nobody
                          \/ a.pc = "floor2"
  BY AfterLoadValue, IdleTaskType DEF TypeInv
<1>2. Report(t, kinds) /\ Become(t, y)
  BY DEF NoteAbsent
<1>3. kinds \in SUBSET IssueKinds
  BY DEF IssueKinds
<1>4. kinds # {} => \/ ledger.state = "good" /\ ledger.mark # L!Unmarked
                    \/ ledger.state = "absent" /\ OthersCarry
  OBVIOUS
<1> HIDE DEF a, kinds
<1>5. y \in Task
  <2>1. (kinds # {}) \in BOOLEAN
    OBVIOUS
  <2> QED
    BY <1>1, <2>1, TaskUpdates
<1>6. /\ y.op = x.op /\ y.gen = x.gen /\ y.in = x.in /\ y.fresh = x.fresh
      /\ y.floorThen = x.floorThen /\ y.seenThen = x.seenThen /\ y.pc = a.pc /\ y.view = a.view
  BY <1>1 DEF Keeps, Task
<1> HIDE DEF y
<1> QED
  BY <1>1, <1>2, <1>3, <1>4, <1>5, <1>6

LEMMA NoteAbsentTypes ==
  ASSUME TypeInv, NEW t \in Tasks, NoteAbsent(t)
  PROVE  TypeInv'
<1> DEFINE x == tasks[t]
<1>1. PICK y \in Task, kinds \in SUBSET IssueKinds :
        /\ Become(t, y) /\ Report(t, kinds)
        /\ y.op = x.op /\ y.gen = x.gen /\ y.in = x.in /\ y.seenThen = x.seenThen
        /\ x.op = "load" => y.pc = "done"
  BY NoteAbsentValue
<1>2. UNCHANGED <<storage, ledger, holders, session, env, seen>> /\ x.pc = "absent"
  BY DEF NoteAbsent
<1>3. x.gen <= Newest /\ x.in.mark <= Newest /\ x.seenThen <= Newest
  BY DEF TypeInv, GensAreBudgeted, GensUpTo
<1>4. Fits(y, t)
  BY <1>1, <1>2, <1>3 DEF Fits, MaySave, Pending
<1>5. issues' \in [Windows -> SUBSET IssueKinds]
  BY <1>1, ReportTypes
<1> QED
  BY <1>1, <1>2, <1>4, <1>5, QuietStorage, QuietLedger, TaskStepTypes

\* The floor that is applied, and where the call goes on.
Peeked(t) == IF Open(t) /\ ledger.state = "good" THEN ledger.floor ELSE {}

LEMMA PeekFloorValue ==
  ASSUME TypeInv, NEW t \in Tasks, PeekFloor(t)
  PROVE  LET x == tasks[t]
             c == WithFloor(x.view, Peeked(t)) IN
         \E y \in Task :
           /\ Become(t, y) /\ Keeps(y, x)
           /\ x.pc = "floor" => \/ y.pc = "record" /\ y.view = c
                                \/ x.op = "load" /\ y.pc = "done" /\ y.view = c
                                \/ x.op # "load" /\ y.pc = "claim" /\ y.view = Nobody
                                \/ x.op # "load" /\ y.pc = "floor2"
           /\ x.pc = "floor2" => y.pc \in {"record2", "claim"} /\ y.view = c
<1> DEFINE x == tasks[t]
           c == WithFloor(x.view, Peeked(t))
           new == Revoked(x.view) \ Peeked(t)
           recording == new # {} /\ Open(t)
<1>1. x \in Task /\ x.pc \in {"floor", "floor2"} /\ x.view \in Contacts
  BY DEF TypeInv, TypeOK, PeekFloor, Task
<1>2. c \in Contacts
  BY <1>1 DEF WithFloor, Contacts, Status
<1>3. new \in SUBSET Ids
  BY DEF Revoked
<1> DEFINE s == [[x EXCEPT !.view = c] EXCEPT !.ids = new]
<1>4. Become(t, IF x.pc = "floor"
                THEN IF recording THEN [s EXCEPT !.pc = "record"] ELSE AfterLoad(t, c)
                ELSE [s EXCEPT !.pc = IF recording THEN "record2" ELSE "claim"])
  BY DEF PeekFloor, Peeked
<1> HIDE DEF c, new, recording
<1>5. s \in Task
  BY <1>1, <1>2, <1>3, TaskUpdates
<1>6. \A v \in {"record", "record2", "claim"} :
        /\ [s EXCEPT !.pc = v] \in Task /\ Keeps([s EXCEPT !.pc = v], x)
        /\ [s EXCEPT !.pc = v].pc = v /\ [s EXCEPT !.pc = v].view = c
  <2>1. \A v \in {"record", "record2", "claim"} : v \in Phases
    BY DEF Phases, Waiting
  <2>2. Keeps(s, x) /\ s.view = c
    BY <1>1 DEF Keeps, Task
  <2> HIDE DEF s
  <2>3. \A v \in Phases : [s EXCEPT !.pc = v] \in Task
    BY <1>5, TaskUpdates
  <2> QED
    BY <1>5, <2>1, <2>2, <2>3 DEF Keeps, Task
<1>7. LET a == AfterLoad(t, c) IN
      /\ a \in Task /\ Keeps(a, x)
      /\ \/ x.op = "load" /\ a.pc = "done" /\ a.view = c
         \/ x.op # "load" /\ a.pc = "claim" /\ a.view = Nobody
         \/ x.op # "load" /\ a.pc = "floor2"
  BY <1>2, AfterLoadValue DEF TypeInv
<1> HIDE DEF s
<1>8. CASE x.pc = "floor" /\ recording
  <2>1. Become(t, [s EXCEPT !.pc = "record"])
    BY <1>4, <1>8
  <2> QED
    BY <1>6, <1>8, <2>1 DEF c
<1>9. CASE x.pc = "floor" /\ ~recording
  <2>1. Become(t, AfterLoad(t, c))
    BY <1>4, <1>9
  <2> QED
    BY <1>7, <1>9, <2>1 DEF c
<1>10. CASE x.pc = "floor2"
  <2>1. PICK v \in {"record2", "claim"} : Become(t, [s EXCEPT !.pc = v])
    BY <1>4, <1>10
  <2> QED
    BY <1>6, <1>10, <2>1 DEF c
<1> QED
  BY <1>1, <1>8, <1>9, <1>10

LEMMA PeekFloorTypes ==
  ASSUME TypeInv, NEW t \in Tasks, PeekFloor(t)
  PROVE  TypeInv'
<1> DEFINE x == tasks[t]
<1>1. PICK y \in Task :
        /\ Become(t, y) /\ Keeps(y, x)
        /\ x.pc = "floor" => y.pc \in {"record", "done"} \/ x.op # "load"
        /\ x.pc = "floor2" => y.pc \in {"record2", "claim"}
  BY PeekFloorValue
<1>2. UNCHANGED <<storage, ledger, holders, session, issues, env, seen>> /\ x.pc \in {"floor", "floor2"}
  BY DEF PeekFloor
<1>3. MaySave(x)
  BY DEF TypeInv, SaversMutate
<1>4. MaySave(y)
  BY <1>1, <1>2, <1>3 DEF MaySave, Keeps
<1>5. Fits(y, t)
  BY <1>1, <1>2, <1>4, KeepsFits
<1> QED
  BY <1>1, <1>2, <1>5, QuietStorage, QuietLedger, TaskStepTypes

LEMMA AfterFits ==
  ASSUME TypeInv, NEW t \in Tasks, tasks[t].pc \in Waiting
  PROVE  Fits(After(t), t)
<1>1. MaySave(tasks[t])
  BY DEF TypeInv, SaversMutate
<1>2. After(t) \in Task /\ Keeps(After(t), tasks[t]) /\ MaySave(After(t))
      /\ (tasks[t].pc \notin {"set", "mark", "done"} \/ After(t).pc \in {"set", "mark", "done"})
  BY <1>1, AfterValue DEF TypeInv, Waiting, MaySave, Keeps
<1> QED
  BY <1>2, KeepsFits

LEMMA SkipLedgerTypes ==
  ASSUME TypeInv, NEW t \in Tasks, SkipLedger(t)
  PROVE  TypeInv'
<1>1. Fits(After(t), t)
  BY AfterFits DEF SkipLedger
<1> QED
  BY <1>1, QuietStorage, QuietLedger, TaskStepTypes DEF SkipLedger

LEMMA FinishTypes ==
  ASSUME TypeInv, NEW t \in Tasks, Finish(t)
  PROVE  TypeInv'
<1>1. tasks[t].gen \in L!Generation /\ tasks[t].gen <= Newest /\ seen \in L!Generation /\ seen <= Newest
  BY DEF TypeInv, TypeOK, Task, GensAreBudgeted, GensUpTo
<1>2. seen' \in L!Generation /\ seen' <= Newest
  BY <1>1 DEF Finish
<1> QED
  BY <1>2, IdleFits, QuietStorage, QuietLedger, TaskStepTypes DEF Finish, Fail

\* What an update makes of the ledger it read.
LEMMA UpdatedValue ==
  ASSUME TypeInv, NEW t \in Tasks, tasks[t].pc \in Waiting
  PROVE  LET x == tasks[t]
             l == Updated(t) IN
         /\ l \in L!Ledgers /\ l.mark <= Newest
         /\ l.state = x.in.state /\ l.lost = x.in.lost /\ l.suspect = x.in.suspect
         /\ x.in.floor \subseteq l.floor /\ x.in.mark <= l.mark
         /\ x.pc = "observe" => L!Older(x.in, x.gen) \/ l.mark = x.gen
         /\ x.pc = "mark" => x.gen <= l.mark
<1> DEFINE x == tasks[t]
           in == x.in
<1>1. /\ in \in L!Ledgers /\ x.gen \in L!Generation /\ x.ids \in SUBSET Ids
      /\ in.mark <= Newest /\ x.gen <= Newest
  BY DEF TypeInv, TypeOK, Task, GensAreBudgeted, GensUpTo
<1>2. in.mark \in Int /\ x.gen \in Nat /\ (in.mark < 0 => in.mark = L!Unmarked) /\ L!Unmarked = -1
  BY <1>1, Generations DEF L!Ledgers
<1>3. CASE x.pc = "observe"
  <2>1. Updated(t) = IF L!Older(in, x.gen) THEN in ELSE [in EXCEPT !.mark = x.gen]
    BY <1>1, <1>3, ObservedLedger DEF Updated
  <2>2. Updated(t) \in L!Ledgers
    BY <1>1, <1>3, ObservedLedger DEF Updated
  <2>3. ~L!Older(in, x.gen) => in.mark <= x.gen
    BY <1>2 DEF L!Older
  <2> QED
    BY <1>1, <1>2, <1>3, <2>1, <2>2, <2>3 DEF L!Ledgers
<1>4. CASE x.pc \in {"record", "record2"}
  <2>1. Updated(t) = [in EXCEPT !.floor = in.floor \cup x.ids]
    BY <1>4 DEF Updated, L!RecordRevoked
  <2>2. Updated(t) \in L!Ledgers
    BY <1>1, <1>4, WrittenLedger DEF Updated
  <2> QED
    BY <1>1, <1>2, <1>4, <2>1, <2>2 DEF L!Ledgers
<1>5. CASE x.pc = "mark"
  <2>1. Updated(t) = IF in.mark >= x.gen THEN in ELSE [in EXCEPT !.mark = x.gen]
    BY <1>5 DEF Updated, L!RecordWrite
  <2>2. Updated(t) \in L!Ledgers
    BY <1>1, <1>5, WrittenLedger DEF Updated
  <2> QED
    BY <1>1, <1>2, <1>5, <2>1, <2>2 DEF L!Ledgers
<1> QED
  BY <1>3, <1>4, <1>5 DEF Waiting

\* What a call finds under the lock.
Found(t) == IF ledger.state = "good" /\ ~Open(t) THEN "junk" ELSE ledger.state
Read(t) ==
  IF Found(t) = "good" THEN ledger
  ELSE L!Replacement(Found(t), Open(t) /\ (OthersCarry \/ (tasks[t].pc # "mark" /\ blob.sealed /\ blob.gen > 0)))

LEMMA ReadValue ==
  ASSUME TypeInv, NEW t \in Tasks
  PROVE  LET in == Read(t) IN
         /\ in \in L!Ledgers /\ in.mark <= Newest /\ in.state = "good"
         /\ Found(t) = "good" => in = ledger /\ ledger.state = "good"
         /\ Found(t) # "good" => in.mark = L!Unmarked /\ in.floor = {} /\ in.suspect = L!NotHeld
         /\ {in.lost} \ {"none"} \in SUBSET IssueKinds
<1>1. ledger \in L!Ledgers /\ ledger.mark <= Newest
  BY DEF TypeInv, TypeOK, GensAreBudgeted, GensUpTo
<1>2. ledger.state \in {"good", "absent", "junk"} /\ ledger.lost \in {"none", "missing", "ledger-unreadable"}
  BY <1>1 DEF L!Ledgers
<1>3. Newest \in Nat /\ L!Unmarked = -1
  BY IdleFits, Generations
<1>4. CASE Found(t) = "good"
  <2>1. Read(t) = ledger /\ ledger.state = "good"
    BY <1>4 DEF Read, Found
  <2> QED
    BY <1>1, <1>2, <1>4, <2>1 DEF IssueKinds
<1>5. CASE Found(t) # "good"
  <2> DEFINE carry == Open(t) /\ (OthersCarry \/ (tasks[t].pc # "mark" /\ blob.sealed /\ blob.gen > 0))
  <2>1. carry \in BOOLEAN /\ Found(t) \in {"good", "absent", "junk"}
    BY <1>2 DEF Found
  <2>2. Read(t) = L!Replacement(Found(t), carry)
    BY <1>5 DEF Read
  <2> HIDE DEF carry
  <2>3. Read(t) \in L!Ledgers
    BY <2>1, <2>2, ReplacementValue
  <2>4. Read(t).lost \in {"none", "missing", "ledger-unreadable"}
    BY <2>3 DEF L!Ledgers
  <2> QED
    BY <1>3, <1>5, <2>1, <2>2, <2>3, <2>4, ReplacementValue DEF IssueKinds
<1> QED
  BY <1>4, <1>5

LEMMA EnterValue ==
  ASSUME TypeInv, NEW t \in Tasks, EnterLedger(t)
  PROVE  LET x == tasks[t]
             y == [[[x EXCEPT !.in = Read(t)] EXCEPT !.fresh = (Found(t) # "good")]
                     EXCEPT !.warned = (x.warned \/ Read(t).lost # "none")] IN
         /\ y \in Task /\ Become(t, y)
         /\ y.pc = x.pc /\ y.op = x.op /\ y.view = x.view /\ y.gen = x.gen
         /\ y.floorThen = x.floorThen /\ y.seenThen = x.seenThen
         /\ y.in = Read(t) /\ y.fresh = (Found(t) # "good")
         /\ y.warned = (x.warned \/ Read(t).lost # "none")
         /\ Report(t, {Read(t).lost} \ {"none"})
<1> DEFINE x == tasks[t]
           y == [[[x EXCEPT !.in = Read(t)] EXCEPT !.fresh = (Found(t) # "good")]
                   EXCEPT !.warned = (x.warned \/ Read(t).lost # "none")]
<1>1. x \in Task /\ x.warned \in BOOLEAN
  BY DEF TypeInv, TypeOK, Task
<1>2. Become(t, y) /\ Report(t, {Read(t).lost} \ {"none"})
  BY DEF EnterLedger, Read, Found
<1>3. Read(t) \in L!Ledgers
  BY ReadValue
<1>4. (Found(t) # "good") \in BOOLEAN /\ (x.warned \/ Read(t).lost # "none") \in BOOLEAN
  BY <1>1
<1>5. y \in Task
  BY <1>1, <1>3, <1>4, TaskUpdates
<1>6. /\ y.pc = x.pc /\ y.op = x.op /\ y.view = x.view /\ y.gen = x.gen
      /\ y.floorThen = x.floorThen /\ y.seenThen = x.seenThen
      /\ y.in = Read(t) /\ y.fresh = (Found(t) # "good")
      /\ y.warned = (x.warned \/ Read(t).lost # "none")
  BY <1>1 DEF Task
<1> QED
  BY <1>2, <1>5, <1>6

LEMMA EnterLedgerTypes ==
  ASSUME TypeInv, NEW t \in Tasks, EnterLedger(t)
  PROVE  TypeInv'
<1>1. PICK y \in Task : /\ Become(t, y) /\ y.pc = tasks[t].pc /\ y.op = tasks[t].op
                        /\ y.gen = tasks[t].gen /\ y.seenThen = tasks[t].seenThen
                        /\ y.in = Read(t)
  BY EnterValue
<1>2. tasks[t].pc \in Waiting /\ MaySave(tasks[t])
  BY DEF EnterLedger, TypeInv, SaversMutate
<1>3. tasks[t].gen <= Newest /\ tasks[t].seenThen <= Newest /\ Read(t).mark <= Newest
  BY ReadValue DEF TypeInv, GensAreBudgeted, GensUpTo
<1>4. Fits(y, t)
  BY <1>1, <1>2, <1>3 DEF Fits, Pending, MaySave
<1>5. issues' \in [Windows -> SUBSET IssueKinds]
  <2>1. {Read(t).lost} \ {"none"} \in SUBSET IssueKinds /\ Report(t, {Read(t).lost} \ {"none"})
    BY ReadValue, EnterValue
  <2> QED
    BY <2>1, ReportTypes
<1>6. holders' \subseteq Tasks
  BY DEF EnterLedger, TypeInv, TypeOK
<1>7. UNCHANGED <<storage, ledger, session, env, seen>>
  BY DEF EnterLedger
<1> QED
  BY <1>1, <1>4, <1>5, <1>6, <1>7, QuietStorage, QuietLedger, TaskStepTypes

LEMMA LeaveValue ==
  ASSUME TypeInv, NEW t \in Tasks, LeaveLedger(t)
  PROVE  LET x == tasks[t]
             older == x.pc = "observe" /\ L!Older(x.in, x.gen)
             y == [After(t) EXCEPT !.warned = (x.warned \/ older)] IN
         /\ y \in Task /\ Become(t, y) /\ x.pc \in Waiting
         /\ y.pc = After(t).pc /\ y.op = x.op /\ y.view = After(t).view /\ y.gen = x.gen
         /\ y.floorThen = x.floorThen /\ y.seenThen = x.seenThen /\ y.in = x.in
         /\ y.fresh = x.fresh /\ y.warned = (x.warned \/ older)
<1> DEFINE x == tasks[t]
           older == x.pc = "observe" /\ L!Older(x.in, x.gen)
           a == After(t)
<1>1. a \in Task /\ Keeps(a, x) /\ x.pc \in Waiting
  BY AfterValue DEF TypeInv, LeaveLedger
<1>2. Become(t, [a EXCEPT !.warned = (x.warned \/ older)])
  <2>1. Become(t, [a EXCEPT !.warned = (a.warned \/ older)])
    BY DEF LeaveLedger
  <2> QED
    BY <1>1, <2>1 DEF Keeps
<1>3. (x.warned \/ older) \in BOOLEAN
  OBVIOUS
<1> HIDE DEF a, older
<1>4. [a EXCEPT !.warned = (x.warned \/ older)] \in Task
  BY <1>1, <1>3, TaskUpdates
<1>5. LET y == [a EXCEPT !.warned = (x.warned \/ older)] IN
      /\ y.pc = a.pc /\ y.op = x.op /\ y.view = a.view /\ y.gen = x.gen
      /\ y.floorThen = x.floorThen /\ y.seenThen = x.seenThen /\ y.in = x.in
      /\ y.fresh = x.fresh /\ y.warned = (x.warned \/ older)
  BY <1>1 DEF Keeps, Task
<1> QED
  BY <1>1, <1>2, <1>4, <1>5 DEF a, older

LEMMA LeaveLedgerTypes ==
  ASSUME TypeInv, NEW t \in Tasks, LeaveLedger(t)
  PROVE  TypeInv'
<1>1. PICK y \in Task : /\ Become(t, y) /\ tasks[t].pc \in Waiting
                        /\ y.pc = After(t).pc /\ y.op = tasks[t].op
                        /\ y.gen = tasks[t].gen /\ y.seenThen = tasks[t].seenThen
                        /\ y.in = tasks[t].in
  BY LeaveValue
<1>2. Fits(After(t), t) /\ Keeps(After(t), tasks[t])
  BY <1>1, AfterFits, AfterValue DEF TypeInv
<1>3. Fits(y, t)
  BY <1>1, <1>2 DEF Fits, MaySave, Keeps
<1>4. ledger' \in L!Ledgers /\ ledger'.mark <= Newest
  <2>1. Updated(t) \in L!Ledgers /\ Updated(t).mark <= Newest
    BY <1>1, UpdatedValue
  <2>2. ledger' = Updated(t) \/ ledger' = ledger
    BY DEF LeaveLedger
  <2> QED
    BY <2>1, <2>2, QuietLedger
<1>5. issues' \in [Windows -> SUBSET IssueKinds]
  <2> DEFINE kinds == IF tasks[t].pc = "observe" /\ L!Older(tasks[t].in, tasks[t].gen)
                      THEN {L!OlderKind(tasks[t].gen)} ELSE {}
  <2>1. Report(t, kinds)
    BY DEF LeaveLedger
  <2>2. kinds \in SUBSET IssueKinds
    BY DEF L!OlderKind, IssueKinds
  <2> QED
    BY <2>1, <2>2, ReportTypes
<1>6. holders' \subseteq Tasks
  BY QuietLedger DEF LeaveLedger
<1>7. UNCHANGED <<storage, session, env, seen>>
  BY DEF LeaveLedger
<1> QED
  BY <1>1, <1>3, <1>4, <1>5, <1>6, <1>7, QuietStorage, QuietLedger, TaskStepTypes

\* A claimed generation is above what this device has seen, and within the
\* budget that its mutation brought.
LEMMA ClaimedGeneration ==
  ASSUME TypeInv, NEW l \in L!Ledgers, l.mark <= Newest
  PROVE  /\ L!ClaimGeneration(l, now) \in Nat /\ L!ClaimGeneration(l, now) <= Newest + 1
         /\ L!ClaimGeneration(l, now) > l.mark /\ L!ClaimGeneration(l, now) > 0
<1>1. Newest \in Nat /\ MaxTime <= Newest /\ now \in 1 .. MaxTime
  <2>1. IsFiniteSet(Pending) /\ Cardinality(Pending) <= spent.saves /\ spent.saves \in 0 .. MaxSaves
    BY DEF TypeInv, GensAreBudgeted, TypeOK
  <2> QED
    BY <2>1, FS_CardinalityType, BoundsAssumption DEF Newest, TypeInv, TypeOK
<1>2. l.mark \in Int /\ (l.mark = L!Unmarked \/ l.mark >= 0) /\ L!Unmarked = -1
  BY Generations DEF L!Ledgers
<1> QED
  BY <1>1, <1>2, BoundsAssumption DEF L!ClaimGeneration

LEMMA ClaimValue ==
  ASSUME TypeInv, NEW t \in Tasks, Claim(t), Open(t)
  PROVE  LET x == tasks[t] IN
         \E y \in Task :
           /\ Become(t, y) /\ y.pc = "set" /\ y.op = x.op /\ y.op # "load" /\ y.view = x.view
           /\ y.in = x.in /\ y.fresh = x.fresh /\ y.floorThen = x.floorThen
           /\ y.seenThen = x.seenThen /\ y.warned = x.warned
           /\ y.gen > 0 /\ (ledger.state = "good" => y.gen > ledger.mark)
           /\ Newest' = Newest + 1 /\ y.gen <= Newest' /\ Pending' = Pending \ {t}
<1> DEFINE x == tasks[t]
           l == IF ledger.state = "good" THEN ledger ELSE L!EmptyLedger
           g == L!ClaimGeneration(l, now)
           y == [[x EXCEPT !.pc = "set"] EXCEPT !.gen = g]
<1>1. x \in Task /\ x.pc = "claim" /\ x.op # "load" /\ t \in Pending
  BY DEF TypeInv, TypeOK, Claim, SaversMutate, MaySave, Pending
<1>2. Become(t, y) /\ spent' = spent
  BY DEF Claim, env
<1>3. l \in L!Ledgers /\ l.mark <= Newest
  <2>1. L!EmptyLedger.mark = -1 /\ Newest \in Nat
    BY IdleFits DEF L!EmptyLedger, L!Unmarked
  <2> QED
    BY <2>1, LedgerValues DEF TypeInv, TypeOK, GensAreBudgeted, GensUpTo
<1>4. g \in Nat /\ g <= Newest + 1 /\ g > l.mark /\ g > 0
  BY <1>3, ClaimedGeneration
<1> HIDE DEF g
<1>5. y.pc = "set" /\ y.op = x.op
  BY <1>1 DEF Task
<1>6. Pending' = Pending \ {t}
  <2>1. tasks' = [tasks EXCEPT ![t] = y] /\ tasks \in [Tasks -> Task]
    BY <1>2 DEF Become, TypeInv, TypeOK
  <2>2. tasks'[t] = y /\ \A u \in Tasks \ {t} : tasks'[u] = tasks[u]
    BY <2>1
  <2> QED
    BY <1>5, <2>2 DEF Pending
<1>7. Newest' = Newest + 1 /\ Newest' <= MaxGen
  BY <1>1, <1>2, <1>6, BudgetClaimed, BudgetKept
<1>8. g \in L!Generation /\ g <= Newest'
  BY <1>4, <1>7, IdleFits, Generations
<1>9. y \in Task
  <2>1. "set" \in Phases
    BY DEF Phases
  <2> QED
    BY <1>1, <1>8, <2>1, TaskUpdates
<1>10. /\ y.view = x.view /\ y.in = x.in /\ y.fresh = x.fresh /\ y.floorThen = x.floorThen
       /\ y.seenThen = x.seenThen /\ y.warned = x.warned /\ y.gen = g
  BY <1>1 DEF Task
<1>11. ledger.state = "good" => g > ledger.mark
  BY <1>4
<1> HIDE DEF y
<1> QED
  BY <1>1, <1>2, <1>4, <1>5, <1>6, <1>7, <1>8, <1>9, <1>10, <1>11

LEMMA ClaimTypes ==
  ASSUME TypeInv, NEW t \in Tasks, Claim(t)
  PROVE  TypeInv'
<1>1. UNCHANGED <<storage, ledger, holders, session, issues, env, seen>>
  BY DEF Claim
<1>2. CASE ~Open(t)
  BY <1>1, <1>2, IdleFits, QuietStorage, QuietLedger, TaskStepTypes DEF Claim, Fail
<1>3. CASE Open(t)
  <2>1. PICK y \in Task : /\ Become(t, y) /\ y.pc = "set" /\ y.op = tasks[t].op /\ y.op # "load"
                          /\ y.in = tasks[t].in /\ y.seenThen = tasks[t].seenThen
                          /\ y.gen <= Newest' /\ Newest' = Newest + 1
                          /\ Pending' = Pending \ {t}
    BY <1>3, ClaimValue
  <2>2. tasks' = [tasks EXCEPT ![t] = y] /\ tasks \in [Tasks -> Task]
    BY <2>1 DEF Become, TypeInv, TypeOK
  <2>3. tasks' \in [Tasks -> Task] /\ tasks'[t] = y /\ \A u \in Tasks \ {t} : tasks'[u] = tasks[u]
    BY <2>2
  <2>4. IsFiniteSet(Pending') /\ Cardinality(Pending') <= spent'.saves /\ Newest \in Nat
    BY <1>1, <2>1, BudgetKept DEF env
  <2>5. /\ \A b \in Blobs : b.gen \in Int
        /\ \A x \in Task : x.gen \in Int /\ x.in.mark \in Int /\ x.seenThen \in Int
        /\ \A l \in L!Ledgers : l.mark \in Int
        /\ seen \in Int
    BY Generations DEF Blobs, Task, L!Ledgers, TypeInv, TypeOK
  <2>6. \A b \in past' : b.gen <= Newest'
    BY <1>1, <2>1, <2>4, <2>5 DEF TypeInv, TypeOK, GensAreBudgeted, GensUpTo, storage
  <2>7. ledger'.mark <= Newest' /\ seen' <= Newest'
    BY <1>1, <2>1, <2>4, <2>5 DEF TypeInv, TypeOK, GensAreBudgeted, GensUpTo
  <2>8. \A u \in Tasks : tasks[u].gen <= Newest' /\ tasks[u].in.mark <= Newest' /\ tasks[u].seenThen <= Newest'
    <3>1. \A u \in Tasks : tasks[u].gen <= Newest /\ tasks[u].in.mark <= Newest /\ tasks[u].seenThen <= Newest
      BY DEF TypeInv, GensAreBudgeted, GensUpTo
    <3> QED
      BY <2>1, <2>2, <2>4, <2>5, <3>1
  <2>9. \A u \in Tasks : tasks'[u].gen <= Newest' /\ tasks'[u].in.mark <= Newest' /\ tasks'[u].seenThen <= Newest'
    BY <2>1, <2>3, <2>8
  <2>10. GensAreBudgeted'
    BY <1>1, <2>4, <2>6, <2>7, <2>9 DEF GensAreBudgeted, GensUpTo, storage, TypeInv
  <2>11. SaversMutate'
    BY <2>1, <2>3 DEF SaversMutate, MaySave, TypeInv
  <2>12. TypeOK'
    BY <1>1, <2>3 DEF TypeInv, TypeOK, storage, env
  <2> QED
    BY <2>10, <2>11, <2>12 DEF TypeInv
<1> QED
  BY <1>2, <1>3

LEMMA SetValue ==
  ASSUME TypeInv, NEW t \in Tasks, Set(t), Open(t)
  PROVE  LET x == tasks[t] IN
         \E y \in Task :
           /\ Become(t, y) /\ Keeps(y, x) /\ y.pc = "mark" /\ y.view = x.view
           /\ blob' = [sealed |-> TRUE, gen |-> x.gen, contacts |-> x.view]
           /\ past' = past \cup {blob'}
<1> DEFINE x == tasks[t]
           y == [x EXCEPT !.pc = "mark"]
<1>1. x \in Task
  BY DEF TypeInv, TypeOK
<1>2. y \in Task /\ Keeps(y, x) /\ y.pc = "mark" /\ y.view = x.view
  BY <1>1 DEF Task, Keeps, Phases, Waiting
<1>3. Become(t, y) /\ blob' = [sealed |-> TRUE, gen |-> x.gen, contacts |-> x.view]
      /\ past' = past \cup {blob'}
  BY DEF Set, GoTo
<1> HIDE DEF y
<1> QED
  BY <1>2, <1>3

LEMMA SetTypes ==
  ASSUME TypeInv, NEW t \in Tasks, Set(t)
  PROVE  TypeInv'
<1> DEFINE x == tasks[t]
<1>1. x \in Task /\ x.pc = "set" /\ x.op # "load" /\ x.gen <= Newest
  BY DEF TypeInv, TypeOK, Set, SaversMutate, MaySave, GensAreBudgeted, GensUpTo
<1>2. UNCHANGED <<ledger, holders, session, issues, env, seen>>
  BY DEF Set
<1>3. CASE ~Open(t)
  BY <1>2, <1>3, IdleFits, QuietStorage, QuietLedger, TaskStepTypes DEF Set, Fail
<1>4. CASE Open(t)
  <2>1. PICK y \in Task :
          /\ Become(t, y) /\ Keeps(y, x) /\ y.pc = "mark"
          /\ blob' = [sealed |-> TRUE, gen |-> x.gen, contacts |-> x.view]
          /\ past' = past \cup {blob'}
    BY <1>4, SetValue
  <2>2. blob' \in Blobs /\ blob'.gen = x.gen
    BY <1>1, <2>1 DEF Blobs, Task
  <2>3. blob' \in past' /\ past' \subseteq Blobs /\ \A b \in past' : b.gen <= Newest
    BY <1>1, <2>1, <2>2 DEF TypeInv, TypeOK, GensAreBudgeted, GensUpTo
  <2>4. Fits(y, t)
    BY <1>1, <2>1, KeepsFits DEF MaySave, Keeps
  <2> QED
    BY <1>2, <2>1, <2>3, <2>4, QuietLedger, TaskStepTypes
<1> QED
  BY <1>3, <1>4

LEMMA StartValue ==
  ASSUME TypeInv, NEW t \in Tasks, NEW op \in Changes \cup {"load"}, NEW id \in Ids, Start(t, op, id)
  PROVE  \E y \in Task : /\ Become(t, y) /\ y.pc = "get" /\ y.op = op /\ y.gen = 0
                         /\ y.in = L!AbsentLedger /\ y.floorThen = ledger.floor /\ y.seenThen = seen
<1> DEFINE y == [[[[[IdleTask EXCEPT !.pc = "get"] EXCEPT !.op = op] EXCEPT !.id = id]
                  EXCEPT !.floorThen = ledger.floor] EXCEPT !.seenThen = seen]
<1>1. IdleTask \in Task /\ IdleTask.gen = 0 /\ IdleTask.in = L!AbsentLedger
  BY IdleTaskType
<1>2. Become(t, y)
  BY DEF Start
<1>3. "get" \in Phases /\ ledger.floor \in SUBSET Ids /\ seen \in L!Generation
  BY DEF Phases, TypeInv, TypeOK, L!Ledgers
<1>4. y \in Task
  BY <1>1, <1>3, TaskUpdates
<1>5. /\ y.pc = "get" /\ y.op = op /\ y.gen = 0 /\ y.in = L!AbsentLedger
      /\ y.floorThen = ledger.floor /\ y.seenThen = seen
  BY <1>1 DEF Task
<1> HIDE DEF y
<1> QED
  BY <1>2, <1>4, <1>5

LEMMA StartTypes ==
  ASSUME TypeInv, NEW t \in Tasks, NEW op \in Changes \cup {"load"}, NEW id \in Ids, Start(t, op, id)
  PROVE  TypeInv'
<1>1. PICK y \in Task : /\ Become(t, y) /\ y.pc = "get" /\ y.op = op /\ y.gen = 0
                        /\ y.in = L!AbsentLedger /\ y.seenThen = seen
  BY StartValue
<1>2. /\ UNCHANGED <<storage, ledger, holders, session, issues, now, seen>>
      /\ spent' = [spent EXCEPT !.saves = IF op = "load" THEN @ ELSE @ + 1]
      /\ tasks[t].pc = "idle" /\ (op # "load" => spent.saves < MaxSaves)
  BY DEF Start
<1>3. tasks' = [tasks EXCEPT ![t] = y] /\ tasks \in [Tasks -> Task]
  BY <1>1 DEF Become, TypeInv, TypeOK
<1>4. tasks' \in [Tasks -> Task] /\ tasks'[t] = y /\ \A u \in Tasks \ {t} : tasks'[u] = tasks[u]
  BY <1>3
<1>5. spent' \in [saves : 0 .. MaxSaves, locks : 0 .. MaxLocks, closes : 0 .. MaxCloses,
                  copies : 0 .. MaxCopies, gone : 0 .. MaxGone]
      /\ spent'.saves = IF op = "load" THEN spent.saves ELSE spent.saves + 1
  BY <1>2, BoundsAssumption DEF TypeInv, TypeOK
<1>6. IsFiniteSet(Pending') /\ Cardinality(Pending') <= spent'.saves /\ Newest <= Newest' /\ Newest' \in Nat
      /\ Newest \in Nat
  <2>1. CASE op = "load"
    <3>1. Pending' \subseteq Pending
      BY <1>1, <1>4, <2>1 DEF Pending
    <3> QED
      BY <1>5, <2>1, <3>1, BudgetKept
  <2>2. CASE op # "load" /\ t \in Pending
    <3>1. Pending' = Pending
      BY <1>1, <1>4, <2>2 DEF Pending
    <3>2. Cardinality(Pending) \in Nat /\ IsFiniteSet(Pending) /\ Cardinality(Pending) <= spent.saves
          /\ spent.saves \in 0 .. MaxSaves
      BY FS_CardinalityType DEF TypeInv, GensAreBudgeted, TypeOK
    <3> QED
      BY <1>5, <2>2, <3>1, <3>2, BoundsAssumption DEF Newest
  <2>3. CASE op # "load" /\ t \notin Pending
    <3>1. Pending' = Pending \cup {t}
      BY <1>1, <1>4, <2>3 DEF Pending
    <3> QED
      BY <1>2, <1>5, <2>3, <3>1, BudgetBegun
  <2> QED
    BY <2>1, <2>2, <2>3
<1>7. /\ \A b \in Blobs : b.gen \in Int
      /\ \A x \in Task : x.gen \in Int /\ x.in.mark \in Int /\ x.seenThen \in Int
      /\ \A l \in L!Ledgers : l.mark \in Int
      /\ seen \in Int /\ L!AbsentLedger.mark = -1
  BY Generations DEF Blobs, Task, L!Ledgers, TypeInv, TypeOK, L!AbsentLedger, L!EmptyLedger
<1>8. \A b \in past' : b.gen <= Newest'
  BY <1>2, <1>6, <1>7 DEF TypeInv, TypeOK, GensAreBudgeted, GensUpTo, storage
<1>9. ledger'.mark <= Newest' /\ seen' <= Newest'
  BY <1>2, <1>6, <1>7 DEF TypeInv, TypeOK, GensAreBudgeted, GensUpTo
<1>10. \A u \in Tasks : tasks[u].gen <= Newest' /\ tasks[u].in.mark <= Newest' /\ tasks[u].seenThen <= Newest'
  <2>1. \A u \in Tasks : tasks[u].gen <= Newest /\ tasks[u].in.mark <= Newest /\ tasks[u].seenThen <= Newest
    BY DEF TypeInv, GensAreBudgeted, GensUpTo
  <2> QED
    BY <1>3, <1>6, <1>7, <2>1
<1>11. y.gen <= Newest' /\ y.in.mark <= Newest' /\ y.seenThen <= Newest'
  BY <1>1, <1>2, <1>6, <1>7, <1>9
<1>12. GensAreBudgeted'
  BY <1>2, <1>4, <1>6, <1>8, <1>9, <1>10, <1>11 DEF GensAreBudgeted, GensUpTo, storage, TypeInv
<1>13. SaversMutate'
  BY <1>1, <1>4 DEF SaversMutate, MaySave, TypeInv
<1>14. TypeOK'
  BY <1>2, <1>4, <1>5 DEF TypeInv, TypeOK, storage
<1> QED
  BY <1>12, <1>13, <1>14 DEF TypeInv

\* What the device, the user and the window do leaves the budget alone.
LEMMA DeviceTypes ==
  ASSUME TypeInv, ClockMoves \/ LedgerGone \/ OlderCopy
  PROVE  TypeInv'
<1>1. CASE ClockMoves
  <2>1. now' \in 1 .. MaxTime
    BY <1>1 DEF ClockMoves
  <2>2. UNCHANGED <<blob, past, ledger, holders, session, issues, tasks, spent, seen>>
    BY <1>1 DEF ClockMoves, storage
  <2> QED
    BY <2>1, <2>2 DEF TypeInv, TypeOK, SaversMutate, GensAreBudgeted, GensUpTo, Newest, Pending
<1>2. CASE LedgerGone
  <2>1. ledger' \in {L!AbsentLedger, L!JunkLedger} /\ spent' = [spent EXCEPT !.gone = @ + 1]
        /\ spent.gone < MaxGone
        /\ UNCHANGED <<blob, past, holders, session, issues, tasks, now, seen>>
    BY <1>2 DEF LedgerGone, storage
  <2>2. ledger' \in L!Ledgers /\ ledger'.mark = -1
    BY <2>1, LedgerValues DEF L!AbsentLedger, L!JunkLedger, L!EmptyLedger, L!Unmarked
  <2>3. spent' \in [saves : 0 .. MaxSaves, locks : 0 .. MaxLocks, closes : 0 .. MaxCloses,
                    copies : 0 .. MaxCopies, gone : 0 .. MaxGone] /\ spent'.saves = spent.saves
    BY <2>1, BoundsAssumption DEF TypeInv, TypeOK
  <2>4. Pending' = Pending /\ Newest' = Newest /\ Newest \in Nat
    BY <2>1, <2>3, IdleFits, BudgetKept DEF Pending, Newest
  <2> QED
    BY <2>1, <2>2, <2>3, <2>4 DEF TypeInv, TypeOK, SaversMutate, GensAreBudgeted, GensUpTo
<1>3. CASE OlderCopy
  <2>1. blob' \in past /\ spent' = [spent EXCEPT !.copies = @ + 1] /\ spent.copies < MaxCopies
        /\ UNCHANGED <<past, ledger, holders, session, issues, tasks, now, seen>>
    BY <1>3 DEF OlderCopy
  <2>2. spent' \in [saves : 0 .. MaxSaves, locks : 0 .. MaxLocks, closes : 0 .. MaxCloses,
                    copies : 0 .. MaxCopies, gone : 0 .. MaxGone] /\ spent'.saves = spent.saves
    BY <2>1, BoundsAssumption DEF TypeInv, TypeOK
  <2>3. Pending' = Pending /\ Newest' = Newest
    BY <2>1, <2>2 DEF Pending, Newest
  <2> QED
    BY <2>1, <2>2, <2>3 DEF TypeInv, TypeOK, SaversMutate, GensAreBudgeted, GensUpTo
<1> QED
  BY <1>1, <1>2, <1>3

LEMMA WindowTypes ==
  ASSUME TypeInv, NEW w \in Windows, MasterLock(w) \/ Unlock(w)
  PROVE  TypeInv'
<1>1. UNCHANGED <<blob, past, ledger, holders, issues, tasks, now, seen>>
  BY DEF MasterLock, Unlock, storage, env
<1>2. session' \in [Windows -> BOOLEAN]
  BY DEF MasterLock, Unlock, TypeInv, TypeOK
<1>3. spent' \in [saves : 0 .. MaxSaves, locks : 0 .. MaxLocks, closes : 0 .. MaxCloses,
                  copies : 0 .. MaxCopies, gone : 0 .. MaxGone] /\ spent'.saves = spent.saves
  BY BoundsAssumption DEF MasterLock, Unlock, env, TypeInv, TypeOK
<1>4. Pending' = Pending /\ Newest' = Newest
  BY <1>1, <1>3 DEF Pending, Newest
<1> QED
  BY <1>1, <1>2, <1>3, <1>4 DEF TypeInv, TypeOK, SaversMutate, GensAreBudgeted, GensUpTo

LEMMA CloseTypes ==
  ASSUME TypeInv, NEW w \in Windows, Close(w)
  PROVE  TypeInv'
<1>1. UNCHANGED <<blob, past, ledger, now, seen>>
  BY DEF Close, storage
<1>2. spent' \in [saves : 0 .. MaxSaves, locks : 0 .. MaxLocks, closes : 0 .. MaxCloses,
                  copies : 0 .. MaxCopies, gone : 0 .. MaxGone] /\ spent'.saves = spent.saves
  BY BoundsAssumption DEF Close, TypeInv, TypeOK
<1>3. tasks' = [t \in Tasks |-> IF WindowOf[t] = w THEN IdleTask ELSE tasks[t]]
  BY DEF Close
<1>4. tasks' \in [Tasks -> Task] /\ \A t \in Tasks : tasks'[t] = IdleTask \/ tasks'[t] = tasks[t]
  BY <1>3, IdleTaskType DEF TypeInv, TypeOK
<1>5. Pending' \subseteq Pending
  BY <1>4, IdleTaskType DEF Pending
<1>6. /\ IsFiniteSet(Pending') /\ Cardinality(Pending') <= spent'.saves
      /\ Newest \in Nat /\ Newest' \in Nat /\ Newest <= Newest'
  BY <1>2, <1>5, BudgetKept
<1>7. /\ \A b \in Blobs : b.gen \in Int
      /\ \A x \in Task : x.gen \in Int /\ x.in.mark \in Int /\ x.seenThen \in Int
      /\ \A l \in L!Ledgers : l.mark \in Int
      /\ seen \in Int
  BY Generations DEF Blobs, Task, L!Ledgers, TypeInv, TypeOK
<1>8. \A b \in past' : b.gen <= Newest'
  BY <1>1, <1>6, <1>7 DEF TypeInv, TypeOK, GensAreBudgeted, GensUpTo
<1>9. ledger'.mark <= Newest' /\ seen' <= Newest'
  BY <1>1, <1>6, <1>7 DEF TypeInv, TypeOK, GensAreBudgeted, GensUpTo
<1>10. \A t \in Tasks : tasks[t].gen <= Newest' /\ tasks[t].in.mark <= Newest' /\ tasks[t].seenThen <= Newest'
  <2>1. \A t \in Tasks : tasks[t].gen <= Newest /\ tasks[t].in.mark <= Newest /\ tasks[t].seenThen <= Newest
    BY DEF TypeInv, GensAreBudgeted, GensUpTo
  <2>2. \A t \in Tasks : tasks[t] \in Task
    BY DEF TypeInv, TypeOK
  <2> QED
    BY <1>6, <1>7, <2>1, <2>2
<1>11. IdleTask.gen <= Newest' /\ IdleTask.in.mark <= Newest' /\ IdleTask.seenThen <= Newest'
  BY <1>6, IdleTaskType DEF L!AbsentLedger, L!EmptyLedger, L!Unmarked
<1>12. GensAreBudgeted'
  BY <1>1, <1>4, <1>6, <1>8, <1>9, <1>10, <1>11 DEF GensAreBudgeted, GensUpTo, TypeInv
<1>13. SaversMutate'
  BY <1>4, IdleTaskType DEF SaversMutate, MaySave, TypeInv
<1>14. TypeOK'
  <2>1. holders' \subseteq Tasks /\ issues' \in [Windows -> SUBSET IssueKinds]
        /\ session' \in [Windows -> BOOLEAN]
    BY DEF Close, TypeInv, TypeOK
  <2> QED
    BY <1>1, <1>2, <1>4, <2>1 DEF TypeInv, TypeOK
<1> QED
  BY <1>12, <1>13, <1>14 DEF TypeInv

\* Dismissing a lost ledger starts the history again, for every call under way.
LEMMA DismissTypes ==
  ASSUME TypeInv, NothingIsHeld, NEW w \in Windows, Dismiss(w)
  PROVE  TypeInv'
<1>1. UNCHANGED <<blob, past, holders, session, now, spent>>
  BY DEF Dismiss, storage, env
<1>2. ledger' \in L!Ledgers /\ ledger'.mark = ledger.mark
  <2>1. ledger \in L!Ledgers /\ ledger.suspect = L!NotHeld
    BY DEF TypeInv, TypeOK, NothingIsHeld
  <2>2. ledger' = L!Acknowledge(ledger) \/ ledger' = ledger
    BY DEF Dismiss
  <2> QED
    BY <2>1, <2>2, DismissedLedger
<1>3. /\ seen' \in {seen, 0}
      /\ tasks' \in [Tasks -> Task]
      /\ \A t \in Tasks : /\ tasks'[t].pc = tasks[t].pc /\ tasks'[t].op = tasks[t].op
                          /\ tasks'[t].gen = tasks[t].gen /\ tasks'[t].in = tasks[t].in
                          /\ tasks'[t].seenThen \in {tasks[t].seenThen, -1}
  <2>1. CASE UNCHANGED <<tasks, seen>>
    BY <2>1 DEF TypeInv, TypeOK
  <2>2. CASE /\ seen' = 0
             /\ tasks' = [t \in Tasks |-> [tasks[t] EXCEPT !.seenThen = L!Unmarked]]
    <3>1. \A x \in Task : [x EXCEPT !.seenThen = L!Unmarked] \in Task
      BY TaskUpdates
    <3>2. \A x \in Task : LET y == [x EXCEPT !.seenThen = L!Unmarked] IN
            y.pc = x.pc /\ y.op = x.op /\ y.gen = x.gen /\ y.in = x.in /\ y.seenThen = -1
      BY Generations DEF Task
    <3>3. \A t \in Tasks : tasks[t] \in Task
      BY DEF TypeInv, TypeOK
    <3> QED
      BY <2>2, <3>1, <3>2, <3>3
  <2> QED
    BY <2>1, <2>2 DEF Dismiss
<1>4. Pending' = Pending /\ Newest' = Newest /\ Newest \in Nat
  BY <1>1, <1>3, IdleFits, BudgetKept DEF Pending, Newest
<1>5. GensAreBudgeted'
  BY <1>1, <1>2, <1>3, <1>4 DEF TypeInv, GensAreBudgeted, GensUpTo
<1>6. SaversMutate'
  BY <1>3 DEF TypeInv, SaversMutate, MaySave
<1>7. TypeOK'
  <2>1. issues' \in [Windows -> SUBSET IssueKinds]
    BY DEF Dismiss, TypeInv, TypeOK
  <2> QED
    BY <1>1, <1>2, <1>3, <2>1, Generations DEF TypeInv, TypeOK
<1> QED
  BY <1>5, <1>6, <1>7 DEF TypeInv

-----------------------------------------------------------------------------
(* The ledger's lock *)

LEMMA IdleTaskLedger ==
  IdleTask.in.suspect = L!NotHeld /\ IdleTask.in.mark = -1
BY IdleTaskType DEF L!AbsentLedger, L!EmptyLedger, L!Unmarked

\* A step of a call that does not hold the lock.
LEMMA OutsideLock ==
  ASSUME TypeInv, LockInv, NEW t \in Tasks, t \notin holders, NEW y \in Task, Become(t, y),
         y.in.suspect = L!NotHeld, UNCHANGED <<ledger, holders, session>>,
         spent'.locks = spent.locks, spent'.gone = spent.gone,
         y.pc # "idle" => tasks[t].pc # "idle" \/ Open(t)
  PROVE  LockInv'
<1>1. tasks' = [tasks EXCEPT ![t] = y] /\ tasks \in [Tasks -> Task] /\ holders \subseteq Tasks
  BY DEF Become, TypeInv, TypeOK
<1>2. tasks'[t] = y /\ \A u \in Tasks \ {t} : tasks'[u] = tasks[u]
  BY <1>1
<1>3. \A u \in holders : tasks'[u] = tasks[u]
  BY <1>1, <1>2
<1>4. HolderIsWaiting' /\ OneHolder' /\ NothingIsHeld' /\ LostIsEmpty' /\ HolderKnowsLedger'
  BY <1>1, <1>2, <1>3
  DEF LockInv, HolderIsWaiting, OneHolder, NothingIsHeld, LostIsEmpty, HolderKnowsLedger
<1>5. ASSUME Unlocked' PROVE CallsAreOpen' /\ ReplacedIsLost'
  <2>1. CallsAreOpen /\ ReplacedIsLost
    BY <1>5 DEF LockInv, Unlocked
  <2>2. CallsAreOpen'
    BY <1>2, <2>1 DEF CallsAreOpen, Open
  <2>3. ReplacedIsLost'
    BY <1>3, <2>1 DEF ReplacedIsLost
  <2> QED
    BY <2>2, <2>3
<1> QED
  BY <1>4, <1>5 DEF LockInv

\* A step that leaves every call alone, or ends it.
LEMMA OutsideSteps ==
  ASSUME TypeInv, LockInv, NEW t \in Tasks,
         \/ Get(t) \/ NoteAbsent(t) \/ PeekFloor(t) \/ SkipLedger(t)
         \/ Claim(t) \/ Set(t) \/ Finish(t)
  PROVE  LockInv'
<1> DEFINE x == tasks[t]
<1>1. UNCHANGED <<ledger, holders, session, spent>> /\ x.pc # "idle" /\ t \notin holders
  BY DEF Get, NoteAbsent, PeekFloor, SkipLedger, Claim, Set, Finish, env, Waiting, Inside,
         LockInv, HolderIsWaiting
<1>2. x.in.suspect = L!NotHeld
  BY DEF LockInv, NothingIsHeld
<1>3. \E y \in Task : Become(t, y) /\ (y = IdleTask \/ y.in = x.in)
  <2>1. CASE Get(t)
    BY <2>1, GetValue DEF Keeps
  <2>2. CASE NoteAbsent(t)
    BY <2>2, NoteAbsentValue
  <2>3. CASE PeekFloor(t)
    BY <2>3, PeekFloorValue DEF Keeps
  <2>4. CASE SkipLedger(t)
    <3>1. After(t) \in Task /\ After(t).in = x.in /\ Become(t, After(t))
      BY <2>4, AfterValue DEF SkipLedger, Keeps, TypeInv
    <3> QED
      BY <3>1
  <2>5. CASE Claim(t)
    <3>1. CASE Open(t)
      BY <2>5, <3>1, ClaimValue
    <3>2. CASE ~Open(t)
      BY <2>5, <3>2, IdleTaskType DEF Claim, Fail
    <3> QED
      BY <3>1, <3>2
  <2>6. CASE Set(t)
    <3>1. CASE Open(t)
      BY <2>6, <3>1, SetValue DEF Keeps
    <3>2. CASE ~Open(t)
      BY <2>6, <3>2, IdleTaskType DEF Set, Fail
    <3> QED
      BY <3>1, <3>2
  <2>7. CASE Finish(t)
    BY <2>7, IdleTaskType DEF Finish, Fail
  <2> QED
    BY <2>1, <2>2, <2>3, <2>4, <2>5, <2>6, <2>7
<1>4. PICK y \in Task : Become(t, y) /\ (y = IdleTask \/ y.in = x.in)
  BY <1>3
<1>5. y.in.suspect = L!NotHeld
  BY <1>2, <1>4, IdleTaskLedger
<1> QED
  BY <1>1, <1>4, <1>5, OutsideLock

LEMMA StartLock ==
  ASSUME TypeInv, LockInv, NEW t \in Tasks, NEW op \in Changes \cup {"load"}, NEW id \in Ids,
         Start(t, op, id)
  PROVE  LockInv'
<1>1. PICK y \in Task : Become(t, y) /\ y.in = L!AbsentLedger
  BY StartValue
<1>2. y.in.suspect = L!NotHeld
  BY <1>1, IdleTaskLedger, IdleTaskType
<1>3. t \notin holders
  BY DEF Start, LockInv, HolderIsWaiting, Waiting
<1>4. UNCHANGED <<ledger, holders, session>> /\ Open(t)
  BY DEF Start
<1>5. spent'.locks = spent.locks /\ spent'.gone = spent.gone
  BY DEF Start, TypeInv, TypeOK
<1> QED
  BY <1>1, <1>2, <1>3, <1>4, <1>5, OutsideLock

LEMMA EnterLock ==
  ASSUME TypeInv, LockInv, NEW t \in Tasks, EnterLedger(t)
  PROVE  LockInv'
<1> DEFINE x == tasks[t]
<1>1. PICK y \in Task : /\ Become(t, y) /\ y.pc = x.pc /\ y.in = Read(t)
                        /\ y.fresh = (Found(t) # "good")
  BY EnterValue
<1>2. /\ x.pc \in Waiting /\ holders = {} /\ holders' = {t}
      /\ UNCHANGED <<ledger, session, spent>>
  BY DEF EnterLedger, LockFree, env
<1>3. tasks' = [tasks EXCEPT ![t] = y] /\ tasks \in [Tasks -> Task]
  BY <1>1 DEF Become, TypeInv, TypeOK
<1>4. tasks'[t] = y /\ \A u \in Tasks \ {t} : tasks'[u] = tasks[u]
  BY <1>3
<1>5. /\ Read(t).state = "good" /\ Read(t).suspect = L!NotHeld
      /\ Found(t) = "good" => Read(t) = ledger
  BY ReadValue DEF LockInv, NothingIsHeld
<1>6. HolderIsWaiting' /\ OneHolder'
  BY <1>1, <1>2, <1>4, <1>5 DEF HolderIsWaiting, OneHolder
<1>7. NothingIsHeld' /\ LostIsEmpty' /\ HolderKnowsLedger'
  BY <1>1, <1>2, <1>4, <1>5 DEF LockInv, NothingIsHeld, LostIsEmpty, HolderKnowsLedger
<1>8. ASSUME Unlocked' PROVE CallsAreOpen' /\ ReplacedIsLost'
  <2>1. CallsAreOpen
    BY <1>2, <1>8 DEF LockInv, Unlocked
  <2>2. Open(t)
    BY <1>2, <2>1 DEF CallsAreOpen, Waiting
  <2>3. Found(t) = ledger.state
    BY <2>2 DEF Found
  <2>4. ReplacedIsLost'
    BY <1>1, <1>2, <1>4, <2>3 DEF ReplacedIsLost
  <2>5. CallsAreOpen'
    BY <1>2, <1>4, <2>1, <2>2 DEF CallsAreOpen, Open
  <2> QED
    BY <2>4, <2>5
<1> QED
  BY <1>6, <1>7, <1>8 DEF LockInv

LEMMA LeaveLock ==
  ASSUME TypeInv, LockInv, NEW t \in Tasks, LeaveLedger(t)
  PROVE  LockInv'
<1> DEFINE x == tasks[t]
<1>1. PICK y \in Task : Become(t, y) /\ x.pc \in Waiting /\ y.in = x.in
  BY LeaveValue
<1>2. t \in holders /\ holders' = {} /\ UNCHANGED <<session, spent>>
  BY DEF LeaveLedger, Inside, Release, LockInv, OneHolder, env
<1>3. tasks' = [tasks EXCEPT ![t] = y] /\ tasks \in [Tasks -> Task]
  BY <1>1 DEF Become, TypeInv, TypeOK
<1>4. tasks'[t] = y /\ \A u \in Tasks \ {t} : tasks'[u] = tasks[u]
  BY <1>3
<1>5. \/ ledger' = ledger
      \/ ledger'.state = "good" /\ ledger'.suspect = L!NotHeld
  <2>1. Updated(t).state = x.in.state /\ Updated(t).suspect = x.in.suspect
    BY <1>1, UpdatedValue
  <2>2. x.in.state = "good" /\ x.in.suspect = L!NotHeld
    BY <1>2 DEF LockInv, HolderIsWaiting, NothingIsHeld
  <2> QED
    BY <2>1, <2>2 DEF LeaveLedger
<1>6. HolderIsWaiting' /\ OneHolder' /\ HolderKnowsLedger' /\ ReplacedIsLost'
  BY <1>2 DEF HolderIsWaiting, OneHolder, HolderKnowsLedger, ReplacedIsLost
<1>7. NothingIsHeld' /\ LostIsEmpty'
  BY <1>1, <1>4, <1>5 DEF LockInv, NothingIsHeld, LostIsEmpty
<1>8. Unlocked' => CallsAreOpen'
  BY <1>1, <1>2, <1>4 DEF LockInv, Unlocked, CallsAreOpen, Open, Waiting
<1> QED
  BY <1>6, <1>7, <1>8 DEF LockInv

LEMMA DeviceLock ==
  ASSUME TypeInv, LockInv, ClockMoves \/ LedgerGone \/ OlderCopy
  PROVE  LockInv'
<1>1. UNCHANGED <<holders, session, tasks>> /\ spent'.locks = spent.locks
  BY DEF ClockMoves, LedgerGone, OlderCopy, TypeInv, TypeOK
<1>2. spent.gone \in Nat /\ spent'.gone \in Nat /\ spent.gone <= spent'.gone
  BY BoundsAssumption DEF ClockMoves, LedgerGone, OlderCopy, TypeInv, TypeOK
<1>3. \/ ledger' = ledger
      \/ /\ ledger'.state # "good" /\ spent'.gone > 0 /\ ledger'.suspect = L!NotHeld
         /\ ledger'.mark = L!Unmarked /\ ledger'.floor = {} /\ ledger'.lost = "none"
  <2>1. CASE LedgerGone
    <3>1. ledger' \in {L!AbsentLedger, L!JunkLedger} /\ spent'.gone > 0
      BY <2>1, BoundsAssumption DEF LedgerGone, TypeInv, TypeOK
    <3> QED
      BY <3>1 DEF L!AbsentLedger, L!JunkLedger, L!EmptyLedger
  <2> QED
    BY <2>1 DEF ClockMoves, OlderCopy
<1>4. HolderIsWaiting' /\ OneHolder' /\ NothingIsHeld' /\ LostIsEmpty'
  BY <1>1, <1>3 DEF LockInv, HolderIsWaiting, OneHolder, NothingIsHeld, LostIsEmpty
<1>5. Unlocked' => CallsAreOpen'
  BY <1>1 DEF LockInv, Unlocked, CallsAreOpen, Open
<1>6. HolderKnowsLedger' /\ (Unlocked' => ReplacedIsLost')
  BY <1>1, <1>2, <1>3 DEF LockInv, Unlocked, HolderKnowsLedger, ReplacedIsLost
<1> QED
  BY <1>4, <1>5, <1>6 DEF LockInv

LEMMA WindowLock ==
  ASSUME TypeInv, LockInv, NEW w \in Windows, MasterLock(w) \/ Unlock(w)
  PROVE  LockInv'
<1>1. UNCHANGED <<ledger, holders, tasks>> /\ spent'.gone = spent.gone
  BY DEF MasterLock, Unlock, env, TypeInv, TypeOK
<1>2. HolderIsWaiting' /\ OneHolder' /\ NothingIsHeld' /\ LostIsEmpty' /\ HolderKnowsLedger'
  BY <1>1 DEF LockInv, HolderIsWaiting, OneHolder, NothingIsHeld, LostIsEmpty, HolderKnowsLedger
<1>3. CASE MasterLock(w)
  <2>1. ~Unlocked'
    BY <1>3 DEF MasterLock, Unlocked, TypeInv, TypeOK
  <2> QED
    BY <1>2, <2>1 DEF LockInv
<1>4. CASE Unlock(w)
  <2>1. spent' = spent /\ session' = [session EXCEPT ![w] = TRUE] /\ session \in [Windows -> BOOLEAN]
    BY <1>4 DEF Unlock, env, TypeInv, TypeOK
  <2>2. \A v \in Windows : session[v] => session'[v]
    BY <2>1
  <2>3. Unlocked' => CallsAreOpen'
    BY <1>1, <2>1, <2>2, TasksAssumption DEF LockInv, Unlocked, CallsAreOpen, Open
  <2>4. Unlocked' => ReplacedIsLost'
    BY <1>1, <2>1 DEF LockInv, Unlocked, ReplacedIsLost
  <2> QED
    BY <1>2, <2>3, <2>4 DEF LockInv
<1> QED
  BY <1>3, <1>4

LEMMA CloseLock ==
  ASSUME TypeInv, LockInv, NEW w \in Windows, Close(w)
  PROVE  LockInv'
<1>1. /\ tasks' = [t \in Tasks |-> IF WindowOf[t] = w THEN IdleTask ELSE tasks[t]]
      /\ holders' = {t \in holders : WindowOf[t] # w}
      /\ session' = [session EXCEPT ![w] = FALSE] /\ ledger' = ledger
  BY DEF Close
<1>2. spent'.locks = spent.locks /\ spent'.gone = spent.gone
  BY DEF Close, TypeInv, TypeOK
<1>3. holders \subseteq Tasks /\ session \in [Windows -> BOOLEAN]
  BY DEF TypeInv, TypeOK
<1>4. \A t \in holders' : t \in holders /\ tasks'[t] = tasks[t]
  BY <1>1, <1>3
<1>5. HolderIsWaiting' /\ OneHolder' /\ LostIsEmpty'
  BY <1>1, <1>4 DEF LockInv, HolderIsWaiting, OneHolder, LostIsEmpty
<1>6. NothingIsHeld'
  BY <1>1, IdleTaskLedger DEF LockInv, NothingIsHeld
<1>7. HolderKnowsLedger' /\ (Unlocked' => ReplacedIsLost')
  BY <1>1, <1>2, <1>4 DEF LockInv, Unlocked, HolderKnowsLedger, ReplacedIsLost
<1>8. ASSUME Unlocked' PROVE CallsAreOpen'
  <2>1. CallsAreOpen
    BY <1>2, <1>8 DEF LockInv, Unlocked
  <2>2. \A t \in Tasks : WindowOf[t] # w => session'[WindowOf[t]] = session[WindowOf[t]]
    BY <1>1, <1>3, TasksAssumption
  <2> QED
    BY <1>1, <2>1, <2>2, IdleTaskType DEF CallsAreOpen, Open
<1> QED
  BY <1>5, <1>6, <1>7, <1>8 DEF LockInv

\* What dismissing does to the calls under way and to the ledger.
LEMMA DismissValue ==
  ASSUME TypeInv, LockInv, NEW w \in Windows, Dismiss(w)
  PROVE  /\ holders = {} /\ UNCHANGED <<storage, holders, session, env>>
         /\ ledger'.state = ledger.state /\ ledger'.mark = ledger.mark
         /\ ledger'.floor = ledger.floor /\ ledger'.suspect = ledger.suspect
         /\ \/ UNCHANGED <<ledger, tasks, seen>>
            \/ seen' = 0 /\ \A t \in Tasks : tasks'[t].seenThen = L!Unmarked
         /\ \A t \in Tasks :
              LET x == tasks[t]
                  y == tasks'[t] IN
              /\ y.pc = x.pc /\ y.op = x.op /\ y.view = x.view /\ y.gen = x.gen /\ y.in = x.in
              /\ y.floorThen = x.floorThen /\ y.fresh = x.fresh /\ y.warned = x.warned
<1>1. holders = {} /\ UNCHANGED <<storage, holders, session, env>>
  BY DEF Dismiss, LockFree
<1>2. /\ ledger'.state = ledger.state /\ ledger'.mark = ledger.mark
      /\ ledger'.floor = ledger.floor /\ ledger'.suspect = ledger.suspect
  <2>1. ledger \in L!Ledgers /\ ledger.suspect = L!NotHeld
    BY DEF TypeInv, TypeOK, LockInv, NothingIsHeld
  <2>2. ledger' = L!Acknowledge(ledger) \/ ledger' = ledger
    BY DEF Dismiss
  <2> QED
    BY <2>1, <2>2, DismissedLedger
<1>3. CASE UNCHANGED <<ledger, tasks, seen>>
  BY <1>1, <1>2, <1>3
<1>4. CASE /\ seen' = 0
           /\ tasks' = [t \in Tasks |-> [tasks[t] EXCEPT !.seenThen = L!Unmarked]]
  <2>1. \A x \in Task : LET y == [x EXCEPT !.seenThen = L!Unmarked] IN
          /\ y.pc = x.pc /\ y.op = x.op /\ y.view = x.view /\ y.gen = x.gen /\ y.in = x.in
          /\ y.floorThen = x.floorThen /\ y.fresh = x.fresh /\ y.warned = x.warned
          /\ y.seenThen = L!Unmarked
    BY DEF Task
  <2>2. \A t \in Tasks : tasks[t] \in Task
    BY DEF TypeInv, TypeOK
  <2> QED
    BY <1>1, <1>2, <1>4, <2>1, <2>2
<1> QED
  BY <1>3, <1>4 DEF Dismiss

LEMMA DismissLock ==
  ASSUME TypeInv, LockInv, NEW w \in Windows, Dismiss(w)
  PROVE  LockInv'
<1>1. /\ holders' = {} /\ UNCHANGED <<session, spent>>
      /\ ledger'.state = ledger.state /\ ledger'.suspect = ledger.suspect
      /\ ledger'.state # "good" => ledger' = ledger
      /\ \A t \in Tasks : tasks'[t].pc = tasks[t].pc /\ tasks'[t].in = tasks[t].in
  BY DismissValue DEF env, Dismiss
<1>2. HolderIsWaiting' /\ OneHolder' /\ HolderKnowsLedger' /\ ReplacedIsLost'
  BY <1>1 DEF HolderIsWaiting, OneHolder, HolderKnowsLedger, ReplacedIsLost
<1>3. NothingIsHeld' /\ LostIsEmpty'
  BY <1>1 DEF LockInv, NothingIsHeld, LostIsEmpty
<1>4. Unlocked' => CallsAreOpen'
  BY <1>1 DEF LockInv, Unlocked, CallsAreOpen, Open
<1> QED
  BY <1>2, <1>3, <1>4 DEF LockInv

LEMMA InitTypeInv == Init => TypeInv /\ LockInv
<1> SUFFICES ASSUME Init PROVE TypeInv /\ LockInv
  OBVIOUS
<1>1. blob \in Blobs /\ blob.gen = 0
  <2>1. \A c \in Contacts : [sealed |-> TRUE, gen |-> 0, contacts |-> c] \in Blobs
    BY Generations DEF Blobs
  <2>2. Absent \in Blobs
    BY Generations, IdleTaskType DEF Absent, Blobs
  <2>3. CASE blob = Absent
    BY <2>2, <2>3 DEF Absent
  <2>4. CASE \E c \in Contacts : blob = [sealed |-> TRUE, gen |-> 0, contacts |-> c]
    BY <2>1, <2>4
  <2> QED
    BY <2>3, <2>4 DEF Init
<1>2. ledger \in {L!EmptyLedger, L!AbsentLedger}
  BY DEF Init
<1>3. /\ ledger \in L!Ledgers /\ ledger.mark = L!Unmarked /\ ledger.floor = {}
      /\ ledger.suspect = L!NotHeld /\ ledger.lost = "none"
  BY <1>2, LedgerValues DEF L!AbsentLedger, L!EmptyLedger
<1>4. tasks \in [Tasks -> Task] /\ \A t \in Tasks : tasks[t] = IdleTask
  BY IdleTaskType DEF Init
<1>5. spent \in [saves : 0 .. MaxSaves, locks : 0 .. MaxLocks, closes : 0 .. MaxCloses,
                 copies : 0 .. MaxCopies, gone : 0 .. MaxGone] /\ spent.saves = 0
  BY BoundsAssumption DEF Init
<1>6. TypeOK
  <2>1. now \in 1 .. MaxTime /\ seen \in L!Generation
    BY BoundsAssumption, Generations DEF Init
  <2>2. /\ past \subseteq Blobs /\ holders \subseteq Tasks
        /\ session \in [Windows -> BOOLEAN] /\ issues \in [Windows -> SUBSET IssueKinds]
    BY <1>1 DEF Init
  <2> QED
    BY <1>1, <1>3, <1>4, <1>5, <2>1, <2>2 DEF TypeOK
<1>7. SaversMutate
  BY <1>4, IdleTaskType DEF SaversMutate, MaySave
<1>8. GensAreBudgeted
  <2>1. Pending = {}
    BY <1>4, IdleTaskType DEF Pending
  <2>2. IsFiniteSet(Pending) /\ Cardinality(Pending) = 0
    BY <2>1, FS_EmptySet
  <2>3. Newest \in Nat
    BY <1>5, <2>2, BoundsAssumption DEF Newest
  <2>4. GensUpTo(Newest)
    BY <1>1, <1>3, <1>4, <2>3, IdleTaskType, IdleTaskLedger, Generations DEF GensUpTo, Init
  <2> QED
    BY <1>5, <2>2, <2>4 DEF GensAreBudgeted, Init
<1>9. LockInv
  <2>1. holders = {} /\ \A w \in Windows : session[w]
    BY DEF Init
  <2>2. NothingIsHeld /\ LostIsEmpty
    BY <1>3, <1>4, IdleTaskLedger DEF NothingIsHeld, LostIsEmpty
  <2> QED
    BY <2>1, <2>2, TasksAssumption
    DEF LockInv, HolderIsWaiting, OneHolder, CallsAreOpen, HolderKnowsLedger, ReplacedIsLost, Open
<1> QED
  BY <1>6, <1>7, <1>8, <1>9 DEF TypeInv

LEMMA NextTypeInv == TypeInv /\ LockInv /\ [Next]_vars => TypeInv' /\ LockInv'
<1> SUFFICES ASSUME TypeInv, LockInv, [Next]_vars PROVE TypeInv' /\ LockInv'
  OBVIOUS
<1>1. ASSUME NEW t \in Tasks, TaskStep(t) PROVE TypeInv' /\ LockInv'
  <2>1. CASE EnterLedger(t)
    BY <2>1, EnterLedgerTypes, EnterLock
  <2>2. CASE LeaveLedger(t)
    BY <2>2, LeaveLedgerTypes, LeaveLock
  <2>3. CASE \/ Get(t) \/ NoteAbsent(t) \/ PeekFloor(t) \/ SkipLedger(t)
             \/ Claim(t) \/ Set(t) \/ Finish(t)
    <3>1. TypeInv'
      BY <2>3, GetTypes, NoteAbsentTypes, PeekFloorTypes, SkipLedgerTypes, ClaimTypes,
         SetTypes, FinishTypes
    <3> QED
      BY <2>3, <3>1, OutsideSteps
  <2> QED
    BY <1>1, <2>1, <2>2, <2>3 DEF TaskStep
<1>2. ASSUME NEW t \in Tasks, NEW op \in Changes \cup {"load"}, NEW id \in Ids, Start(t, op, id)
      PROVE  TypeInv' /\ LockInv'
  BY <1>2, StartTypes, StartLock
<1>3. ASSUME NEW w \in Windows, MasterLock(w) \/ Unlock(w) \/ Close(w) \/ Dismiss(w)
      PROVE  TypeInv' /\ LockInv'
  <2>1. CASE MasterLock(w) \/ Unlock(w)
    BY <2>1, WindowTypes, WindowLock
  <2>2. CASE Close(w)
    BY <2>2, CloseTypes, CloseLock
  <2>3. CASE Dismiss(w)
    BY <2>3, DismissTypes, DismissLock DEF LockInv
  <2> QED
    BY <1>3, <2>1, <2>2, <2>3
<1>4. CASE ClockMoves \/ OlderCopy \/ LedgerGone
  BY <1>4, DeviceTypes, DeviceLock
<1>5. CASE UNCHANGED vars
  <2>1. TypeInv'
    BY <1>5 DEF vars, TypeInv, TypeOK, SaversMutate, GensAreBudgeted, GensUpTo, Newest, Pending
  <2>2. LockInv'
    BY <1>5 DEF vars, LockInv, HolderIsWaiting, OneHolder, NothingIsHeld, LostIsEmpty, Unlocked,
                CallsAreOpen, Open, HolderKnowsLedger, ReplacedIsLost
  <2> QED
    BY <2>1, <2>2
<1> QED
  BY <1>1, <1>2, <1>3, <1>4, <1>5 DEF Next

\* The contacts and the ledger keep their types: every generation stays within
\* the clock and the mutations that claim one (integrity.ts claimGeneration).
THEOREM StoreTypes == Spec => []TypeOK
<1>1. TypeInv => TypeOK
  BY DEF TypeInv
<1> QED
  BY <1>1, InitTypeInv, NextTypeInv, PTL DEF Spec

\* Updates of the ledger exclude each other on the whole device, and the holder
\* of the lock works on the ledger as it is (integrity.ts updateLedger).
THEOREM LedgerLockHolds == Spec => [](TypeInv /\ LockInv)
BY InitTypeInv, NextTypeInv, PTL DEF Spec

-----------------------------------------------------------------------------
(* What the ledger remembers *)

Remembers ==
  ledger.state = "good" /\ ledger'.state = "good" =>
    ledger.floor \subseteq ledger'.floor /\ ledger.mark <= ledger'.mark

\* An update that took the ledger for lost puts an empty one in its place.
Replaces(t) == Inside(t) /\ tasks[t].fresh /\ LeaveLedger(t)

LEMMA StepRemembers ==
  ASSUME TypeInv, LockInv, [Next]_vars, \A t \in Tasks : ~Replaces(t)
  PROVE  Remembers
<1>1. ledger.mark <= ledger.mark
  BY Generations DEF TypeInv, TypeOK, L!Ledgers
<1>2. CASE ledger' = ledger
  BY <1>1, <1>2 DEF Remembers
<1>3. ASSUME NEW t \in Tasks, LeaveLedger(t) PROVE Remembers
  <2>1. tasks[t].pc \in Waiting /\ t \in holders /\ ~tasks[t].fresh
    BY <1>3 DEF LeaveLedger, Inside, Replaces
  <2>2. ledger = tasks[t].in \/ ledger.state # "good"
    BY <2>1 DEF LockInv, HolderKnowsLedger
  <2>3. tasks[t].in.floor \subseteq Updated(t).floor /\ tasks[t].in.mark <= Updated(t).mark
    BY <2>1, UpdatedValue
  <2>4. ledger' = Updated(t) \/ ledger' = ledger
    BY <1>3 DEF LeaveLedger
  <2> QED
    BY <1>1, <2>2, <2>3, <2>4 DEF Remembers
<1>4. ASSUME NEW w \in Windows, Dismiss(w) PROVE Remembers
  BY <1>1, <1>4, DismissValue DEF Remembers
<1>5. CASE LedgerGone
  <2>1. ledger' \in {L!AbsentLedger, L!JunkLedger}
    BY <1>5 DEF LedgerGone
  <2> QED
    BY <2>1 DEF Remembers, L!AbsentLedger, L!JunkLedger, L!EmptyLedger
<1>6. ASSUME NEW t \in Tasks, NEW op \in Changes \cup {"load"}, NEW id \in Ids, Start(t, op, id)
      PROVE  ledger' = ledger
  BY <1>6 DEF Start
<1>7. ASSUME NEW t \in Tasks, TaskStep(t), ~LeaveLedger(t) PROVE ledger' = ledger
  BY <1>7 DEF TaskStep, Get, NoteAbsent, PeekFloor, SkipLedger, EnterLedger, Claim, Set, Finish
<1>8. ASSUME NEW w \in Windows, MasterLock(w) \/ Unlock(w) \/ Close(w) PROVE ledger' = ledger
  BY <1>8 DEF MasterLock, Unlock, Close
<1>9. CASE ClockMoves \/ OlderCopy \/ UNCHANGED vars
  BY <1>2, <1>9 DEF ClockMoves, OlderCopy, vars
<1> QED
  BY <1>2, <1>3, <1>4, <1>5, <1>6, <1>7, <1>8, <1>9 DEF Next

\* Before the first lock, what is replaced was lost.
LEMMA UnlockedRemembers ==
  ASSUME TypeInv, LockInv, [Next]_vars, Unlocked
  PROVE  Remembers
<1>1. CASE \A t \in Tasks : ~Replaces(t)
  BY <1>1, StepRemembers
<1>2. ASSUME NEW t \in Tasks, Replaces(t) PROVE Remembers
  <2>1. ledger.state # "good"
    BY <1>2 DEF Replaces, Inside, LockInv, ReplacedIsLost
  <2> QED
    BY <2>1 DEF Remembers
<1> QED
  BY <1>1, <1>2

\* Only an update that took the ledger for lost makes it forget: whatever is
\* locked, closed, dismissed, rolled back or removed, a call that read the
\* ledger leaves every revocation in it and its mark no lower.
THEOREM OnlyReplacementsForget ==
  Spec => [][(\A t \in Tasks : ~Replaces(t)) => Remembers]_vars
<1>1. TypeInv /\ LockInv /\ [Next]_vars =>
        [(\A t \in Tasks : ~Replaces(t)) => Remembers]_vars
  BY StepRemembers
<1> QED
  BY <1>1, LedgerLockHolds, PTL DEF Spec

\* Until a window is locked the revocations and the mark only ever grow, as
\* integrity.ts:63 says of them.
THEOREM NothingIsForgottenUnlocked ==
  ASSUME MaxLocks = 0
  PROVE  Spec => NothingIsForgotten
<1>1. TypeInv => Unlocked
  BY DEF TypeInv, TypeOK, Unlocked
<1>2. TypeInv /\ LockInv /\ [Next]_vars =>
        [ledger.state = "good" /\ ledger'.state = "good" => ledger.floor \subseteq ledger'.floor]_vars
  BY <1>1, UnlockedRemembers DEF Remembers
<1>3. TypeInv /\ LockInv /\ [Next]_vars =>
        [ledger.state = "good" /\ ledger'.state = "good" => ledger'.mark >= ledger.mark]_vars
  <2> SUFFICES ASSUME TypeInv, LockInv, [Next]_vars, ledger.state = "good", ledger'.state = "good"
               PROVE  ledger'.mark >= ledger.mark
    OBVIOUS
  <2>1. ledger.mark <= ledger'.mark
    BY <1>1, UnlockedRemembers DEF Remembers
  <2>2. ledger.mark \in Int /\ ledger'.mark \in Int
    BY NextTypeInv, Generations DEF TypeInv, TypeOK, L!Ledgers
  <2> QED
    BY <2>1, <2>2
<1>4. Spec => FloorOnlyGrows
  BY <1>2, LedgerLockHolds, PTL DEF Spec, FloorOnlyGrows
<1>5. Spec => MarkOnlyRises
  BY <1>3, LedgerLockHolds, PTL DEF Spec, MarkOnlyRises
<1> QED
  BY <1>4, <1>5 DEF NothingIsForgotten

-----------------------------------------------------------------------------
(* The revocation floor *)

LEMMA InitFloorInv == Init => FloorInv
BY IdleTaskType DEF Init, FloorInv, FloorIsKept, FloorIsApplied, FlooredBlob

\* A step of one call that leaves the ledger's floor or adds to it.
LEMMA TaskStepFloor ==
  ASSUME TypeInv, LockInv, FloorInv, NEW t \in Tasks, NEW y \in Task, Become(t, y),
         Untouched' => Untouched, ledger.floor \subseteq ledger'.floor,
         Untouched' => y.pc = "idle" \/ y.floorThen \subseteq ledger'.floor,
         Untouched' /\ y.pc \in FlooredBlob => \A i \in y.floorThen : y.view[i] # "active"
  PROVE  FloorInv'
<1>1. tasks' = [tasks EXCEPT ![t] = y] /\ tasks \in [Tasks -> Task]
  BY DEF Become, TypeInv, TypeOK
<1>2. tasks'[t] = y /\ \A u \in Tasks \ {t} : tasks'[u] = tasks[u]
  BY <1>1
<1> QED
  BY <1>2 DEF FloorInv, FloorIsKept, FloorIsApplied

LEMMA PeekFloorFloor ==
  ASSUME TypeInv, LockInv, FloorInv, NEW t \in Tasks, PeekFloor(t)
  PROVE  FloorInv'
<1> DEFINE x == tasks[t]
           c == WithFloor(x.view, Peeked(t))
<1>1. PICK y \in Task :
        /\ Become(t, y) /\ Keeps(y, x)
        /\ y.pc \in FlooredBlob => y.view \in {c, Nobody}
  <2>1. x.pc \in {"floor", "floor2"}
    BY DEF PeekFloor
  <2> HIDE DEF c
  <2>2. PICK y \in Task :
          /\ Become(t, y) /\ Keeps(y, x)
          /\ x.pc = "floor" => \/ y.pc = "record" /\ y.view = c
                               \/ y.pc = "done" /\ y.view = c
                               \/ y.pc = "claim" /\ y.view = Nobody
                               \/ y.pc = "floor2"
          /\ x.pc = "floor2" => y.pc \in {"record2", "claim"} /\ y.view = c
    BY PeekFloorValue DEF c
  <2> QED
    BY <2>1, <2>2 DEF FlooredBlob
<1>2. UNCHANGED <<ledger, session, spent>> /\ x.pc # "idle"
  BY DEF PeekFloor, env
<1>3. ASSUME Untouched' PROVE /\ y.floorThen \subseteq ledger.floor
                              /\ y.pc \in FlooredBlob => \A i \in y.floorThen : y.view[i] # "active"
  <2>1. Untouched /\ CallsAreOpen /\ FloorIsKept
    BY <1>2, <1>3 DEF Untouched, Unlocked, LockInv, FloorInv
  <2>2. Peeked(t) = ledger.floor
    BY <1>2, <2>1 DEF Peeked, CallsAreOpen, LockInv, LostIsEmpty
  <2>3. y.floorThen \subseteq ledger.floor /\ y.floorThen \subseteq Ids
    BY <1>1, <1>2, <2>1 DEF FloorIsKept, Keeps, Task
  <2>4. \A i \in ledger.floor : i \in Ids => c[i] # "active" /\ Nobody[i] # "active"
    BY <2>2 DEF WithFloor, Nobody
  <2> QED
    BY <1>1, <2>3, <2>4
<1>4. Untouched' => Untouched
  BY <1>2 DEF Untouched, Unlocked
<1> QED
  BY <1>1, <1>2, <1>3, <1>4, TaskStepFloor

LEMMA OutsideFloor ==
  ASSUME TypeInv, LockInv, FloorInv, NEW t \in Tasks,
         Get(t) \/ NoteAbsent(t) \/ SkipLedger(t) \/ Claim(t) \/ Set(t) \/ Finish(t)
  PROVE  FloorInv'
<1> DEFINE x == tasks[t]
<1>1. UNCHANGED <<ledger, session, spent>> /\ x.pc # "idle"
  BY DEF Get, NoteAbsent, SkipLedger, Claim, Set, Finish, env, Waiting
<1>2. \A i \in Ids : Nobody[i] # "active"
  BY DEF Nobody
<1>3. \A z \in Task : z.floorThen \subseteq Ids
  BY DEF Task
<1>4. \E y \in Task :
        /\ Become(t, y)
        /\ \/ y = IdleTask
           \/ /\ y.floorThen = x.floorThen
              /\ Unlocked => \/ y.pc \notin FlooredBlob
                             \/ y.view = Nobody
                             \/ x.pc \in FlooredBlob /\ y.view = x.view
  <2>1. CASE Get(t)
    <3>1. PICK y \in Task : /\ Become(t, y)
                            /\ \/ y = IdleTask
                               \/ y.floorThen = x.floorThen /\ y.pc \in {"absent", "observe"}
      BY <2>1, GetValue DEF Keeps
    <3> QED
      BY <3>1 DEF FlooredBlob
  <2>2. CASE NoteAbsent(t)
    <3>1. PICK y \in Task : /\ Become(t, y) /\ y.floorThen = x.floorThen
                            /\ y.view = Nobody \/ y.pc = "floor2"
      BY <2>2, NoteAbsentValue
    <3> QED
      BY <3>1 DEF FlooredBlob
  <2>3. CASE SkipLedger(t)
    <3>1. After(t) \in Task /\ After(t).floorThen = x.floorThen /\ Become(t, After(t))
      BY <2>3, AfterValue DEF SkipLedger, Keeps, TypeInv
    <3>2. ~Unlocked
      BY <1>1, <2>3 DEF SkipLedger, LockInv, CallsAreOpen
    <3> QED
      BY <3>1, <3>2
  <2>4. CASE Claim(t)
    <3>1. CASE Open(t)
      <4>1. PICK y \in Task : Become(t, y) /\ y.floorThen = x.floorThen /\ y.view = x.view
        BY <2>4, <3>1, ClaimValue
      <4> QED
        BY <2>4, <4>1 DEF Claim, FlooredBlob
    <3>2. CASE ~Open(t)
      BY <2>4, <3>2, IdleTaskType DEF Claim, Fail
    <3> QED
      BY <3>1, <3>2
  <2>5. CASE Set(t)
    <3>1. CASE Open(t)
      <4>1. PICK y \in Task : Become(t, y) /\ y.floorThen = x.floorThen /\ y.view = x.view
        BY <2>5, <3>1, SetValue DEF Keeps
      <4> QED
        BY <2>5, <4>1 DEF Set, FlooredBlob
    <3>2. CASE ~Open(t)
      BY <2>5, <3>2, IdleTaskType DEF Set, Fail
    <3> QED
      BY <3>1, <3>2
  <2>6. CASE Finish(t)
    BY <2>6, IdleTaskType DEF Finish, Fail
  <2> QED
    BY <2>1, <2>2, <2>3, <2>4, <2>5, <2>6
<1>5. PICK y \in Task :
        /\ Become(t, y)
        /\ \/ y = IdleTask
           \/ /\ y.floorThen = x.floorThen
              /\ Unlocked => \/ y.pc \notin FlooredBlob
                             \/ y.view = Nobody
                             \/ x.pc \in FlooredBlob /\ y.view = x.view
  BY <1>4
<1>6. ASSUME Untouched'
      PROVE  /\ y.pc = "idle" \/ y.floorThen \subseteq ledger'.floor
             /\ y.pc \in FlooredBlob => \A i \in y.floorThen : y.view[i] # "active"
  <2>1. Unlocked /\ FloorIsKept /\ FloorIsApplied
    BY <1>1, <1>6 DEF Untouched, Unlocked, FloorInv
  <2>2. CASE y = IdleTask
    BY <2>2, IdleTaskType DEF FlooredBlob
  <2>3. CASE y # IdleTask
    <3>1. y.floorThen \subseteq ledger'.floor
      BY <1>1, <1>5, <2>1, <2>3 DEF FloorIsKept
    <3>2. x.pc \in FlooredBlob => \A i \in x.floorThen : x.view[i] # "active"
      BY <2>1 DEF FloorIsApplied
    <3> QED
      BY <1>2, <1>3, <1>5, <2>1, <2>3, <3>1, <3>2
  <2> QED
    BY <2>2, <2>3
<1>7. Untouched' => Untouched
  BY <1>1 DEF Untouched, Unlocked
<1> QED
  BY <1>1, <1>5, <1>6, <1>7, TaskStepFloor

LEMMA EnterFloor ==
  ASSUME TypeInv, LockInv, FloorInv, NEW t \in Tasks, EnterLedger(t)
  PROVE  FloorInv'
<1> DEFINE x == tasks[t]
<1>1. PICK y \in Task : /\ Become(t, y) /\ y.pc = x.pc /\ y.view = x.view /\ y.floorThen = x.floorThen
  BY EnterValue
<1>2. UNCHANGED <<ledger, spent>> /\ x.pc # "idle"
  BY DEF EnterLedger, env, Waiting
<1>3. Untouched' => Untouched
  BY <1>2 DEF Untouched, Unlocked
<1> QED
  BY <1>1, <1>2, <1>3, TaskStepFloor DEF FloorInv, FloorIsKept, FloorIsApplied

LEMMA LeaveFloor ==
  ASSUME TypeInv, LockInv, FloorInv, NEW t \in Tasks, LeaveLedger(t)
  PROVE  FloorInv'
<1> DEFINE x == tasks[t]
<1>1. PICK y \in Task : /\ Become(t, y) /\ x.pc \in Waiting
                        /\ y.pc = After(t).pc /\ y.view = After(t).view /\ y.floorThen = x.floorThen
  BY LeaveValue
<1>2. spent' = spent /\ x.pc # "idle"
  BY <1>1 DEF LeaveLedger, env, Waiting
<1>3. Untouched' => Untouched
  BY <1>2 DEF Untouched, Unlocked
<1>4. CASE ~Untouched'
  BY <1>4 DEF FloorInv
<1>5. CASE Untouched'
  <2>1. Unlocked /\ FloorIsKept /\ FloorIsApplied
    BY <1>3, <1>5 DEF Untouched, FloorInv
  <2>2. ledger.floor \subseteq ledger'.floor
    <3>1. [Next]_vars
      BY DEF Next, TaskStep
    <3>2. CASE ledger.state # "good"
      BY <3>2 DEF LockInv, LostIsEmpty
    <3>3. CASE ledger.state = "good"
      <4>1. ledger'.state = "good"
        <5>1. Updated(t).state = x.in.state /\ x.in.state = "good"
          BY <1>1, UpdatedValue DEF LeaveLedger, Inside, LockInv, HolderIsWaiting
        <5> QED
          BY <3>3, <5>1 DEF LeaveLedger
      <4> QED
        BY <2>1, <3>1, <3>3, <4>1, UnlockedRemembers DEF Remembers
    <3> QED
      BY <3>2, <3>3
  <2>3. y.floorThen \subseteq ledger'.floor
    BY <1>1, <1>2, <2>1, <2>2 DEF FloorIsKept
  <2>4. y.pc \in FlooredBlob => y.view = Nobody \/ (x.pc \in FlooredBlob /\ y.view = x.view)
    BY <1>1, AfterValue DEF FlooredBlob, TypeInv, Waiting
  <2>5. (\A i \in Ids : Nobody[i] # "active") /\ x.floorThen \subseteq Ids
    BY DEF Nobody, TypeInv, TypeOK, Task
  <2>6. y.pc \in FlooredBlob => \A i \in y.floorThen : y.view[i] # "active"
    BY <1>1, <2>1, <2>4, <2>5 DEF FloorIsApplied
  <2> QED
    BY <1>1, <1>3, <2>2, <2>3, <2>6, TaskStepFloor
<1> QED
  BY <1>4, <1>5

LEMMA StartFloor ==
  ASSUME TypeInv, LockInv, FloorInv, NEW t \in Tasks, NEW op \in Changes \cup {"load"},
         NEW id \in Ids, Start(t, op, id)
  PROVE  FloorInv'
<1>1. PICK y \in Task : Become(t, y) /\ y.pc = "get" /\ y.floorThen = ledger.floor
  BY StartValue
<1>2. ledger' = ledger /\ spent'.locks = spent.locks /\ spent'.gone = spent.gone
  BY DEF Start, TypeInv, TypeOK
<1>3. Untouched' => Untouched
  BY <1>2 DEF Untouched, Unlocked
<1> QED
  BY <1>1, <1>2, <1>3, TaskStepFloor DEF FlooredBlob

\* What leaves every call's list alone, or ends the call.
LEMMA OtherFloor ==
  ASSUME TypeInv, LockInv, FloorInv,
         \/ ClockMoves \/ OlderCopy \/ LedgerGone \/ UNCHANGED vars
         \/ \E w \in Windows : MasterLock(w) \/ Unlock(w) \/ Close(w) \/ Dismiss(w)
  PROVE  FloorInv'
<1>1. CASE LedgerGone \/ \E w \in Windows : MasterLock(w)
  <2>1. ~Untouched'
    BY <1>1 DEF LedgerGone, MasterLock, Untouched, Unlocked, TypeInv, TypeOK
  <2> QED
    BY <2>1 DEF FloorInv
<1>2. CASE ClockMoves \/ OlderCopy \/ UNCHANGED vars \/ \E w \in Windows : Unlock(w)
  <2>1. UNCHANGED <<tasks, ledger>> /\ spent'.locks = spent.locks /\ spent'.gone = spent.gone
    BY <1>2 DEF ClockMoves, OlderCopy, vars, Unlock, env, TypeInv, TypeOK
  <2> QED
    BY <2>1 DEF FloorInv, FloorIsKept, FloorIsApplied, Untouched, Unlocked
<1>3. ASSUME NEW w \in Windows, Close(w) PROVE FloorInv'
  <2>1. /\ tasks' = [t \in Tasks |-> IF WindowOf[t] = w THEN IdleTask ELSE tasks[t]]
        /\ ledger' = ledger
    BY <1>3 DEF Close
  <2>2. spent'.locks = spent.locks /\ spent'.gone = spent.gone
    BY <1>3 DEF Close, TypeInv, TypeOK
  <2>3. \A t \in Tasks : tasks'[t] = tasks[t] \/ tasks'[t].pc = "idle"
    BY <2>1, IdleTaskType
  <2> QED
    BY <2>1, <2>2, <2>3 DEF FloorInv, FloorIsKept, FloorIsApplied, FlooredBlob, Untouched, Unlocked
<1>4. ASSUME NEW w \in Windows, Dismiss(w) PROVE FloorInv'
  <2>1. /\ ledger'.floor = ledger.floor /\ spent' = spent
        /\ \A t \in Tasks : /\ tasks'[t].pc = tasks[t].pc /\ tasks'[t].view = tasks[t].view
                            /\ tasks'[t].floorThen = tasks[t].floorThen
    BY <1>4, DismissValue DEF env
  <2> QED
    BY <2>1 DEF FloorInv, FloorIsKept, FloorIsApplied, Untouched, Unlocked
<1> QED
  BY <1>1, <1>2, <1>3, <1>4

LEMMA NextFloorInv == TypeInv /\ LockInv /\ FloorInv /\ [Next]_vars => FloorInv'
<1> SUFFICES ASSUME TypeInv, LockInv, FloorInv, [Next]_vars PROVE FloorInv'
  OBVIOUS
<1>1. ASSUME NEW t \in Tasks, TaskStep(t) PROVE FloorInv'
  BY <1>1, PeekFloorFloor, OutsideFloor, EnterFloor, LeaveFloor DEF TaskStep
<1>2. ASSUME NEW t \in Tasks, NEW op \in Changes \cup {"load"}, NEW id \in Ids, Start(t, op, id)
      PROVE  FloorInv'
  BY <1>2, StartFloor
<1>3. CASE \/ ClockMoves \/ OlderCopy \/ LedgerGone \/ UNCHANGED vars
           \/ \E w \in Windows : MasterLock(w) \/ Unlock(w) \/ Close(w) \/ Dismiss(w)
  BY <1>3, OtherFloor
<1> QED
  BY <1>1, <1>2, <1>3 DEF Next

\* Until the device is locked or loses its ledger, whoever it had seen revoked
\* when a call began is not active in what the call returns or saves, for any
\* number of windows and older copies (contacts.ts:277).
THEOREM RevokedStayRevoked == Spec => [](Untouched => FloorHolds)
<1>1. TypeInv /\ FloorInv => (Untouched => FloorHolds)
  BY DEF FloorInv, FloorIsApplied, FlooredBlob, FloorHolds, Outcome
<1> QED
  BY <1>1, InitFloorInv, NextFloorInv, LedgerLockHolds, PTL DEF Spec

\* So on a device that is neither locked nor robbed of its ledger nobody who
\* was revoked comes back, for every value of the other bounds (contacts.ts:277).
THEOREM FloorHoldsUnlocked ==
  ASSUME MaxLocks = 0, MaxGone = 0
  PROVE  Spec => []FloorHolds
<1>1. TypeOK => Untouched
  BY DEF TypeOK, Untouched, Unlocked
<1> QED
  BY <1>1, RevokedStayRevoked, StoreTypes, PTL

-----------------------------------------------------------------------------
(* What the device has seen *)

LEMMA InitSeenInv == Init => SeenInv
BY IdleTaskType DEF Init, SeenInv, SeenIsNewest, AbsentIsUnseen, Absent

LEMMA TaskStepSeen ==
  ASSUME TypeInv, SeenInv, NEW t \in Tasks, NEW y \in Task, Become(t, y),
         seen' \in L!Generation, seen <= seen', y.seenThen <= seen', blob.sealed => blob'.sealed,
         ~blob'.sealed => seen' = 0 /\ (y.pc # "set" => y.gen = 0),
         y.pc = "absent" => y.seenThen <= 0 /\ y.gen = 0
  PROVE  SeenInv'
<1>1. tasks' = [tasks EXCEPT ![t] = y] /\ tasks \in [Tasks -> Task]
  BY DEF Become, TypeInv, TypeOK
<1>2. tasks'[t] = y /\ \A u \in Tasks \ {t} : tasks'[u] = tasks[u]
  BY <1>1
<1>3. SeenIsNewest'
  <2>1. \A u \in Tasks : tasks[u].seenThen \in Int /\ tasks[u].seenThen <= seen
    BY <1>1, Generations DEF SeenInv, SeenIsNewest, Task
  <2>2. seen \in Int /\ seen' \in Int
    BY Generations DEF TypeInv, TypeOK
  <2>3. \A u \in Tasks : tasks[u].seenThen <= seen'
    BY <2>1, <2>2
  <2> QED
    BY <1>2, <2>3 DEF SeenIsNewest
<1>4. AbsentIsUnseen'
  BY <1>2 DEF SeenInv, AbsentIsUnseen
<1> QED
  BY <1>3, <1>4 DEF SeenInv

LEMMA TaskSeen ==
  ASSUME TypeInv, SeenInv, NEW t \in Tasks, TaskStep(t)
  PROVE  SeenInv'
<1> DEFINE x == tasks[t]
<1>1. seen \in L!Generation /\ seen <= seen /\ x.seenThen <= seen /\ 0 <= seen
  BY Generations DEF TypeInv, TypeOK, SeenInv, SeenIsNewest
<1>2. ~blob.sealed => seen = 0 /\ (x.pc # "set" => x.gen = 0)
  BY DEF SeenInv, AbsentIsUnseen
<1>3. x.pc = "absent" => x.seenThen <= 0 /\ x.gen = 0
  BY DEF SeenInv, AbsentIsUnseen
<1> DEFINE Same(y) == y.gen = x.gen /\ y.seenThen = x.seenThen /\ y.pc # "absent"
<1>4. ASSUME NEW y \in Task, Become(t, y), UNCHANGED <<blob, seen>>, x.pc # "set",
             y = IdleTask \/ Same(y)
      PROVE  SeenInv'
  <2>1. y.seenThen <= seen' /\ (~blob'.sealed => seen' = 0 /\ y.gen = 0) /\ y.pc # "absent"
    BY <1>1, <1>2, <1>4, IdleTaskType
  <2> QED
    BY <1>1, <1>4, <2>1, TaskStepSeen
<1>5. CASE Get(t)
  <2>1. UNCHANGED <<blob, seen>> /\ x.pc = "get"
    BY <1>5 DEF Get, storage
  <2>2. PICK y \in Task :
          /\ Become(t, y)
          /\ \/ y = IdleTask
             \/ y.gen = x.gen /\ y.seenThen = x.seenThen /\ y.pc = "absent" /\ ~blob.sealed
             \/ y.pc = "observe" /\ blob.sealed /\ y.seenThen = x.seenThen
    BY <1>5, GetValue DEF Keeps
  <2>3. y.seenThen <= seen'
    BY <1>1, <2>1, <2>2, IdleTaskType
  <2>4. ~blob'.sealed => seen' = 0 /\ (y.pc # "set" => y.gen = 0)
    BY <1>2, <2>1, <2>2, IdleTaskType
  <2>5. y.pc = "absent" => y.seenThen <= 0 /\ y.gen = 0
    BY <1>1, <1>2, <2>1, <2>2, IdleTaskType
  <2> QED
    BY <1>1, <2>1, <2>2, <2>3, <2>4, <2>5, TaskStepSeen
<1>6. CASE NoteAbsent(t)
  <2>1. PICK y \in Task : Become(t, y) /\ Same(y)
    BY <1>6, NoteAbsentValue
  <2> QED
    BY <1>4, <1>6, <2>1 DEF NoteAbsent, storage
<1>7. CASE PeekFloor(t)
  <2>1. PICK y \in Task : Become(t, y) /\ Same(y)
    <3>1. x.pc \in {"floor", "floor2"}
      BY <1>7 DEF PeekFloor
    <3> QED
      BY <1>7, <3>1, PeekFloorValue DEF Keeps
  <2> QED
    BY <1>4, <1>7, <2>1 DEF PeekFloor, storage
<1>8. CASE SkipLedger(t) \/ EnterLedger(t) \/ LeaveLedger(t)
  <2>1. x.pc \in Waiting /\ UNCHANGED <<blob, seen>>
    BY <1>8 DEF SkipLedger, EnterLedger, LeaveLedger, storage
  <2>2. After(t) \in Task /\ Same(After(t))
    BY <2>1, AfterValue DEF TypeInv, Keeps, Waiting
  <2>3. \E y \in Task : Become(t, y) /\ Same(y)
    <3>1. CASE SkipLedger(t)
      BY <2>2, <3>1 DEF SkipLedger
    <3>2. CASE EnterLedger(t)
      BY <2>1, <3>2, EnterValue DEF Waiting
    <3>3. CASE LeaveLedger(t)
      BY <2>2, <3>3, LeaveValue
    <3> QED
      BY <1>8, <3>1, <3>2, <3>3
  <2> QED
    BY <1>4, <2>1, <2>3 DEF Waiting
<1>9. CASE Claim(t)
  <2>1. UNCHANGED <<blob, seen>> /\ x.pc = "claim"
    BY <1>9 DEF Claim, storage
  <2>2. CASE ~Open(t)
    BY <1>4, <1>9, <2>1, <2>2, IdleTaskType DEF Claim, Fail
  <2>3. CASE Open(t)
    <3>1. PICK y \in Task : Become(t, y) /\ y.pc = "set" /\ y.seenThen = x.seenThen
      BY <1>9, <2>3, ClaimValue
    <3> QED
      BY <1>1, <1>2, <2>1, <3>1, TaskStepSeen
  <2> QED
    BY <2>2, <2>3
<1>10. CASE Set(t)
  <2>1. seen' = seen
    BY <1>10 DEF Set
  <2>2. CASE ~Open(t)
    <3>1. Become(t, IdleTask) /\ blob' = blob
      BY <1>10, <2>2 DEF Set, Fail, storage
    <3> QED
      BY <1>1, <1>2, <2>1, <3>1, IdleTaskType, TaskStepSeen
  <2>3. CASE Open(t)
    <3>1. PICK y \in Task : /\ Become(t, y) /\ y.pc = "mark" /\ y.seenThen = x.seenThen
                            /\ blob' = [sealed |-> TRUE, gen |-> x.gen, contacts |-> x.view]
      BY <1>10, <2>3, SetValue DEF Keeps
    <3>2. blob'.sealed
      BY <3>1
    <3> QED
      BY <1>1, <2>1, <3>1, <3>2, TaskStepSeen
  <2> QED
    BY <2>2, <2>3
<1>11. CASE Finish(t)
  <2>1. Become(t, IdleTask) /\ blob' = blob /\ x.pc = "done" /\ seen' \in {seen, x.gen}
        /\ (seen' # seen => x.gen > seen)
    BY <1>11 DEF Finish, Fail, storage
  <2>2. x.gen \in L!Generation
    BY DEF TypeInv, TypeOK, Task
  <2>3. seen' \in L!Generation /\ seen <= seen' /\ 0 <= seen' /\ (~blob'.sealed => seen' = 0)
    BY <1>1, <1>2, <2>1, <2>2, Generations
  <2> QED
    BY <2>1, <2>3, IdleTaskType, TaskStepSeen
<1> QED
  BY <1>5, <1>6, <1>7, <1>8, <1>9, <1>10, <1>11 DEF TaskStep

LEMMA NextSeenInv == TypeInv /\ LockInv /\ SeenInv /\ [Next]_vars => SeenInv'
<1> SUFFICES ASSUME TypeInv, LockInv, SeenInv, [Next]_vars PROVE SeenInv'
  OBVIOUS
<1>1. ASSUME NEW t \in Tasks, TaskStep(t) PROVE SeenInv'
  BY <1>1, TaskSeen
<1>2. ASSUME NEW t \in Tasks, NEW op \in Changes \cup {"load"}, NEW id \in Ids, Start(t, op, id)
      PROVE  SeenInv'
  <2>1. PICK y \in Task : Become(t, y) /\ y.pc = "get" /\ y.gen = 0 /\ y.seenThen = seen
    BY <1>2, StartValue
  <2>2. UNCHANGED <<blob, seen>> /\ seen \in L!Generation /\ seen <= seen
    BY <1>2, Generations DEF Start, storage, TypeInv, TypeOK
  <2>3. ~blob.sealed => seen = 0
    BY DEF SeenInv, AbsentIsUnseen
  <2> QED
    BY <2>1, <2>2, <2>3, TaskStepSeen
<1>3. CASE \/ ClockMoves \/ LedgerGone \/ OlderCopy \/ UNCHANGED vars
           \/ \E w \in Windows : MasterLock(w) \/ Unlock(w)
  <2>1. UNCHANGED <<tasks, seen>> /\ (blob.sealed => blob'.sealed)
    BY <1>3 DEF ClockMoves, LedgerGone, OlderCopy, vars, MasterLock, Unlock, storage, env
  <2> QED
    BY <2>1 DEF SeenInv, SeenIsNewest, AbsentIsUnseen
<1>4. ASSUME NEW w \in Windows, Close(w) PROVE SeenInv'
  <2>1. UNCHANGED <<blob, seen>>
        /\ tasks' = [t \in Tasks |-> IF WindowOf[t] = w THEN IdleTask ELSE tasks[t]]
    BY <1>4 DEF Close, storage
  <2>2. 0 <= seen
    BY Generations DEF TypeInv, TypeOK
  <2> QED
    BY <2>1, <2>2, IdleTaskType DEF SeenInv, SeenIsNewest, AbsentIsUnseen
<1>5. ASSUME NEW w \in Windows, Dismiss(w) PROVE SeenInv'
  <2>1. /\ blob' = blob
        /\ \/ UNCHANGED <<tasks, seen>>
           \/ seen' = 0 /\ \A t \in Tasks : tasks'[t].seenThen = -1
        /\ \A t \in Tasks : tasks'[t].pc = tasks[t].pc /\ tasks'[t].gen = tasks[t].gen
    BY <1>5, DismissValue, Generations DEF storage
  <2> QED
    BY <2>1 DEF SeenInv, SeenIsNewest, AbsentIsUnseen
<1> QED
  BY <1>1, <1>2, <1>3, <1>4, <1>5 DEF Next

-----------------------------------------------------------------------------
(* What the marks cover *)

LEMMA InitMarkInv == Init => MarkInv
<1> SUFFICES ASSUME Init PROVE MarkInv
  OBVIOUS
<1>1. holders = {} /\ seen = 0 /\ \A t \in Tasks : tasks[t].pc = "idle"
  BY IdleTaskType DEF Init
<1> QED
  BY <1>1 DEF MarkInv, LostWasWarned, Knows, Covers, Observed, OlderWasWarned

\* What a call knows of the ledger it read under the lock, or of the stored one.
LEMMA KnowsKept ==
  ASSUME TypeInv, NEW t \in Tasks, NEW y \in Task, Become(t, y),
         spent.gone = spent'.gone, NEW l \in L!Ledgers, Knows(l),
         Covers(l, seen) /\ (tasks[t].pc \in Observed /\ tasks[t].seenThen # L!Unmarked
                               => Covers(l, tasks[t].gen)) => Covers(l, seen'),
         y.pc \in Observed /\ y.seenThen # L!Unmarked =>
           \/ y.gen <= 0
           \/ tasks[t].pc \in Observed /\ y.gen = tasks[t].gen /\ y.seenThen = tasks[t].seenThen
  PROVE  Knows(l)'
<1>1. tasks' = [tasks EXCEPT ![t] = y] /\ tasks \in [Tasks -> Task]
  BY DEF Become, TypeInv, TypeOK
<1>2. tasks'[t] = y /\ \A u \in Tasks \ {t} : tasks'[u] = tasks[u]
  BY <1>1
<1>3. CASE l.lost # "none" \/ (l.state # "good" /\ spent.gone > 0)
  BY <1>3 DEF Knows
<1>4. CASE /\ Covers(l, seen)
           /\ \A u \in Tasks : tasks[u].pc \in Observed /\ tasks[u].seenThen # L!Unmarked =>
                Covers(l, tasks[u].gen)
  <2>1. Covers(l, seen')
    BY <1>4
  <2>2. ASSUME NEW u \in Tasks, tasks'[u].pc \in Observed, tasks'[u].seenThen # L!Unmarked
        PROVE  Covers(l, tasks'[u].gen)
    <3>1. CASE u = t
      BY <1>2, <1>4, <2>2, <3>1 DEF Covers
    <3>2. CASE u # t
      BY <1>2, <1>4, <2>2, <3>2
    <3> QED
      BY <3>1, <3>2
  <2> QED
    BY <2>1, <2>2 DEF Knows, Covers
<1> QED
  BY <1>3, <1>4 DEF Knows

\* A step of a call that does not hold the ledger's lock.
LEMMA OutsideMark ==
  ASSUME TypeInv, LockInv, MarkInv, NEW t \in Tasks, t \notin holders, NEW y \in Task, Become(t, y),
         UNCHANGED <<ledger, holders>>, spent'.locks = spent.locks, spent'.gone = spent.gone,
         seen' = seen \/ (seen' = tasks[t].gen /\ tasks[t].pc \in Observed
                            /\ tasks[t].seenThen # L!Unmarked),
         Unlocked /\ y.pc \in Observed /\ y.seenThen # L!Unmarked =>
           \/ y.gen <= 0
           \/ tasks[t].pc \in Observed /\ y.gen = tasks[t].gen /\ y.seenThen = tasks[t].seenThen,
         Traceable /\ y.op = "load" /\ y.pc \in {"floor", "record", "done"} /\ y.gen < y.seenThen
           => y.warned
  PROVE  MarkInv'
<1>1. tasks' = [tasks EXCEPT ![t] = y] /\ tasks \in [Tasks -> Task] /\ holders \subseteq Tasks
      /\ ledger \in L!Ledgers
  BY DEF Become, TypeInv, TypeOK
<1>2. tasks'[t] = y /\ \A u \in Tasks \ {t} : tasks'[u] = tasks[u]
  BY <1>1
<1>3. \A u \in holders : tasks'[u] = tasks[u] /\ tasks[u].in \in L!Ledgers
  BY <1>1, <1>2 DEF Task
<1>4. LostWasWarned'
  BY <1>3 DEF MarkInv, LostWasWarned
<1>5. ASSUME Traceable'
      PROVE  Knows(ledger)' /\ (\A u \in holders : Knows(tasks[u].in))' /\ OlderWasWarned'
  <2>1. Traceable /\ Unlocked
    BY <1>5 DEF Traceable, Unlocked
  <2>2. Knows(ledger) /\ (\A u \in holders : Knows(tasks[u].in)) /\ OlderWasWarned
    BY <2>1 DEF MarkInv
  <2>3. ASSUME NEW l \in L!Ledgers, Knows(l) PROVE Knows(l)'
    BY <2>1, <2>3, KnowsKept
  <2>4. Knows(ledger)'
    <3>1. \A l \in L!Ledgers : l = ledger /\ Knows(l) => Knows(l)'
      BY <2>3
    <3> QED
      BY <1>1, <2>2, <3>1 DEF Knows, Covers
  <2>5. ASSUME NEW u \in holders PROVE Knows(tasks[u].in)'
    <3> DEFINE l == tasks[u].in
    <3>1. \A k \in L!Ledgers : k = l /\ Knows(k) => Knows(k)'
      BY <2>3
    <3> QED
      BY <1>3, <2>2, <3>1 DEF Knows, Covers
  <2>6. OlderWasWarned'
    BY <1>2, <2>1, <2>2 DEF OlderWasWarned
  <2>7. (\A u \in holders : Knows(tasks[u].in))'
    BY <2>5
  <2> QED
    BY <2>4, <2>6, <2>7
<1> QED
  BY <1>4, <1>5 DEF MarkInv

LEMMA OutsideStepsMark ==
  ASSUME TypeInv, LockInv, SeenInv, MarkInv, NEW t \in Tasks,
         \/ Get(t) \/ NoteAbsent(t) \/ PeekFloor(t) \/ SkipLedger(t)
         \/ Claim(t) \/ Set(t) \/ Finish(t)
  PROVE  MarkInv'
<1> DEFINE x == tasks[t]
<1>1. UNCHANGED <<ledger, holders, spent>> /\ x.pc # "idle" /\ t \notin holders
  BY DEF Get, NoteAbsent, PeekFloor, SkipLedger, Claim, Set, Finish, env, Waiting, Inside,
         LockInv, HolderIsWaiting
<1> DEFINE Later(y) ==
      /\ Unlocked /\ y.pc \in Observed /\ y.seenThen # L!Unmarked =>
           \/ y.gen <= 0
           \/ x.pc \in Observed /\ y.gen = x.gen /\ y.seenThen = x.seenThen
      /\ Traceable /\ y.op = "load" /\ y.pc \in {"floor", "record", "done"} /\ y.gen < y.seenThen
           => y.warned
<1>2. Later(IdleTask)
  BY IdleTaskType DEF Observed
<1>3. \A y : y.pc \notin Observed => Later(y)
  BY DEF Observed
<1>4. \E y \in Task : Become(t, y) /\ Later(y)
  <2>1. CASE Get(t)
    <3>1. PICK y \in Task : Become(t, y) /\ (y = IdleTask \/ y.pc \in {"absent", "observe"})
      BY <2>1, GetValue
    <3>2. y.pc \notin Observed
      BY <3>1, IdleTaskType DEF Observed
    <3> QED
      BY <1>3, <3>1, <3>2
  <2>2. CASE NoteAbsent(t)
    <3>1. PICK y \in Task : Become(t, y) /\ y.gen = x.gen /\ y.seenThen = x.seenThen
      BY <2>2, NoteAbsentValue
    <3>2. x.gen = 0 /\ x.seenThen <= 0 /\ x.seenThen \in Int
      BY <2>2, Generations DEF NoteAbsent, SeenInv, AbsentIsUnseen, TypeInv, TypeOK, Task
    <3>3. Later(y)
      BY <3>1, <3>2
    <3> QED
      BY <3>1, <3>3
  <2>3. CASE PeekFloor(t)
    <3>1. PICK y \in Task : /\ Become(t, y) /\ Keeps(y, x)
                            /\ x.pc = "floor2" => y.pc \in {"record2", "claim"}
      BY <2>3, PeekFloorValue
    <3>2. x.pc \in {"floor", "floor2"}
      BY <2>3 DEF PeekFloor
    <3>3. Traceable => OlderWasWarned
      BY DEF MarkInv
    <3>4. Later(y)
      BY <3>1, <3>2, <3>3 DEF Keeps, Observed, OlderWasWarned
    <3> QED
      BY <3>1, <3>4
  <2>4. CASE SkipLedger(t)
    <3>1. After(t) \in Task /\ Become(t, After(t))
      BY <2>4, AfterValue DEF SkipLedger, TypeInv
    <3>2. ~Unlocked
      BY <1>1, <2>4 DEF SkipLedger, LockInv, CallsAreOpen
    <3>3. \A y : Later(y)
      BY <3>2 DEF Traceable
    <3> QED
      BY <3>1, <3>3
  <2>5. CASE Claim(t)
    <3>1. CASE Open(t)
      <4>1. PICK y \in Task : Become(t, y) /\ y.pc = "set"
        BY <2>5, <3>1, ClaimValue
      <4> QED
        BY <1>3, <4>1 DEF Observed
    <3>2. CASE ~Open(t)
      BY <1>2, <2>5, <3>2, IdleTaskType DEF Claim, Fail
    <3> QED
      BY <3>1, <3>2
  <2>6. CASE Set(t)
    <3>1. CASE Open(t)
      <4>1. PICK y \in Task : Become(t, y) /\ y.pc = "mark"
        BY <2>6, <3>1, SetValue
      <4> QED
        BY <1>3, <4>1 DEF Observed
    <3>2. CASE ~Open(t)
      BY <1>2, <2>6, <3>2, IdleTaskType DEF Set, Fail
    <3> QED
      BY <3>1, <3>2
  <2>7. CASE Finish(t)
    BY <1>2, <2>7, IdleTaskType DEF Finish, Fail
  <2> QED
    BY <2>1, <2>2, <2>3, <2>4, <2>5, <2>6, <2>7
<1>5. \/ seen' = seen
      \/ seen' = x.gen /\ x.pc \in Observed /\ x.seenThen # L!Unmarked
  BY DEF Get, NoteAbsent, PeekFloor, SkipLedger, Claim, Set, Finish, Observed
<1>6. PICK y \in Task : Become(t, y) /\ Later(y)
  BY <1>4
<1> QED
  BY <1>1, <1>5, <1>6, OutsideMark

LEMMA StartMark ==
  ASSUME TypeInv, LockInv, MarkInv, NEW t \in Tasks, NEW op \in Changes \cup {"load"},
         NEW id \in Ids, Start(t, op, id)
  PROVE  MarkInv'
<1>1. PICK y \in Task : Become(t, y) /\ y.pc = "get"
  BY StartValue
<1>2. UNCHANGED <<ledger, holders, seen>> /\ spent'.locks = spent.locks /\ spent'.gone = spent.gone
  BY DEF Start, TypeInv, TypeOK
<1>3. t \notin holders
  BY DEF Start, LockInv, HolderIsWaiting, Waiting
<1> QED
  BY <1>1, <1>2, <1>3, OutsideMark DEF Observed

\* A replacement is marked lost, unless nothing was ever lost here.
LEMMA ReadIsKnown ==
  ASSUME TypeInv, LockInv, NEW t \in Tasks, Open(t), Traceable, Knows(ledger)
  PROVE  Knows(Read(t))
<1>1. ledger.state \in {"good", "absent", "junk"} /\ Found(t) = ledger.state
  BY DEF Found, TypeInv, TypeOK, L!Ledgers
<1>2. CASE ledger.state = "good"
  BY <1>1, <1>2 DEF Read
<1>3. CASE ledger.state # "good"
  <2> DEFINE carry == Open(t) /\ (OthersCarry \/ (tasks[t].pc # "mark" /\ blob.sealed /\ blob.gen > 0))
  <2>1. Read(t) = L!Replacement(Found(t), carry)
    BY <1>1, <1>3 DEF Read
  <2>2. carry \in BOOLEAN /\ (OthersCarry => carry)
    OBVIOUS
  <2> HIDE DEF carry
  <2>3. /\ Read(t).mark = L!Unmarked
        /\ Read(t).lost = IF Found(t) = "junk" THEN "ledger-unreadable"
                          ELSE IF carry THEN "missing" ELSE "none"
    BY <1>1, <2>1, <2>2, ReplacementValue
  <2>4. ledger.mark = L!Unmarked /\ ledger.lost = "none"
    BY <1>3 DEF LockInv, LostIsEmpty
  <2>5. CASE OthersCarry
    BY <2>2, <2>3, <2>5 DEF Knows
  <2>6. CASE ~OthersCarry
    <3>1. spent.gone = 0
      BY <2>6 DEF Traceable
    <3> QED
      BY <2>3, <2>4, <3>1 DEF Knows, Covers
  <2> QED
    BY <2>5, <2>6
<1> QED
  BY <1>2, <1>3

LEMMA EnterMark ==
  ASSUME TypeInv, LockInv, MarkInv, NEW t \in Tasks, EnterLedger(t)
  PROVE  MarkInv'
<1> DEFINE x == tasks[t]
<1>1. PICK y \in Task :
        /\ Become(t, y) /\ y.pc = x.pc /\ y.op = x.op /\ y.gen = x.gen /\ y.seenThen = x.seenThen
        /\ y.in = Read(t) /\ y.warned = (x.warned \/ Read(t).lost # "none")
  BY EnterValue
<1>2. /\ x.pc \in Waiting /\ holders = {} /\ holders' = {t} /\ UNCHANGED <<ledger, spent, seen>>
  BY DEF EnterLedger, LockFree, env
<1>3. tasks' = [tasks EXCEPT ![t] = y] /\ tasks \in [Tasks -> Task] /\ ledger \in L!Ledgers
      /\ Read(t) \in L!Ledgers
  BY <1>1, ReadValue DEF Become, TypeInv, TypeOK
<1>4. tasks'[t] = y /\ \A u \in Tasks \ {t} : tasks'[u] = tasks[u]
  BY <1>3
<1>5. LostWasWarned'
  BY <1>1, <1>2, <1>4 DEF LostWasWarned
<1>6. ASSUME Traceable'
      PROVE  Knows(ledger)' /\ Knows(tasks[t].in)' /\ OlderWasWarned'
  <2>1. Traceable /\ Unlocked /\ Open(t)
    BY <1>2, <1>6 DEF Traceable, Unlocked, LockInv, CallsAreOpen, Waiting
  <2>2. Knows(ledger) /\ OlderWasWarned /\ Knows(Read(t))
    BY <2>1, ReadIsKnown DEF MarkInv
  <2>3. \A l \in L!Ledgers : Knows(l) => Knows(l)'
    BY <1>1, <1>2, KnowsKept
  <2>4. Knows(ledger)'
    <3>1. \A l \in L!Ledgers : l = ledger /\ Knows(l) => Knows(l)'
      BY <2>3
    <3> QED
      BY <1>2, <1>3, <2>2, <3>1 DEF Knows, Covers
  <2>5. Knows(tasks[t].in)'
    <3>1. \A l \in L!Ledgers : l = Read(t) /\ Knows(l) => Knows(l)'
      BY <2>3
    <3>2. tasks'[t].in = Read(t)
      BY <1>1, <1>4
    <3> QED
      BY <1>3, <2>2, <3>1, <3>2 DEF Knows, Covers
  <2>6. OlderWasWarned'
    BY <1>1, <1>4, <2>2 DEF OlderWasWarned
  <2> QED
    BY <2>4, <2>5, <2>6
<1> QED
  BY <1>2, <1>5, <1>6 DEF MarkInv

LEMMA LeaveMark ==
  ASSUME TypeInv, LockInv, SeenInv, MarkInv, NEW t \in Tasks, LeaveLedger(t)
  PROVE  MarkInv'
<1> DEFINE x == tasks[t]
           l == Updated(t)
           older == x.pc = "observe" /\ L!Older(x.in, x.gen)
<1>1. PICK y \in Task :
        /\ Become(t, y) /\ x.pc \in Waiting /\ y.op = x.op /\ y.gen = x.gen
        /\ y.seenThen = x.seenThen /\ y.pc = After(t).pc /\ y.warned = (x.warned \/ older)
  BY LeaveValue
<1>2. /\ t \in holders /\ holders' = {} /\ UNCHANGED <<spent, seen, session>>
      /\ ledger' = IF Open(t) /\ (x.fresh \/ l # x.in) THEN l ELSE ledger
  BY DEF LeaveLedger, Inside, Release, LockInv, OneHolder, env
<1>3. tasks' = [tasks EXCEPT ![t] = y] /\ tasks \in [Tasks -> Task]
  BY <1>1 DEF Become, TypeInv, TypeOK
<1>4. tasks'[t] = y /\ \A u \in Tasks \ {t} : tasks'[u] = tasks[u]
  BY <1>3
<1>5. LostWasWarned'
  BY <1>2 DEF LostWasWarned
<1>6. /\ l \in L!Ledgers /\ l.lost = x.in.lost /\ l.state = "good" /\ x.in.state = "good"
      /\ x.in \in L!Ledgers /\ x.gen \in L!Generation /\ seen \in L!Generation
      /\ x.in.mark <= l.mark /\ l.mark \in Int /\ x.in.mark \in Int
      /\ x.pc = "observe" => L!Older(x.in, x.gen) \/ l.mark = x.gen
      /\ x.pc = "mark" => x.gen <= l.mark
  <2>1. x.in.state = "good"
    BY <1>2 DEF LockInv, HolderIsWaiting
  <2>2. x.in \in L!Ledgers /\ x.gen \in L!Generation /\ seen \in L!Generation
    BY DEF TypeInv, TypeOK, Task
  <2>3. l \in L!Ledgers
    BY <1>1, UpdatedValue
  <2>4. l.mark \in Int /\ x.in.mark \in Int
    BY <2>2, <2>3, Generations DEF L!Ledgers
  <2> QED
    BY <1>1, <2>1, <2>2, <2>3, <2>4, UpdatedValue
<1> HIDE DEF l
<1>7. ASSUME Traceable' PROVE Knows(ledger)' /\ OlderWasWarned'
  <2>1. Traceable /\ Unlocked /\ Open(t)
    BY <1>1, <1>2, <1>7 DEF Traceable, Unlocked, LockInv, CallsAreOpen, Waiting
  <2>2. Knows(x.in) /\ OlderWasWarned
    BY <1>2, <2>1 DEF MarkInv
  <2>3. \/ x.in.lost # "none"
        \/ /\ Covers(x.in, seen)
           /\ \A u \in Tasks : tasks[u].pc \in Observed /\ tasks[u].seenThen # L!Unmarked =>
                Covers(x.in, tasks[u].gen)
    BY <1>6, <2>2 DEF Knows
  <2>4. \A n \in L!Generation : Covers(x.in, n) => Covers(l, n)
    BY <1>6, Generations DEF Covers
  <2>5. Knows(ledger)'
    <3>1. l.lost # "none" \/ /\ Covers(l, seen)
                             /\ \A u \in Tasks : tasks'[u].pc \in Observed
                                  /\ tasks'[u].seenThen # L!Unmarked => Covers(l, tasks'[u].gen)
      <4>1. CASE x.in.lost # "none"
        BY <1>6, <4>1
      <4>2. CASE /\ Covers(x.in, seen)
                 /\ \A u \in Tasks : tasks[u].pc \in Observed /\ tasks[u].seenThen # L!Unmarked =>
                      Covers(x.in, tasks[u].gen)
        <5>1. Covers(l, seen)
          BY <1>6, <2>4, <4>2
        <5>2. ASSUME NEW u \in Tasks, u # t, tasks'[u].pc \in Observed,
                     tasks'[u].seenThen # L!Unmarked
              PROVE  Covers(l, tasks'[u].gen)
          <6>1. tasks'[u] = tasks[u] /\ tasks[u].gen \in L!Generation
            BY <1>3, <1>4, <5>2 DEF Task
          <6> QED
            BY <2>4, <4>2, <5>2, <6>1
        <5>3. y.seenThen # L!Unmarked => Covers(l, y.gen)
          <6>1. CASE x.pc = "observe"
            <7>1. L!Older(x.in, x.gen) => x.gen < x.in.mark
              BY DEF L!Older
            <7>2. x.gen <= l.mark
              BY <1>6, <6>1, <7>1, Generations
            <7> QED
              BY <1>1, <7>2 DEF Covers
          <6>2. CASE x.pc \in {"record", "record2"}
            BY <1>1, <1>6, <2>4, <4>2, <6>2 DEF Observed
          <6>3. CASE x.pc = "mark"
            BY <1>1, <1>6, <6>3 DEF Covers
          <6> QED
            BY <1>1, <6>1, <6>2, <6>3 DEF Waiting
        <5> QED
          BY <1>4, <5>1, <5>2, <5>3
      <4> QED
        BY <2>3, <4>1, <4>2
    <3>2. CASE ledger' = l
      BY <1>2, <3>1, <3>2 DEF Knows, Covers
    <3>3. CASE ledger' # l
      <4>1. ~x.fresh /\ l = x.in /\ ledger' = ledger
        BY <1>2, <2>1, <3>3
      <4>2. ledger.state # "good" /\ spent.gone > 0
        BY <1>2, <3>3, <4>1 DEF LockInv, HolderKnowsLedger
      <4> QED
        BY <1>2, <4>1, <4>2 DEF Knows
    <3> QED
      BY <3>2, <3>3
  <2>6. y.op = "load" /\ y.pc \in {"floor", "record", "done"} /\ y.gen < y.seenThen => y.warned
    <3> SUFFICES ASSUME y.op = "load", y.gen < y.seenThen PROVE y.warned
      OBVIOUS
    <3>1. CASE x.pc = "observe"
      <4>1. x.in.lost # "none" => x.warned
        BY <1>2 DEF MarkInv, LostWasWarned
      <4>2. ASSUME Covers(x.in, seen) PROVE older
        <5>1. x.seenThen <= seen /\ x.seenThen \in Int
          BY Generations DEF SeenInv, SeenIsNewest, TypeInv, TypeOK, Task
        <5>2. x.gen < x.in.mark /\ x.in.mark # L!Unmarked
          BY <1>1, <1>6, <4>2, <5>1, Generations DEF Covers
        <5> QED
          BY <3>1, <5>2 DEF L!Older
      <4> QED
        BY <1>1, <2>3, <4>1, <4>2
    <3>2. CASE x.pc = "record"
      BY <1>1, <2>2, <3>2 DEF OlderWasWarned
    <3>3. CASE x.pc \in {"record2", "mark"}
      BY <1>1, <3>3 DEF TypeInv, SaversMutate, MaySave
    <3> QED
      BY <1>1, <3>1, <3>2, <3>3 DEF Waiting
  <2>7. OlderWasWarned'
    BY <1>4, <2>2, <2>6 DEF OlderWasWarned
  <2> QED
    BY <2>5, <2>7
<1> QED
  BY <1>2, <1>5, <1>7 DEF MarkInv

LEMMA OtherMark ==
  ASSUME TypeInv, LockInv, SeenInv, MarkInv,
         \/ ClockMoves \/ OlderCopy \/ LedgerGone \/ UNCHANGED vars
         \/ \E w \in Windows : MasterLock(w) \/ Unlock(w) \/ Close(w) \/ Dismiss(w)
  PROVE  MarkInv'
<1>1. CASE ClockMoves \/ OlderCopy \/ UNCHANGED vars \/ \E w \in Windows : Unlock(w)
  <2>1. UNCHANGED <<ledger, holders, tasks, seen>> /\ spent'.locks = spent.locks /\ spent'.gone = spent.gone
    BY <1>1 DEF ClockMoves, OlderCopy, vars, Unlock, env, TypeInv, TypeOK
  <2> QED
    BY <2>1 DEF MarkInv, LostWasWarned, Traceable, Unlocked, Knows, Covers, OlderWasWarned
<1>2. ASSUME NEW w \in Windows, MasterLock(w) PROVE MarkInv'
  <2>1. ~Unlocked' /\ UNCHANGED <<holders, tasks>>
    BY <1>2 DEF MasterLock, Unlocked, TypeInv, TypeOK
  <2> QED
    BY <2>1 DEF MarkInv, LostWasWarned, Traceable
<1>3. CASE LedgerGone
  <2>1. /\ UNCHANGED <<holders, tasks, seen>> /\ spent'.locks = spent.locks /\ spent'.gone > 0
        /\ ledger' \in {L!AbsentLedger, L!JunkLedger}
    BY <1>3, BoundsAssumption DEF LedgerGone, TypeInv, TypeOK
  <2>2. ledger'.state # "good"
    BY <2>1 DEF L!AbsentLedger, L!JunkLedger, L!EmptyLedger
  <2>3. Knows(ledger)'
    BY <2>1, <2>2 DEF Knows
  <2>4. Traceable' => Traceable
    BY <2>1 DEF Traceable, Unlocked
  <2>5. ASSUME NEW u \in holders, Knows(tasks[u].in) PROVE Knows(tasks[u].in)'
    <3>1. tasks[u].in.state = "good"
      BY DEF LockInv, HolderIsWaiting
    <3> QED
      BY <2>1, <2>5, <3>1 DEF Knows, Covers
  <2> QED
    BY <2>1, <2>3, <2>4, <2>5 DEF MarkInv, LostWasWarned, OlderWasWarned
<1>4. ASSUME NEW w \in Windows, Close(w) PROVE MarkInv'
  <2>1. /\ tasks' = [t \in Tasks |-> IF WindowOf[t] = w THEN IdleTask ELSE tasks[t]]
        /\ holders' = {t \in holders : WindowOf[t] # w}
        /\ UNCHANGED <<ledger, seen>>
    BY <1>4 DEF Close
  <2>2. spent'.locks = spent.locks /\ spent'.gone = spent.gone /\ holders \subseteq Tasks
    BY <1>4 DEF Close, TypeInv, TypeOK
  <2>3. \A t \in Tasks : tasks'[t] = tasks[t] \/ tasks'[t].pc = "idle"
    BY <2>1, IdleTaskType
  <2>4. \A t \in holders' : t \in holders /\ tasks'[t] = tasks[t]
    BY <2>1, <2>2
  <2>5. LostWasWarned'
    BY <2>4 DEF MarkInv, LostWasWarned
  <2>6. Traceable' => Traceable
    BY <2>2 DEF Traceable, Unlocked
  <2>7. OlderWasWarned => OlderWasWarned'
    BY <2>3 DEF OlderWasWarned
  <2>8. Knows(ledger) => Knows(ledger)'
    BY <2>1, <2>2, <2>3 DEF Knows, Covers, Observed
  <2>9. ASSUME NEW u \in holders', Knows(tasks[u].in) PROVE Knows(tasks[u].in)'
    <3>1. tasks'[u].in = tasks[u].in
      BY <2>4
    <3> QED
      BY <2>1, <2>2, <2>3, <2>9, <3>1 DEF Knows, Covers, Observed
  <2> QED
    BY <2>4, <2>5, <2>6, <2>7, <2>8, <2>9 DEF MarkInv
<1>5. ASSUME NEW w \in Windows, Dismiss(w) PROVE MarkInv'
  <2>1. /\ holders' = {} /\ spent' = spent
        /\ \/ UNCHANGED <<ledger, tasks, seen>>
           \/ seen' = 0 /\ \A t \in Tasks : tasks'[t].seenThen = L!Unmarked
    BY <1>5, DismissValue DEF env
  <2>2. CASE UNCHANGED <<ledger, tasks, seen>>
    BY <2>1, <2>2 DEF MarkInv, LostWasWarned, Traceable, Unlocked, Knows, Covers, OlderWasWarned
  <2>3. CASE seen' = 0 /\ \A t \in Tasks : tasks'[t].seenThen = L!Unmarked
    <3>1. \A t \in Tasks : tasks'[t].gen = tasks[t].gen /\ 0 <= tasks[t].gen /\ L!Unmarked = -1
          /\ tasks[t].gen \in Int
      BY <1>5, DismissValue, Generations DEF TypeInv, TypeOK, Task
    <3>2. OlderWasWarned'
      BY <2>3, <3>1 DEF OlderWasWarned
    <3>3. Knows(ledger)'
      BY <2>3 DEF Knows, Covers
    <3> QED
      BY <2>1, <3>2, <3>3 DEF MarkInv, LostWasWarned
  <2> QED
    BY <2>1, <2>2, <2>3
<1> QED
  BY <1>1, <1>2, <1>3, <1>4, <1>5

LEMMA NextMarkInv == TypeInv /\ LockInv /\ SeenInv /\ MarkInv /\ [Next]_vars => MarkInv'
<1> SUFFICES ASSUME TypeInv, LockInv, SeenInv, MarkInv, [Next]_vars PROVE MarkInv'
  OBVIOUS
<1>1. ASSUME NEW t \in Tasks, TaskStep(t) PROVE MarkInv'
  BY <1>1, OutsideStepsMark, EnterMark, LeaveMark DEF TaskStep
<1>2. ASSUME NEW t \in Tasks, NEW op \in Changes \cup {"load"}, NEW id \in Ids, Start(t, op, id)
      PROVE  MarkInv'
  BY <1>2, StartMark
<1>3. CASE \/ ClockMoves \/ OlderCopy \/ LedgerGone \/ UNCHANGED vars
           \/ \E w \in Windows : MasterLock(w) \/ Unlock(w) \/ Close(w) \/ Dismiss(w)
  BY <1>3, OtherMark
<1> QED
  BY <1>1, <1>2, <1>3 DEF Next

LEMMA MarksHold == Spec => [](TypeInv /\ LockInv /\ SeenInv /\ MarkInv)
BY InitSeenInv, NextSeenInv, InitMarkInv, NextMarkInv, LedgerLockHolds, PTL DEF Spec

\* Before the first lock, a load that returns a copy older than one a finished
\* call of any window read or wrote has warned: of the copy, or of the loss of
\* the ledger that knew better, if other stores tell that it was there
\* (integrity.ts:449).
THEOREM RollbacksAreReported == Spec => [](Traceable => OlderCopyIsReported)
<1>1. MarkInv => (Traceable => OlderCopyIsReported)
  BY DEF MarkInv, OlderWasWarned, OlderCopyIsReported
<1> QED
  BY <1>1, MarksHold, PTL

\* So on a device that is not locked every older copy is reported, unless the
\* ledger can go without another store to tell of it (integrity.ts:449).
THEOREM OlderCopyIsReportedUnlocked ==
  ASSUME MaxLocks = 0, OthersCarry \/ MaxGone = 0
  PROVE  Spec => []OlderCopyIsReported
<1>1. TypeOK => Traceable
  BY DEF TypeOK, Traceable, Unlocked
<1> QED
  BY <1>1, RollbacksAreReported, StoreTypes, PTL

-----------------------------------------------------------------------------
(* When there is nothing to warn of *)

\* Calls that take turns, whichever windows they are of.
Alone == \A t, u \in Tasks : tasks[t].pc # "idle" /\ tasks[u].pc # "idle" => t = u
Undisturbed == Unlocked /\ spent.copies = 0 /\ spent.gone = 0

\* The mark is never above the generation of the stored copy, which is the one
\* a call has read, and no ledger is missing but that of an upgraded device.
TaskIsQuiet(t) ==
  /\ tasks[t].pc = "absent" => ~blob.sealed
  /\ tasks[t].pc \in {"observe", "mark"} => blob.sealed /\ tasks[t].gen = blob.gen
  /\ tasks[t].pc = "set" => ledger.mark <= tasks[t].gen
  /\ t \in holders =>
       /\ tasks[t].in.lost = "none" /\ tasks[t].in.mark <= blob.gen
       /\ ~blob.sealed => tasks[t].in.mark = L!Unmarked
LedgerIsQuiet ==
  /\ ledger.state # "junk" /\ ledger.lost = "none" /\ ledger.mark <= blob.gen
  /\ ~blob.sealed => ledger.state = "good" /\ ledger.mark = L!Unmarked
  /\ ledger.state = "absent" => ~OthersCarry /\ blob.gen = 0
NotYetObserved == \A t \in Tasks : tasks[t].pc \in {"idle", "get", "observe"}
NoIssues == \A w \in Windows : issues[w] = {}

Quiet ==
  /\ NoIssues /\ LedgerIsQuiet
  /\ ledger.state = "absent" => NotYetObserved
  /\ \A t \in Tasks : TaskIsQuiet(t)
QuietInv == Undisturbed => Quiet

LEMMA InitQuiet == Init => QuietInv
<1> SUFFICES ASSUME Init PROVE Quiet
  BY DEF QuietInv
<1>1. /\ tasks = [t \in Tasks |-> IdleTask] /\ holders = {} /\ IdleTask.pc = "idle"
      /\ issues = [w \in Windows |-> {}]
  BY IdleTaskType DEF Init
<1>2. LedgerIsQuiet
  <2>1. CASE blob = Absent /\ ledger = L!EmptyLedger
    BY <2>1 DEF Absent, LedgerIsQuiet, L!EmptyLedger, L!Unmarked
  <2>2. CASE /\ blob \in {[sealed |-> TRUE, gen |-> 0, contacts |-> c] : c \in Contacts}
             /\ ledger = L!AbsentLedger /\ ~OthersCarry
    <3>1. blob.sealed /\ blob.gen = 0
      BY <2>2
    <3> QED
      BY <2>2, <3>1 DEF LedgerIsQuiet, L!AbsentLedger, L!EmptyLedger, L!Unmarked
  <2> QED
    BY <2>1, <2>2 DEF Init
<1> QED
  BY <1>1, <1>2 DEF Quiet, NoIssues, NotYetObserved, TaskIsQuiet

\* Nobody else is in the ledger's lock, or anywhere.
LEMMA AloneInTheLock ==
  ASSUME LockInv, TypeInv, NEW t \in Tasks, \A u \in Tasks \ {t} : tasks[u].pc = "idle"
  PROVE  holders \subseteq {t}
BY DEF LockInv, HolderIsWaiting, Waiting, TypeInv, TypeOK

\* A step of the call that is under way.
LEMMA QuietStep ==
  ASSUME TypeInv, NEW t \in Tasks, NEW y \in Task, Become(t, y), holders' \subseteq {t},
         \A u \in Tasks \ {t} : tasks[u].pc = "idle",
         NoIssues', LedgerIsQuiet',
         ledger'.state = "absent" => y.pc \in {"idle", "get", "observe"},
         y.pc = "absent" => ~blob'.sealed,
         y.pc \in {"observe", "mark"} => blob'.sealed /\ y.gen = blob'.gen,
         y.pc = "set" => ledger'.mark <= y.gen,
         t \in holders' => /\ y.in.lost = "none" /\ y.in.mark <= blob'.gen
                           /\ ~blob'.sealed => y.in.mark = L!Unmarked
  PROVE  Quiet'
<1>1. tasks' = [tasks EXCEPT ![t] = y] /\ tasks \in [Tasks -> Task]
  BY DEF Become, TypeInv, TypeOK
<1>2. tasks'[t] = y /\ \A u \in Tasks \ {t} : tasks'[u] = tasks[u]
  BY <1>1
<1>3. (\A u \in Tasks : TaskIsQuiet(u))'
  <2>1. TaskIsQuiet(t)'
    BY <1>2 DEF TaskIsQuiet
  <2>2. ASSUME NEW u \in Tasks \ {t} PROVE TaskIsQuiet(u)'
    BY <1>2, <2>2 DEF TaskIsQuiet
  <2> QED
    BY <2>1, <2>2
<1>4. ledger'.state = "absent" => NotYetObserved'
  BY <1>2 DEF NotYetObserved
<1> QED
  BY <1>3, <1>4 DEF Quiet

LEMMA QuietTaskStep ==
  ASSUME TypeInv, LockInv, Quiet, Undisturbed, NEW t \in Tasks, TaskStep(t),
         \A u \in Tasks \ {t} : tasks[u].pc = "idle"
  PROVE  Quiet'
<1> DEFINE x == tasks[t]
<1>1. /\ holders \subseteq {t} /\ NoIssues /\ LedgerIsQuiet /\ TaskIsQuiet(t)
      /\ ledger.state = "absent" => x.pc \in {"idle", "get", "observe"}
  BY AloneInTheLock DEF Quiet, NotYetObserved
<1>2. x.pc # "idle" /\ Open(t)
  <2>1. x.pc # "idle"
    BY DEF TaskStep, Get, NoteAbsent, PeekFloor, SkipLedger, EnterLedger, LeaveLedger, Claim, Set,
           Finish, Waiting
  <2> QED
    BY <2>1 DEF LockInv, CallsAreOpen, Undisturbed
<1>3. IdleTask \in Task /\ IdleTask.pc = "idle"
  BY IdleTaskType
<1>4. ASSUME NEW y \in Task, Become(t, y), UNCHANGED <<blob, ledger, holders, issues>>, t \notin holders,
             ledger.state = "absent" => y.pc \in {"idle", "get", "observe"},
             y.pc = "absent" => ~blob.sealed,
             y.pc \in {"observe", "mark"} => blob.sealed /\ y.gen = blob.gen,
             y.pc = "set" => ledger.mark <= y.gen
      PROVE  Quiet'
  <2>1. NoIssues' /\ LedgerIsQuiet'
    BY <1>1, <1>4 DEF NoIssues, LedgerIsQuiet
  <2> QED
    BY <1>1, <1>4, <2>1, QuietStep
<1>5. x.pc \notin Waiting => t \notin holders
  BY DEF LockInv, HolderIsWaiting
<1>6. CASE Get(t)
  <2>1. UNCHANGED <<blob, ledger, holders, issues>> /\ x.pc = "get"
    BY <1>6 DEF Get, storage
  <2>2. PICK y \in Task :
          /\ Become(t, y)
          /\ \/ y = IdleTask
             \/ y.pc = "absent" /\ ~blob.sealed
             \/ y.pc = "observe" /\ blob.sealed /\ y.gen = blob.gen
    BY <1>6, GetValue
  <2>3. ledger.state = "absent" => y.pc # "absent"
    BY <1>1, <2>2, <1>3 DEF LedgerIsQuiet
  <2> QED
    BY <1>3, <1>4, <1>5, <2>1, <2>2, <2>3 DEF Waiting
<1>7. CASE NoteAbsent(t)
  <2>1. UNCHANGED <<blob, ledger, holders>> /\ x.pc = "absent"
    BY <1>7 DEF NoteAbsent, storage
  <2>2. PICK y \in Task, kinds \in SUBSET IssueKinds :
          /\ Become(t, y) /\ Report(t, kinds)
          /\ y.pc \in {"done", "claim", "floor2"}
          /\ kinds # {} => \/ ledger.state = "good" /\ ledger.mark # L!Unmarked
                           \/ ledger.state = "absent" /\ OthersCarry
    BY <1>7, NoteAbsentValue
  <2>3. ~blob.sealed /\ ledger.state = "good" /\ ledger.mark = L!Unmarked
    BY <1>1, <2>1 DEF TaskIsQuiet, LedgerIsQuiet
  <2>4. kinds = {}
    BY <2>2, <2>3
  <2>5. issues' = issues
    BY <2>2, <2>4 DEF Report, TypeInv, TypeOK
  <2> QED
    BY <1>4, <1>5, <2>1, <2>2, <2>3, <2>5 DEF Waiting
<1>8. CASE PeekFloor(t)
  <2>1. UNCHANGED <<blob, ledger, holders, issues>> /\ x.pc \in {"floor", "floor2"}
    BY <1>8 DEF PeekFloor, storage
  <2>2. PICK y \in Task : Become(t, y) /\ y.pc \in {"record", "done", "claim", "floor2", "record2"}
    BY <1>8, <2>1, PeekFloorValue
  <2> QED
    BY <1>1, <1>4, <1>5, <2>1, <2>2 DEF Waiting
<1>9. CASE SkipLedger(t)
  BY <1>2, <1>9 DEF SkipLedger
<1>10. CASE EnterLedger(t)
  <2>1. /\ UNCHANGED <<blob, ledger>> /\ x.pc \in Waiting /\ holders' \subseteq {t}
    BY <1>1, <1>10 DEF EnterLedger, storage
  <2>2. PICK y \in Task : /\ Become(t, y) /\ y.pc = x.pc /\ y.gen = x.gen /\ y.in = Read(t)
                          /\ Report(t, {Read(t).lost} \ {"none"})
    BY <1>10, EnterValue
  <2>3. /\ Read(t).lost = "none" /\ Read(t).mark <= blob.gen
        /\ ~blob.sealed => Read(t).mark = L!Unmarked
    <3>1. CASE ledger.state = "good"
      BY <1>1, <1>2, <3>1 DEF Read, Found, LedgerIsQuiet
    <3>2. CASE ledger.state # "good"
      <4>1. ledger.state = "absent" /\ ~OthersCarry /\ blob.gen = 0
        BY <1>1, <3>2 DEF LedgerIsQuiet, TypeInv, TypeOK, L!Ledgers
      <4>2. Read(t) = L!Replacement("absent", FALSE)
        <5>1. ~(OthersCarry \/ (x.pc # "mark" /\ blob.sealed /\ blob.gen > 0))
          BY <4>1
        <5> QED
          BY <1>2, <4>1, <5>1 DEF Read, Found
      <4>3. L!Replacement("absent", FALSE).lost = "none"
            /\ L!Replacement("absent", FALSE).mark = -1
        BY DEF L!Replacement, L!EmptyLedger, L!Unmarked
      <4>4. Read(t).lost = "none" /\ Read(t).mark = -1
        BY <4>2, <4>3
      <4>5. blob.sealed
        BY <1>1, <3>2 DEF LedgerIsQuiet
      <4> QED
        BY <4>1, <4>4, <4>5
    <3> QED
      BY <3>1, <3>2
  <2>4. issues' = issues
    BY <2>2, <2>3 DEF Report, TypeInv, TypeOK
  <2>5. NoIssues' /\ LedgerIsQuiet'
    BY <1>1, <2>1, <2>4 DEF NoIssues, LedgerIsQuiet
  <2>6. /\ y.pc \in {"observe", "mark"} => blob'.sealed /\ y.gen = blob'.gen
        /\ ledger'.state = "absent" => y.pc \in {"idle", "get", "observe"}
        /\ y.pc \notin {"absent", "set"}
    BY <1>1, <2>1, <2>2 DEF TaskIsQuiet, Waiting
  <2> QED
    BY <2>1, <2>2, <2>3, <2>5, <2>6, QuietStep
<1>11. CASE LeaveLedger(t)
  <2> DEFINE older == x.pc = "observe" /\ L!Older(x.in, x.gen)
  <2>1. x.pc \in Waiting /\ t \in holders /\ blob' = blob /\ holders' = holders \ {t}
    BY <1>11 DEF LeaveLedger, Inside, Release, storage
  <2>2. x.in.lost = "none" /\ x.in.mark <= blob.gen /\ x.in \in L!Ledgers /\ x.in.state = "good"
    BY <1>1, <2>1 DEF TaskIsQuiet, TypeInv, TypeOK, Task, LockInv, HolderIsWaiting
  <2>3. blob.gen \in Int /\ x.in.mark \in Int /\ x.gen \in Int
    BY <2>2, Generations DEF TypeInv, TypeOK, Blobs, Task, L!Ledgers
  <2>4. ~older
    <3>1. x.pc = "observe" => x.gen = blob.gen
      BY <1>1 DEF TaskIsQuiet
    <3> QED
      BY <2>2, <2>3, <3>1 DEF L!Older
  <2>5. PICK y \in Task : Become(t, y) /\ y.pc = After(t).pc
    BY <1>11, LeaveValue
  <2>6. y.pc \in {"done", "claim", "floor", "floor2"}
    BY <2>1, <2>5, AfterValue DEF TypeInv, Waiting
  <2>7. issues' = issues
    <3>1. Report(t, {})
      BY <1>11, <2>4 DEF LeaveLedger
    <3> QED
      BY <3>1 DEF Report, TypeInv, TypeOK
  <2> DEFINE l == Updated(t)
  <2>8. /\ l \in L!Ledgers /\ l.state = "good" /\ l.lost = "none" /\ l.mark <= blob.gen
        /\ ~blob.sealed => l.mark = L!Unmarked
    <3>1. l \in L!Ledgers /\ l.state = "good" /\ l.lost = "none"
      BY <2>1, <2>2, UpdatedValue
    <3>2. CASE x.pc = "observe"
      <4>1. l.mark = x.gen
        BY <2>1, <2>4, <3>2, UpdatedValue
      <4> QED
        BY <1>1, <2>3, <3>1, <3>2, <4>1 DEF TaskIsQuiet
    <3>3. CASE x.pc \in {"record", "record2"}
      <4>1. l = [x.in EXCEPT !.floor = x.in.floor \cup x.ids]
        BY <3>3 DEF Updated, L!RecordRevoked
      <4>2. ~blob.sealed => x.in.mark = L!Unmarked
        BY <1>1, <2>1 DEF TaskIsQuiet
      <4> QED
        BY <2>2, <3>1, <4>1, <4>2 DEF L!Ledgers
    <3>4. CASE x.pc = "mark"
      <4>1. l = IF x.in.mark >= x.gen THEN x.in ELSE [x.in EXCEPT !.mark = x.gen]
        BY <3>4 DEF Updated, L!RecordWrite
      <4>2. x.gen = blob.gen /\ blob.sealed
        BY <1>1, <3>4 DEF TaskIsQuiet
      <4>3. [x.in EXCEPT !.mark = x.gen].mark = x.gen
        BY <2>2 DEF L!Ledgers
      <4> QED
        BY <2>2, <2>3, <3>1, <4>1, <4>2, <4>3
    <3> QED
      BY <2>1, <3>2, <3>3, <3>4 DEF Waiting
  <2>9. ledger' = IF x.fresh \/ l # x.in THEN l ELSE ledger
    BY <1>2, <1>11 DEF LeaveLedger
  <2>10. ~x.fresh => ledger.state = "good"
    <3>1. CASE ledger = x.in
      BY <2>2, <3>1
    <3>2. CASE ledger # x.in
      BY <2>1, <3>2 DEF LockInv, HolderKnowsLedger, Undisturbed
    <3> QED
      BY <3>1, <3>2
  <2> HIDE DEF l
  <2>11. /\ ledger'.state = "good" /\ ledger'.lost = "none" /\ ledger'.mark <= blob.gen
         /\ ~blob.sealed => ledger'.mark = L!Unmarked
    <3>1. CASE ledger' = l
      BY <2>8, <3>1
    <3>2. CASE ledger' = ledger /\ ~x.fresh
      BY <1>1, <2>10, <3>2 DEF LedgerIsQuiet
    <3> QED
      BY <2>9, <3>1, <3>2
  <2>12. NoIssues' /\ LedgerIsQuiet' /\ holders' = {}
    BY <1>1, <2>1, <2>7, <2>11 DEF NoIssues, LedgerIsQuiet
  <2> QED
    BY <2>5, <2>6, <2>11, <2>12, QuietStep
<1>12. CASE Claim(t)
  <2>1. UNCHANGED <<blob, ledger, holders, issues>> /\ x.pc = "claim"
    BY <1>12 DEF Claim, storage
  <2>2. ledger.state = "good"
    BY <1>1, <2>1 DEF LedgerIsQuiet, TypeInv, TypeOK, L!Ledgers
  <2>3. PICK y \in Task : Become(t, y) /\ y.pc = "set" /\ y.gen > ledger.mark
    BY <1>2, <1>12, <2>2, ClaimValue
  <2>4. y.gen \in Int /\ ledger.mark \in Int
    BY Generations DEF Task, TypeInv, TypeOK, L!Ledgers
  <2>5. ledger.mark <= y.gen
    BY <2>3, <2>4
  <2> QED
    BY <1>4, <1>5, <2>1, <2>2, <2>3, <2>5 DEF Waiting
<1>13. CASE Set(t)
  <2>1. UNCHANGED <<ledger, holders, issues>> /\ x.pc = "set"
    BY <1>13 DEF Set
  <2>2. PICK y \in Task : /\ Become(t, y) /\ y.gen = x.gen /\ y.pc = "mark"
                          /\ blob' = [sealed |-> TRUE, gen |-> x.gen, contacts |-> x.view]
    BY <1>2, <1>13, SetValue DEF Keeps
  <2>3. blob'.sealed /\ blob'.gen = x.gen
    BY <2>2
  <2>4. ledger.state # "absent" /\ ledger.mark <= x.gen
    BY <1>1, <2>1 DEF TaskIsQuiet
  <2>5. NoIssues' /\ LedgerIsQuiet'
    BY <1>1, <2>1, <2>3, <2>4 DEF NoIssues, LedgerIsQuiet
  <2> QED
    BY <1>1, <1>5, <2>1, <2>2, <2>3, <2>4, <2>5, QuietStep DEF Waiting
<1>14. CASE Finish(t)
  <2>1. Become(t, IdleTask) /\ UNCHANGED <<blob, ledger, holders, issues>> /\ x.pc = "done"
    BY <1>14 DEF Finish, Fail, storage
  <2> QED
    BY <1>3, <1>4, <1>5, <2>1 DEF Waiting
<1> QED
  BY <1>6, <1>7, <1>8, <1>9, <1>10, <1>11, <1>12, <1>13, <1>14 DEF TaskStep

LEMMA QuietStart ==
  ASSUME TypeInv, LockInv, Quiet, Alone', NEW t \in Tasks, NEW op \in Changes \cup {"load"},
         NEW id \in Ids, Start(t, op, id)
  PROVE  Quiet'
<1>1. PICK y \in Task : Become(t, y) /\ y.pc = "get"
  BY StartValue
<1>2. UNCHANGED <<blob, ledger, holders, issues>> /\ tasks[t].pc = "idle"
  BY DEF Start, storage
<1>3. tasks' = [tasks EXCEPT ![t] = y] /\ tasks \in [Tasks -> Task]
  BY <1>1 DEF Become, TypeInv, TypeOK
<1>4. \A u \in Tasks \ {t} : tasks[u].pc = "idle"
  <2>1. tasks'[t] = y /\ \A u \in Tasks \ {t} : tasks'[u] = tasks[u]
    BY <1>3
  <2> QED
    BY <1>1, <2>1 DEF Alone
<1>5. holders \subseteq {t} /\ t \notin holders
  BY <1>2, <1>4, AloneInTheLock DEF LockInv, HolderIsWaiting, Waiting
<1>6. NoIssues' /\ LedgerIsQuiet'
  BY <1>2 DEF Quiet, NoIssues, LedgerIsQuiet
<1> QED
  BY <1>1, <1>2, <1>4, <1>5, <1>6, QuietStep

LEMMA QuietElsewhere ==
  ASSUME TypeInv, LockInv, QuietInv,
         \/ ClockMoves \/ OlderCopy \/ LedgerGone \/ UNCHANGED vars
         \/ \E w \in Windows : MasterLock(w) \/ Unlock(w) \/ Close(w) \/ Dismiss(w)
  PROVE  QuietInv'
<1>1. CASE ClockMoves \/ UNCHANGED vars \/ \E w \in Windows : Unlock(w)
  <2>1. UNCHANGED <<blob, ledger, holders, issues, tasks, spent>>
    BY <1>1 DEF ClockMoves, vars, Unlock, storage, env
  <2> QED
    BY <2>1 DEF QuietInv, Undisturbed, Unlocked, Quiet, NoIssues, LedgerIsQuiet, NotYetObserved,
                TaskIsQuiet
<1>2. CASE OlderCopy \/ LedgerGone \/ \E w \in Windows : MasterLock(w)
  <2>1. ~Undisturbed'
    BY <1>2, BoundsAssumption DEF OlderCopy, LedgerGone, MasterLock, Undisturbed, Unlocked, TypeInv, TypeOK
  <2> QED
    BY <2>1 DEF QuietInv
<1>3. ASSUME NEW w \in Windows, Close(w), Undisturbed' PROVE Quiet'
  <2>1. /\ tasks' = [t \in Tasks |-> IF WindowOf[t] = w THEN IdleTask ELSE tasks[t]]
        /\ holders' = {t \in holders : WindowOf[t] # w} /\ issues' = [issues EXCEPT ![w] = {}]
        /\ UNCHANGED <<blob, ledger>>
    BY <1>3 DEF Close, storage
  <2>2. Quiet
    BY <1>3 DEF Close, Undisturbed, Unlocked, QuietInv, TypeInv, TypeOK
  <2>3. holders \subseteq Tasks /\ issues \in [Windows -> SUBSET IssueKinds] /\ IdleTask.pc = "idle"
    BY IdleTaskType DEF TypeInv, TypeOK
  <2>4. \A t \in Tasks : tasks'[t] = tasks[t] \/ (tasks'[t].pc = "idle" /\ t \notin holders')
    BY <2>1, <2>3
  <2>5. NoIssues' /\ LedgerIsQuiet'
    BY <2>1, <2>2, <2>3 DEF Quiet, NoIssues, LedgerIsQuiet
  <2>6. NotYetObserved => NotYetObserved'
    BY <2>4 DEF NotYetObserved
  <2>7. ASSUME NEW t \in Tasks PROVE TaskIsQuiet(t)'
    BY <2>1, <2>2, <2>4 DEF Quiet, TaskIsQuiet
  <2> QED
    BY <2>1, <2>2, <2>5, <2>6, <2>7 DEF Quiet
<1>4. ASSUME NEW w \in Windows, Dismiss(w), Undisturbed' PROVE FALSE
  <2>1. issues[w] # {} /\ spent' = spent
    BY <1>4 DEF Dismiss, env
  <2> QED
    BY <1>4, <2>1 DEF QuietInv, Undisturbed, Unlocked, Quiet, NoIssues
<1> QED
  BY <1>1, <1>2, <1>3, <1>4 DEF QuietInv

LEMMA NextQuiet ==
  TypeInv /\ LockInv /\ QuietInv /\ Alone /\ Alone' /\ [Next]_vars => QuietInv'
<1> SUFFICES ASSUME TypeInv, LockInv, QuietInv, Alone, Alone', [Next]_vars PROVE QuietInv'
  OBVIOUS
<1>1. ASSUME NEW t \in Tasks, TaskStep(t) PROVE QuietInv'
  <2>1. spent' = spent /\ tasks[t].pc # "idle"
    BY <1>1 DEF TaskStep, Get, NoteAbsent, PeekFloor, SkipLedger, EnterLedger, LeaveLedger, Claim, Set,
                Finish, Waiting, env
  <2>2. \A u \in Tasks \ {t} : tasks[u].pc = "idle"
    BY <2>1 DEF Alone
  <2> QED
    BY <1>1, <2>1, <2>2, QuietTaskStep DEF QuietInv, Undisturbed, Unlocked
<1>2. ASSUME NEW t \in Tasks, NEW op \in Changes \cup {"load"}, NEW id \in Ids, Start(t, op, id)
      PROVE  QuietInv'
  <2>1. Undisturbed' => Undisturbed
    BY <1>2 DEF Start, Undisturbed, Unlocked, TypeInv, TypeOK
  <2> QED
    BY <1>2, <2>1, QuietStart DEF QuietInv
<1>3. CASE \/ ClockMoves \/ OlderCopy \/ LedgerGone \/ UNCHANGED vars
           \/ \E w \in Windows : MasterLock(w) \/ Unlock(w) \/ Close(w) \/ Dismiss(w)
  BY <1>3, QuietElsewhere
<1> QED
  BY <1>1, <1>2, <1>3 DEF Next

\* Calls that take turns, of whatever windows, never warn on a device that is
\* not locked and whose store and ledger nobody touched, wherever a call is cut
\* off and whatever the clock does (integrity.ts:8).  Two calls at once can:
\* one then reads the store before the other writes it, and looks at the mark
\* after (encrypted-store.ts:78).
THEOREM QuietDevicesDoNotWarn ==
  Spec /\ []Alone => [](Unlocked => NoWarningWithoutCause)
<1>1. QuietInv => (Unlocked => NoWarningWithoutCause)
  BY DEF QuietInv, Quiet, NoIssues, Undisturbed, NoWarningWithoutCause
<1> QED
  BY <1>1, InitQuiet, NextQuiet, LedgerLockHolds, PTL DEF Spec

\* So the warnings of an unlocked device are true: an older copy is reported,
\* and nothing else is (integrity.ts:8, :449).
THEOREM WarningsStayTrue ==
  ASSUME MaxLocks = 0, OthersCarry \/ MaxGone = 0
  PROVE  Spec /\ []Alone => []WarningsAreTrue
<1>1. TypeOK => Unlocked
  BY DEF TypeOK, Unlocked
<1> QED
  BY <1>1, QuietDevicesDoNotWarn, OlderCopyIsReportedUnlocked, StoreTypes, PTL DEF WarningsAreTrue

-----------------------------------------------------------------------------
(* Importing SSH keys *)

\* A row is headed by one of its keys; a mark is about a row.
SshRows == {r \in [id : SshKey, keys : SUBSET SshKey, src : Account \cup {Pasted}, name : Account \cup Comment \cup {NoName},
                   status : {"new", "update", "duplicate", "rejected"}, allOff : BOOLEAN] : r.id \in r.keys}
SshMarks == [r : SshRows, conflict : {"none", "key", "address", "name"}, holders : SUBSET SshKey]

\* What was found of a row as long as nobody else writes: but for the contact it
\* refreshes, nobody holds its keys if it says so, and nobody is headed by its head.
IsApart(r) ==
    /\ r.keys \cap OwnSsh = {}
    /\ \A c \in people : c.keys \cap r.keys # {} => SameSource(c, r)
HeadIsFree(r) == r.src # Pasted => \A o \in people : o.id = r.id => SameSource(o, r)
JudgedRight(x) == (x.conflict # "key" => IsApart(x.r)) /\ HeadIsFree(x.r)

RowsAreSound ==
    /\ stage.rows \subseteq SshMarks
    /\ \A x, y \in stage.rows : x # y => x.r.keys \cap y.r.keys = {}
    /\ stage.at = "preview" => \A x, y \in stage.rows : NeedsDecision(x) => NeedsDecision(y)
    /\ ~overtaken => \A x \in stage.rows : NeedsDecision(x) => JudgedRight(x)
ProposalIsNew ==
    /\ stage.proposal \subseteq SshKey
    /\ ~overtaken => \A k \in stage.proposal : k \notin OwnSsh /\ \A c \in people : k \notin c.keys
TodoIsTyped ==
    \A i \in stage.todo :
        /\ i.x \in SshMarks /\ i.x.r.status \in {"new", "update"}
        /\ i.decision \in {"import", "replace", "remove"}
        /\ i.decision \in {"replace", "remove"} => i.x.conflict = "address"
        /\ i.decision = "remove" => i.id \in SshKey
TodoIsApart ==
    \A i, j \in stage.todo : i # j /\ i.decision # "remove" /\ j.decision # "remove" => i.x.r.keys \cap j.x.r.keys = {}
TodoIsJudged == ~overtaken => \A i \in stage.todo : i.decision # "remove" => JudgedRight(i.x)
TodoIsSound == TodoIsTyped /\ TodoIsApart /\ TodoIsJudged
StageIsOrdered ==
    /\ stage.at \in {"source", "preview", "review", "saving"}
    /\ stage.at = "source" => stage.rows = {} /\ stage.proposal = {} /\ stage.todo = {}
    /\ stage.at = "saving" => stage.rows = {} /\ stage.proposal = {}
StageTyped == stage = [at |-> stage.at, rows |-> stage.rows, proposal |-> stage.proposal, todo |-> stage.todo]
StageIsSound == StageTyped /\ StageIsOrdered /\ RowsAreSound /\ ProposalIsNew /\ TodoIsSound

PeopleAreSound ==
    /\ people \subseteq Contact /\ \A c, d \in people : c.id = d.id => c = d
    /\ \A c \in people : c.id \in c.keys /\ c.off \subseteq c.keys
    /\ asked \subseteq SshKey /\ overtaken \in BOOLEAN
\* Of two who share a key, one was asked about; so was whoever holds the user's own.
PairsWereAsked ==
    \A c \in people : overtaken \/ c.id \in asked
                      \/ /\ c.keys \cap OwnSsh = {}
                         /\ \A d \in people : d # c /\ c.keys \cap d.keys # {} => d.id \in asked

SshIInv == PeopleAreSound /\ AccountsHaveOneContact /\ PairsWereAsked /\ StageIsSound

EditsAreCounted == edits \in Nat

LEMMA SshInitHolds == sshInit => SshIInv
<1> SUFFICES ASSUME sshInit PROVE SshIInv
  OBVIOUS
<1> USE DEF sshInit, NoStage
<1>1. PeopleAreSound /\ AccountsHaveOneContact /\ PairsWereAsked
  BY DEF PeopleAreSound, AccountsHaveOneContact, PairsWereAsked
<1>2. StageIsSound
  BY DEF StageIsSound, StageTyped, StageIsOrdered, RowsAreSound, ProposalIsNew, TodoIsSound, TodoIsTyped, TodoIsApart, TodoIsJudged
<1> QED
  BY <1>1, <1>2 DEF SshIInv

-----------------------------------------------------------------------------
\* Reading.

LEMMA MarkedAreSound ==
  ASSUME PeopleAreSound, NEW rows \in SUBSET SshRows
  PROVE  /\ Marked(rows) \subseteq SshMarks
         /\ \A x \in Marked(rows) : x.r \in rows /\ (NeedsDecision(x) /\ x.conflict # "key" => IsApart(x.r))
         /\ \A x, y \in Marked(rows) : x.r = y.r => x = y
         /\ \A r \in rows : \E x \in Marked(rows) : x.r = r
<1>1. ASSUME NEW r \in rows
      PROVE  /\ Conflict(r, rows) \in {"none", "key", "address", "name"}
             /\ {c.id : c \in Claimants(r, rows) \cap people} \in SUBSET SshKey
  <2>1. \A c \in people : c.id \in SshKey
    BY DEF PeopleAreSound, Contact
  <2> QED
    BY <2>1 DEF Conflict
<1>2. Marked(rows) \subseteq SshMarks
  BY <1>1 DEF Marked, SshMarks
<1>3. ASSUME NEW x \in Marked(rows) PROVE x.r \in rows /\ x.conflict = Conflict(x.r, rows)
  BY DEF Marked
<1>4. ASSUME NEW x \in Marked(rows), NeedsDecision(x), x.conflict # "key" PROVE IsApart(x.r)
  <2>1. Rivals(x.r) = {} /\ x.r.keys \cap OwnSsh = {}
    BY <1>3, <1>4 DEF Conflict, NeedsDecision
  <2> QED
    BY <2>1 DEF Rivals, Holding, IsApart
<1>5. \A x, y \in Marked(rows) : x.r = y.r => x = y
  BY DEF Marked
<1>6. ASSUME NEW r \in rows PROVE \E x \in Marked(rows) : x.r = r
  <2> DEFINE x == [r |-> r, conflict |-> Conflict(r, rows), holders |-> {c.id : c \in Claimants(r, rows) \cap people}]
  <2>1. x \in Marked(rows)
    BY DEF Marked
  <2>2. x.r = r
    OBVIOUS
  <2> HIDE DEF x
  <2> QED
    BY <2>1, <2>2
<1> QED
  BY <1>2, <1>3, <1>4, <1>5, <1>6

\* An account's row is headed by a key that nobody else is headed by.
LEMMA GithubRowsAreSound ==
  ASSUME PeopleAreSound, NEW user \in Account, NEW ids \in SUBSET SshKey, ids # {}, NEW row \in GithubKey(user, ids)
  PROVE  row \in SshRows /\ (row.status \in {"new", "update"} => HeadIsFree(row))
<1> DEFINE was == Existing(user)
           rest == people \ Existing(user)
           heads == Heads(ids, user)
           as(status) == {Row(h, ids, user, user, status) : h \in IF heads = {} THEN ids ELSE heads}
<1>1. heads \subseteq ids
  BY DEF Heads
<1>2. ASSUME NEW h \in heads, NEW o \in people, o.id = h PROVE o.src = user
  <2>1. o.id \in o.keys
    BY DEF PeopleAreSound
  <2>2. CASE o \in rest
    BY <1>2, <2>1, <2>2 DEF Heads, KeysOf
  <2> QED
    BY <2>2 DEF Existing
<1>3. ASSUME NEW s \in {"new", "update", "duplicate", "rejected"}, NEW r \in as(s)
      PROVE  /\ r \in SshRows /\ r.status = s
             /\ heads # {} => HeadIsFree(r)
             /\ \E h \in ids : r = [id |-> h, keys |-> ids, src |-> user, name |-> user, status |-> s, allOff |-> FALSE]
  <2>1. PICK h \in IF heads = {} THEN ids ELSE heads : r = [id |-> h, keys |-> ids, src |-> user, name |-> user, status |-> s, allOff |-> FALSE]
    BY DEF Row
  <2>2. h \in ids
    BY <1>1, <2>1
  <2>3. r \in SshRows /\ r.status = s
    BY <2>1, <2>2 DEF SshRows
  <2>4. ASSUME heads # {} PROVE HeadIsFree(r)
    BY <1>2, <2>1, <2>4 DEF HeadIsFree, SameSource
  <2> QED
    BY <2>1, <2>2, <2>3, <2>4
<1>4. \/ heads = {} /\ (row \in as("rejected") \/ row \in as("duplicate"))
      \/ heads # {} /\ (row \in as("new") \/ row \in as("duplicate"))
      \/ heads # {} /\ \E r \in as("update") : row = [r EXCEPT !.allOff = \A c \in was : ids \subseteq c.off]
  BY DEF GithubKey
<1> HIDE DEF as
<1>5. CASE heads = {} /\ (row \in as("rejected") \/ row \in as("duplicate"))
  <2>1. row \in SshRows /\ row.status \in {"rejected", "duplicate"}
    BY <1>3, <1>5
  <2> QED
    BY <2>1
<1>6. CASE heads # {} /\ (row \in as("new") \/ row \in as("duplicate"))
  BY <1>3, <1>6
<1>7. CASE heads # {} /\ \E r \in as("update") : row = [r EXCEPT !.allOff = \A c \in was : ids \subseteq c.off]
  <2>1. PICK r \in as("update") : row = [r EXCEPT !.allOff = \A c \in was : ids \subseteq c.off]
    BY <1>7
  <2>2. PICK h \in ids : r = [id |-> h, keys |-> ids, src |-> user, name |-> user, status |-> "update", allOff |-> FALSE]
    BY <1>3
  <2> DEFINE off == \A c \in was : ids \subseteq c.off
  <2>3. row = [id |-> h, keys |-> ids, src |-> user, name |-> user, status |-> "update", allOff |-> off]
    BY <2>1, <2>2
  <2>4. off \in BOOLEAN
    OBVIOUS
  <2> HIDE DEF off
  <2>5. row \in SshRows
    BY <2>3, <2>4 DEF SshRows
  <2>6. HeadIsFree(r)
    BY <1>3, <1>7
  <2> QED
    BY <2>2, <2>3, <2>5, <2>6 DEF HeadIsFree, SameSource
<1> QED
  BY <1>4, <1>5, <1>6, <1>7

LEMMA GroupRowsAreSound ==
  ASSUME PeopleAreSound, NEW label \in Comment \cup {NoName}, NEW ids \in SUBSET SshKey, NEW row \in GroupKey(label, ids)
  PROVE  row \in SshRows /\ row.src = Pasted
<1>1. \E h \in ids, s \in {"new", "update", "duplicate"} : row = Row(h, ids, Pasted, label, s)
  BY DEF GroupKey, UpdateOf
<1> QED
  BY <1>1 DEF Row, SshRows

\* What is shown of a reading nobody has overtaken.
LEMMA ShownIsSound ==
  ASSUME PeopleAreSound, NEW marked \in SUBSET SshMarks,
         \A x, y \in marked : x # y => x.r.keys \cap y.r.keys = {},
         \A x \in marked : NeedsDecision(x) => JudgedRight(x),
         Cardinality(marked) > 1 \/ \A x, y \in marked : x = y,
         stage' = Show(marked), UNCHANGED <<people, asked, overtaken>>
  PROVE  StageIsSound'
<1>1. stage' = [at |-> IF Cardinality(marked) > 1 \/ \E x \in marked : x.conflict # "none" \/ x.r.allOff THEN "review" ELSE "preview",
                rows |-> marked, proposal |-> {}, todo |-> {}]
  BY DEF Show, NoStage
<1>2. stage'.at \in {"preview", "review"} /\ stage'.rows = marked /\ stage'.proposal = {} /\ stage'.todo = {}
  BY <1>1
<1>3. stage'.at = "preview" => \A x, y \in marked : x = y
  BY <1>1
<1>4. \A x : JudgedRight(x) => JudgedRight(x)'
  BY DEF JudgedRight, IsApart, HeadIsFree, SameSource
<1>5. RowsAreSound'
  BY <1>2, <1>3, <1>4 DEF RowsAreSound, NeedsDecision
<1> QED
  BY <1>1, <1>2, <1>5 DEF StageIsSound, StageTyped, StageIsOrdered, ProposalIsNew, TodoIsSound, TodoIsTyped, TodoIsApart, TodoIsJudged

\* Lines that stay apart: a row each.
LEMMA SinglesAreSound ==
  ASSUME PeopleAreSound, NEW rows \in SUBSET SshRows,
         \A r \in rows : r.src = Pasted /\ r.keys = {r.id},
         \A r, q \in rows : r.id = q.id => r = q
  PROVE  /\ Marked(rows) \subseteq SshMarks /\ IsFiniteSet(Marked(rows))
         /\ \A x, y \in Marked(rows) : x # y => x.r.keys \cap y.r.keys = {}
         /\ \A x \in Marked(rows) : x.r \in rows /\ (NeedsDecision(x) => JudgedRight(x))
<1> DEFINE singles == Marked(rows)
<1>1. /\ singles \subseteq SshMarks
      /\ \A x \in singles : x.r \in rows /\ (NeedsDecision(x) /\ x.conflict # "key" => IsApart(x.r))
      /\ \A x, y \in singles : x.r = y.r => x = y
  BY MarkedAreSound
<1> HIDE DEF singles
<1>2. \A x, y \in singles : x.r.id = y.r.id => x = y
  BY <1>1
<1>3. IsFiniteSet(singles)
  <2> DEFINE f == [x \in singles |-> x.r.id]
  <2>1. \A x \in singles : x.r.id \in SshKey
    BY <1>1 DEF SshRows
  <2>2. f \in Injection(singles, SshKey)
    BY <2>1, <1>2 DEF Injection, IsInjective
  <2> QED
    BY <2>2, OwnAssumption, FS_Injection
<1>4. \A x, y \in singles : x # y => x.r.keys \cap y.r.keys = {}
  BY <1>1, <1>2
<1>5. \A x \in singles : x.r \in rows /\ (NeedsDecision(x) => JudgedRight(x))
  BY <1>1 DEF JudgedRight, HeadIsFree
<1> QED
  BY <1>1, <1>3, <1>4, <1>5 DEF singles

LEMMA OneMarkedIsSound ==
  ASSUME PeopleAreSound, NEW row \in SshRows, row.status \in {"new", "update"} => HeadIsFree(row),
         stage' = Show(Marked({row})), UNCHANGED <<people, asked, overtaken>>
  PROVE  StageIsSound'
<1>1. /\ Marked({row}) \subseteq SshMarks
      /\ \A x \in Marked({row}) : x.r \in {row} /\ (NeedsDecision(x) /\ x.conflict # "key" => IsApart(x.r))
      /\ \A x, y \in Marked({row}) : x.r = y.r => x = y
  <2>1. {row} \in SUBSET SshRows
    OBVIOUS
  <2> QED
    BY <2>1, MarkedAreSound
<1> DEFINE marked == Marked({row})
<1> HIDE DEF marked
<1>2. \A x \in marked : x.r = row
  BY <1>1 DEF marked
<1>3. \A x, y \in marked : x = y
  BY <1>1, <1>2 DEF marked
<1>4. \A x \in marked : NeedsDecision(x) => JudgedRight(x)
  BY <1>1, <1>2 DEF marked, NeedsDecision, JudgedRight
<1>5. marked \in SUBSET SshMarks /\ stage' = Show(marked)
  BY <1>1 DEF marked
<1> QED
  BY <1>3, <1>4, <1>5, ShownIsSound

LEMMA PasteIsSound ==
  ASSUME PeopleAreSound, NEW ids \in SUBSET SshKey, ids # {}, NEW comment \in Comment \cup {NoName}, Paste(ids, comment)
  PROVE  StageIsSound'
<1> PICK shared \in BOOLEAN, named \in SUBSET ids :
      LET commentOf(k) == IF shared \/ k \in named THEN comment ELSE NoName
          singles == Marked({SinglePublicKey(k, commentOf(k)) : k \in ids})
          worth   == {x \in singles : NeedsDecision(x)}
          allNew  == Cardinality(ids) > 1 /\ \A x \in singles : x.r.status = "new"
      IN  IF shared THEN \E g \in GroupKey(comment, ids) : stage' = Show(Marked({g}))
          ELSE IF allNew /\ \A x \in worth : x.conflict = "none"
          THEN stage' = [NoStage EXCEPT !.at = "preview", !.rows = worth, !.proposal = ids]
          ELSE IF Cardinality(worth) > 1 THEN stage' = Show(singles)
          ELSE \E x \in (IF worth # {} THEN worth ELSE singles) : stage' = Show({x})
  BY DEF Paste
<1>u. UNCHANGED <<people, asked, overtaken>>
  BY DEF Paste
<1>1. CASE shared
  <2>1. PICK g \in GroupKey(comment, ids) : stage' = Show(Marked({g}))
    BY <1>1
  <2>2. g \in SshRows /\ g.src = Pasted
    BY GroupRowsAreSound
  <2> QED
    BY <1>u, <2>1, <2>2, OneMarkedIsSound DEF HeadIsFree
<1>2. CASE ~shared
  <2> DEFINE commentOf(k) == IF shared \/ k \in named THEN comment ELSE NoName
             rows == {SinglePublicKey(k, commentOf(k)) : k \in ids}
             singles == Marked(rows)
             worth   == {x \in singles : NeedsDecision(x)}
             allNew  == Cardinality(ids) > 1 /\ \A x \in singles : x.r.status = "new"
  <2>1. IF allNew /\ \A x \in worth : x.conflict = "none"
        THEN stage' = [NoStage EXCEPT !.at = "preview", !.rows = worth, !.proposal = ids]
        ELSE IF Cardinality(worth) > 1 THEN stage' = Show(singles)
        ELSE \E x \in (IF worth # {} THEN worth ELSE singles) : stage' = Show({x})
    BY <1>2
  <2>r. ASSUME NEW k \in ids
        PROVE  LET r == SinglePublicKey(k, commentOf(k))
               IN  /\ r \in SshRows /\ r.src = Pasted /\ r.keys = {k} /\ r.id = k
                   /\ r.status = "new" => k \notin OwnSsh /\ \A c \in people : k \notin c.keys
    BY DEF SinglePublicKey, Row, SshRows, Holding
  <2> HIDE DEF commentOf
  <2>q. /\ rows \in SUBSET SshRows
        /\ \A r \in rows : r.src = Pasted /\ r.keys = {r.id}
        /\ \A r, q \in rows : r.id = q.id => r = q
        /\ \A k \in ids : \E r \in rows : r.id = k
        /\ \A r \in rows : r.status = "new" => r.id \notin OwnSsh /\ \A c \in people : r.id \notin c.keys
    BY <2>r
  <2> HIDE DEF rows
  <2>2. /\ singles \subseteq SshMarks /\ IsFiniteSet(singles)
        /\ \A x, y \in singles : x # y => x.r.keys \cap y.r.keys = {}
        /\ \A x \in singles : x.r \in rows /\ (NeedsDecision(x) => JudgedRight(x))
        /\ \A r \in rows : \E x \in singles : x.r = r
    BY <2>q, SinglesAreSound, MarkedAreSound
  <2> HIDE DEF singles
  <2>3. CASE allNew /\ \A x \in worth : x.conflict = "none"
    <3>1. stage' = [at |-> "preview", rows |-> worth, proposal |-> ids, todo |-> {}]
      BY <2>1, <2>3 DEF NoStage
    <3>2. ASSUME NEW k \in ids PROVE k \notin OwnSsh /\ \A c \in people : k \notin c.keys
      <4>1. PICK r \in rows : r.id = k
        BY <2>q
      <4>2. r.status = "new"
        BY <2>2, <2>3
      <4> QED
        BY <2>q, <4>1, <4>2
    <3>3. stage'.rows = worth /\ stage'.proposal = ids /\ stage'.todo = {} /\ stage'.at = "preview"
      BY <3>1
    <3>4. \A x : JudgedRight(x) => JudgedRight(x)'
      BY <1>u DEF JudgedRight, IsApart, HeadIsFree, SameSource
    <3>5. RowsAreSound'
      BY <2>2, <3>3, <3>4 DEF RowsAreSound, NeedsDecision
    <3>6. ProposalIsNew'
      BY <3>2, <3>3, <1>u DEF ProposalIsNew
    <3> QED
      BY <3>1, <3>3, <3>5, <3>6 DEF StageIsSound, StageTyped, StageIsOrdered, TodoIsSound, TodoIsTyped, TodoIsApart, TodoIsJudged
  <2>4. CASE ~(allNew /\ \A x \in worth : x.conflict = "none") /\ Cardinality(worth) > 1
    <3>1. stage' = Show(singles)
      BY <2>1, <2>4
    <3>2. Cardinality(singles) > 1
      <4>1. worth \in SUBSET singles
        OBVIOUS
      <4>2. IsFiniteSet(worth) /\ Cardinality(worth) <= Cardinality(singles)
        BY <2>2, <4>1, FS_Subset
      <4>3. Cardinality(worth) \in Nat /\ Cardinality(singles) \in Nat
        BY <2>2, <4>2, FS_CardinalityType
      <4> QED
        BY <2>4, <4>2, <4>3
    <3> QED
      BY <1>u, <2>2, <3>1, <3>2, ShownIsSound
  <2>5. CASE ~(allNew /\ \A x \in worth : x.conflict = "none") /\ ~(Cardinality(worth) > 1)
    <3>1. PICK x \in singles : stage' = Show({x})
      BY <2>1, <2>5
    <3>2. {x} \in SUBSET SshMarks
      BY <2>2
    <3> DEFINE one == {x}
    <3>3. (\A y, z \in one : y = z) /\ (\A y \in one : NeedsDecision(y) => JudgedRight(y)) /\ one \in SUBSET SshMarks
      BY <2>2, <3>2
    <3>4. stage' = Show(one)
      BY <3>1
    <3> HIDE DEF one
    <3> QED
      BY <1>u, <3>3, <3>4, ShownIsSound
  <2> QED
    BY <2>3, <2>4, <2>5
<1> QED
  BY <1>1, <1>2

LEMMA LookupIsSound ==
  ASSUME PeopleAreSound, NEW user \in Account, NEW ids \in SUBSET SshKey, ids # {}, Lookup(user, ids)
  PROVE  StageIsSound'
<1> PICK row \in GithubKey(user, ids) : stage' = Show(Marked({row}))
  BY DEF Lookup
<1>1. row \in SshRows /\ (row.status \in {"new", "update"} => HeadIsFree(row))
  BY GithubRowsAreSound
<1>2. UNCHANGED <<people, asked, overtaken>>
  BY DEF Lookup
<1> QED
  BY <1>1, <1>2, OneMarkedIsSound

-----------------------------------------------------------------------------
\* Choosing.

LEMMA NoStageIsSound == ASSUME stage' = NoStage PROVE StageIsSound'
<1>1. stage' = [at |-> "source", rows |-> {}, proposal |-> {}, todo |-> {}]
  BY DEF NoStage
<1> QED
  BY <1>1 DEF StageIsSound, StageTyped, StageIsOrdered, RowsAreSound, ProposalIsNew, TodoIsSound, TodoIsTyped, TodoIsApart, TodoIsJudged

\* A row each, with the decision on it.
LEMMA SavingIsSound ==
  ASSUME NEW items, Saving(items), UNCHANGED <<people, overtaken>>,
         \A i \in items : /\ i.x \in SshMarks /\ NeedsDecision(i.x)
                          /\ i.decision \in {"skip", "import", "replace"}
                          /\ i.decision = "replace" => i.x.conflict = "address",
         \A i, j \in items : i # j => i.x.r.keys \cap j.x.r.keys = {},
         ~overtaken => \A i \in items : JudgedRight(i.x)
  PROVE  StageIsSound'
<1>1. stage' = [at |-> "saving", rows |-> {}, proposal |-> {}, todo |-> {i \in items : i.decision # "skip"}]
  BY DEF Saving, NoStage
<1>2. stage'.at = "saving" /\ stage'.rows = {} /\ stage'.proposal = {} /\ stage'.todo = {i \in items : i.decision # "skip"}
  BY <1>1
<1>3. \A x : JudgedRight(x) => JudgedRight(x)'
  BY DEF JudgedRight, IsApart, HeadIsFree, SameSource
<1>4. TodoIsSound'
  BY <1>2, <1>3 DEF TodoIsSound, TodoIsTyped, TodoIsApart, TodoIsJudged, NeedsDecision
<1> QED
  BY <1>1, <1>2, <1>4 DEF StageIsSound, StageTyped, StageIsOrdered, RowsAreSound, ProposalIsNew

LEMMA ConfirmIsSound ==
  ASSUME SshIInv, ConfirmSource
  PROVE  StageIsSound'
<1>u. UNCHANGED <<people, overtaken>> /\ stage.at = "preview" /\ \E x \in stage.rows : NeedsDecision(x)
  BY DEF ConfirmSource
<1>s. RowsAreSound /\ ProposalIsNew
  BY DEF SshIInv, StageIsSound
<1>1. CASE Saving({[x |-> x, decision |-> DefaultDecision(x)] : x \in stage.rows})
  <2> DEFINE items == {[x |-> x, decision |-> DefaultDecision(x)] : x \in stage.rows}
  <2>1. \A x \in stage.rows : NeedsDecision(x)
    BY <1>s, <1>u DEF RowsAreSound
  <2>2. \A i \in items : i.x \in stage.rows /\ i.decision = DefaultDecision(i.x) /\ i = [x |-> i.x, decision |-> DefaultDecision(i.x)]
    OBVIOUS
  <2>3. Saving(items)
    BY <1>1
  <2> HIDE DEF items
  <2>4. \A i \in items : i.x \in SshMarks /\ NeedsDecision(i.x) /\ i.decision \in {"skip", "import"}
    BY <1>s, <2>1, <2>2 DEF RowsAreSound, DefaultDecision
  <2>5. \A i, j \in items : i # j => i.x.r.keys \cap j.x.r.keys = {}
    BY <1>s, <2>2 DEF RowsAreSound
  <2>6. ~overtaken => \A i \in items : JudgedRight(i.x)
    BY <1>s, <2>1, <2>2 DEF RowsAreSound
  <2> QED
    BY <1>u, <2>3, <2>4, <2>5, <2>6, SavingIsSound
<1>2. ASSUME NEW h \in stage.proposal, NEW name \in Comment,
             Saving({[x |-> [r |-> Row(h, stage.proposal, Pasted, name, "new"), conflict |-> "none", holders |-> {}],
                      decision |-> "import"]})
      PROVE  StageIsSound'
  <2> DEFINE x == [r |-> Row(h, stage.proposal, Pasted, name, "new"), conflict |-> "none", holders |-> {}]
             item == [x |-> x, decision |-> "import"]
             items == {item}
  <2>1. x \in SshMarks /\ NeedsDecision(x) /\ x.r.keys = stage.proposal /\ x.r.src = Pasted
    BY <1>s DEF SshMarks, SshRows, Row, NeedsDecision, ProposalIsNew
  <2>2. ~overtaken => JudgedRight(x)
    BY <1>s, <2>1 DEF JudgedRight, IsApart, HeadIsFree, ProposalIsNew
  <2>3. Saving(items)
    BY <1>2
  <2> HIDE DEF x
  <2>4. item.x = x /\ item.decision = "import"
    OBVIOUS
  <2> HIDE DEF item
  <2>5. \A i \in items : i.x = x /\ i.decision = "import"
    BY <2>4
  <2>6. \A i, j \in items : i = j
    OBVIOUS
  <2> HIDE DEF items
  <2> QED
    BY <1>u, <2>1, <2>2, <2>3, <2>5, <2>6, SavingIsSound
<1> QED
  BY <1>1, <1>2 DEF ConfirmSource

LEMMA DecideIsSound ==
  ASSUME SshIInv, Decide
  PROVE  StageIsSound'
<1>u. UNCHANGED <<people, overtaken>>
  BY DEF Decide
<1>s. RowsAreSound
  BY DEF SshIInv, StageIsSound
<1> DEFINE open == {x \in stage.rows : NeedsDecision(x)}
<1> PICK d \in [open -> {"skip", "import", "replace"}] :
        /\ \A x \in DOMAIN d : d[x] \in DecisionsFor(x)
        /\ Saving({[x |-> x, decision |-> d[x]] : x \in DOMAIN d})
  BY DEF Decide
<1> DEFINE items == {[x |-> x, decision |-> d[x]] : x \in open}
<1>1. Saving(items)
  OBVIOUS
<1>2. \A i \in items : i.x \in open /\ i.decision = d[i.x] /\ i = [x |-> i.x, decision |-> d[i.x]]
  OBVIOUS
<1> HIDE DEF items
<1>3. \A x \in open : d[x] \in {"skip", "import", "replace"} /\ (d[x] = "replace" => x.conflict = "address")
  BY DEF DecisionsFor, CanReplace
<1>4. \A i \in items : /\ i.x \in SshMarks /\ NeedsDecision(i.x)
                       /\ i.decision \in {"skip", "import", "replace"}
                       /\ i.decision = "replace" => i.x.conflict = "address"
  BY <1>s, <1>2, <1>3 DEF RowsAreSound
<1>5. \A i, j \in items : i # j => i.x.r.keys \cap j.x.r.keys = {}
  BY <1>s, <1>2 DEF RowsAreSound
<1>6. ~overtaken => \A i \in items : JudgedRight(i.x)
  BY <1>s, <1>2 DEF RowsAreSound
<1> QED
  BY <1>u, <1>1, <1>4, <1>5, <1>6, SavingIsSound

-----------------------------------------------------------------------------
\* Saving.

\* One record takes the place of those it supersedes; what it carries over is of
\* one of them.
Takes(n, new) ==
    /\ n \in Contact /\ n.id = new.id /\ n.keys = new.keys /\ n.src = new.src /\ n.off \subseteq n.keys
    /\ n.verified => \E p \in people : p.verified /\ p.id = n.id /\ p.keys = n.keys
    /\ \/ Superseded(new) = {}
       \/ \E p \in Superseded(new) :
             SameSource(p, new) \/ (p.src = Pasted /\ new.src = Pasted) => n.off = p.off \cap n.keys

LEMMA CarriedForward ==
  ASSUME PeopleAreSound, NEW p \in people, NEW new \in Contact, new.id \in new.keys, new.off = {}, ~new.verified
  PROVE  LET n == CarryForward(p, new)
         IN  /\ n \in Contact /\ n.id = new.id /\ n.keys = new.keys /\ n.src = new.src /\ n.off \subseteq n.keys
             /\ n.verified => p.verified /\ p.id = n.id /\ p.keys = n.keys
             /\ SameSource(p, new) \/ (p.src = Pasted /\ new.src = Pasted) => n.off = p.off \cap n.keys
<1> DEFINE bySource == SameSource(p, new)
           sameKeys == p.keys = new.keys
           n == CarryForward(p, new)
           al == new.alias \/ ((bySource \/ sameKeys) /\ p.alias)
           ve == p.verified /\ p.id = new.id /\ sameKeys
<1>1. p \in Contact /\ p.verified \in BOOLEAN /\ p.alias \in BOOLEAN /\ new.alias \in BOOLEAN
  BY DEF PeopleAreSound, Contact
<1>2. CASE ~bySource /\ (p.src # Pasted \/ new.src # Pasted)
  <2>1. n = new
    BY <1>2 DEF CarryForward
  <2> QED
    BY <1>2, <2>1
<1>3. CASE ~(~bySource /\ (p.src # Pasted \/ new.src # Pasted))
  <2>1. n = [id |-> new.id, keys |-> new.keys, src |-> new.src, name |-> new.name,
             off |-> p.off \cap new.keys, verified |-> ve, alias |-> al]
    BY <1>3 DEF CarryForward, Contact
  <2>2. al \in BOOLEAN /\ ve \in BOOLEAN
    BY <1>1
  <2>3. ve => p.verified /\ p.id = new.id /\ p.keys = new.keys
    OBVIOUS
  <2> HIDE DEF al, ve, n
  <2>4. n \in Contact
    BY <2>1, <2>2 DEF Contact
  <2> QED
    BY <2>1, <2>3, <2>4 DEF n
<1> QED
  BY <1>2, <1>3

LEMMA UpsertsTake ==
  ASSUME PeopleAreSound, NEW new \in Contact, new.id \in new.keys, new.off = {}, ~new.verified, NEW lst \in Upserts(new)
  PROVE  \/ lst = people
         \/ /\ new.src = Pasted => \A c \in Superseded(new) : c.src = Pasted
            /\ \E n : Takes(n, new) /\ lst = (people \ Superseded(new)) \cup {n}
<1> DEFINE gone == Superseded(new)
<1>1. CASE new.src = Pasted /\ \E c \in gone : c.src # Pasted
  BY <1>1 DEF Upserts
<1>2. CASE ~(new.src = Pasted /\ \E c \in gone : c.src # Pasted) /\ gone = {}
  <2>1. lst = people \cup {new}
    BY <1>2 DEF Upserts
  <2>2. Takes(new, new)
    BY <1>2 DEF Takes
  <2> QED
    BY <1>2, <2>1, <2>2
<1>3. CASE ~(new.src = Pasted /\ \E c \in gone : c.src # Pasted) /\ gone # {}
  <2>1. PICK p \in gone : lst = (people \ gone) \cup {CarryForward(p, new)}
    BY <1>3 DEF Upserts
  <2>2. p \in people
    BY DEF Superseded
  <2>3. Takes(CarryForward(p, new), new)
    BY <2>2, CarriedForward DEF Takes
  <2> QED
    BY <1>3, <2>1, <2>3
<1> QED
  BY <1>1, <1>2, <1>3

\* What SaveRow saves, and what it leaves.
LEMMA SavedRow ==
  ASSUME SshIInv, NEW item \in stage.todo, SaveRow(item)
  PROVE  /\ item.x \in SshMarks /\ item.decision # "remove"
         /\ \E alias \in BOOLEAN :
               LET new == AsContact(item.x.r, alias)
               IN  /\ new \in Contact /\ new.id = item.x.r.id /\ new.keys = item.x.r.keys /\ new.src = item.x.r.src
                   /\ new.id \in new.keys /\ new.off = {} /\ ~new.verified
                   /\ people' \in Upserts(new)
<1>1. item.x \in SshMarks /\ item.decision # "remove"
  BY DEF SshIInv, StageIsSound, TodoIsSound, TodoIsTyped, TodoIsApart, TodoIsJudged, SaveRow
<1>2. PICK alias \in BOOLEAN : people' \in Upserts(AsContact(item.x.r, alias))
  <2> DEFINE old == IF item.decision = "replace" THEN {c \in people : c.id \in item.x.holders} ELSE {}
             alias == \E c \in old : c.alias
  <2>1. people' \in Upserts(AsContact(item.x.r, alias))
    BY DEF SaveRow
  <2>2. alias \in BOOLEAN
    OBVIOUS
  <2> HIDE DEF alias
  <2> QED
    BY <2>1, <2>2
<1> DEFINE new == AsContact(item.x.r, alias)
<1>3. /\ new \in Contact /\ new.id = item.x.r.id /\ new.keys = item.x.r.keys /\ new.src = item.x.r.src
      /\ new.id \in new.keys /\ new.off = {} /\ ~new.verified
  BY <1>1 DEF AsContact, Contact, SshMarks, SshRows
<1> HIDE DEF new
<1> QED
  BY <1>1, <1>2, <1>3 DEF new

LEMMA SaveRowKeeps ==
  ASSUME SshIInv, NEW item \in stage.todo, SaveRow(item)
  PROVE  SshIInv'
<1> DEFINE r == item.x.r
           old == IF item.decision = "replace" THEN {c \in people : c.id \in item.x.holders} ELSE {}
           removes == {[x |-> item.x, decision |-> "remove", id |-> c.id] : c \in old}
<1>1. /\ item.x \in SshMarks /\ item.decision # "remove" /\ stage.at = "saving"
      /\ asked' = asked \cup Asked(item.x) /\ overtaken' = overtaken
      /\ stage' = [stage EXCEPT !.todo = (stage.todo \ {item}) \cup removes]
  BY SavedRow DEF SaveRow
<1>2. PICK alias \in BOOLEAN :
         LET new == AsContact(item.x.r, alias)
         IN  /\ new \in Contact /\ new.id = item.x.r.id /\ new.keys = item.x.r.keys /\ new.src = item.x.r.src
             /\ new.id \in new.keys /\ new.off = {} /\ ~new.verified
             /\ people' \in Upserts(new)
  BY SavedRow
<1> DEFINE new == AsContact(r, alias)
           gone == Superseded(new)
<1>3. /\ new \in Contact /\ new.id = r.id /\ new.keys = r.keys /\ new.src = r.src
      /\ new.id \in new.keys /\ new.off = {} /\ ~new.verified /\ people' \in Upserts(new)
  BY <1>2
<1>s. PeopleAreSound /\ AccountsHaveOneContact /\ PairsWereAsked /\ StageTyped /\ StageIsOrdered /\ TodoIsSound
  BY DEF SshIInv, StageIsSound
<1>g. gone = {c \in people : c.id = r.id \/ SameSource(c, r)}
  BY <1>3 DEF Superseded, SameSource
<1> HIDE DEF new, gone
<1>4. \/ people' = people
      \/ \E n : n \in Contact /\ n.id = r.id /\ n.keys = r.keys /\ n.src = r.src /\ n.off \subseteq n.keys /\ people' = (people \ gone) \cup {n}
  <2>1. \/ people' = people
        \/ \E n : Takes(n, new) /\ people' = (people \ Superseded(new)) \cup {n}
    BY <1>3, <1>s, UpsertsTake
  <2> QED
    BY <1>3, <2>1 DEF Takes, gone
<1>5. Asked(item.x) \subseteq {r.id} /\ (item.x.conflict # "none" => r.id \in asked')
  BY <1>1 DEF Asked
<1>6. r.id \in SshKey /\ r.id \in r.keys
  BY <1>1 DEF SshMarks, SshRows
<1>7. ~overtaken => JudgedRight(item.x)
  BY <1>1, <1>s DEF TodoIsSound, TodoIsTyped, TodoIsApart, TodoIsJudged
\* The contacts.
<1>8. PeopleAreSound' /\ AccountsHaveOneContact' /\ PairsWereAsked'
  <2>1. CASE people' = people
    <3>1. PeopleAreSound'
      BY <1>1, <1>5, <1>6, <1>s, <2>1 DEF PeopleAreSound
    <3>2. AccountsHaveOneContact'
      BY <1>s, <2>1 DEF AccountsHaveOneContact, SameSource
    <3>3. PairsWereAsked'
      BY <1>1, <1>s, <2>1 DEF PairsWereAsked
    <3> QED
      BY <3>1, <3>2, <3>3
  <2>2. ASSUME NEW n, n \in Contact, n.id = r.id, n.keys = r.keys, n.src = r.src, n.off \subseteq n.keys,
               people' = (people \ gone) \cup {n}
        PROVE  PeopleAreSound' /\ AccountsHaveOneContact' /\ PairsWereAsked'
    <3>1. PeopleAreSound'
      BY <1>1, <1>5, <1>6, <1>s, <1>g, <2>2 DEF PeopleAreSound
    <3>2. \A c, d \in people' : SameSource(c, d) => c = d
      BY <1>s, <1>g, <2>2 DEF AccountsHaveOneContact, SameSource
    <3>3. AccountsHaveOneContact'
      BY <3>2 DEF AccountsHaveOneContact, SameSource
    <3>4. overtaken \/ n.id \in asked' \/ (n.keys \cap OwnSsh = {} /\ \A c \in people : c.keys \cap n.keys # {} => c \in gone)
      BY <1>5, <1>7, <1>g, <2>2 DEF JudgedRight, IsApart
    <3>5. ASSUME NEW c \in people', ~overtaken, c.id \notin asked'
          PROVE  c.keys \cap OwnSsh = {} /\ \A d \in people' : d # c /\ c.keys \cap d.keys # {} => d.id \in asked'
      <4>1. CASE c = n
        BY <2>2, <3>4, <3>5, <4>1
      <4>2. CASE c \in people \ gone
        BY <1>1, <1>s, <2>2, <3>4, <3>5, <4>2 DEF PairsWereAsked
      <4> QED
        BY <2>2, <4>1, <4>2
    <3>6. PairsWereAsked'
      BY <1>1, <3>5 DEF PairsWereAsked
    <3> QED
      BY <3>1, <3>3, <3>6
  <2> QED
    BY <1>4, <2>1, <2>2
\* The rows that are still to be saved.
<1>9. stage' = [at |-> "saving", rows |-> {}, proposal |-> {}, todo |-> (stage.todo \ {item}) \cup removes]
  BY <1>1, <1>s DEF StageTyped, StageIsOrdered
<1>10. stage'.at = "saving" /\ stage'.rows = {} /\ stage'.proposal = {} /\ stage'.todo = (stage.todo \ {item}) \cup removes
  BY <1>9
<1>11. \A i \in removes : i.x = item.x /\ i.decision = "remove" /\ i.id \in SshKey /\ item.decision = "replace"
  BY <1>s DEF PeopleAreSound, Contact
<1> HIDE DEF removes
<1>12. ASSUME NEW i \in stage.todo, i # item, i.decision # "remove", ~overtaken, NEW x, i.x = x PROVE JudgedRight(x)'
  <2>1. x.r.keys \cap r.keys = {} /\ JudgedRight(x) /\ x.r.id \in x.r.keys
    BY <1>1, <1>12, <1>s DEF TodoIsSound, TodoIsTyped, TodoIsApart, TodoIsJudged, SshMarks, SshRows
  <2>2. \A c \in people' : c \in people \/ (c.keys = r.keys /\ c.id = r.id)
    BY <1>4
  <2>3. x.conflict # "key" => IsApart(x.r)'
    BY <2>1, <2>2 DEF JudgedRight, IsApart, SameSource
  <2>4. HeadIsFree(x.r)'
    BY <1>6, <2>1, <2>2 DEF JudgedRight, HeadIsFree, SameSource
  <2> QED
    BY <2>3, <2>4 DEF JudgedRight
<1>13. TodoIsSound'
  <2>1. TodoIsTyped'
    BY <1>10, <1>11, <1>s DEF TodoIsSound, TodoIsTyped
  <2>2. TodoIsApart'
    BY <1>10, <1>11, <1>s DEF TodoIsSound, TodoIsApart
  <2>3. ~overtaken => \A x : (\E i \in stage'.todo : i.decision # "remove" /\ i.x = x) => JudgedRight(x)'
    BY <1>10, <1>11, <1>12
  <2>4. TodoIsJudged'
    BY <1>1, <2>3 DEF TodoIsJudged
  <2> QED
    BY <2>1, <2>2, <2>4 DEF TodoIsSound
<1>14. StageIsSound'
  BY <1>9, <1>10, <1>13 DEF StageIsSound, StageTyped, StageIsOrdered, RowsAreSound, ProposalIsNew
<1> QED
  BY <1>8, <1>14 DEF SshIInv

\* Taking a contact away, or changing what is nobody's head, keys or source.
LEMMA KeptJudgements ==
  ASSUME overtaken' = overtaken, NEW x,
         \A d \in people' : \E c \in people : c.id = d.id /\ c.keys = d.keys /\ c.src = d.src,
         JudgedRight(x)
  PROVE  JudgedRight(x)'
BY DEF JudgedRight, IsApart, HeadIsFree, SameSource

LEMMA KeptStage ==
  ASSUME SshIInv, UNCHANGED <<stage, overtaken>>,
         \A d \in people' : \E c \in people : c.id = d.id /\ c.keys = d.keys /\ c.src = d.src
  PROVE  StageIsSound'
<1> USE DEF SshIInv, StageIsSound
<1>1. \A x : JudgedRight(x) => JudgedRight(x)'
  BY KeptJudgements
<1>2. RowsAreSound'
  BY <1>1 DEF RowsAreSound, NeedsDecision, JudgedRight, IsApart, HeadIsFree
<1>3. TodoIsSound'
  BY <1>1 DEF TodoIsSound, TodoIsTyped, TodoIsApart, TodoIsJudged, NeedsDecision, JudgedRight, IsApart, HeadIsFree
<1>4. ProposalIsNew'
  BY DEF ProposalIsNew
<1> QED
  BY <1>2, <1>3, <1>4 DEF StageTyped, StageIsOrdered

\* The contacts are those that were, but for what is nobody's business.
LEMMA KeptPeople ==
  ASSUME SshIInv, UNCHANGED <<asked, overtaken>>, people' \subseteq Contact,
         \A c, d \in people' : c.id = d.id => c = d,
         \A d \in people' : d.off \subseteq d.keys /\ \E c \in people : c.id = d.id /\ c.keys = d.keys /\ c.src = d.src
  PROVE  PeopleAreSound' /\ AccountsHaveOneContact' /\ PairsWereAsked'
<1> USE DEF SshIInv
<1>1. PeopleAreSound'
  BY DEF PeopleAreSound
<1>2. \A c, d \in people' : SameSource(c, d) => c = d
  <2> SUFFICES ASSUME NEW c \in people', NEW d \in people', SameSource(c, d) PROVE c.id = d.id
    OBVIOUS
  <2>1. PICK a \in people : a.id = c.id /\ a.src = c.src
    OBVIOUS
  <2>2. PICK b \in people : b.id = d.id /\ b.src = d.src
    OBVIOUS
  <2> QED
    BY <2>1, <2>2 DEF AccountsHaveOneContact, SameSource
<1>3. AccountsHaveOneContact'
  BY <1>2 DEF AccountsHaveOneContact, SameSource
<1>4. ASSUME NEW c \in people', ~overtaken, c.id \notin asked
      PROVE  c.keys \cap OwnSsh = {} /\ \A d \in people' : d # c /\ c.keys \cap d.keys # {} => d.id \in asked
  <2>1. PICK a \in people : a.id = c.id /\ a.keys = c.keys
    OBVIOUS
  <2>2. ASSUME NEW d \in people', d # c, c.keys \cap d.keys # {} PROVE d.id \in asked
    <3>1. PICK b \in people : b.id = d.id /\ b.keys = d.keys
      OBVIOUS
    <3>2. a # b
      BY <2>1, <2>2, <3>1
    <3> QED
      BY <1>4, <2>1, <2>2, <3>1, <3>2 DEF PairsWereAsked
  <2> QED
    BY <1>4, <2>1, <2>2 DEF PairsWereAsked
<1>5. PairsWereAsked'
  BY <1>4 DEF PairsWereAsked
<1> QED
  BY <1>1, <1>3, <1>5

LEMMA RemoveReplacedKeeps ==
  ASSUME SshIInv, NEW item \in stage.todo, RemoveReplaced(item)
  PROVE  SshIInv'
<1>1. /\ people' = {c \in people : c.id # item.id} /\ stage' = [stage EXCEPT !.todo = stage.todo \ {item}]
      /\ UNCHANGED <<asked, overtaken>>
  BY DEF RemoveReplaced
<1>s. StageTyped /\ StageIsOrdered /\ RowsAreSound /\ ProposalIsNew /\ TodoIsSound /\ PeopleAreSound
  BY DEF SshIInv, StageIsSound
<1>2. /\ stage' = [at |-> stage.at, rows |-> stage.rows, proposal |-> stage.proposal, todo |-> stage.todo \ {item}]
  BY <1>1, <1>s DEF StageTyped
<1>3. stage'.at = stage.at /\ stage'.rows = stage.rows /\ stage'.proposal = stage.proposal /\ stage'.todo = stage.todo \ {item}
  BY <1>2
<1>4. \A x : JudgedRight(x) => JudgedRight(x)'
  BY <1>1, KeptJudgements
<1>5. RowsAreSound'
  BY <1>1, <1>3, <1>4, <1>s DEF RowsAreSound, NeedsDecision, JudgedRight, IsApart, HeadIsFree
<1>6. TodoIsSound'
  BY <1>1, <1>3, <1>4, <1>s DEF TodoIsSound, TodoIsTyped, TodoIsApart, TodoIsJudged, NeedsDecision, JudgedRight, IsApart, HeadIsFree
<1>7. ProposalIsNew'
  BY <1>1, <1>3, <1>s DEF ProposalIsNew
<1>8. StageTyped' /\ StageIsOrdered'
  BY <1>2, <1>3, <1>s, RemoveReplaced(item) DEF StageTyped, StageIsOrdered, RemoveReplaced
<1>9. PeopleAreSound' /\ AccountsHaveOneContact' /\ PairsWereAsked'
  <2>1. people' \subseteq people
    BY <1>1
  <2>2. people' \subseteq Contact /\ (\A c, d \in people' : c.id = d.id => c = d)
    BY <2>1, <1>s DEF PeopleAreSound
  <2>3. \A d \in people' : d.off \subseteq d.keys /\ \E c \in people : c.id = d.id /\ c.keys = d.keys /\ c.src = d.src
    BY <2>1, <1>s DEF PeopleAreSound
  <2> QED
    BY <1>1, <2>2, <2>3, KeptPeople
<1> QED
  BY <1>5, <1>6, <1>7, <1>8, <1>9 DEF SshIInv, StageIsSound

\* One record in the place of itself.
LEMMA EditKeeps ==
  ASSUME SshIInv, NEW c \in people, Edit(c)
  PROVE  SshIInv'
<1>s. PeopleAreSound
  BY DEF SshIInv
<1>u. UNCHANGED <<stage, asked, overtaken>>
  BY DEF Edit
<1>c. /\ c = [id |-> c.id, keys |-> c.keys, src |-> c.src, name |-> c.name, off |-> c.off, verified |-> c.verified, alias |-> c.alias]
      /\ c \in Contact /\ c.off \subseteq c.keys /\ c.id \in c.keys
  BY <1>s DEF PeopleAreSound, Contact
<1>1. \/ people' = people \ {c}
      \/ \E n \in Contact : n.id = c.id /\ n.keys = c.keys /\ n.src = c.src /\ n.off \subseteq n.keys /\ people' = (people \ {c}) \cup {n}
  <2>1. ASSUME NEW k \in c.keys PROVE [c EXCEPT !.off = IF k \in @ THEN @ \ {k} ELSE @ \cup {k}] \in Contact
    BY <1>c DEF Contact
  <2>2. [c EXCEPT !.alias = TRUE] \in Contact
    BY <1>c DEF Contact
  <2>3. [c EXCEPT !.verified = ~@] \in Contact
    BY <1>c DEF Contact
  <2>4. ASSUME NEW k \in c.keys, people' = (people \ {c}) \cup {[c EXCEPT !.off = IF k \in @ THEN @ \ {k} ELSE @ \cup {k}]}
        PROVE  \E n \in Contact : n.id = c.id /\ n.keys = c.keys /\ n.src = c.src /\ n.off \subseteq n.keys /\ people' = (people \ {c}) \cup {n}
    <3> DEFINE n == [c EXCEPT !.off = IF k \in @ THEN @ \ {k} ELSE @ \cup {k}]
    <3>1. n \in Contact /\ n.id = c.id /\ n.keys = c.keys /\ n.src = c.src /\ n.off \subseteq n.keys
      BY <1>c, <2>1
    <3> QED
      BY <2>4, <3>1
  <2>5. ASSUME people' = (people \ {c}) \cup {[c EXCEPT !.alias = TRUE]}
        PROVE  \E n \in Contact : n.id = c.id /\ n.keys = c.keys /\ n.src = c.src /\ n.off \subseteq n.keys /\ people' = (people \ {c}) \cup {n}
    <3> DEFINE n == [c EXCEPT !.alias = TRUE]
    <3>1. n \in Contact /\ n.id = c.id /\ n.keys = c.keys /\ n.src = c.src /\ n.off \subseteq n.keys
      BY <1>c, <2>2
    <3> QED
      BY <2>5, <3>1
  <2>6. ASSUME people' = (people \ {c}) \cup {[c EXCEPT !.verified = ~@]}
        PROVE  \E n \in Contact : n.id = c.id /\ n.keys = c.keys /\ n.src = c.src /\ n.off \subseteq n.keys /\ people' = (people \ {c}) \cup {n}
    <3> DEFINE n == [c EXCEPT !.verified = ~@]
    <3>1. n \in Contact /\ n.id = c.id /\ n.keys = c.keys /\ n.src = c.src /\ n.off \subseteq n.keys
      BY <1>c, <2>3
    <3> QED
      BY <2>6, <3>1
  <2> QED
    BY <2>4, <2>5, <2>6 DEF Edit
<1>2. /\ people' \subseteq Contact /\ (\A a, b \in people' : a.id = b.id => a = b)
      /\ \A d \in people' : d.off \subseteq d.keys /\ \E a \in people : a.id = d.id /\ a.keys = d.keys /\ a.src = d.src
  <2>1. CASE people' = people \ {c}
    BY <2>1, <1>s DEF PeopleAreSound
  <2>2. ASSUME NEW n \in Contact, n.id = c.id, n.keys = c.keys, n.src = c.src, n.off \subseteq n.keys, people' = (people \ {c}) \cup {n}
        PROVE  /\ people' \subseteq Contact /\ (\A a, b \in people' : a.id = b.id => a = b)
               /\ \A d \in people' : d.off \subseteq d.keys /\ \E a \in people : a.id = d.id /\ a.keys = d.keys /\ a.src = d.src
    BY <2>2, <1>s DEF PeopleAreSound
  <2> QED
    BY <1>1, <2>1, <2>2
<1> QED
  BY <1>u, <1>2, KeptPeople, KeptStage DEF SshIInv

LEMMA ElsewhereKeeps ==
  ASSUME SshIInv, NEW k \in SshKey, Elsewhere(k)
  PROVE  SshIInv'
<1> DEFINE n == AsContact(Row(k, {k}, Pasted, NoName, "new"), FALSE)
<1>1. n \in Contact /\ n.id = k /\ n.keys = {k} /\ n.src = Pasted /\ n.off = {}
  BY DEF AsContact, Row, Contact
<1>2. /\ people' = people \cup {n} /\ asked' = asked /\ stage' = stage
      /\ overtaken' = (overtaken \/ stage.at # "source") /\ k \notin OwnSsh /\ \A c \in people : k \notin c.keys
  BY DEF Elsewhere, Holding
<1> HIDE DEF n
<1>s. PeopleAreSound /\ AccountsHaveOneContact /\ PairsWereAsked /\ StageIsSound
  BY DEF SshIInv
<1>3. PeopleAreSound'
  BY <1>1, <1>2, <1>s DEF PeopleAreSound
<1>4. AccountsHaveOneContact'
  BY <1>1, <1>2, <1>s DEF AccountsHaveOneContact, SameSource
<1>5. PairsWereAsked'
  <2>1. ASSUME NEW c \in people', ~overtaken', c.id \notin asked'
        PROVE  c.keys \cap OwnSsh = {} /\ \A d \in people' : d # c /\ c.keys \cap d.keys # {} => d.id \in asked'
    <3>1. CASE c = n
      BY <1>1, <1>2, <3>1
    <3>2. CASE c \in people
      <4>1. ~overtaken /\ c.id \notin asked
        BY <1>2, <2>1
      <4>2. c.keys \cap OwnSsh = {} /\ \A d \in people : d # c /\ c.keys \cap d.keys # {} => d.id \in asked
        BY <1>s, <3>2, <4>1 DEF PairsWereAsked
      <4>3. c.keys \cap n.keys = {}
        BY <1>1, <1>2, <3>2
      <4> QED
        BY <1>2, <4>2, <4>3
    <3> QED
      BY <1>2, <3>1, <3>2
  <2> QED
    BY <2>1 DEF PairsWereAsked
<1>6. StageIsSound'
  <2>1. ~overtaken' => stage.rows = {} /\ stage.proposal = {} /\ stage.todo = {} /\ ~overtaken
    BY <1>2, <1>s DEF StageIsSound, StageIsOrdered
  <2>2. RowsAreSound' /\ ProposalIsNew' /\ TodoIsSound'
    BY <1>2, <2>1, <1>s DEF StageIsSound, RowsAreSound, ProposalIsNew, TodoIsSound, TodoIsTyped, TodoIsApart, TodoIsJudged, NeedsDecision
  <2> QED
    BY <1>2, <1>s, <2>2 DEF StageIsSound, StageTyped, StageIsOrdered
<1> QED
  BY <1>3, <1>4, <1>5, <1>6 DEF SshIInv

LEMMA SameContacts ==
  ASSUME SshIInv, UNCHANGED <<people, asked, overtaken>>
  PROVE  PeopleAreSound' /\ AccountsHaveOneContact' /\ PairsWereAsked'
BY DEF SshIInv, PeopleAreSound, AccountsHaveOneContact, SameSource, PairsWereAsked

LEMMA SshStepKeeps == SshIInv /\ [sshNext]_sshVars => SshIInv'
<1> SUFFICES ASSUME SshIInv, [sshNext]_sshVars PROVE SshIInv'
  OBVIOUS
<1>s. PeopleAreSound
  BY DEF SshIInv
<1>1. ASSUME NEW ids \in (SUBSET SshKey) \ {{}}, NEW c \in Comment \cup {NoName}, Paste(ids, c) PROVE SshIInv'
  <2>1. StageIsSound'
    BY <1>1, <1>s, PasteIsSound
  <2> QED
    BY <1>1, <2>1, SameContacts DEF Paste, SshIInv
<1>2. ASSUME NEW ids \in (SUBSET SshKey) \ {{}}, NEW u \in Account, Lookup(u, ids) PROVE SshIInv'
  <2>1. StageIsSound'
    BY <1>2, <1>s, LookupIsSound
  <2> QED
    BY <1>2, <2>1, SameContacts DEF Lookup, SshIInv
<1>3. CASE Leave \/ FinishSsh
  <2>1. stage' = NoStage /\ UNCHANGED <<people, asked, overtaken>>
    BY <1>3 DEF Leave, FinishSsh
  <2> QED
    BY <2>1, NoStageIsSound, SameContacts DEF SshIInv
<1>4. CASE ConfirmSource
  BY <1>4, ConfirmIsSound, SameContacts DEF ConfirmSource, SshIInv
<1>5. CASE Decide
  BY <1>5, DecideIsSound, SameContacts DEF Decide, SshIInv
<1>6. ASSUME NEW item \in stage.todo, SaveRow(item) \/ RemoveReplaced(item) PROVE SshIInv'
  BY <1>6, SaveRowKeeps, RemoveReplacedKeeps
<1>7. ASSUME NEW c \in people, Edit(c) PROVE SshIInv'
  BY <1>7, EditKeeps
<1>8. ASSUME NEW k \in SshKey, Elsewhere(k) PROVE SshIInv'
  BY <1>8, ElsewhereKeeps
<1>9. CASE UNCHANGED sshVars
  <2>1. \A d \in people' : \E c \in people : c.id = d.id /\ c.keys = d.keys /\ c.src = d.src
    BY <1>9 DEF sshVars
  <2> QED
    BY <1>9, <2>1, KeptStage, SameContacts DEF sshVars, SshIInv
<1> QED
  BY <1>1, <1>2, <1>3, <1>4, <1>5, <1>6, <1>7, <1>8, <1>9 DEF sshNext

-----------------------------------------------------------------------------
\* What a step may do to a contact.  Without an edit, only a row that is saved
\* changes the contacts.

LEMMA OnlySavesChange ==
  ASSUME edits \in Nat, [sshNext]_sshVars, edits' = edits, people' # people
  PROVE  \E item \in stage.todo : SaveRow(item) \/ RemoveReplaced(item)
<1>1. CASE \E item \in stage.todo : SaveRow(item) \/ RemoveReplaced(item)
  BY <1>1
<1>2. edits # edits + 1
  OBVIOUS
<1>3. ~(\E c \in people : Edit(c)) /\ ~(\E k \in SshKey : Elsewhere(k))
  BY <1>2 DEF Edit, Elsewhere
<1> QED
  BY <1>1, <1>3 DEF sshNext, sshVars, Paste, Lookup, Leave, ConfirmSource, Decide, FinishSsh

\* What a saved row makes of the contacts, for the properties below.
LEMMA SavedContacts ==
  ASSUME SshIInv, NEW item \in stage.todo, SaveRow(item)
  PROVE  LET r == item.x.r
             gone == {c \in people : c.id = r.id \/ SameSource(c, r)}
         IN  \/ people' = people
             \/ /\ r.src = Pasted => \A c \in gone : c.src = Pasted
                /\ \E n :
                     /\ n.id = r.id /\ n.keys = r.keys /\ n.src = r.src /\ people' = (people \ gone) \cup {n}
                     /\ n.verified => \E p \in people : p.verified /\ p.id = n.id /\ p.keys = n.keys
                     /\ \/ gone = {}
                        \/ \E p \in gone :
                              SameSource(p, r) \/ (p.src = Pasted /\ r.src = Pasted) => n.off = p.off \cap n.keys
<1> DEFINE r == item.x.r
           gone == {c \in people : c.id = r.id \/ SameSource(c, r)}
<1>1. PICK alias \in BOOLEAN :
         LET new == AsContact(r, alias)
         IN  /\ new \in Contact /\ new.id = r.id /\ new.keys = r.keys /\ new.src = r.src
             /\ new.id \in new.keys /\ new.off = {} /\ ~new.verified
             /\ people' \in Upserts(new)
  BY SavedRow
<1> DEFINE new == AsContact(r, alias)
<1>2. /\ new \in Contact /\ new.id = r.id /\ new.keys = r.keys /\ new.src = r.src
      /\ new.id \in new.keys /\ new.off = {} /\ ~new.verified /\ people' \in Upserts(new)
  BY <1>1
<1> HIDE DEF new
<1>3. Superseded(new) = gone
  BY <1>2 DEF Superseded, SameSource
<1>4. \/ people' = people
      \/ /\ new.src = Pasted => \A c \in Superseded(new) : c.src = Pasted
         /\ \E n : Takes(n, new) /\ people' = (people \ Superseded(new)) \cup {n}
  BY <1>2, UpsertsTake DEF SshIInv
<1> HIDE DEF gone
<1>5. ASSUME NEW n, Takes(n, new), people' = (people \ Superseded(new)) \cup {n}
      PROVE  /\ n.id = r.id /\ n.keys = r.keys /\ n.src = r.src /\ people' = (people \ gone) \cup {n}
             /\ n.verified => \E p \in people : p.verified /\ p.id = n.id /\ p.keys = n.keys
             /\ \/ gone = {}
                \/ \E p \in gone :
                      SameSource(p, r) \/ (p.src = Pasted /\ r.src = Pasted) => n.off = p.off \cap n.keys
  BY <1>2, <1>3, <1>5 DEF Takes, SameSource
<1> QED
  BY <1>2, <1>3, <1>4, <1>5 DEF gone

\* An unmarked row takes over nobody: whoever has its head has its keys' account.
LEMMA NobodyTakenOver ==
  ASSUME SshIInv, edits \in Nat, [sshNext]_sshVars, NEW c \in people, c.src = Pasted, edits' = edits,
         \A d \in people' : d.id = c.id => d.keys # c.keys
  PROVE  overtaken \/ \E item \in stage.todo : SavesRow(item) /\ item.x.conflict # "none"
<1>1. people' # people
  OBVIOUS
<1>2. PICK item \in stage.todo : SaveRow(item) \/ RemoveReplaced(item)
  BY <1>1, OnlySavesChange
<1>s. TodoIsTyped /\ TodoIsJudged /\ PeopleAreSound
  BY DEF SshIInv, StageIsSound, TodoIsSound
<1>3. SavesRow(item)
  <2>1. CASE RemoveReplaced(item)
    <3>1. stage'.todo = stage.todo \ {item}
      BY <2>1 DEF RemoveReplaced, SshIInv, StageIsSound, StageTyped
    <3> QED
      BY <3>1 DEF SavesRow
  <2>2. CASE SaveRow(item)
    <3> DEFINE old == IF item.decision = "replace" THEN {d \in people : d.id \in item.x.holders} ELSE {}
               removes == {[x |-> item.x, decision |-> "remove", id |-> d.id] : d \in old}
    <3>1. stage'.todo = (stage.todo \ {item}) \cup removes /\ item.decision # "remove"
      BY <2>2 DEF SaveRow, SshIInv, StageIsSound, StageTyped
    <3>2. \A i \in removes : i.decision = "remove"
      OBVIOUS
    <3> HIDE DEF removes
    <3> QED
      BY <3>1, <3>2 DEF SavesRow
  <2> QED
    BY <1>2, <2>1, <2>2
<1>4. CASE RemoveReplaced(item)
  BY <1>3, <1>4, <1>s DEF TodoIsTyped, RemoveReplaced
<1>5. CASE SaveRow(item) /\ ~overtaken /\ item.x.conflict = "none"
  <2> DEFINE r == item.x.r
             gone == {d \in people : d.id = r.id \/ SameSource(d, r)}
  <2>1. r.id \in r.keys /\ IsApart(r)
    BY <1>5, <1>s DEF TodoIsTyped, TodoIsJudged, SshMarks, SshRows, SaveRow, JudgedRight
  <2>2. PICK n : n.id = r.id /\ n.keys = r.keys /\ people' = (people \ gone) \cup {n}
    BY <1>1, <1>5, SavedContacts
  <2>3. c \in gone
    BY <2>2
  <2>4. ~SameSource(c, r)
    BY DEF SameSource
  <2>5. c.id = r.id
    BY <2>3, <2>4
  <2>6. c.id \in c.keys
    BY <1>s DEF PeopleAreSound
  <2> QED
    BY <2>1, <2>4, <2>5, <2>6 DEF IsApart
<1> QED
  BY <1>2, <1>3, <1>4, <1>5

LEMMA OffIsKept ==
  ASSUME SshIInv, edits \in Nat, [sshNext]_sshVars, edits' = edits, ~overtaken,
         NEW c \in people, NEW d \in people', (d.id = c.id /\ d.src = c.src) \/ SameSource(c, d)
  PROVE  c.off \cap d.keys \subseteq d.off
<1>s. TodoIsTyped /\ TodoIsJudged /\ PeopleAreSound /\ AccountsHaveOneContact
  BY DEF SshIInv, StageIsSound, TodoIsSound
<1>1. CASE d \in people
  BY <1>1, <1>s DEF PeopleAreSound, AccountsHaveOneContact
<1>2. CASE d \notin people
  <2>1. PICK item \in stage.todo : SaveRow(item) \/ RemoveReplaced(item)
    BY <1>2, OnlySavesChange
  <2>2. SaveRow(item)
    BY <1>2, <2>1 DEF RemoveReplaced
  <2> DEFINE r == item.x.r
             gone == {e \in people : e.id = r.id \/ SameSource(e, r)}
  <2>3. /\ r.src = Pasted => \A e \in gone : e.src = Pasted
        /\ \E n : /\ n.id = r.id /\ n.keys = r.keys /\ n.src = r.src /\ people' = (people \ gone) \cup {n}
                  /\ \/ gone = {}
                     \/ \E p \in gone :
                           SameSource(p, r) \/ (p.src = Pasted /\ r.src = Pasted) => n.off = p.off \cap n.keys
    BY <1>2, <2>2, SavedContacts
  <2>4. /\ d.id = r.id /\ d.keys = r.keys /\ d.src = r.src
        /\ \/ gone = {}
           \/ \E p \in gone : SameSource(p, r) \/ (p.src = Pasted /\ r.src = Pasted) => d.off = p.off \cap d.keys
    BY <1>2, <2>3
  <2>5. c \in gone
    BY <2>4 DEF SameSource
  <2>6. PICK p \in gone : SameSource(p, r) \/ (p.src = Pasted /\ r.src = Pasted) => d.off = p.off \cap d.keys
    BY <2>4, <2>5
  <2>7. item.decision # "remove" /\ HeadIsFree(r)
    BY <2>2, <1>s DEF TodoIsTyped, TodoIsJudged, SaveRow, JudgedRight
  <2>8. p = c
    <3>1. CASE r.src = Pasted
      BY <1>s, <2>5, <3>1 DEF PeopleAreSound, SameSource
    <3>2. CASE r.src # Pasted
      <4>1. SameSource(p, r) /\ SameSource(c, r)
        BY <2>5, <2>7, <3>2 DEF HeadIsFree
      <4> QED
        BY <1>s, <4>1 DEF AccountsHaveOneContact, SameSource
    <3> QED
      BY <3>1, <3>2
  <2>9. SameSource(p, r) \/ (p.src = Pasted /\ r.src = Pasted)
    <3>1. CASE r.src = Pasted
      BY <2>3, <3>1
    <3>2. CASE r.src # Pasted
      BY <2>7, <3>2 DEF HeadIsFree
    <3> QED
      BY <3>1, <3>2
  <2> QED
    BY <2>6, <2>8, <2>9
<1> QED
  BY <1>1, <1>2

LEMMA VerifiedIsKept ==
  ASSUME SshIInv, edits \in Nat, [sshNext]_sshVars, edits' = edits, NEW d \in people', d.verified
  PROVE  \E c \in people : c.verified /\ c.id = d.id /\ c.keys = d.keys
<1>1. CASE d \in people
  BY <1>1
<1>2. CASE d \notin people
  <2>1. PICK item \in stage.todo : SaveRow(item) \/ RemoveReplaced(item)
    BY <1>2, OnlySavesChange
  <2>2. SaveRow(item)
    BY <1>2, <2>1 DEF RemoveReplaced
  <2> DEFINE r == item.x.r
             gone == {e \in people : e.id = r.id \/ SameSource(e, r)}
  <2>3. \E n : /\ people' = (people \ gone) \cup {n}
               /\ n.verified => \E p \in people : p.verified /\ p.id = n.id /\ p.keys = n.keys
    BY <1>2, <2>2, SavedContacts
  <2> QED
    BY <1>2, <2>3
<1> QED
  BY <1>1, <1>2

(* Importing SSH keys, for any keys, accounts and comments and any number of  *)
(* imports and edits: no name or key passes from one contact to another       *)
(* unasked, nobody is taken over by an unmarked row, a key that was turned    *)
(* off stays off, an account has one contact, and only the user marks one as  *)
(* verified (import/ssh.ts, contacts.ts).                                     *)
THEOREM SshContactsStayTheUsers == sshSpec => SshContactsAreTheUsers
<1>1. EditsAreCounted /\ [sshNext]_sshVars => EditsAreCounted'
  <2> SUFFICES ASSUME EditsAreCounted, [sshNext]_sshVars PROVE edits' = edits \/ edits' = edits + 1
    BY DEF EditsAreCounted
  <2>1. CASE (\E c \in people : Edit(c)) \/ (\E k \in SshKey : Elsewhere(k))
    BY <2>1 DEF Edit, Elsewhere
  <2>2. CASE \E item \in stage.todo : SaveRow(item) \/ RemoveReplaced(item)
    BY <2>2 DEF SaveRow, RemoveReplaced
  <2> QED
    BY <2>1, <2>2 DEF sshNext, sshVars, Paste, Lookup, Leave, ConfirmSource, Decide, FinishSsh
<1>2. sshSpec => [](SshIInv /\ EditsAreCounted)
  <2>1. sshInit => SshIInv /\ EditsAreCounted
    BY SshInitHolds DEF sshInit, EditsAreCounted
  <2> QED
    BY <1>1, <2>1, SshStepKeeps, PTL DEF sshSpec
<1>3. SshIInv => sshTypeOK /\ SharedKeysWereAsked /\ AccountsHaveOneContact
  <2> SUFFICES ASSUME SshIInv PROVE sshTypeOK /\ SharedKeysWereAsked
    BY DEF SshIInv
  <2>1. sshTypeOK
    BY DEF SshIInv, PeopleAreSound, StageIsSound, StageIsOrdered, ProposalIsNew, sshTypeOK
  <2>2. SharedKeysWereAsked
    BY DEF SshIInv, PairsWereAsked, SharedKeysWereAsked
  <2> QED
    BY <2>1, <2>2
<1>4. SshIInv /\ EditsAreCounted /\ [sshNext]_sshVars =>
        [\A c \in people : c.src = Pasted /\ edits' = edits /\ (\A d \in people' : d.id = c.id => d.keys # c.keys)
             => overtaken \/ \E item \in stage.todo : SavesRow(item) /\ item.x.conflict # "none"]_sshVars
  BY NobodyTakenOver DEF EditsAreCounted
<1>5. SshIInv /\ EditsAreCounted /\ [sshNext]_sshVars =>
        [edits' = edits /\ ~overtaken => \A c \in people, d \in people' :
            (d.id = c.id /\ d.src = c.src) \/ SameSource(c, d) => c.off \cap d.keys \subseteq d.off]_sshVars
  BY OffIsKept DEF EditsAreCounted
<1>6. SshIInv /\ EditsAreCounted /\ [sshNext]_sshVars =>
        [\A d \in people' : d.verified /\ edits' = edits => \E c \in people : c.verified /\ c.id = d.id /\ c.keys = d.keys]_sshVars
  BY VerifiedIsKept DEF EditsAreCounted
<1>7. sshSpec => NobodyIsTakenOver
  BY <1>2, <1>4, PTL DEF sshSpec, NobodyIsTakenOver
<1>8. sshSpec => OffStaysOff
  BY <1>2, <1>5, PTL DEF sshSpec, OffStaysOff
<1>9. sshSpec => VerifiedIsTheUsers
  BY <1>2, <1>6, PTL DEF sshSpec, VerifiedIsTheUsers
<1> QED
  BY <1>2, <1>3, <1>7, <1>8, <1>9, PTL DEF SshContactsAreTheUsers

-----------------------------------------------------------------------------
(* Importing certificates *)

CertContact ==
    [id : Fp, uids : SUBSET Uid, rev : BOOLEAN, cert : [id : Fp, uids : SUBSET Uid, rev : BOOLEAN],
     src : Query \cup {Hand}, verified : BOOLEAN, alias : BOOLEAN]
CertRow ==
    [id : Fp, uids : SUBSET Uid, rev : BOOLEAN, src : Query \cup {Hand}, replaces : SUBSET Fp,
     status : {"new", "update", "duplicate", "rejected"}]
CertMark == [r : CertRow, conflict : BOOLEAN, holders : SUBSET Fp, twin : BOOLEAN]
CertItem ==
    [x : CertMark, decision : {"import", "replace"}] \cup [x : CertMark, decision : {"remove"}, id : Fp]
CertPage == [at : {"source", "preview", "review", "saving"}, rows : SUBSET CertMark, todo : SUBSET CertItem]

\* The rows that may still be saved: on the page, or chosen and not yet written.
ToSave == {j \in page.todo : j.decision # "remove"}
OpenRows == {x \in page.rows : Saves(x)} \cup {j.x : j \in ToSave}
IsAsked(x) == x.conflict \/ x.r.id \in agreed
Twin(x) == x.twin \/ x.r.id \in twins

ContactsTyped == certs \subseteq CertContact /\ \A c \in certs : c.cert.id = c.id
MarksTyped == floor \subseteq Fp /\ agreed \subseteq Fp /\ twins \subseteq Fp /\ beaten \in BOOLEAN
PageTyped == page \in CertPage
CheckTyped == check.at \in {"idle", "answered"} /\ (check.at = "answered" => check.copy \in Copy)
CertsTyped == ContactsTyped /\ MarksTyped /\ PageTyped /\ CheckTyped
OnePerId == \A c, d \in certs : c.id = d.id => c = d
RevokedOnFloor == \A c \in certs : c.rev => c.id \in floor
PageIsSound ==
    /\ page.at = "source" => page.rows = {} /\ page.todo = {}
    /\ page.at = "saving" => page.rows = {}
    /\ page.at # "saving" => page.todo = {}
    /\ \A x, y \in page.rows : x.r.id = y.r.id => x = y
    /\ \A i, j \in ToSave : i.x.r.id = j.x.r.id => i = j
KnowsAll(x) == \A c \in certs : c.id = x.r.id => c.cert.uids \subseteq x.r.uids /\ (c.cert.rev => x.r.rev)
IsMarked(x) ==
    \A c \in certs : c.id # x.r.id /\ c.uids \cap x.r.uids # {}
        => c.id \in agreed \/ IsAsked(x) \/ (c.id \in twins /\ Twin(x))
MarkEach(x, y) ==
    x.r.id # y.r.id /\ x.r.uids \cap y.r.uids # {} => IsAsked(x) \/ IsAsked(y) \/ (Twin(x) /\ Twin(y))
RowsKnowAll == ~beaten => \A x \in OpenRows : KnowsAll(x)
RowsAreMarked == ~beaten => \A x \in OpenRows : IsMarked(x)
RowsMarkEachOther == ~beaten => \A x, y \in OpenRows : MarkEach(x, y)
CertIInv ==
    /\ CertsTyped /\ OnePerId /\ RevokedOnFloor /\ PageIsSound
    /\ RowsKnowAll /\ RowsAreMarked /\ RowsMarkEachOther /\ AddressesWereAsked

LEMMA CertInitHolds == certInit => CertIInv
<1> SUFFICES ASSUME certInit PROVE CertIInv
  OBVIOUS
<1>1. certs = {} /\ floor = {} /\ agreed = {} /\ twins = {} /\ beaten = FALSE /\ check = NoCheck /\ page = NoPage
  BY DEF certInit
<1>2. page \in CertPage /\ page.at = "source" /\ page.rows = {} /\ page.todo = {}
  BY <1>1 DEF NoPage, CertPage
<1>3. CertsTyped
  BY <1>1, <1>2 DEF CertsTyped, ContactsTyped, MarksTyped, PageTyped, CheckTyped, NoCheck
<1>4. OnePerId /\ RevokedOnFloor /\ RowsKnowAll /\ RowsAreMarked /\ AddressesWereAsked
  BY <1>1 DEF OnePerId, RevokedOnFloor, RowsKnowAll, KnowsAll, RowsAreMarked, IsMarked, AddressesWereAsked
<1>5. PageIsSound /\ OpenRows = {}
  BY <1>2 DEF PageIsSound, ToSave, OpenRows
<1> QED
  BY <1>3, <1>4, <1>5 DEF CertIInv, RowsMarkEachOther

(***************************************************************************)
(* Every write goes through saveAll: whatever the list, what is written     *)
(* keeps one contact per id, and the floor keeps what was revoked.         *)
(***************************************************************************)
LEMMA WriteKeepsTypes ==
  ASSUME NEW saved \in SUBSET CertContact, floor \subseteq Fp, Write(saved),
         \A c \in saved : c.cert.id = c.id, \A c, d \in saved : c.id = d.id => c = d
  PROVE  /\ ContactsTyped' /\ floor' \subseteq Fp /\ floor \subseteq floor' /\ OnePerId' /\ RevokedOnFloor'
         /\ \A d \in certs' : \E e \in saved : d.id = e.id /\ d.uids = e.uids /\ d.cert = e.cert
<1>1. certs' = {[c EXCEPT !.rev = @ \/ c.id \in floor] : c \in saved} /\ floor' = floor \cup {c.id : c \in {d \in saved : d.rev}}
  BY DEF Write, Floored
<1>2. \A c \in saved :
         LET d == [c EXCEPT !.rev = @ \/ c.id \in floor]
         IN  d \in CertContact /\ d.id = c.id /\ d.uids = c.uids /\ d.cert = c.cert /\ (d.rev <=> c.rev \/ c.id \in floor)
  BY DEF CertContact
<1>3. certs' \subseteq CertContact /\ \A d \in certs' : \E e \in saved : d.id = e.id /\ d.uids = e.uids /\ d.cert = e.cert
  <2> SUFFICES ASSUME NEW d \in certs'
               PROVE  d \in CertContact /\ \E e \in saved : d.id = e.id /\ d.uids = e.uids /\ d.cert = e.cert
    OBVIOUS
  <2>1. PICK e \in saved : d = [e EXCEPT !.rev = @ \/ e.id \in floor]
    BY <1>1
  <2> QED
    BY <1>2, <2>1
<1>4. floor' \subseteq Fp /\ floor \subseteq floor'
  BY <1>1 DEF CertContact
<1>5. RevokedOnFloor'
  <2> SUFFICES ASSUME NEW d \in certs', d.rev PROVE d.id \in floor'
    BY DEF RevokedOnFloor
  <2>1. PICK e \in saved : d = [e EXCEPT !.rev = @ \/ e.id \in floor]
    BY <1>1
  <2>2. d.id = e.id /\ (e.rev \/ e.id \in floor)
    BY <1>2, <2>1
  <2> QED
    BY <1>1, <2>2
<1>6. OnePerId'
  <2> SUFFICES ASSUME NEW c \in certs', NEW d \in certs', c.id = d.id PROVE c = d
    BY DEF OnePerId
  <2>1. PICK a \in saved : c = [a EXCEPT !.rev = @ \/ a.id \in floor]
    BY <1>1
  <2>2. PICK b \in saved : d = [b EXCEPT !.rev = @ \/ b.id \in floor]
    BY <1>1
  <2>3. a.id = b.id
    BY <1>2, <2>1, <2>2
  <2> QED
    BY <2>1, <2>2, <2>3
<1>7. ContactsTyped'
  <2> SUFFICES ASSUME NEW d \in certs' PROVE d.cert.id = d.id
    BY <1>3 DEF ContactsTyped
  <2> QED
    BY <1>3
<1> QED
  BY <1>3, <1>4, <1>5, <1>6, <1>7

LEMMA WriteKeepsRevoked ==
  ASSUME NEW saved \in SUBSET CertContact, Write(saved), RevokedOnFloor, NEW c \in certs, NEW d \in certs', c.id = d.id, c.rev
  PROVE  d.rev
<1>1. PICK e \in saved : d = [e EXCEPT !.rev = @ \/ e.id \in floor]
  BY DEF Write, Floored
<1>2. d.id = e.id /\ (d.rev <=> e.rev \/ e.id \in floor)
  BY <1>1 DEF CertContact
<1> QED
  BY <1>2 DEF RevokedOnFloor

(***************************************************************************)
(* What is read.                                                           *)
(***************************************************************************)
LEMMA ClassifyIsRight ==
  ASSUME CertsTyped, OnePerId, NEW text, text \in [id : Fp, uids : SUBSET Uid, rev : BOOLEAN], NEW usable \in BOOLEAN
  PROVE  /\ Classify(text, usable) \in CertRow /\ Classify(text, usable).id = text.id
         /\ \A c \in certs : c.id = text.id =>
               /\ c.cert.uids \subseteq Classify(text, usable).uids
               /\ c.cert.rev => Classify(text, usable).rev
<1> DEFINE held == Stored(text.id)
           copy == IF held = {} THEN text ELSE MergeKey((CHOOSE c \in held : TRUE).cert, text)
           status == IF held = {} THEN (IF usable THEN "new" ELSE "rejected")
                     ELSE IF \E c \in held : c.cert = copy THEN "duplicate" ELSE "update"
<1>1. Classify(text, usable) = [id |-> text.id, uids |-> copy.uids, rev |-> copy.rev, src |-> Hand, replaces |-> {}, status |-> status]
  BY DEF Classify
<1>2. status \in {"new", "update", "duplicate", "rejected"}
  OBVIOUS
<1>3. CASE held = {}
  <2>1. copy = text /\ \A c \in certs : c.id # text.id
    BY <1>3 DEF Stored
  <2> HIDE DEF status, copy, held
  <2> QED
    BY <1>1, <1>2, <2>1 DEF CertRow
<1>4. CASE held # {}
  <2> DEFINE c0 == CHOOSE c \in held : TRUE
  <2>1. c0 \in held
    BY <1>4
  <2>2. c0 \in certs /\ c0.id = text.id
    BY <2>1 DEF Stored
  <2>3. copy = MergeKey(c0.cert, text)
    BY <1>4
  <2> HIDE DEF c0
  <2>4. c0.cert \in [id : Fp, uids : SUBSET Uid, rev : BOOLEAN]
    BY <2>2 DEF CertsTyped, ContactsTyped, CertContact
  <2>5. copy.uids = c0.cert.uids \cup text.uids /\ copy.rev = (c0.cert.rev \/ text.rev)
    BY <2>3, <2>4 DEF MergeKey
  <2>6. \A c \in certs : c.id = text.id => c = c0
    BY <2>2 DEF OnePerId
  <2> HIDE DEF status, copy, held
  <2>7. Classify(text, usable) \in CertRow
    BY <1>1, <1>2, <2>4, <2>5 DEF CertRow
  <2>8. /\ Classify(text, usable).id = text.id /\ Classify(text, usable).uids = copy.uids
        /\ Classify(text, usable).rev = copy.rev
    BY <1>1
  <2> QED
    BY <2>5, <2>6, <2>7, <2>8
<1> QED
  BY <1>3, <1>4

MarkOf(r, rows) ==
    [r |-> r, conflict |-> r.status \in {"new", "update"} /\ (Rival(r, rows) # {} \/ RivalRows(r, rows) # {}),
     holders |-> {c.id : c \in Rival(r, rows)}, twin |-> Twins(r, rows) # {}]

LEMMA JudgedIsRight ==
  ASSUME CertsTyped, AddressesWereAsked, ~beaten, NEW rows \in SUBSET CertRow,
         \A r, s \in rows : r.id = s.id => r = s
  PROVE  \A x \in Judged(rows) : Saves(x) => IsMarked(x) /\ \A y \in Judged(rows) : Saves(y) => MarkEach(x, y)
<1>1. \A x \in Judged(rows) :
         /\ x.r \in rows
         /\ Saves(x) /\ ~x.conflict => Rival(x.r, rows) = {} /\ RivalRows(x.r, rows) = {}
         /\ x.twin <=> Twins(x.r, rows) # {}
  <2> SUFFICES ASSUME NEW x \in Judged(rows)
               PROVE  /\ x.r \in rows
                      /\ Saves(x) /\ ~x.conflict => Rival(x.r, rows) = {} /\ RivalRows(x.r, rows) = {}
                      /\ x.twin <=> Twins(x.r, rows) # {}
    OBVIOUS
  <2>1. PICK r \in rows : x = MarkOf(r, rows)
    BY DEF Judged, MarkOf
  <2> QED
    BY <2>1 DEF MarkOf, Saves
<1>2. \A r \in rows : \A u \in r.uids :
         \/ u \in Added(r)
         \/ r.status = "update" /\ \E c \in certs : c.id = r.id /\ u \in c.uids
  BY DEF Added, Stored
<1>3. \A r \in rows : r.status # "update" => Added(r) = r.uids
  BY DEF Added
<1>4. ASSUME NEW x \in Judged(rows), Saves(x)
      PROVE  IsMarked(x)
  <2> SUFFICES ASSUME NEW c \in certs, c.id # x.r.id, NEW u, u \in c.uids, u \in x.r.uids, ~IsAsked(x)
               PROVE  c.id \in agreed \/ (c.id \in twins /\ Twin(x))
    BY DEF IsMarked
  <2>1. Rival(x.r, rows) = {}
    BY <1>1, <1>4 DEF IsAsked
  <2>2. u \notin Added(x.r)
    BY <2>1 DEF Rival
  <2>3. PICK d \in certs : d.id = x.r.id /\ u \in d.uids
    BY <1>1, <1>2, <2>2
  <2>4. c.id \in agreed \/ d.id \in agreed \/ {c.id, d.id} \subseteq twins
    BY <2>3 DEF AddressesWereAsked
  <2> QED
    BY <2>3, <2>4 DEF IsAsked, Twin
<1>5. ASSUME NEW x \in Judged(rows), NEW y \in Judged(rows), Saves(x), Saves(y)
      PROVE  MarkEach(x, y)
  <2> SUFFICES ASSUME x.r.id # y.r.id, NEW u, u \in x.r.uids, u \in y.r.uids, ~IsAsked(x), ~IsAsked(y)
               PROVE  Twin(x) /\ Twin(y)
    BY DEF MarkEach
  <2>1. /\ Rival(x.r, rows) = {} /\ RivalRows(x.r, rows) = {} /\ x.r \in rows
        /\ Rival(y.r, rows) = {} /\ RivalRows(y.r, rows) = {} /\ y.r \in rows
    BY <1>1, <1>5 DEF IsAsked
  <2>2. \A c \in certs : u \in c.uids => (c.id # x.r.id => u \notin Added(x.r)) /\ (c.id # y.r.id => u \notin Added(y.r))
    BY <2>1 DEF Rival
  <2>3. (y.r.status = "new" => u \notin Added(x.r)) /\ (x.r.status = "new" => u \notin Added(y.r))
    BY <2>1 DEF RivalRows
  <2>4. x.r.status \in {"new", "update"} /\ y.r.status \in {"new", "update"}
    BY <1>5 DEF Saves
  <2>5. CASE u \in Added(x.r) /\ u \in Added(y.r)
    <3>1. x.r.status = "update" /\ y.r.status = "update"
      BY <2>3, <2>4, <2>5
    <3>2. y.r \in Twins(x.r, rows) /\ x.r \in Twins(y.r, rows)
      BY <2>1, <2>5, <3>1 DEF Twins
    <3> QED
      BY <1>1, <3>2 DEF Twin
  <2>6. CASE u \notin Added(x.r) /\ u \in Added(y.r)
    <3>1. PICK c \in certs : c.id = x.r.id /\ u \in c.uids
      BY <1>2, <2>1, <2>6
    <3> QED
      BY <2>2, <2>6, <3>1
  <2>7. CASE u \in Added(x.r) /\ u \notin Added(y.r)
    <3>1. PICK c \in certs : c.id = y.r.id /\ u \in c.uids
      BY <1>2, <2>1, <2>7
    <3> QED
      BY <2>2, <2>7, <3>1
  <2>8. CASE u \notin Added(x.r) /\ u \notin Added(y.r)
    <3>1. PICK c \in certs : c.id = x.r.id /\ u \in c.uids
      BY <1>2, <2>1, <2>8
    <3>2. PICK d \in certs : d.id = y.r.id /\ u \in d.uids
      BY <1>2, <2>1, <2>8
    <3>3. c.id \in agreed \/ d.id \in agreed \/ {c.id, d.id} \subseteq twins
      BY <3>1, <3>2 DEF AddressesWereAsked
    <3> QED
      BY <3>1, <3>2, <3>3 DEF IsAsked, Twin
  <2> QED
    BY <2>5, <2>6, <2>7, <2>8
<1> QED
  BY <1>4, <1>5

LEMMA JudgedIsTyped ==
  ASSUME CertsTyped, NEW rows \in SUBSET CertRow, \A r, s \in rows : r.id = s.id => r = s
  PROVE  Judged(rows) \subseteq CertMark /\ \A x \in Judged(rows) : x.r \in rows /\ \A y \in Judged(rows) : x.r.id = y.r.id => x = y
<1>1. \A r \in rows : {c.id : c \in Rival(r, rows)} \subseteq Fp
  BY DEF Rival, CertsTyped, ContactsTyped, CertContact
<1>2. ASSUME NEW x \in Judged(rows)
      PROVE  x \in CertMark /\ x.r \in rows
  <2>1. PICK r \in rows : x = MarkOf(r, rows)
    BY DEF Judged, MarkOf
  <2> QED
    BY <1>1, <2>1 DEF MarkOf, CertMark
<1>3. \A x \in Judged(rows) : x = MarkOf(x.r, rows)
  <2> SUFFICES ASSUME NEW x \in Judged(rows) PROVE x = MarkOf(x.r, rows)
    OBVIOUS
  <2>1. PICK r \in rows : x = MarkOf(r, rows)
    BY DEF Judged, MarkOf
  <2> QED
    BY <2>1 DEF MarkOf
<1> QED
  BY <1>2, <1>3

LEMMA OpensKeeps ==
  ASSUME CertIInv, page.at = "source", NEW rows \in SUBSET CertMark, Opens(rows),
         UNCHANGED <<certs, floor, check, agreed, twins, beaten>>,
         \A x, y \in rows : x.r.id = y.r.id => x = y,
         ~beaten => \A x \in rows : Saves(x) => KnowsAll(x) /\ IsMarked(x) /\ \A y \in rows : Saves(y) => MarkEach(x, y)
  PROVE  CertIInv'
<1>1. page' \in CertPage /\ page'.rows = rows /\ page'.todo = {} /\ page'.at \in {"preview", "review"}
  BY DEF Opens, NoPage, CertPage
<1>2. CertsTyped'
  BY <1>1 DEF CertIInv, CertsTyped, ContactsTyped, MarksTyped, PageTyped, CheckTyped
<1>3. OnePerId' /\ RevokedOnFloor' /\ AddressesWereAsked'
  BY DEF CertIInv, OnePerId, RevokedOnFloor, AddressesWereAsked
<1>4. PageIsSound' /\ OpenRows' = {x \in rows : Saves(x)}
  BY <1>1 DEF PageIsSound, ToSave, OpenRows, Saves
<1>5. RowsKnowAll' /\ RowsAreMarked' /\ RowsMarkEachOther'
  BY <1>4 DEF RowsKnowAll, RowsAreMarked, RowsMarkEachOther, KnowsAll, IsMarked, MarkEach, IsAsked, Twin
<1> QED
  BY <1>2, <1>3, <1>4, <1>5 DEF CertIInv

LEMMA ReadTextKeeps ==
  ASSUME CertIInv, NEW a \in Copy, NEW b \in Copy, ReadText({a, b})
  PROVE  CertIInv'
<1> DEFINE copies == {a, b}
           ids == {c.id : c \in copies}
<1> PICK usable \in BOOLEAN :
      LET rows == Judged({Classify(Merged(copies, i), usable) : i \in ids})
          live == {x \in rows : x.r.status # "rejected"}
          worth == {x \in rows : Saves(x)}
      IN  IF Cardinality(worth) > 1 THEN Opens(live)
          ELSE \E x \in (IF worth # {} THEN worth ELSE IF live # {} THEN live ELSE rows) : Opens({x})
  BY DEF ReadText
<1> DEFINE read == {Classify(Merged(copies, i), usable) : i \in ids}
           rows == Judged(read)
<1>1. page.at = "source" /\ UNCHANGED <<certs, floor, check, agreed, twins, beaten>>
  BY DEF ReadText, StartRead
<1>2. PICK opened \in SUBSET rows : Opens(opened)
  <2> DEFINE live == {x \in rows : x.r.status # "rejected"}
             worth == {x \in rows : Saves(x)}
  <2>1. CASE Cardinality(worth) > 1
    <3>1. Opens(live)
      BY <2>1
    <3>2. live \in SUBSET rows
      OBVIOUS
    <3> QED
      BY <3>1, <3>2
  <2>2. CASE ~(Cardinality(worth) > 1)
    <3>1. PICK x \in (IF worth # {} THEN worth ELSE IF live # {} THEN live ELSE rows) : Opens({x})
      BY <2>2
    <3>2. {x} \in SUBSET rows
      OBVIOUS
    <3> QED
      BY <3>1, <3>2
  <2> QED
    BY <2>1, <2>2
<1>3. \A i \in ids : Merged(copies, i) \in [id : Fp, uids : SUBSET Uid, rev : BOOLEAN] /\ Merged(copies, i).id = i
  BY QueryAssumption DEF Merged, Copy
<1>4. \A i \in ids :
         /\ Classify(Merged(copies, i), usable) \in CertRow /\ Classify(Merged(copies, i), usable).id = i
         /\ \A c \in certs : c.id = i => /\ c.cert.uids \subseteq Classify(Merged(copies, i), usable).uids
                                         /\ c.cert.rev => Classify(Merged(copies, i), usable).rev
  BY <1>3, ClassifyIsRight DEF CertIInv
<1>5. read \subseteq CertRow /\ (\A r, s \in read : r.id = s.id => r = s)
      /\ \A r \in read, c \in certs : c.id = r.id => c.cert.uids \subseteq r.uids /\ (c.cert.rev => r.rev)
  <2> HIDE DEF ids
  <2>1. \A r \in read : \E i \in ids : r = Classify(Merged(copies, i), usable)
    OBVIOUS
  <2> HIDE DEF read
  <2>2. ASSUME NEW r \in read
        PROVE  /\ r \in CertRow /\ r.id \in ids /\ r = Classify(Merged(copies, r.id), usable)
               /\ \A c \in certs : c.id = r.id => c.cert.uids \subseteq r.uids /\ (c.cert.rev => r.rev)
    <3>1. PICK i \in ids : r = Classify(Merged(copies, i), usable)
      BY <2>1
    <3> QED
      BY <1>4, <3>1
  <2>3. \A r, s \in read : r.id = s.id => r = s
    BY <2>2
  <2> QED
    BY <2>2, <2>3
<1> HIDE DEF read, ids, copies
<1>6. rows \subseteq CertMark /\ \A x \in rows : x.r \in read /\ \A y \in rows : x.r.id = y.r.id => x = y
  BY <1>5, JudgedIsTyped DEF CertIInv
<1>7. ~beaten => \A x \in rows : Saves(x) => IsMarked(x) /\ \A y \in rows : Saves(y) => MarkEach(x, y)
  BY <1>5, JudgedIsRight DEF CertIInv
<1>8. \A x \in rows : KnowsAll(x)
  BY <1>5, <1>6 DEF KnowsAll
<1> HIDE DEF rows
<1> QED
  BY <1>1, <1>2, <1>6, <1>7, <1>8, OpensKeeps

LEMMA KeyserverAnswerKeeps ==
  ASSUME CertIInv, NEW q \in Query, NEW copy \in Copy, KeyserverAnswer(q, copy)
  PROVE  CertIInv'
<1> DEFINE r == Classify(copy, TRUE)
           rows == Judged({r})
           answers == {ForQuery(q, x) : x \in rows}
<1>1. page.at = "source" /\ Opens(answers) /\ UNCHANGED <<certs, floor, check, agreed, twins, beaten>>
  BY DEF KeyserverAnswer, StartRead
<1>2. copy \in [id : Fp, uids : SUBSET Uid, rev : BOOLEAN]
  BY QueryAssumption DEF Copy
<1>3. /\ r \in CertRow /\ r.id = copy.id
      /\ \A c \in certs : c.id = copy.id => c.cert.uids \subseteq r.uids /\ (c.cert.rev => r.rev)
  BY <1>2, ClassifyIsRight DEF CertIInv
<1> HIDE DEF r
<1>4. rows \subseteq CertMark /\ \A x \in rows : x.r = r /\ \A y \in rows : x.r.id = y.r.id => x = y
  BY <1>3, JudgedIsTyped DEF CertIInv
<1>5. ~beaten => \A x \in rows : Saves(x) => IsMarked(x)
  BY <1>3, JudgedIsRight DEF CertIInv
<1> HIDE DEF rows
<1>6. ASSUME NEW x \in rows
      PROVE  /\ ForQuery(q, x) \in CertMark
             /\ Saves(ForQuery(q, x)) => Saves(x)
             /\ ForQuery(q, x).r.id = x.r.id /\ ForQuery(q, x).r.uids = x.r.uids /\ ForQuery(q, x).r.rev = x.r.rev
             /\ ForQuery(q, x).conflict = x.conflict /\ ForQuery(q, x).twin = x.twin
  <2>1. x \in CertMark
    BY <1>4
  <2> DEFINE gone == IF x.r.status = "new" THEN {c.id : c \in {d \in certs : d.src = q /\ d.id # x.r.id}} ELSE {}
  <2>2. gone \subseteq Fp
    BY DEF CertIInv, CertsTyped, ContactsTyped, CertContact
  <2> HIDE DEF gone
  <2>3. CASE ~AnswersQuery(q, x.r)
    <3>1. ForQuery(q, x) = [x EXCEPT !.r.status = "rejected"]
      BY <2>3 DEF ForQuery
    <3> QED
      BY <2>1, <3>1 DEF CertMark, CertRow, Saves
  <2>4. CASE AnswersQuery(q, x.r)
    <3> DEFINE s == [x.r EXCEPT !.src = q, !.replaces = gone]
    <3>1. ForQuery(q, x) = [x EXCEPT !.r.src = q, !.r.replaces = gone]
      BY <2>4 DEF ForQuery, gone
    <3>2. ForQuery(q, x) = [r |-> s, conflict |-> x.conflict, holders |-> x.holders, twin |-> x.twin]
      BY <2>1, <3>1 DEF CertMark, CertRow
    <3>3. x.r \in CertRow /\ x.conflict \in BOOLEAN /\ x.holders \in SUBSET Fp /\ x.twin \in BOOLEAN
      BY <2>1 DEF CertMark
    <3>4. s \in CertRow /\ s.id = x.r.id /\ s.uids = x.r.uids /\ s.rev = x.r.rev /\ s.status = x.r.status
      BY <2>2, <3>3 DEF CertRow
    <3> HIDE DEF s
    <3> QED
      BY <3>2, <3>3, <3>4 DEF CertMark, Saves
  <2> QED
    BY <2>3, <2>4
<1>7. answers \subseteq CertMark /\ \A x, y \in answers : x.r.id = y.r.id /\ x = y
  <2>1. \A x, y \in rows : x = y
    BY <1>4
  <2>2. \A y \in answers : \E x \in rows : y = ForQuery(q, x)
    OBVIOUS
  <2> HIDE DEF answers
  <2>3. answers \subseteq CertMark
    <3>1. ASSUME NEW y \in answers PROVE y \in CertMark
      <4>1. PICK x \in rows : y = ForQuery(q, x)
        BY <2>2
      <4> QED
        BY <1>6, <4>1
    <3> QED
      BY <3>1
  <2>4. \A x, y \in answers : x = y
    BY <2>1, <2>2
  <2> QED
    BY <2>3, <2>4
<1>8. \A y \in answers : Saves(y) => KnowsAll(y) /\ (~beaten => IsMarked(y))
  <2> SUFFICES ASSUME NEW x \in rows, Saves(ForQuery(q, x))
               PROVE  KnowsAll(ForQuery(q, x)) /\ (~beaten => IsMarked(ForQuery(q, x)))
    OBVIOUS
  <2> DEFINE y == ForQuery(q, x)
  <2>1. /\ y.r.id = x.r.id /\ y.r.uids = x.r.uids /\ y.r.rev = x.r.rev /\ y.conflict = x.conflict /\ y.twin = x.twin
    BY <1>6
  <2>5. Saves(x) /\ x.r = r
    <3>1. Saves(x)
      BY <1>6
    <3>2. x.r = r
      BY <1>4
    <3> QED
      BY <3>1, <3>2
  <2> HIDE DEF y
  <2>2. KnowsAll(y)
    BY <1>3, <2>1, <2>5 DEF KnowsAll
  <2>3. ~beaten => IsMarked(x)
    BY <1>5, <2>5
  <2>4. ~beaten => IsMarked(y)
    BY <2>1, <2>3 DEF IsMarked, IsAsked, Twin
  <2> QED
    BY <2>2, <2>4 DEF y
<1>9. \A x, y \in answers : MarkEach(x, y)
  BY <1>7 DEF MarkEach
<1> HIDE DEF answers
<1> QED
  BY <1>1, <1>7, <1>8, <1>9, OpensKeeps

(***************************************************************************)
(* Steps of the page that write nothing.                                   *)
(***************************************************************************)
LEMMA PageStepKeeps ==
  ASSUME CertIInv, UNCHANGED <<certs, floor, agreed, twins, beaten>>,
         PageTyped', CheckTyped', PageIsSound', OpenRows' \subseteq OpenRows
  PROVE  CertIInv'
<1>1. CertsTyped'
  BY DEF CertIInv, CertsTyped, ContactsTyped, MarksTyped
<1>2. OnePerId' /\ RevokedOnFloor' /\ AddressesWereAsked'
  BY DEF CertIInv, OnePerId, RevokedOnFloor, AddressesWereAsked
<1>3. RowsKnowAll' /\ RowsAreMarked' /\ RowsMarkEachOther'
  BY DEF CertIInv, RowsKnowAll, RowsAreMarked, RowsMarkEachOther, KnowsAll, IsMarked, MarkEach, IsAsked, Twin
<1> QED
  BY <1>1, <1>2, <1>3 DEF CertIInv

LEMMA PageLeftKeeps ==
  ASSUME CertIInv, page' = NoPage, UNCHANGED <<certs, floor, check, agreed, twins, beaten>>
  PROVE  CertIInv'
<1>1. page' \in CertPage /\ page'.at = "source" /\ page'.rows = {} /\ page'.todo = {}
  BY DEF NoPage, CertPage
<1>2. PageTyped' /\ PageIsSound' /\ OpenRows' = {}
  BY <1>1 DEF PageTyped, PageIsSound, ToSave, OpenRows
<1>3. CheckTyped'
  BY DEF CertIInv, CertsTyped, CheckTyped
<1> QED
  BY <1>2, <1>3, PageStepKeeps

LEMMA CertDecideKeeps ==
  ASSUME CertIInv, CertDecide
  PROVE  CertIInv'
<1> DEFINE rows == {x \in page.rows : Saves(x)}
<1>1. UNCHANGED <<certs, floor, check, agreed, twins, beaten>>
  BY DEF CertDecide
<1>2. PICK d \in [rows -> {"skip", "import", "replace"}] :
        page' = [NoPage EXCEPT !.at = "saving", !.todo = {[x |-> x, decision |-> d[x]] : x \in {y \in DOMAIN d : d[y] # "skip"}}]
  BY DEF CertDecide
<1> DEFINE todo == {[x |-> x, decision |-> d[x]] : x \in {y \in DOMAIN d : d[y] # "skip"}}
<1>3. page'.at = "saving" /\ page'.rows = {} /\ page'.todo = todo
  BY <1>2 DEF NoPage
<1>4. rows \subseteq CertMark
  BY DEF CertIInv, CertsTyped, PageTyped, CertPage
<1>5. todo \subseteq [x : CertMark, decision : {"import", "replace"}]
  BY <1>4
<1>6. \A j \in todo : j.x \in rows /\ j = [x |-> j.x, decision |-> d[j.x]]
  OBVIOUS
<1>7. page' = [at |-> "saving", rows |-> {}, todo |-> todo]
  BY <1>2 DEF NoPage
<1> HIDE DEF todo
<1>8. PageTyped'
  BY <1>5, <1>7 DEF PageTyped, CertPage, CertItem
<1>9. \A x, y \in rows : x.r.id = y.r.id => x = y
  BY DEF CertIInv, PageIsSound
<1>10. PageIsSound'
  BY <1>3, <1>6, <1>9 DEF PageIsSound, ToSave
<1>11. OpenRows' \subseteq OpenRows
  BY <1>3, <1>6 DEF OpenRows, ToSave
<1>12. CheckTyped'
  BY <1>1 DEF CertIInv, CertsTyped, CheckTyped
<1> QED
  BY <1>1, <1>8, <1>10, <1>11, <1>12, PageStepKeeps

LEMMA CheckStartKeeps ==
  ASSUME CertIInv, NEW c \in certs, CheckStart(c)
  PROVE  CertIInv'
<1>1. UNCHANGED <<certs, floor, page, agreed, twins, beaten>>
  BY DEF CheckStart
<1>2. CheckTyped'
  BY DEF CheckStart, CheckTyped
<1>3. PageTyped' /\ PageIsSound' /\ OpenRows' = OpenRows
  BY <1>1 DEF CertIInv, CertsTyped, PageTyped, PageIsSound, ToSave, OpenRows, Saves
<1> QED
  BY <1>1, <1>2, <1>3, PageStepKeeps

(***************************************************************************)
(* Steps that write.                                                       *)
(***************************************************************************)
\* A saved as saveAll takes it: one contact per id.
ListOk(l) ==
    /\ l \subseteq CertContact
    /\ \A c \in l : c.cert.id = c.id
    /\ \A c, d \in l : c.id = d.id => c = d
\* What is listed is a stored contact, but for flags.
IsKept(e) == \E c \in certs : e.id = c.id /\ e.uids = c.uids /\ e.cert = c.cert
\* ... or it is what the row says.
IsOfRow(e, r) == e.id = r.id /\ e.uids = r.uids /\ e.cert = [id |-> r.id, uids |-> r.uids, rev |-> r.rev]

LEMMA StoredListOk == CertIInv => ListOk(certs)
  BY DEF CertIInv, CertsTyped, ContactsTyped, OnePerId, ListOk

LEMMA QuietWriteKeeps ==
  ASSUME CertIInv, NEW l, ListOk(l), \A e \in l : IsKept(e), Write(l), UNCHANGED <<agreed, twins, check, beaten>>,
         PageTyped', PageIsSound', OpenRows' \subseteq OpenRows
  PROVE  CertIInv'
<1>1. /\ ContactsTyped' /\ floor' \subseteq Fp /\ OnePerId' /\ RevokedOnFloor'
      /\ \A d \in certs' : \E e \in l : d.id = e.id /\ d.uids = e.uids /\ d.cert = e.cert
  BY WriteKeepsTypes DEF ListOk, CertIInv, CertsTyped, MarksTyped
<1>2. \A d \in certs' : IsKept(d)
  BY <1>1 DEF IsKept
<1>3. CertsTyped'
  BY <1>1 DEF CertIInv, CertsTyped, MarksTyped, CheckTyped
<1>4. AddressesWereAsked'
  <2> SUFFICES ASSUME NEW c \in certs', NEW d \in certs', c # d, c.uids \cap d.uids # {}, ~beaten
               PROVE  c.id \in agreed \/ d.id \in agreed \/ {c.id, d.id} \subseteq twins
    BY DEF AddressesWereAsked
  <2>1. PICK a \in certs : c.id = a.id /\ c.uids = a.uids
    BY <1>2 DEF IsKept
  <2>2. PICK b \in certs : d.id = b.id /\ d.uids = b.uids
    BY <1>2 DEF IsKept
  <2>3. a # b
    BY <1>1, <2>1, <2>2 DEF OnePerId
  <2> QED
    BY <2>1, <2>2, <2>3 DEF CertIInv, AddressesWereAsked
<1>5. RowsKnowAll'
  <2> SUFFICES ASSUME ~beaten, NEW x \in OpenRows, NEW d \in certs', d.id = x.r.id
               PROVE  d.cert.uids \subseteq x.r.uids /\ (d.cert.rev => x.r.rev)
    BY DEF RowsKnowAll, KnowsAll
  <2>1. PICK c \in certs : d.id = c.id /\ d.cert = c.cert
    BY <1>2 DEF IsKept
  <2> QED
    BY <2>1 DEF CertIInv, RowsKnowAll, KnowsAll
<1>6. RowsAreMarked'
  <2> SUFFICES ASSUME ~beaten, NEW x \in OpenRows, NEW d \in certs', d.id # x.r.id, d.uids \cap x.r.uids # {}
               PROVE  d.id \in agreed \/ IsAsked(x) \/ (d.id \in twins /\ Twin(x))
    BY DEF RowsAreMarked, IsMarked, IsAsked, Twin
  <2>1. PICK c \in certs : d.id = c.id /\ d.uids = c.uids
    BY <1>2 DEF IsKept
  <2> QED
    BY <2>1 DEF CertIInv, RowsAreMarked, IsMarked
<1>7. RowsMarkEachOther'
  BY DEF CertIInv, RowsMarkEachOther, MarkEach, IsAsked, Twin
<1> QED
  BY <1>1, <1>3, <1>4, <1>5, <1>6, <1>7 DEF CertIInv

\* Another writer: a page that is open is beaten.
LEMMA OutsideWriteKeeps ==
  ASSUME CertIInv, NEW l, ListOk(l), Write(l), UNCHANGED <<agreed, twins, page>>, CheckTyped',
         beaten' = (beaten \/ page.at # "source"), AddressesWereAsked'
  PROVE  CertIInv'
<1>1. ContactsTyped' /\ floor' \subseteq Fp /\ OnePerId' /\ RevokedOnFloor'
  BY WriteKeepsTypes DEF ListOk, CertIInv, CertsTyped, MarksTyped
<1>2. CertsTyped'
  BY <1>1 DEF CertIInv, CertsTyped, MarksTyped, PageTyped
<1>3. PageIsSound'
  BY DEF CertIInv, PageIsSound, ToSave
<1>4. ~beaten' => OpenRows' = {}
  BY DEF CertIInv, PageIsSound, OpenRows, ToSave
<1>5. RowsKnowAll' /\ RowsAreMarked' /\ RowsMarkEachOther'
  BY <1>4 DEF RowsKnowAll, RowsAreMarked, RowsMarkEachOther
<1> QED
  BY <1>1, <1>2, <1>3, <1>5 DEF CertIInv

LEMMA SavedList ==
  ASSUME CertIInv, NEW r \in CertRow, NEW alias \in BOOLEAN, NEW l \in Upserted(ContactFrom(r, alias))
  PROVE  ListOk(l) /\ \A e \in l : (IsKept(e) /\ e.id # r.id) \/ IsOfRow(e, r)
<1> DEFINE new == ContactFrom(r, alias)
           gone == Supersedes(new)
<1>1. new \in CertContact /\ new.id = r.id /\ IsOfRow(new, r) /\ new.cert.id = new.id
  BY DEF ContactFrom, CertContact, CertRow, IsOfRow
<1>2. ListOk(certs)
  BY StoredListOk
<1>3. \A c \in certs : c.id = new.id => c \in gone
  BY DEF Supersedes
<1>4. gone \subseteq certs
  BY DEF Supersedes
<1>5. new.src = Hand => \A c \in gone : c.id = new.id
  BY DEF Supersedes
<1>6. \/ new.src = Hand /\ l = {IF c \in gone THEN [c EXCEPT !.uids = new.uids, !.rev = new.rev, !.cert = new.cert] ELSE c : c \in certs}
      \/ gone = {} /\ l = certs \cup {new}
      \/ \E p \in gone : l = (certs \ gone) \cup {CarriedOver(p, new)}
  BY DEF Upserted
<1> HIDE DEF gone, new
<1>7. CASE new.src = Hand /\ l = {IF c \in gone THEN [c EXCEPT !.uids = new.uids, !.rev = new.rev, !.cert = new.cert] ELSE c : c \in certs}
  <2> DEFINE put(c) == IF c \in gone THEN [c EXCEPT !.uids = new.uids, !.rev = new.rev, !.cert = new.cert] ELSE c
  <2>1. ASSUME NEW c \in certs
        PROVE  /\ put(c) \in CertContact /\ put(c).id = c.id /\ put(c).cert.id = put(c).id
               /\ (IsKept(put(c)) /\ put(c).id # r.id) \/ IsOfRow(put(c), r)
    <3>1. c \in CertContact /\ c.cert.id = c.id
      BY <1>2 DEF ListOk
    <3>2. CASE c \in gone
      <4>1. put(c) = [c EXCEPT !.uids = new.uids, !.rev = new.rev, !.cert = new.cert] /\ c.id = new.id
        BY <1>5, <1>7, <3>2
      <4> HIDE DEF put
      <4>2. put(c) \in CertContact /\ put(c).id = c.id /\ put(c).uids = new.uids /\ put(c).cert = new.cert
        BY <1>1, <3>1, <4>1 DEF CertContact
      <4> QED
        BY <1>1, <4>1, <4>2 DEF IsOfRow
    <3>3. CASE c \notin gone
      BY <1>1, <1>3, <3>1, <3>3 DEF IsKept
    <3> QED
      BY <3>2, <3>3
  <2>2. \A e \in l : \E c \in certs : e = put(c)
    BY <1>7
  <2> HIDE DEF put
  <2>3. ASSUME NEW e \in l
        PROVE  e \in CertContact /\ e.cert.id = e.id /\ ((IsKept(e) /\ e.id # r.id) \/ IsOfRow(e, r))
    <3>1. PICK c \in certs : e = put(c)
      BY <2>2
    <3> QED
      BY <2>1, <3>1
  <2>4. ASSUME NEW e \in l, NEW f \in l, e.id = f.id PROVE e = f
    <3>1. PICK c \in certs : e = put(c)
      BY <2>2
    <3>2. PICK d \in certs : f = put(d)
      BY <2>2
    <3>3. c.id = d.id
      BY <2>1, <2>4, <3>1, <3>2
    <3> QED
      BY <1>2, <3>1, <3>2, <3>3 DEF ListOk
  <2> QED
    BY <2>3, <2>4 DEF ListOk
<1>8. CASE gone = {} /\ l = certs \cup {new}
  BY <1>1, <1>2, <1>3, <1>8 DEF ListOk, IsKept
<1>9. CASE \E p \in gone : l = (certs \ gone) \cup {CarriedOver(p, new)}
  <2> PICK p \in gone : l = (certs \ gone) \cup {CarriedOver(p, new)}
    BY <1>9
  <2>1. p \in CertContact
    BY <1>2, <1>4 DEF ListOk
  <2> DEFINE put == CarriedOver(p, new)
  <2>2. put \in CertContact /\ put.id = new.id /\ put.uids = new.uids /\ put.cert = new.cert
    BY <1>1, <2>1 DEF CarriedOver, CertContact
  <2> HIDE DEF put
  <2>3. l = (certs \ gone) \cup {put}
    BY DEF put
  <2>4. IsOfRow(put, r) /\ put.cert.id = put.id
    BY <1>1, <2>2 DEF IsOfRow
  <2>5. \A c \in certs \ gone : IsKept(c) /\ c.id # r.id
    BY <1>1, <1>3 DEF IsKept
  <2> QED
    BY <1>1, <1>2, <2>2, <2>3, <2>4, <2>5 DEF ListOk
<1> QED
  BY <1>6, <1>7, <1>8, <1>9

LEMMA SaveCertKeeps ==
  ASSUME CertIInv, NEW item \in page.todo, SaveCert(item)
  PROVE  CertIInv'
<1> DEFINE x == item.x
           old == IF item.decision = "replace" THEN {c \in certs : c.id \in item.x.holders} ELSE {}
           more == {[x |-> item.x, decision |-> "remove", id |-> c.id] : c \in old}
<1>1. /\ page.at = "saving" /\ item.decision \in {"import", "replace"}
      /\ page' = [page EXCEPT !.todo = (@ \ {item}) \cup more]
      /\ agreed' = IF x.conflict THEN agreed \cup {x.r.id} ELSE agreed
      /\ twins' = IF x.twin THEN twins \cup {x.r.id} ELSE twins
      /\ UNCHANGED <<check, beaten>>
  BY DEF SaveCert
<1>2. PICK l \in Upserted(ContactFrom(x.r, \E c \in old : c.alias)) : Write(l)
  BY DEF SaveCert
<1>3. page \in CertPage /\ item \in CertItem /\ item \in ToSave /\ x \in CertMark
  BY <1>1 DEF CertIInv, CertsTyped, PageTyped, CertPage, CertItem, ToSave
<1>4. ListOk(l) /\ \A e \in l : (IsKept(e) /\ e.id # x.r.id) \/ IsOfRow(e, x.r)
  <2>1. x.r \in CertRow
    BY <1>3 DEF CertMark
  <2>2. (\E c \in old : c.alias) \in BOOLEAN
    OBVIOUS
  <2> QED
    BY <1>2, <2>1, <2>2, SavedList
<1>5. more \subseteq [x : CertMark, decision : {"remove"}, id : Fp]
  BY <1>3 DEF CertIInv, CertsTyped, ContactsTyped, CertContact
<1> HIDE DEF more
<1>6. page'.at = "saving" /\ page'.rows = page.rows /\ page'.todo = (page.todo \ {item}) \cup more /\ page' \in CertPage
  BY <1>1, <1>3, <1>5 DEF CertPage, CertItem
<1>7. page.rows = {} /\ ToSave' = ToSave \ {item}
  BY <1>1, <1>5, <1>6 DEF ToSave, CertIInv, PageIsSound
<1>8. \A i, j \in ToSave : i.x.r.id = j.x.r.id => i = j
  BY DEF CertIInv, PageIsSound
<1>9. PageIsSound'
  BY <1>6, <1>7, <1>8 DEF PageIsSound
<1>10. x \in OpenRows /\ \A y \in OpenRows' : y \in OpenRows /\ y.r.id # x.r.id
  <2>1. OpenRows = {j.x : j \in ToSave} /\ OpenRows' = {j.x : j \in ToSave \ {item}}
    BY <1>6, <1>7 DEF OpenRows
  <2> QED
    BY <1>3, <1>8, <2>1
<1>11. /\ ContactsTyped' /\ floor' \subseteq Fp /\ OnePerId' /\ RevokedOnFloor'
       /\ \A d \in certs' : \E e \in l : d.id = e.id /\ d.uids = e.uids /\ d.cert = e.cert
  BY <1>2, <1>4, WriteKeepsTypes DEF ListOk, CertIInv, CertsTyped, MarksTyped
<1>12. \A d \in certs' : (IsKept(d) /\ d.id # x.r.id) \/ IsOfRow(d, x.r)
  <2> SUFFICES ASSUME NEW d \in certs' PROVE (IsKept(d) /\ d.id # x.r.id) \/ IsOfRow(d, x.r)
    OBVIOUS
  <2>1. PICK e \in l : d.id = e.id /\ d.uids = e.uids /\ d.cert = e.cert
    BY <1>11
  <2> QED
    BY <1>4, <2>1 DEF IsKept, IsOfRow
<1>13. CertsTyped'
  <2>1. x.r.id \in Fp
    BY <1>3 DEF CertMark, CertRow
  <2> QED
    BY <1>1, <1>6, <1>11, <2>1 DEF CertIInv, CertsTyped, MarksTyped, PageTyped, CheckTyped
<1>14. /\ agreed \subseteq agreed' /\ twins \subseteq twins'
       /\ IsAsked(x) => x.r.id \in agreed'
       /\ Twin(x) => x.r.id \in twins'
  BY <1>1 DEF IsAsked, Twin
<1>15. \A y : (IsAsked(y) => IsAsked(y)') /\ (Twin(y) => Twin(y)')
  BY <1>14 DEF IsAsked, Twin
<1> HIDE DEF x
<1>16. AddressesWereAsked'
  <2> SUFFICES ASSUME NEW c \in certs', NEW d \in certs', c # d, c.uids \cap d.uids # {}, ~beaten
               PROVE  c.id \in agreed' \/ d.id \in agreed' \/ {c.id, d.id} \subseteq twins'
    BY <1>1 DEF AddressesWereAsked
  <2>1. c.id # d.id
    BY <1>11 DEF OnePerId
  <2>2. ASSUME NEW e \in certs', IsKept(e), NEW f \in certs', IsKept(f), e.id # f.id, e.uids \cap f.uids # {}
        PROVE  e.id \in agreed' \/ f.id \in agreed' \/ {e.id, f.id} \subseteq twins'
    <3>1. PICK a \in certs : e.id = a.id /\ e.uids = a.uids
      BY <2>2 DEF IsKept
    <3>2. PICK b \in certs : f.id = b.id /\ f.uids = b.uids
      BY <2>2 DEF IsKept
    <3> QED
      BY <1>14, <2>2, <3>1, <3>2 DEF CertIInv, AddressesWereAsked
  <2>3. ASSUME NEW e \in certs', IsKept(e), NEW f \in certs', IsOfRow(f, x.r), e.id # f.id, e.uids \cap f.uids # {}
        PROVE  e.id \in agreed' \/ f.id \in agreed' \/ {e.id, f.id} \subseteq twins'
    <3>1. PICK a \in certs : e.id = a.id /\ e.uids = a.uids
      BY <2>3 DEF IsKept
    <3>2. f.id = x.r.id /\ f.uids = x.r.uids
      BY <2>3 DEF IsOfRow
    <3>3. a.id \in agreed \/ IsAsked(x) \/ (a.id \in twins /\ Twin(x))
      BY <1>10, <2>3, <3>1, <3>2 DEF CertIInv, RowsAreMarked, IsMarked
    <3> QED
      BY <1>14, <3>1, <3>2, <3>3
  <2>4. ~(IsOfRow(c, x.r) /\ IsOfRow(d, x.r))
    BY <2>1 DEF IsOfRow
  <2>5. d.uids \cap c.uids # {}
    OBVIOUS
  <2> QED
    BY <1>12, <2>1, <2>2, <2>3, <2>4, <2>5
<1>17. RowsKnowAll'
  <2> SUFFICES ASSUME ~beaten, NEW y \in OpenRows', NEW d \in certs', d.id = y.r.id
               PROVE  d.cert.uids \subseteq y.r.uids /\ (d.cert.rev => y.r.rev)
    BY <1>1 DEF RowsKnowAll, KnowsAll
  <2>1. IsKept(d)
    BY <1>10, <1>12 DEF IsOfRow
  <2>2. PICK c \in certs : d.id = c.id /\ d.cert = c.cert
    BY <2>1 DEF IsKept
  <2> QED
    BY <1>10, <2>2 DEF CertIInv, RowsKnowAll, KnowsAll
<1>18. RowsAreMarked'
  <2> SUFFICES ASSUME ~beaten, NEW y \in OpenRows', NEW d \in certs', d.id # y.r.id, d.uids \cap y.r.uids # {}
               PROVE  d.id \in agreed' \/ IsAsked(y)' \/ (d.id \in twins' /\ Twin(y)')
    BY <1>1 DEF RowsAreMarked, IsMarked, IsAsked, Twin
  <2>1. CASE IsKept(d)
    <3>1. PICK c \in certs : d.id = c.id /\ d.uids = c.uids
      BY <2>1 DEF IsKept
    <3>2. c.id \in agreed \/ IsAsked(y) \/ (c.id \in twins /\ Twin(y))
      BY <1>10, <3>1 DEF CertIInv, RowsAreMarked, IsMarked
    <3> QED
      BY <1>14, <1>15, <3>1, <3>2
  <2>2. CASE IsOfRow(d, x.r)
    <3>1. d.id = x.r.id /\ d.uids = x.r.uids
      BY <2>2 DEF IsOfRow
    <3>2. IsAsked(x) \/ IsAsked(y) \/ (Twin(x) /\ Twin(y))
      BY <1>10, <3>1 DEF CertIInv, RowsMarkEachOther, MarkEach
    <3> QED
      BY <1>14, <1>15, <3>1, <3>2
  <2> QED
    BY <1>12, <2>1, <2>2
<1>19. RowsMarkEachOther'
  <2> SUFFICES ASSUME ~beaten, NEW y \in OpenRows', NEW z \in OpenRows', y.r.id # z.r.id, y.r.uids \cap z.r.uids # {}
               PROVE  IsAsked(y)' \/ IsAsked(z)' \/ (Twin(y)' /\ Twin(z)')
    BY <1>1 DEF RowsMarkEachOther, MarkEach, IsAsked, Twin
  <2>1. IsAsked(y) \/ IsAsked(z) \/ (Twin(y) /\ Twin(z))
    BY <1>10 DEF CertIInv, RowsMarkEachOther, MarkEach
  <2> QED
    BY <1>15, <2>1
<1> QED
  BY <1>9, <1>11, <1>13, <1>16, <1>17, <1>18, <1>19 DEF CertIInv

LEMMA RemoveOldKeeps ==
  ASSUME CertIInv, NEW item \in page.todo, RemoveOld(item)
  PROVE  CertIInv'
<1> DEFINE l == {c \in certs : c.id # item.id}
<1>1. /\ page.at = "saving" /\ item.decision = "remove" /\ Write(l)
      /\ page' = [page EXCEPT !.todo = @ \ {item}] /\ UNCHANGED <<check, agreed, twins, beaten>>
  BY DEF RemoveOld
<1>2. page \in CertPage
  BY DEF CertIInv, CertsTyped, PageTyped
<1>3. page'.at = "saving" /\ page'.rows = page.rows /\ page'.todo = page.todo \ {item} /\ page' \in CertPage
  BY <1>1, <1>2 DEF CertPage
<1>4. ToSave' = ToSave
  BY <1>1, <1>3 DEF ToSave
<1>5. PageIsSound' /\ OpenRows' = OpenRows /\ PageTyped'
  BY <1>1, <1>3, <1>4 DEF CertIInv, PageIsSound, OpenRows, PageTyped, Saves
<1>6. ListOk(l) /\ \A e \in l : IsKept(e)
  BY StoredListOk DEF ListOk, IsKept
<1> HIDE DEF l
<1> QED
  BY <1>1, <1>5, <1>6, QuietWriteKeeps

LEMMA TouchedList ==
  ASSUME CertIInv, Touch
  PROVE  \E l : Write(l) /\ ListOk(l) /\ \A e \in l : IsKept(e)
<1>1. ListOk(certs)
  BY StoredListOk
<1>2. PICK c \in certs : \/ Write((certs \ {c}) \cup {[c EXCEPT !.verified = ~@]}) \/ Write((certs \ {c}) \cup {[c EXCEPT !.alias = TRUE]})
                       \/ Write(certs \ {c})
  BY DEF Touch
<1>3. c \in CertContact
  BY <1>1 DEF ListOk
<1>4. ASSUME NEW d \in CertContact, d.id = c.id, d.uids = c.uids, d.cert = c.cert
      PROVE  ListOk((certs \ {c}) \cup {d}) /\ \A e \in (certs \ {c}) \cup {d} : IsKept(e)
  BY <1>1, <1>4 DEF ListOk, IsKept
<1>5. ListOk(certs \ {c}) /\ \A e \in certs \ {c} : IsKept(e)
  BY <1>1 DEF ListOk, IsKept
<1>6. CASE Write((certs \ {c}) \cup {[c EXCEPT !.verified = ~@]})
  <2>1. LET d == [c EXCEPT !.verified = ~@] IN d \in CertContact /\ d.id = c.id /\ d.uids = c.uids /\ d.cert = c.cert
    BY <1>3 DEF CertContact
  <2> QED
    BY <1>4, <1>6, <2>1
<1>7. CASE Write((certs \ {c}) \cup {[c EXCEPT !.alias = TRUE]})
  <2>1. LET d == [c EXCEPT !.alias = TRUE] IN d \in CertContact /\ d.id = c.id /\ d.uids = c.uids /\ d.cert = c.cert
    BY <1>3 DEF CertContact
  <2> QED
    BY <1>4, <1>7, <2>1
<1> QED
  BY <1>2, <1>5, <1>6, <1>7

LEMMA TouchKeeps ==
  ASSUME CertIInv, Touch
  PROVE  CertIInv'
<1>1. UNCHANGED <<page, check, agreed, twins, beaten>>
  BY DEF Touch
<1>2. PageTyped' /\ PageIsSound' /\ OpenRows' = OpenRows
  BY <1>1 DEF CertIInv, CertsTyped, PageTyped, PageIsSound, ToSave, OpenRows, Saves
<1>3. \E l : Write(l) /\ ListOk(l) /\ \A e \in l : IsKept(e)
  BY TouchedList
<1> QED
  BY <1>1, <1>2, <1>3, QuietWriteKeeps

\* What the revocation check writes: nobody shows more than before, and no
\* certificate says less.
Learns(e) == \E c \in certs : e.id = c.id /\ e.uids \subseteq c.uids /\ c.cert.uids \subseteq e.cert.uids /\ (c.cert.rev => e.cert.rev)

LEMMA CheckedList ==
  ASSUME CertIInv, CheckMerge
  PROVE  \E l : Write(l) /\ ListOk(l) /\ \A e \in l : Learns(e)
<1> DEFINE put(c) == IF c.id = check.copy.id THEN FoldIn(c, check.copy) ELSE c
           l == {put(c) : c \in certs}
<1>1. ListOk(certs)
  BY StoredListOk
<1>2. check.copy \in [id : Fp, uids : SUBSET Uid, rev : BOOLEAN]
  BY QueryAssumption DEF CheckMerge, CertIInv, CertsTyped, CheckTyped, Copy
<1>3. ASSUME NEW c \in certs
      PROVE  /\ put(c) \in CertContact /\ put(c).id = c.id /\ put(c).cert.id = c.id
             /\ Learns(put(c))
  <2>1. c \in CertContact /\ c.cert.id = c.id /\ c.cert \in [id : Fp, uids : SUBSET Uid, rev : BOOLEAN]
    BY <1>1 DEF ListOk, CertContact
  <2> DEFINE m == MergeKey(c.cert, check.copy)
             grows == ~(m.uids \subseteq c.uids)
  <2>2. /\ m \in [id : Fp, uids : SUBSET Uid, rev : BOOLEAN] /\ m.id = c.id
        /\ c.cert.uids \subseteq m.uids /\ (c.cert.rev => m.rev)
    BY <1>2, <2>1 DEF MergeKey
  <2>3. \/ put(c) = c
        \/ put(c) = [c EXCEPT !.cert = m, !.rev = m.rev, !.uids = IF grows THEN c.uids ELSE m.uids, !.verified = @ /\ ~grows]
    <3> HIDE DEF m
    <3> QED
      BY DEF FoldIn, MergedByCheck, m
  <2> DEFINE shown == IF grows THEN c.uids ELSE m.uids
             ver == c.verified /\ ~grows
  <2>4. shown \subseteq c.uids /\ ver \in BOOLEAN
    OBVIOUS
  <2> HIDE DEF m
  <2>5. \/ put(c) = c
        \/ put(c) = [c EXCEPT !.cert = m, !.rev = m.rev, !.uids = shown, !.verified = ver]
    BY <2>3
  <2> HIDE DEF put, grows, shown, ver
  <2>6. CASE put(c) = c
    BY <2>1, <2>6 DEF Learns
  <2>7. CASE put(c) = [c EXCEPT !.cert = m, !.rev = m.rev, !.uids = shown, !.verified = ver]
    <3>1. put(c).id = c.id /\ put(c).cert = m /\ put(c).uids = shown /\ put(c) \in CertContact
      BY <2>1, <2>2, <2>4, <2>7 DEF CertContact
    <3> QED
      BY <2>2, <2>4, <3>1 DEF Learns
  <2> QED
    BY <2>5, <2>6, <2>7
<1>4. Write(l)
  BY DEF CheckMerge
<1>5. \A e \in l : \E c \in certs : e = put(c)
  OBVIOUS
<1> HIDE DEF put, l
<1>6. \A e \in l : e \in CertContact /\ e.cert.id = e.id /\ Learns(e)
  <2> SUFFICES ASSUME NEW e \in l PROVE e \in CertContact /\ e.cert.id = e.id /\ Learns(e)
    OBVIOUS
  <2>1. PICK c \in certs : e = put(c)
    BY <1>5
  <2> QED
    BY <1>3, <2>1
<1>7. \A e, f \in l : e.id = f.id => e = f
  <2> SUFFICES ASSUME NEW e \in l, NEW f \in l, e.id = f.id PROVE e = f
    OBVIOUS
  <2>1. PICK c \in certs : e = put(c)
    BY <1>5
  <2>2. PICK d \in certs : f = put(d)
    BY <1>5
  <2>3. c.id = d.id
    BY <1>3, <2>1, <2>2
  <2> QED
    BY <1>1, <2>1, <2>2, <2>3 DEF ListOk
<1> QED
  BY <1>4, <1>6, <1>7 DEF ListOk

LEMMA CheckMergeKeeps ==
  ASSUME CertIInv, CheckMerge
  PROVE  CertIInv'
<1>1. UNCHANGED <<agreed, twins, page>> /\ CheckTyped' /\ beaten' = (beaten \/ page.at # "source")
  BY DEF CheckMerge, CheckTyped, NoCheck
<1>2. PICK l : Write(l) /\ ListOk(l) /\ \A e \in l : Learns(e)
  BY CheckedList
<1>3. OnePerId' /\ \A d \in certs' : \E e \in l : d.id = e.id /\ d.uids = e.uids
  BY <1>2, WriteKeepsTypes DEF ListOk, CertIInv, CertsTyped, MarksTyped
<1>4. AddressesWereAsked'
  <2> SUFFICES ASSUME NEW c \in certs', NEW d \in certs', c # d, c.uids \cap d.uids # {}, ~beaten
               PROVE  c.id \in agreed \/ d.id \in agreed \/ {c.id, d.id} \subseteq twins
    BY <1>1 DEF AddressesWereAsked
  <2>1. PICK a \in certs : c.id = a.id /\ c.uids \subseteq a.uids
    BY <1>2, <1>3 DEF Learns
  <2>2. PICK b \in certs : d.id = b.id /\ d.uids \subseteq b.uids
    BY <1>2, <1>3 DEF Learns
  <2>3. a # b /\ a.uids \cap b.uids # {}
    BY <1>3, <2>1, <2>2 DEF OnePerId
  <2> QED
    BY <2>1, <2>2, <2>3 DEF CertIInv, AddressesWereAsked
<1> QED
  BY <1>1, <1>2, <1>4, OutsideWriteKeeps

LEMMA ElsewhereList ==
  ASSUME CertIInv, NEW copy \in Copy, SaveElsewhere(copy)
  PROVE  \E l : /\ Write(l) /\ ListOk(l)
                /\ \A e \in l : \/ IsKept(e)
                                \/ e.id = copy.id /\ \A c \in certs : c.id # e.id /\ c.uids \cap e.uids = {}
<1> DEFINE r == [id |-> copy.id, uids |-> copy.uids, rev |-> copy.rev, src |-> Hand]
           new == ContactFrom(r, FALSE)
<1>1. /\ Write(certs \cup {new})
      /\ \A c \in certs : c.id # copy.id /\ c.uids \cap copy.uids = {}
  BY DEF SaveElsewhere, Stored
<1>2. new \in CertContact /\ new.id = copy.id /\ new.cert.id = new.id /\ new.uids = copy.uids
  BY QueryAssumption DEF ContactFrom, CertContact, Copy
<1> HIDE DEF new
<1> QED
  BY <1>1, <1>2, StoredListOk DEF ListOk, IsKept

LEMMA SaveElsewhereKeeps ==
  ASSUME CertIInv, NEW copy \in Copy, SaveElsewhere(copy)
  PROVE  CertIInv'
<1>1. UNCHANGED <<agreed, twins, page>> /\ check' = check /\ beaten' = (beaten \/ page.at # "source")
  BY DEF SaveElsewhere
<1>2. CheckTyped'
  BY <1>1 DEF CertIInv, CertsTyped, CheckTyped
<1>3. PICK l : /\ Write(l) /\ ListOk(l)
               /\ \A e \in l : \/ IsKept(e)
                               \/ e.id = copy.id /\ \A c \in certs : c.id # e.id /\ c.uids \cap e.uids = {}
  BY ElsewhereList
<1>4. OnePerId' /\ \A d \in certs' : \E e \in l : d.id = e.id /\ d.uids = e.uids
  BY <1>3, WriteKeepsTypes DEF ListOk, CertIInv, CertsTyped, MarksTyped
<1>5. AddressesWereAsked'
  <2> SUFFICES ASSUME NEW c \in certs', NEW d \in certs', c # d, c.uids \cap d.uids # {}, ~beaten
               PROVE  c.id \in agreed \/ d.id \in agreed \/ {c.id, d.id} \subseteq twins
    BY <1>1 DEF AddressesWereAsked
  <2>1. c.id # d.id
    BY <1>4 DEF OnePerId
  <2>2. (\E a \in certs : c.id = a.id /\ c.uids = a.uids) \/ (c.id = copy.id /\ \A a \in certs : a.uids \cap c.uids = {})
    BY <1>3, <1>4 DEF IsKept
  <2>3. (\E b \in certs : d.id = b.id /\ d.uids = b.uids) \/ (d.id = copy.id /\ \A b \in certs : b.uids \cap d.uids = {})
    BY <1>3, <1>4 DEF IsKept
  <2>4. PICK a \in certs, b \in certs : c.id = a.id /\ c.uids = a.uids /\ d.id = b.id /\ d.uids = b.uids
    BY <2>1, <2>2, <2>3
  <2>5. a # b
    BY <2>1, <2>4
  <2> QED
    BY <2>4, <2>5 DEF CertIInv, AddressesWereAsked
<1> QED
  BY <1>1, <1>2, <1>3, <1>5, OutsideWriteKeeps

LEMMA CertNextKeeps == CertIInv /\ [certNext]_certVars => CertIInv'
<1> SUFFICES ASSUME CertIInv, [certNext]_certVars PROVE CertIInv'
  OBVIOUS
<1>1. ASSUME NEW a \in Copy, NEW b \in Copy, ReadText({a, b}) PROVE CertIInv'
  BY <1>1, ReadTextKeeps
<1>2. ASSUME NEW q \in Query, NEW copy \in Copy, KeyserverAnswer(q, copy) PROVE CertIInv'
  BY <1>2, KeyserverAnswerKeeps
<1>3. CASE LeavePage
  BY <1>3, PageLeftKeeps DEF LeavePage
<1>4. CASE CertDecide
  BY <1>4, CertDecideKeeps
<1>5. CASE CloseImport
  BY <1>5, PageLeftKeeps DEF CloseImport
<1>6. CASE CheckMerge
  BY <1>6, CheckMergeKeeps
<1>7. CASE Touch
  BY <1>7, TouchKeeps
<1>8. ASSUME NEW item \in page.todo, SaveCert(item) PROVE CertIInv'
  BY <1>8, SaveCertKeeps
<1>9. ASSUME NEW item \in page.todo, RemoveOld(item) PROVE CertIInv'
  BY <1>9, RemoveOldKeeps
<1>10. ASSUME NEW c \in certs, CheckStart(c) PROVE CertIInv'
  BY <1>10, CheckStartKeeps
<1>11. ASSUME NEW copy \in Copy, SaveElsewhere(copy) PROVE CertIInv'
  BY <1>11, SaveElsewhereKeeps
<1>12. CASE UNCHANGED certVars
  <2>1. PageTyped' /\ CheckTyped' /\ PageIsSound' /\ OpenRows' = OpenRows
    BY <1>12 DEF certVars, CertIInv, CertsTyped, PageTyped, CheckTyped, PageIsSound, ToSave, OpenRows, Saves
  <2> QED
    BY <1>12, <2>1, PageStepKeeps DEF certVars
<1> QED
  BY <1>1, <1>2, <1>3, <1>4, <1>5, <1>6, <1>7, <1>8, <1>9, <1>10, <1>11, <1>12 DEF certNext

(***************************************************************************)
(* What a step may do to a contact.                                        *)
(***************************************************************************)
IsSaved(e) ==
    \E item \in page.todo :
        item \in ToSave /\ item \notin page'.todo /\ e.id = item.x.r.id /\ e.uids = item.x.r.uids
        /\ e.cert.uids = item.x.r.uids /\ e.cert.rev = item.x.r.rev
IsFirst(e) == \A c \in certs : c.id # e.id

LEMMA KeptLearns == \A e : IsKept(e) => Learns(e)
  BY DEF IsKept, Learns

LEMMA CertWrites ==
  ASSUME CertIInv, [certNext]_certVars
  PROVE  \/ certs' = certs
         \/ \E l : Write(l) /\ ListOk(l) /\ \A e \in l : Learns(e) \/ IsSaved(e) \/ IsFirst(e)
<1>1. ASSUME NEW item \in page.todo, SaveCert(item)
      PROVE  \E l : Write(l) /\ ListOk(l) /\ \A e \in l : Learns(e) \/ IsSaved(e) \/ IsFirst(e)
  <2> DEFINE old == IF item.decision = "replace" THEN {c \in certs : c.id \in item.x.holders} ELSE {}
  <2>1. PICK l \in Upserted(ContactFrom(item.x.r, \E c \in old : c.alias)) : Write(l)
    BY <1>1 DEF SaveCert
  <2>2. item.decision \in {"import", "replace"} /\ item \in CertItem /\ page \in CertPage
    BY <1>1 DEF SaveCert, CertIInv, CertsTyped, PageTyped, CertPage
  <2>3. item.x.r \in CertRow /\ item \in ToSave
    BY <2>2 DEF CertItem, CertMark, ToSave
  <2>4. page'.todo = (page.todo \ {item}) \cup {[x |-> item.x, decision |-> "remove", id |-> c.id] : c \in old}
    BY <1>1, <2>2 DEF SaveCert, CertPage
  <2>5. item \notin page'.todo
    BY <2>2, <2>4
  <2>6. (\E c \in old : c.alias) \in BOOLEAN
    OBVIOUS
  <2>7. ListOk(l) /\ \A e \in l : IsKept(e) \/ IsOfRow(e, item.x.r)
    BY <2>1, <2>3, <2>6, SavedList
  <2>8. \A e : IsOfRow(e, item.x.r) => IsSaved(e)
    BY <2>3, <2>5 DEF IsOfRow, IsSaved
  <2> QED
    BY <2>1, <2>7, <2>8, KeptLearns
<1>2. ASSUME NEW item \in page.todo, RemoveOld(item)
      PROVE  \E l : Write(l) /\ ListOk(l) /\ \A e \in l : Learns(e) \/ IsSaved(e) \/ IsFirst(e)
  <2> DEFINE l == {c \in certs : c.id # item.id}
  <2>1. Write(l)
    BY <1>2 DEF RemoveOld
  <2>2. ListOk(l) /\ \A e \in l : IsKept(e)
    BY StoredListOk DEF ListOk, IsKept
  <2> HIDE DEF l
  <2> QED
    BY <2>1, <2>2, KeptLearns
<1>3. CASE CheckMerge
  BY <1>3, CheckedList
<1>4. CASE Touch
  BY <1>4, TouchedList, KeptLearns
<1>5. ASSUME NEW copy \in Copy, SaveElsewhere(copy)
      PROVE  \E l : Write(l) /\ ListOk(l) /\ \A e \in l : Learns(e) \/ IsSaved(e) \/ IsFirst(e)
  <2>1. PICK l : /\ Write(l) /\ ListOk(l)
                 /\ \A e \in l : \/ IsKept(e)
                                 \/ e.id = copy.id /\ \A c \in certs : c.id # e.id /\ c.uids \cap e.uids = {}
    BY <1>5, ElsewhereList
  <2> QED
    BY <2>1, KeptLearns DEF IsFirst
<1>6. (\E a, b \in Copy : ReadText({a, b})) \/ (\E q \in Query, copy \in Copy : KeyserverAnswer(q, copy))
      \/ LeavePage \/ CertDecide \/ CloseImport \/ (\E c \in certs : CheckStart(c)) \/ UNCHANGED certVars
      => certs' = certs
  BY DEF ReadText, KeyserverAnswer, LeavePage, CertDecide, CloseImport, CheckStart, certVars
<1> QED
  BY <1>1, <1>2, <1>3, <1>4, <1>5, <1>6 DEF certNext

LEMMA CertStepIsSound ==
  ASSUME CertIInv, [certNext]_certVars, NEW c \in certs, NEW d \in certs', c.id = d.id
  PROVE  /\ c.rev => d.rev
         /\ ~beaten => c.cert.uids \subseteq d.cert.uids /\ (c.cert.rev => d.cert.rev)
         /\ ~(d.uids \subseteq c.uids)
              => \E item \in page.todo : item \notin page'.todo /\ item.x.r.id = c.id /\ d.uids \subseteq item.x.r.uids
<1>1. \A a \in certs : a.id = c.id => a = c
  BY DEF CertIInv, OnePerId
<1>2. CASE certs' = certs
  BY <1>1, <1>2
<1>3. CASE \E l : Write(l) /\ ListOk(l) /\ \A e \in l : Learns(e) \/ IsSaved(e) \/ IsFirst(e)
  <2> PICK l : Write(l) /\ ListOk(l) /\ \A e \in l : Learns(e) \/ IsSaved(e) \/ IsFirst(e)
    BY <1>3
  <2>1. c.rev => d.rev
    BY WriteKeepsRevoked DEF ListOk, CertIInv
  <2>2. PICK e \in l : d.id = e.id /\ d.uids = e.uids /\ d.cert = e.cert
    BY WriteKeepsTypes DEF ListOk, CertIInv, CertsTyped, MarksTyped
  <2>3. CASE Learns(e)
    BY <1>1, <2>1, <2>2, <2>3 DEF Learns
  <2>4. CASE IsSaved(e)
    <3>1. PICK item \in page.todo :
             /\ item \in ToSave /\ item \notin page'.todo /\ e.id = item.x.r.id /\ e.uids = item.x.r.uids
             /\ e.cert.uids = item.x.r.uids /\ e.cert.rev = item.x.r.rev
      BY <2>4 DEF IsSaved
    <3>2. item.x \in OpenRows
      BY <3>1 DEF OpenRows
    <3>3. ~beaten => c.cert.uids \subseteq item.x.r.uids /\ (c.cert.rev => item.x.r.rev)
      BY <2>2, <3>1, <3>2 DEF CertIInv, RowsKnowAll, KnowsAll
    <3> QED
      BY <2>1, <2>2, <3>1, <3>3
  <2>5. ~IsFirst(e)
    BY <2>2 DEF IsFirst
  <2> QED
    BY <2>3, <2>4, <2>5
<1> QED
  BY <1>2, <1>3, CertWrites

LEMMA CertInvIsEnough == CertIInv => certTypeOK /\ AddressesWereAsked
<1> SUFFICES ASSUME CertIInv PROVE certTypeOK /\ AddressesWereAsked
  OBVIOUS
<1>1. \A c \in certs : c.id \in Fp /\ c.id = c.cert.id /\ c.uids \cup c.cert.uids \subseteq Uid /\ c.src \in Query \cup {Hand}
  BY DEF CertIInv, CertsTyped, ContactsTyped, CertContact
<1>2. page.at \in {"source", "preview", "review", "saving"}
  BY DEF CertIInv, CertsTyped, PageTyped, CertPage
<1> QED
  BY <1>1, <1>2 DEF CertIInv, certTypeOK, CertsTyped, MarksTyped, CheckTyped, OnePerId

LEMMA CertHolds == certSpec => []CertIInv
  BY CertInitHolds, CertNextKeeps, PTL DEF certSpec

(***************************************************************************)
(* What is known of a key only grows: whatever copies, lookups, checks and *)
(* edits come in whatever order, a contact seen revoked stays revoked, a   *)
(* certificate loses nothing to another copy (unless another writer was    *)
(* faster than the import), a name is added by a reviewed row only, and an *)
(* address is shown by two contacts only where a row said so, or where two *)
(* updates of one text add it (conflicts.ts, contacts.ts saveAll,          *)
(* revocation-check.ts).                                                   *)
(***************************************************************************)
THEOREM CertificatesOnlyGrow == certSpec => CertsOnlyGrow
<1>1. CertIInv /\ [certNext]_certVars => [\A c \in certs, d \in certs' : c.id = d.id /\ c.rev => d.rev]_certVars
  BY CertStepIsSound
<1>2. CertIInv /\ [certNext]_certVars =>
        [~beaten => \A c \in certs, d \in certs' : c.id = d.id => c.cert.uids \subseteq d.cert.uids /\ (c.cert.rev => d.cert.rev)]_certVars
  BY CertStepIsSound
<1>3. CertIInv /\ [certNext]_certVars =>
        [\A c \in certs, d \in certs' : c.id = d.id /\ ~(d.uids \subseteq c.uids)
          => \E item \in page.todo : item \notin page'.todo /\ item.x.r.id = c.id /\ d.uids \subseteq item.x.r.uids]_certVars
  BY CertStepIsSound
<1>4. certSpec => RevokedIsKept
  BY <1>1, CertHolds, PTL DEF certSpec, RevokedIsKept
<1>5. certSpec => NothingKnownIsLost
  BY <1>2, CertHolds, PTL DEF certSpec, NothingKnownIsLost
<1>6. certSpec => NamesGrowByReview
  BY <1>3, CertHolds, PTL DEF certSpec, NamesGrowByReview
<1>7. certSpec => [](certTypeOK /\ AddressesWereAsked)
  BY CertHolds, CertInvIsEnough, PTL
<1> QED
  BY <1>4, <1>5, <1>6, <1>7 DEF CertsOnlyGrow

-----------------------------------------------------------------------------
(* Restoring a backup *)

\* What was read is with the user, or is being written.
WasRead == bulk \in {"review", "unlock", "protect"}
BulkTyped ==
    /\ bulkTypeOK
    /\ parsed \in [keys : SUBSET Key, crx : SUBSET Crx, certs : SUBSET Cert]
    /\ work \in [on : {"idle", "keys", "crx", "certs"}, todo : SUBSET (Key \cup Crx \cup Cert)]
    /\ chosen \subseteq Key \cup Crx \cup Cert
WhereItIs ==
    /\ work.on # "idle" => bulk \in {"review", "protect"}
    /\ work.on = "keys" => bulk = "protect"
    /\ bulk = "review" /\ work.on # "idle" => chosen \cap Key = {}
ReadIsMissing == WasRead => (parsed.keys \cup parsed.crx) \cap known = {}
HalvesAreOut == WasRead => \A k \in parsed.keys : Half[k] \notin parsed.certs
ChosenAreRead == WasRead => chosen \cap Key \subseteq parsed.keys
AskedAreChosen == bulk \in {"unlock", "protect"} => parsed.keys \cup parsed.crx \subseteq chosen
TodoIsChosen ==
    /\ work.on = "keys" => work.todo \subseteq parsed.keys
    /\ work.on = "crx" => work.todo \subseteq parsed.crx \cap chosen
    /\ work.on = "certs" => work.todo \subseteq parsed.certs \cap chosen
KeysComeFirst ==
    /\ work.on = "keys" => \A k \in parsed.keys \ work.todo : ring[k] # NotHeld
    /\ work.on \in {"crx", "certs"} => \A k \in chosen \cap Key : ring[k] # NotHeld

BulkIInv ==
    /\ BulkTyped /\ WhereItIs /\ ReadIsMissing /\ HalvesAreOut
    /\ ChosenAreRead /\ AskedAreChosen /\ TodoIsChosen /\ KeysComeFirst

LEMMA BulkInitHolds == bulkInit => BulkIInv
<1> SUFFICES ASSUME bulkInit PROVE BulkIInv
  OBVIOUS
<1> USE DEF bulkInit, Nothing, Idle, NotHeld, Held, Restored
<1>1. BulkTyped
  <2>1. bulkTypeOK
    BY DEF bulkTypeOK
  <2>2. QED
    BY <2>1 DEF BulkTyped
<1>2. WhereItIs /\ ReadIsMissing /\ HalvesAreOut /\ ChosenAreRead /\ AskedAreChosen /\ TodoIsChosen /\ KeysComeFirst
  BY DEF WhereItIs, ReadIsMissing, HalvesAreOut, ChosenAreRead, AskedAreChosen, TodoIsChosen, KeysComeFirst, WasRead
<1> QED
  BY <1>1, <1>2 DEF BulkIInv

LEMMA ReadBackupKeeps ==
  ASSUME BulkIInv, NEW keys \in SUBSET Key, NEW crx \in SUBSET Crx, NEW cs \in SUBSET Cert,
         ReadBackup(keys, crx, cs)
  PROVE  BulkIInv'
<1> PICK genuine \in SUBSET crx :
      LET new == Missing(keys, HeldIn(ring))
          rows == [keys |-> new, crx |-> Missing(genuine, HeldIn(crxRing)), certs |-> Missing(cs \ Halves(new), HeldIn(list))]
      IN  IF rows = Nothing THEN bulk' \in {"paste", "closed"} /\ UNCHANGED parsed
          ELSE bulk' = "review" /\ parsed' = rows
  BY DEF ReadBackup
<1> DEFINE new == Missing(keys, HeldIn(ring))
           rows == [keys |-> new, crx |-> Missing(genuine, HeldIn(crxRing)), certs |-> Missing(cs \ Halves(new), HeldIn(list))]
<1>1. /\ IF rows = Nothing THEN bulk' \in {"paste", "closed"} /\ UNCHANGED parsed
         ELSE bulk' = "review" /\ parsed' = rows
      /\ work.on = "idle" /\ chosen' = {} /\ known' = HeldIn(ring) \cup HeldIn(crxRing) \cup HeldIn(list)
      /\ UNCHANGED <<work, ring, crxRing, list>>
  BY DEF ReadBackup, Idle
<1>2. rows \in [keys : SUBSET Key, crx : SUBSET Crx, certs : SUBSET Cert]
  BY DEF Missing
<1>3. BulkTyped'
  BY <1>1, <1>2 DEF BulkIInv, BulkTyped, bulkTypeOK
<1>4. (rows.keys \cup rows.crx) \cap known' = {}
  <2>1. HeldIn(ring) \subseteq Key /\ HeldIn(crxRing) \subseteq Crx /\ HeldIn(list) \subseteq Cert
    BY DEF BulkIInv, BulkTyped, bulkTypeOK, HeldIn
  <2> QED
    BY <2>1, <1>1, BulkAssumption DEF Missing
<1>5. \A k \in rows.keys : Half[k] \notin rows.certs
  BY DEF Missing, Halves
<1> HIDE DEF rows
<1>6. WhereItIs' /\ ReadIsMissing' /\ HalvesAreOut' /\ ChosenAreRead' /\ AskedAreChosen' /\ TodoIsChosen' /\ KeysComeFirst'
  BY <1>1, <1>4, <1>5
     DEF WhereItIs, ReadIsMissing, HalvesAreOut, ChosenAreRead, AskedAreChosen, TodoIsChosen, KeysComeFirst, WasRead
<1> QED
  BY <1>3, <1>6 DEF BulkIInv

LEMMA FinishReviewKeeps ==
  ASSUME BulkIInv, NEW taken \in SUBSET (Key \cup Crx \cup Cert), FinishReview(taken)
  PROVE  BulkIInv'
<1> DEFINE keys == parsed.keys \cap taken
           crx == parsed.crx \cap taken
<1>1. /\ bulk = "review" /\ work.on = "idle"
      /\ taken \subseteq parsed.keys \cup parsed.crx \cup parsed.certs
      /\ chosen' = taken /\ UNCHANGED <<ring, crxRing, list, known>>
  BY DEF FinishReview, Idle
<1>2. parsed \in [keys : SUBSET Key, crx : SUBSET Crx, certs : SUBSET Cert]
  BY DEF BulkIInv, BulkTyped
<1>3. (parsed.keys \cup parsed.crx) \cap known = {} /\ \A k \in parsed.keys : Half[k] \notin parsed.certs
  BY <1>1 DEF BulkIInv, ReadIsMissing, HalvesAreOut, WasRead
<1>4. taken \cap Key \subseteq parsed.keys
  BY <1>1, <1>2, BulkAssumption
<1>5. CASE keys # {}
  <2>1. bulk' \in {"unlock", "protect"} /\ parsed' = [parsed EXCEPT !.keys = keys, !.crx = crx] /\ UNCHANGED work
    BY <1>5 DEF FinishReview, Taken, AskFor
  <2>2. parsed' = [keys |-> keys, crx |-> crx, certs |-> parsed.certs]
    BY <2>1, <1>2
  <2>3. BulkTyped'
    BY <1>1, <1>2, <2>1, <2>2 DEF BulkIInv, BulkTyped, bulkTypeOK
  <2>4. WhereItIs' /\ ReadIsMissing' /\ HalvesAreOut' /\ ChosenAreRead' /\ AskedAreChosen' /\ TodoIsChosen' /\ KeysComeFirst'
    BY <1>1, <1>3, <1>4, <2>1, <2>2
       DEF WhereItIs, ReadIsMissing, HalvesAreOut, ChosenAreRead, AskedAreChosen, TodoIsChosen, KeysComeFirst, WasRead
  <2> QED
    BY <2>3, <2>4 DEF BulkIInv
<1>6. CASE keys = {}
  <2>1. work' = [on |-> "crx", todo |-> crx] /\ UNCHANGED <<bulk, parsed>>
    BY <1>6 DEF FinishReview, Taken
  <2>2. BulkTyped'
    BY <1>1, <1>2, <2>1 DEF BulkIInv, BulkTyped, bulkTypeOK
  <2>3. taken \cap Key = {}
    BY <1>4, <1>6
  <2>4. WhereItIs' /\ ReadIsMissing' /\ HalvesAreOut' /\ ChosenAreRead' /\ AskedAreChosen' /\ TodoIsChosen' /\ KeysComeFirst'
    BY <1>1, <1>3, <1>4, <2>1, <2>3
       DEF WhereItIs, ReadIsMissing, HalvesAreOut, ChosenAreRead, AskedAreChosen, TodoIsChosen, KeysComeFirst, WasRead
  <2> QED
    BY <2>2, <2>4 DEF BulkIInv
<1> QED
  BY <1>5, <1>6

\* The steps about the work in flight, and those that only turn the page.
LEMMA BulkStepKeeps == BulkIInv /\ [bulkNext]_bulkVars => BulkIInv'
<1> SUFFICES ASSUME BulkIInv, [bulkNext]_bulkVars PROVE BulkIInv'
  OBVIOUS
<1>t. /\ parsed \in [keys : SUBSET Key, crx : SUBSET Crx, certs : SUBSET Cert]
      /\ work \in [on : {"idle", "keys", "crx", "certs"}, todo : SUBSET (Key \cup Crx \cup Cert)]
  BY DEF BulkIInv, BulkTyped
<1> DEFINE Rest == WhereItIs /\ ReadIsMissing /\ HalvesAreOut /\ ChosenAreRead /\ AskedAreChosen /\ TodoIsChosen /\ KeysComeFirst
<1>r. Rest /\ BulkTyped
  BY DEF BulkIInv
<1>q. ASSUME BulkTyped', Rest' PROVE BulkIInv'
  BY <1>q DEF BulkIInv
<1>1. ASSUME NEW keys \in SUBSET Key, NEW crx \in SUBSET Crx, NEW cs \in SUBSET Cert, ReadBackup(keys, crx, cs)
      PROVE  BulkIInv'
  BY <1>1, ReadBackupKeeps
<1>2. ASSUME NEW taken \in SUBSET (Key \cup Crx \cup Cert), FinishReview(taken) PROVE BulkIInv'
  BY <1>2, FinishReviewKeeps
<1> USE DEF WhereItIs, ReadIsMissing, HalvesAreOut, ChosenAreRead, AskedAreChosen, TodoIsChosen, KeysComeFirst, WasRead, Idle
<1>3. CASE UnlockNext
  <2>1. BulkTyped'
    BY <1>3, <1>r DEF UnlockNext, BulkTyped, bulkTypeOK
  <2>2. Rest'
    BY <1>3, <1>r DEF UnlockNext
  <2> QED
    BY <2>1, <2>2, <1>q
<1>4. CASE StepBack
  <2>1. BulkTyped'
    BY <1>4, <1>r DEF StepBack, BulkTyped, bulkTypeOK
  <2>2. Rest'
    BY <1>4, <1>r DEF StepBack
  <2> QED
    BY <2>1, <2>2, <1>q
<1>5. CASE Protect
  <2>1. BulkTyped'
    BY <1>5, <1>r DEF Protect, BulkTyped, bulkTypeOK
  <2>2. Rest'
    BY <1>5, <1>r DEF Protect
  <2> QED
    BY <2>1, <2>2, <1>q
<1>6. CASE KeysDone
  <2>1. BulkTyped'
    BY <1>6, <1>r DEF KeysDone, BulkTyped, bulkTypeOK
  <2>2. Rest'
    BY <1>6, <1>r DEF KeysDone
  <2> QED
    BY <2>1, <2>2, <1>q
<1>7. CASE CrxDone
  <2>1. BulkTyped'
    BY <1>7, <1>r DEF CrxDone, BulkTyped, bulkTypeOK, Taken
  <2>2. Rest'
    BY <1>7, <1>r DEF CrxDone, Taken
  <2> QED
    BY <2>1, <2>2, <1>q
<1>8. CASE CertsDone
  <2>1. BulkTyped'
    BY <1>8, <1>r DEF CertsDone, BulkTyped, bulkTypeOK
  <2>2. Rest'
    BY <1>8, <1>r DEF CertsDone
  <2> QED
    BY <2>1, <2>2, <1>q
<1>9. CASE OpenBulk
  <2>1. BulkTyped'
    BY <1>9, <1>r DEF OpenBulk, BulkTyped, bulkTypeOK, Nothing
  <2>2. Rest'
    BY <1>9, <1>r DEF OpenBulk
  <2> QED
    BY <2>1, <2>2, <1>q
<1>10. ASSUME NEW k \in Key, SealKey(k) PROVE BulkIInv'
  <2>1. work' = [on |-> "keys", todo |-> work.todo \ {k}] /\ work.on = "keys"
    BY <1>10, <1>t DEF SealKey
  <2>2. ring' \in [Key -> {NotHeld, Held, Restored}] /\ ring'[k] # NotHeld /\ \A j \in Key : j # k => ring'[j] = ring[j]
    BY <1>10, <1>r DEF SealKey, BulkTyped, bulkTypeOK, NotHeld, Restored
  <2>3. BulkTyped'
    BY <1>10, <1>r, <1>t, <2>1, <2>2 DEF SealKey, BulkTyped, bulkTypeOK
  <2>4. Rest'
    BY <1>10, <1>r, <1>t, <2>1, <2>2 DEF SealKey
  <2> QED
    BY <2>3, <2>4, <1>q
<1>11. ASSUME NEW k \in Key, SealFails(k) PROVE BulkIInv'
  <2>1. BulkTyped'
    BY <1>11, <1>r DEF SealFails, StopsAt, BulkTyped, bulkTypeOK
  <2>2. Rest'
    BY <1>11, <1>r DEF SealFails, StopsAt
  <2> QED
    BY <2>1, <2>2, <1>q
<1>12. ASSUME NEW k \in Key, OtherWindow(k) PROVE BulkIInv'
  <2>1. ring' \in [Key -> {NotHeld, Held, Restored}] /\ \A j \in Key : ring[j] # NotHeld => ring'[j] # NotHeld
    BY <1>12, <1>r DEF OtherWindow, BulkTyped, bulkTypeOK, NotHeld, Held
  <2>2. BulkTyped'
    BY <1>12, <1>r, <2>1 DEF OtherWindow, BulkTyped, bulkTypeOK
  <2>3. Rest'
    BY <1>12, <1>r, <1>t, <2>1 DEF OtherWindow
  <2> QED
    BY <2>2, <2>3, <1>q
<1>13. ASSUME NEW x \in Crx, RestoreCrx(x) PROVE BulkIInv'
  <2>1. work' = [on |-> "crx", todo |-> work.todo \ {x}] /\ work.on = "crx"
    BY <1>13, <1>t DEF RestoreCrx
  <2>2. crxRing' \in [Crx -> {NotHeld, Held, Restored}]
    BY <1>13, <1>r DEF RestoreCrx, BulkTyped, bulkTypeOK
  <2>3. BulkTyped'
    BY <1>13, <1>r, <1>t, <2>1, <2>2 DEF RestoreCrx, BulkTyped, bulkTypeOK
  <2>4. Rest'
    BY <1>13, <1>r, <2>1 DEF RestoreCrx
  <2> QED
    BY <2>3, <2>4, <1>q
<1>14. ASSUME NEW c \in Cert, RestoreCert(c) PROVE BulkIInv'
  <2>1. work.on = "certs" /\ (work' = [on |-> "certs", todo |-> work.todo \ {c}] \/ work' = Idle)
    BY <1>14, <1>t DEF RestoreCert
  <2>2. list' \in [Cert -> {NotHeld, Held, Restored}]
    BY <1>14, <1>r DEF RestoreCert, BulkTyped, bulkTypeOK
  <2>3. BulkTyped'
    BY <1>14, <1>r, <1>t, <2>1, <2>2 DEF RestoreCert, BulkTyped, bulkTypeOK
  <2>4. Rest'
    BY <1>14, <1>r, <2>1 DEF RestoreCert
  <2> QED
    BY <2>3, <2>4, <1>q
<1>15. CASE UNCHANGED bulkVars
  <2>1. BulkTyped'
    BY <1>15, <1>r DEF bulkVars, BulkTyped, bulkTypeOK
  <2>2. Rest'
    BY <1>15, <1>r DEF bulkVars
  <2> QED
    BY <2>1, <2>2, <1>q
<1> HIDE DEF Rest
<1> QED
  BY <1>1, <1>2, <1>3, <1>4, <1>5, <1>6, <1>7, <1>8, <1>9, <1>10, <1>11, <1>12, <1>13, <1>14, <1>15 DEF bulkNext

\* A step stores at most the one key, CRX key or contact it is about.
LEMMA StoresAreOfTheTodo ==
  ASSUME BulkIInv, [bulkNext]_bulkVars, NEW x \in Key \cup Crx \cup Cert, Stores(x)
  PROVE  /\ work.on \in {"keys", "crx", "certs"} /\ x \in work.todo
         /\ x \in Key => work.on = "keys"
         /\ x \in Crx => work.on = "crx"
<1>1. CASE x \in Key /\ ring'[x] = Restored /\ ring[x] # Restored
  <2>1. ring' # ring
    BY <1>1
  <2>2. \/ \E k \in Key : SealKey(k)
        \/ \E k \in Key : OtherWindow(k)
    BY <2>1 DEF bulkNext, bulkVars, ReadBackup, FinishReview, UnlockNext, StepBack, Protect, KeysDone, CrxDone,
              CertsDone, OpenBulk, SealFails, RestoreCrx, RestoreCert
  <2>3. ring \in [Key -> {NotHeld, Held, Restored}]
    BY DEF BulkIInv, BulkTyped, bulkTypeOK
  <2>4. ASSUME NEW k \in Key, OtherWindow(k) PROVE FALSE
    BY <1>1, <2>3, <2>4 DEF OtherWindow, Held, Restored
  <2>5. PICK k \in Key : SealKey(k)
    BY <2>2, <2>4
  <2>6. k = x
    BY <1>1, <2>3, <2>5 DEF SealKey
  <2> QED
    BY <1>1, <2>5, <2>6, BulkAssumption DEF SealKey
<1>2. CASE x \in Crx /\ crxRing'[x] = Restored /\ crxRing[x] # Restored
  <2>1. crxRing' # crxRing
    BY <1>2
  <2>2. PICK k \in Crx : RestoreCrx(k)
    BY <2>1 DEF bulkNext, bulkVars, ReadBackup, FinishReview, UnlockNext, StepBack, Protect, KeysDone, CrxDone,
              CertsDone, OpenBulk, SealFails, SealKey, OtherWindow, RestoreCert
  <2>3. crxRing \in [Crx -> {NotHeld, Held, Restored}]
    BY DEF BulkIInv, BulkTyped, bulkTypeOK
  <2>4. k = x
    BY <1>2, <2>2, <2>3 DEF RestoreCrx
  <2> QED
    BY <1>2, <2>2, <2>4, BulkAssumption DEF RestoreCrx
<1>3. CASE x \in Cert /\ list'[x] = Restored /\ list[x] # Restored
  <2>1. list' # list
    BY <1>3
  <2>2. PICK k \in Cert : RestoreCert(k)
    BY <2>1 DEF bulkNext, bulkVars, ReadBackup, FinishReview, UnlockNext, StepBack, Protect, KeysDone, CrxDone,
              CertsDone, OpenBulk, SealFails, SealKey, OtherWindow, RestoreCrx
  <2>3. list \in [Cert -> {NotHeld, Held, Restored}]
    BY DEF BulkIInv, BulkTyped, bulkTypeOK
  <2>4. k = x
    BY <1>3, <2>2, <2>3 DEF RestoreCert
  <2> QED
    BY <1>3, <2>2, <2>4, BulkAssumption DEF RestoreCert
<1> QED
  BY <1>1, <1>2, <1>3 DEF Stores

(* Restoring all keys, for any backup and any keyring, whichever step fails   *)
(* and however often it is tried again: what the user left out is not stored, *)
(* no key that was held is replaced, contacts come after the keys, and an own *)
(* key's public half becomes no contact (BulkImportFlow).                     *)
THEOREM RestoresStayWithTheTaken == bulkSpec => RestoresOnlyWhatWasTaken
<1>1. bulkSpec => []BulkIInv
  BY BulkInitHolds, BulkStepKeeps, PTL DEF bulkSpec
<1>2. BulkIInv => bulkTypeOK /\ ContactsComeLast /\ OwnHalfIsNoContact
  <2> SUFFICES ASSUME BulkIInv PROVE bulkTypeOK /\ ContactsComeLast /\ OwnHalfIsNoContact
    OBVIOUS
  <2>1. work.on = "certs" => WasRead
    BY DEF BulkIInv, WhereItIs, WasRead
  <2>2. ContactsComeLast
    BY DEF BulkIInv, KeysComeFirst, ContactsComeLast
  <2>3. OwnHalfIsNoContact
    BY <2>1 DEF BulkIInv, OwnHalfIsNoContact, TodoIsChosen, ChosenAreRead, HalvesAreOut
  <2> QED
    BY <2>2, <2>3 DEF BulkIInv, BulkTyped
<1>3. BulkIInv /\ [bulkNext]_bulkVars => [\A x \in Key \cup Crx \cup Cert : Stores(x) => x \in chosen]_bulkVars
  <2> SUFFICES ASSUME BulkIInv, [bulkNext]_bulkVars, NEW x \in Key \cup Crx \cup Cert, Stores(x)
               PROVE  x \in chosen
    OBVIOUS
  <2>1. /\ work.on \in {"keys", "crx", "certs"} /\ x \in work.todo
    BY StoresAreOfTheTodo
  <2> QED
    BY <2>1 DEF BulkIInv, TodoIsChosen, AskedAreChosen, WhereItIs
<1>4. BulkIInv /\ [bulkNext]_bulkVars => [\A x \in Key \cup Crx : Stores(x) => x \notin known]_bulkVars
  <2> SUFFICES ASSUME BulkIInv, [bulkNext]_bulkVars, NEW x \in Key \cup Crx, Stores(x)
               PROVE  x \notin known
    OBVIOUS
  <2>1. work.on \in {"keys", "crx"} /\ x \in work.todo
    BY StoresAreOfTheTodo
  <2> QED
    BY <2>1 DEF BulkIInv, TodoIsChosen, ReadIsMissing, WhereItIs, WasRead
<1>5. bulkSpec => LeftOutStaysOut
  BY <1>1, <1>3, PTL DEF bulkSpec, LeftOutStaysOut
<1>6. bulkSpec => LiveKeysAreKept
  BY <1>1, <1>4, PTL DEF bulkSpec, LiveKeysAreKept
<1> QED
  BY <1>1, <1>2, <1>5, <1>6, PTL DEF RestoresOnlyWhatWasTaken

-----------------------------------------------------------------------------
(* Names.  A form is that of the card's User IDs under the alias it was made  *)
(* with, so that a form whose alias is the card's is the card's; a list that  *)
(* is shown is of the cards as they are.  Whether two look alike is asked     *)
(* both ways and answered the same.                                           *)

FormAs(ids, alias) == formOf([ids |-> ids, alias |-> alias])
CardsAreWhole ==
    /\ cards = [id \in Record |-> cards[id]]
    /\ \A id \in Record : Person(cards[id])
FormsAreOfTheIds ==
    /\ forms = [id \in Record |-> forms[id]]
    /\ \A id \in Record : forms[id] = NoForm \/ forms[id] = FormAs(cards[id].ids, forms[id].alias)
ClashOf(c) ==
    IF c \in Live THEN claims(formOf(cards[c]), [h \in Others(c) |-> formOf(cards[h])]) ELSE NoClash
ListIsOfTheCards == clashes = NotListed \/ clashes = [c \in Record \ OwnRecord |-> ClashOf(c)]
NamesIInv == CardsAreWhole /\ FormsAreOfTheIds /\ ListIsOfTheCards /\ renames \in 0 .. MaxRenames

LEMMA FormHasAlias == ASSUME NEW p PROVE formOf(p).alias = p.alias
BY DEF formOf

LEMMA FormIsOf == ASSUME NEW p, NEW q, p.ids = q.ids, p.alias = q.alias PROVE formOf(p) = formOf(q)
BY DEF formOf

LEMMA FormsAreFresh == ASSUME NamesIInv, NEW id \in Record PROVE CachedForm(id) = formOf(cards[id])
<1>1. Person(cards[id])
  BY DEF NamesIInv, CardsAreWhole
<1>2. CASE forms[id] = NoForm
  <2>1. forms[id].alias = NoForm.alias
    BY <1>2
  <2>2. forms[id].alias # cards[id].alias
    BY <1>1, <2>1 DEF Person
  <2> QED
    BY <2>2 DEF CachedForm
<1>3. CASE forms[id] # NoForm /\ forms[id].alias = cards[id].alias
  <2>1. forms[id] = FormAs(cards[id].ids, forms[id].alias)
    BY <1>3 DEF NamesIInv, FormsAreOfTheIds
  <2>2. FormAs(cards[id].ids, cards[id].alias) = formOf(cards[id])
    <3> DEFINE q == [ids |-> cards[id].ids, alias |-> cards[id].alias]
    <3>1. q.ids = cards[id].ids /\ q.alias = cards[id].alias
      OBVIOUS
    <3> HIDE DEF q
    <3>2. formOf(q) = formOf(cards[id])
      BY <3>1, FormIsOf
    <3> QED
      BY <3>2 DEF FormAs, q
  <2> QED
    BY <1>3, <2>1, <2>2 DEF CachedForm
<1>4. CASE forms[id].alias # cards[id].alias
  BY <1>4 DEF CachedForm
<1> QED
  BY <1>2, <1>3, <1>4

LEMMA ListedAsTheyAre ==
    ASSUME NamesIInv PROVE contactClashes = [c \in Record \ OwnRecord |-> ClashOf(c)]
<1>1. ASSUME NEW c \in Record PROVE contactClash(c) = ClashOf(c)
  <2>1. CASE c \in Live
    <3>1. CachedForm(c) = formOf(cards[c])
      BY FormsAreFresh
    <3>2. \A h \in Others(c) : CachedForm(h) = formOf(cards[h])
      BY FormsAreFresh DEF Others, Live
    <3>3. [h \in Others(c) |-> CachedForm(h)] = [h \in Others(c) |-> formOf(cards[h])]
      BY <3>2
    <3> QED
      BY <2>1, <3>1, <3>3 DEF contactClash, ClashOf
  <2>2. CASE c \notin Live
    BY <2>2 DEF contactClash, ClashOf
  <2> QED
    BY <2>1, <2>2
<1> QED
  BY <1>1 DEF contactClashes

LEMMA InitNames == namesInit => NamesIInv
<1> SUFFICES ASSUME namesInit PROVE NamesIInv
  OBVIOUS
<1>1. CardsAreWhole
  BY NamesAssumption DEF namesInit, CardsAreWhole
<1>2. FormsAreOfTheIds
  BY DEF namesInit, FormsAreOfTheIds
<1>3. ListIsOfTheCards /\ renames \in 0 .. MaxRenames
  BY NamesAssumption DEF namesInit, ListIsOfTheCards
<1> QED
  BY <1>1, <1>2, <1>3 DEF NamesIInv

\* A card that is written again keeps its User IDs, or loses its form.
LEMMA RewrittenKeeps ==
    ASSUME NamesIInv, NEW c \in Record, NEW person, Rewritten(c, person), Person(person),
           \/ (forms' = forms /\ person.ids = cards[c].ids)
           \/ forms' = [forms EXCEPT ![c] = NoForm]
    PROVE  NamesIInv'
<1>1. cards' = [cards EXCEPT ![c] = person]
  BY DEF Rewritten
<1>2. \A id \in Record : cards'[id] = IF id = c THEN person ELSE cards[id]
  BY <1>1 DEF NamesIInv, CardsAreWhole
<1>3. CardsAreWhole'
  <2>1. cards' = [id \in Record |-> cards'[id]]
    BY <1>1 DEF NamesIInv, CardsAreWhole
  <2>2. \A id \in Record : Person(cards'[id])
    BY <1>2 DEF NamesIInv, CardsAreWhole
  <2> QED
    BY <2>1, <2>2 DEF CardsAreWhole
<1>4. FormsAreOfTheIds'
  <2>1. forms' = [id \in Record |-> forms'[id]]
    BY DEF NamesIInv, FormsAreOfTheIds
  <2>2. ASSUME NEW id \in Record PROVE forms'[id] = NoForm \/ forms'[id] = FormAs(cards'[id].ids, forms'[id].alias)
    <3>1. CASE id = c /\ forms' = [forms EXCEPT ![c] = NoForm]
      BY <3>1 DEF NamesIInv, FormsAreOfTheIds
    <3>2. CASE id # c \/ (forms' = forms /\ person.ids = cards[c].ids)
      <4>1. forms'[id] = forms[id]
        BY <3>2 DEF NamesIInv, FormsAreOfTheIds
      <4>2. cards'[id].ids = cards[id].ids
        BY <1>2, <3>2
      <4>3. forms[id] = NoForm \/ forms[id] = FormAs(cards[id].ids, forms[id].alias)
        BY DEF NamesIInv, FormsAreOfTheIds
      <4> QED
        BY <4>1, <4>2, <4>3 DEF FormAs
    <3> QED
      BY <3>1, <3>2
  <2> QED
    BY <2>1, <2>2 DEF FormsAreOfTheIds
<1>5. ListIsOfTheCards'
  BY DEF Rewritten, ListIsOfTheCards
<1>6. renames' \in 0 .. MaxRenames
  BY NamesAssumption DEF Rewritten, NamesIInv
<1> QED
  BY <1>3, <1>4, <1>5, <1>6 DEF NamesIInv

LEMMA ListingKeeps == ASSUME NamesIInv, ListContacts PROVE NamesIInv'
<1>1. cards' = cards /\ renames' = renames /\ clashes' = contactClashes
  BY DEF ListContacts
<1>2. CardsAreWhole'
  BY <1>1 DEF NamesIInv, CardsAreWhole
<1>3. FormsAreOfTheIds'
  <2>1. forms' = [id \in Record |-> IF id \in Live THEN CachedForm(id) ELSE forms[id]]
    BY DEF ListContacts
  <2>2. ASSUME NEW id \in Record PROVE forms'[id] = NoForm \/ forms'[id] = FormAs(cards'[id].ids, forms'[id].alias)
    <3>1. CASE id \in Live
      <4>1. forms'[id] = formOf(cards[id])
        BY <2>1, <3>1, FormsAreFresh
      <4>2. forms'[id].alias = cards[id].alias
        BY <4>1, FormHasAlias
      <4> DEFINE q == [ids |-> cards[id].ids, alias |-> cards[id].alias]
      <4>3. q.ids = cards[id].ids /\ q.alias = cards[id].alias
        OBVIOUS
      <4>4. FormAs(cards'[id].ids, forms'[id].alias) = formOf(q)
        BY <1>1, <4>2 DEF FormAs
      <4> HIDE DEF q
      <4>5. formOf(q) = formOf(cards[id])
        BY <4>3, FormIsOf
      <4> QED
        BY <4>1, <4>4, <4>5
    <3>2. CASE id \notin Live
      <4>1. forms'[id] = forms[id]
        BY <2>1, <3>2
      <4>2. forms[id] = NoForm \/ forms[id] = FormAs(cards[id].ids, forms[id].alias)
        BY DEF NamesIInv, FormsAreOfTheIds
      <4> QED
        BY <1>1, <4>1, <4>2 DEF FormAs
    <3> QED
      BY <3>1, <3>2
  <2>3. forms' = [id \in Record |-> forms'[id]]
    BY <2>1
  <2> QED
    BY <2>2, <2>3 DEF FormsAreOfTheIds
<1>4. ListIsOfTheCards'
  <2>1. clashes' = [c \in Record \ OwnRecord |-> ClashOf(c)]
    BY <1>1, ListedAsTheyAre
  <2>2. \A c \in Record : ClashOf(c)' = ClashOf(c)
    BY <1>1 DEF ClashOf, Live, Others
  <2> QED
    BY <2>1, <2>2 DEF ListIsOfTheCards
<1> QED
  BY <1>1, <1>2, <1>3, <1>4 DEF NamesIInv

LEMMA NamesKeep == NamesIInv /\ [namesNext]_nameVars => NamesIInv'
<1> SUFFICES ASSUME NamesIInv, [namesNext]_nameVars PROVE NamesIInv'
  OBVIOUS
<1>0. \A c \in Record : Person(cards[c])
  BY DEF NamesIInv, CardsAreWhole
<1>1. CASE ListContacts
  BY <1>1, ListingKeeps
<1>2. ASSUME NEW c \in Record \ OwnRecord, NEW alias \in Aliases, Rename(c, alias) PROVE NamesIInv'
  <2> DEFINE person == [key |-> cards[c].key, ids |-> cards[c].ids, alias |-> alias, revoked |-> cards[c].revoked]
  <2>0. [cards[c] EXCEPT !.alias = alias] = person
    BY <1>0 DEF Person
  <2>1. Person(person) /\ person.ids = cards[c].ids
    BY <1>0, NamesAssumption DEF Person
  <2>2. Rewritten(c, person) /\ forms' = forms
    BY <1>2, <2>0 DEF Rename
  <2> HIDE DEF person
  <2> QED
    BY <2>1, <2>2, RewrittenKeeps
<1>3. ASSUME NEW c \in Record \ OwnRecord, Revoke(c) PROVE NamesIInv'
  <2> DEFINE person == [key |-> cards[c].key, ids |-> cards[c].ids, alias |-> cards[c].alias, revoked |-> TRUE]
  <2>0. [cards[c] EXCEPT !.revoked = TRUE] = person
    <3>1. \A b : [cards[c] EXCEPT !.revoked = b]
                    = [key |-> cards[c].key, ids |-> cards[c].ids, alias |-> cards[c].alias, revoked |-> b]
      BY <1>0 DEF Person
    <3> QED
      BY <3>1, Zenon
  <2>1. Person(person) /\ person.ids = cards[c].ids
    BY <1>0 DEF Person
  <2>2. Rewritten(c, person) /\ forms' = forms
    BY <1>3, <2>0 DEF Revoke
  <2> HIDE DEF person
  <2> QED
    BY <2>1, <2>2, RewrittenKeeps
<1>4. ASSUME NEW c \in Record \ OwnRecord, NEW ids \in Refreshed, Refresh(c, ids) PROVE NamesIInv'
  <2> DEFINE person == [key |-> cards[c].key, ids |-> ids, alias |-> cards[c].alias, revoked |-> cards[c].revoked]
  <2>0. [cards[c] EXCEPT !.ids = ids] = person
    BY <1>0 DEF Person
  <2>1. Person(person)
    BY <1>0 DEF Person
  <2>2. Rewritten(c, person) /\ forms' = [forms EXCEPT ![c] = NoForm]
    BY <1>4, <2>0 DEF Refresh
  <2> HIDE DEF person
  <2> QED
    BY <2>1, <2>2, RewrittenKeeps
<1>5. CASE UNCHANGED nameVars
  <2>1. CardsAreWhole' /\ FormsAreOfTheIds'
    BY <1>5 DEF nameVars, NamesIInv, CardsAreWhole, FormsAreOfTheIds, FormAs
  <2>2. \A c \in Record : ClashOf(c)' = ClashOf(c)
    BY <1>5 DEF nameVars, ClashOf, Live, Others
  <2>3. ListIsOfTheCards'
    BY <1>5, <2>2 DEF nameVars, NamesIInv, ListIsOfTheCards
  <2> QED
    BY <1>5, <2>1, <2>3 DEF nameVars, NamesIInv
<1> QED
  BY <1>1, <1>2, <1>3, <1>4, <1>5 DEF namesNext

\* What the four questions are about, asked of one and the other.
SharesAddress(a, b) == a.emails \cap b.emails # {}

LEMMA AlikeBothWays ==
    ASSUME NEW a, NEW b
    PROVE  /\ SharesAddress(a, b) = SharesAddress(b, a)
           /\ LooksAlike(a, b) = LooksAlike(b, a)
           /\ Alike(a, b) = Alike(b, a)
           /\ SameName(a, b) = SameName(b, a)
<1>1. SharesAddress(a, b) <=> SharesAddress(b, a)
  BY DEF SharesAddress
<1>2. LooksAlike(a, b) <=> LooksAlike(b, a)
  BY DEF LooksAlike
<1>3. \A m, n : nameLooksAlike(m, n) <=> nameLooksAlike(n, m)
  BY DEF nameLooksAlike
<1>4. Alike(a, b) <=> Alike(b, a)
  BY <1>3 DEF Alike
<1>5. SameName(a, b) <=> SameName(b, a)
  BY DEF SameName
<1> QED
  BY <1>1, <1>2, <1>4, <1>5 DEF SharesAddress, LooksAlike, Alike, SameName

LEMMA ClaimsAre ==
    ASSUME NEW mine, NEW index
    PROVE  LET addr == {h \in DOMAIN index : SharesAddress(mine, index[h])}
               look == {h \in DOMAIN index : LooksAlike(mine, index[h])}
               alike == {h \in DOMAIN index : Alike(mine, index[h])}
               same == {h \in DOMAIN index : SameName(mine, index[h])}
               says == claims(mine, index)
           IN  /\ addr # {} => says = [kind |-> "address", holders |-> addr]
               /\ addr = {} /\ look # {} => says = [kind |-> "lookalike", holders |-> look]
               /\ addr = {} /\ look = {} /\ alike # {} => says = [kind |-> "name", holders |-> alike \cup same]
               /\ addr = {} /\ look = {} /\ alike = {} /\ same # {} => says = [kind |-> "sameName", holders |-> same]
               /\ addr = {} /\ look = {} /\ alike = {} /\ same = {} => says = NoClash
BY DEF claims, SharesAddress

\* Each of two cards is among the others of the other.
LEMMA MarkedBothWays ==
    ASSUME NEW a, NEW b, NEW mine, NEW theirs,
           b \in DOMAIN mine, a \in DOMAIN theirs,
           NEW fa, NEW fb, mine[b] = fb, theirs[a] = fa,
           b \in claims(fa, mine).holders
    PROVE  LET ka == claims(fa, mine) kb == claims(fb, theirs) IN
           /\ kb.kind # "none"
           /\ ka.kind \in {"address", "lookalike"} => Rank[kb.kind] <= Rank[ka.kind]
           /\ Rank[kb.kind] = Rank[ka.kind] => a \in kb.holders
<1> DEFINE addrA == {h \in DOMAIN mine : SharesAddress(fa, mine[h])}
           lookA == {h \in DOMAIN mine : LooksAlike(fa, mine[h])}
           alikeA == {h \in DOMAIN mine : Alike(fa, mine[h])}
           sameA == {h \in DOMAIN mine : SameName(fa, mine[h])}
           addrB == {h \in DOMAIN theirs : SharesAddress(fb, theirs[h])}
           lookB == {h \in DOMAIN theirs : LooksAlike(fb, theirs[h])}
           alikeB == {h \in DOMAIN theirs : Alike(fb, theirs[h])}
           sameB == {h \in DOMAIN theirs : SameName(fb, theirs[h])}
           ka == claims(fa, mine)
           kb == claims(fb, theirs)
<1>1. b \in addrA <=> a \in addrB
  BY AlikeBothWays
<1>2. b \in lookA <=> a \in lookB
  BY AlikeBothWays
<1>3. b \in alikeA <=> a \in alikeB
  BY AlikeBothWays
<1>4. b \in sameA <=> a \in sameB
  BY AlikeBothWays
<1>5. /\ addrA # {} => ka = [kind |-> "address", holders |-> addrA]
      /\ addrA = {} /\ lookA # {} => ka = [kind |-> "lookalike", holders |-> lookA]
      /\ addrA = {} /\ lookA = {} /\ alikeA # {} => ka = [kind |-> "name", holders |-> alikeA \cup sameA]
      /\ addrA = {} /\ lookA = {} /\ alikeA = {} /\ sameA # {} => ka = [kind |-> "sameName", holders |-> sameA]
      /\ addrA = {} /\ lookA = {} /\ alikeA = {} /\ sameA = {} => ka = NoClash
  BY ClaimsAre
<1>6. /\ addrB # {} => kb = [kind |-> "address", holders |-> addrB]
      /\ addrB = {} /\ lookB # {} => kb = [kind |-> "lookalike", holders |-> lookB]
      /\ addrB = {} /\ lookB = {} /\ alikeB # {} => kb = [kind |-> "name", holders |-> alikeB \cup sameB]
      /\ addrB = {} /\ lookB = {} /\ alikeB = {} /\ sameB # {} => kb = [kind |-> "sameName", holders |-> sameB]
      /\ addrB = {} /\ lookB = {} /\ alikeB = {} /\ sameB = {} => kb = NoClash
  BY ClaimsAre
<1>7. b \in ka.holders
  OBVIOUS
<1>8. /\ Rank["address"] = 1 /\ Rank["lookalike"] = 2 /\ Rank["name"] = 3
      /\ Rank["sameName"] = 4 /\ Rank["none"] = 5
  BY DEF Rank
<1> HIDE DEF addrA, lookA, alikeA, sameA, addrB, lookB, alikeB, sameB, ka, kb
<1>9. CASE addrA # {}
  <2>1. ka.kind = "address" /\ a \in addrB
    BY <1>1, <1>5, <1>7, <1>9
  <2>2. kb = [kind |-> "address", holders |-> addrB]
    BY <1>6, <2>1
  <2>3. kb.kind # "none" /\ Rank[kb.kind] <= Rank[ka.kind] /\ a \in kb.holders
    BY <1>8, <2>1, <2>2
  <2> QED
    BY <2>3 DEF ka, kb
<1>10. CASE addrA = {} /\ lookA # {}
  <2>1. ka.kind = "lookalike" /\ a \in lookB
    BY <1>2, <1>5, <1>7, <1>10
  <2>2. \/ kb = [kind |-> "address", holders |-> addrB]
        \/ kb = [kind |-> "lookalike", holders |-> lookB]
    BY <1>6, <2>1
  <2>3. /\ kb.kind # "none" /\ Rank[kb.kind] <= Rank[ka.kind]
        /\ Rank[kb.kind] = Rank[ka.kind] => a \in kb.holders
    BY <1>8, <2>1, <2>2
  <2> QED
    BY <2>3 DEF ka, kb
<1>11. CASE addrA = {} /\ lookA = {} /\ alikeA # {}
  <2>1. ka.kind = "name" /\ a \in alikeB \cup sameB
    BY <1>3, <1>4, <1>5, <1>7, <1>11
  <2>2. \/ kb = [kind |-> "address", holders |-> addrB]
        \/ kb = [kind |-> "lookalike", holders |-> lookB]
        \/ kb = [kind |-> "name", holders |-> alikeB \cup sameB]
        \/ kb = [kind |-> "sameName", holders |-> sameB]
    BY <1>6, <2>1
  <2>3. /\ kb.kind # "none"
        /\ Rank[kb.kind] = Rank[ka.kind] => a \in kb.holders
    BY <1>8, <2>1, <2>2
  <2> QED
    BY <2>1, <2>3 DEF ka, kb
<1>12. CASE addrA = {} /\ lookA = {} /\ alikeA = {} /\ sameA # {}
  <2>1. ka.kind = "sameName" /\ a \in sameB
    BY <1>4, <1>5, <1>7, <1>12
  <2>2. \/ kb = [kind |-> "address", holders |-> addrB]
        \/ kb = [kind |-> "lookalike", holders |-> lookB]
        \/ kb = [kind |-> "name", holders |-> alikeB \cup sameB]
        \/ kb = [kind |-> "sameName", holders |-> sameB]
    BY <1>6, <2>1
  <2>3. /\ kb.kind # "none"
        /\ Rank[kb.kind] = Rank[ka.kind] => a \in kb.holders
    BY <1>8, <2>1, <2>2
  <2> QED
    BY <2>1, <2>3 DEF ka, kb
<1>13. ~(addrA = {} /\ lookA = {} /\ alikeA = {} /\ sameA = {})
  BY <1>5, <1>7 DEF NoClash
<1> QED
  BY <1>9, <1>10, <1>11, <1>12, <1>13

LEMMA NamesHold == NamesIInv => nameTypeOK /\ BothAreMarked /\ ListIsFresh
<1> SUFFICES ASSUME NamesIInv PROVE nameTypeOK /\ BothAreMarked /\ ListIsFresh
  OBVIOUS
<1>1. nameTypeOK
  <2>1. \A p \in Record : {"key", "ids", "alias", "revoked"} = DOMAIN cards[p]
    BY DEF NamesIInv, CardsAreWhole, Person
  <2>2. clashes # NotListed => DOMAIN clashes = Record \ OwnRecord
    BY DEF NamesIInv, ListIsOfTheCards
  <2> QED
    BY <2>1, <2>2 DEF NamesIInv, nameTypeOK
<1>2. ListIsFresh
  BY DEF NamesIInv, ListIsOfTheCards, ListIsFresh, ClashOf, Live
<1>3. BothAreMarked
  <2> SUFFICES ASSUME clashes # NotListed, NEW c \in Record \ OwnRecord, NEW d \in Record \ OwnRecord,
                      d \in clashes[c].holders
               PROVE  /\ clashes[d].kind # "none"
                      /\ clashes[c].kind \in {"address", "lookalike"} => Rank[clashes[d].kind] <= Rank[clashes[c].kind]
                      /\ Rank[clashes[d].kind] = Rank[clashes[c].kind] => c \in clashes[d].holders
    BY DEF BothAreMarked
  <2>1. clashes[c] = ClashOf(c) /\ clashes[d] = ClashOf(d)
    BY DEF NamesIInv, ListIsOfTheCards
  <2>2. c \in Live
    BY <2>1 DEF ClashOf, NoClash
  <2> DEFINE mine == [h \in Others(c) |-> formOf(cards[h])]
             theirs == [h \in Others(d) |-> formOf(cards[h])]
  <2>3. clashes[c] = claims(formOf(cards[c]), mine)
    BY <2>1, <2>2 DEF ClashOf
  <2>4. d \in Others(c)
    <3>1. d \in DOMAIN mine
      <4> HIDE DEF mine
      <4> QED
        BY <2>3, ClaimsAre DEF NoClash
    <3> QED
      BY <3>1
  <2>5. d \in Live /\ c \in Others(d)
    BY <2>2, <2>4 DEF Others
  <2>6. clashes[d] = claims(formOf(cards[d]), theirs)
    BY <2>1, <2>5 DEF ClashOf
  <2>7. /\ d \in DOMAIN mine /\ mine[d] = formOf(cards[d])
        /\ c \in DOMAIN theirs /\ theirs[c] = formOf(cards[c])
    BY <2>4, <2>5
  <2> HIDE DEF mine, theirs
  <2>8. LET ka == claims(formOf(cards[c]), mine) kb == claims(formOf(cards[d]), theirs) IN
        /\ kb.kind # "none"
        /\ ka.kind \in {"address", "lookalike"} => Rank[kb.kind] <= Rank[ka.kind]
        /\ Rank[kb.kind] = Rank[ka.kind] => c \in kb.holders
    <3>1. d \in claims(formOf(cards[c]), mine).holders
      BY <2>3
    <3> QED
      BY <2>7, <3>1, MarkedBothWays
  <2> QED
    BY <2>3, <2>6, <2>8
<1> QED
  BY <1>1, <1>2, <1>3

(* Whatever names, aliases and certificates the contacts have, and however     *)
(* often they change: what a list shows beside a name is of the records as     *)
(* they are, and both of two contacts that claim the same are marked, the      *)
(* other one by the same reason or a graver one (identity/binding.ts).         *)
THEOREM ClashesAreMutual == namesSpec => [](nameTypeOK /\ BothAreMarked /\ ListIsFresh)
BY InitNames, NamesKeep, NamesHold, PTL DEF namesSpec
=============================================================================
