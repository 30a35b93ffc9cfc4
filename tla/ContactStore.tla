----------------------------- MODULE ContactStore -----------------------------
(***************************************************************************)
(* The contacts of one device: a sealed array in chrome.storage with a     *)
(* generation inside it, shared by every panel window, and the integrity   *)
(* ledger that remembers its newest generation and every revocation        *)
(* (src/lib/storage/contacts.ts, encrypted-store.ts, integrity.ts).        *)
(*                                                                         *)
(* A task is one loadContacts() or one mutation (saveContact,              *)
(* updateContact, removeContact); an action is its code from one storage   *)
(* or lock await to the next.  Mutations of one window exclude each other  *)
(* (withLock is per page); ledger updates exclude each other on the whole  *)
(* device (withSharedLock).                                                *)
(***************************************************************************)
EXTENDS Integers, FiniteSets

CONSTANTS
  Ids,          \* contacts
  Windows,      \* panel windows, each with its own WASM session
  Tasks,        \* concurrent calls
  WindowOf,     \* task -> window
  OthersCarry,  \* another sealed store of this device carries a generation
  MaxTime,      \* bound: Date.now()
  MaxSaves,     \* bound: mutations
  MaxLocks,     \* bound: master locks
  MaxCloses,    \* bound: windows closed in the middle of a call
  MaxCopies,    \* bound: older copies of the store that come back
  MaxGone       \* bound: times the ledger disappears or turns to junk

ASSUME TasksAssumption == WindowOf \in [Tasks -> Windows]
ASSUME IdsAssumption == Ids # {}
ASSUME BoundsAssumption ==
  /\ MaxTime \in Nat \ {0} /\ MaxSaves \in Nat
  /\ MaxLocks \in Nat /\ MaxCloses \in Nat /\ MaxCopies \in Nat /\ MaxGone \in Nat
  /\ OthersCarry \in BOOLEAN

\* A save claims at most one more than every generation before it.
MaxGen == MaxTime + MaxSaves
L == INSTANCE Ledger

VARIABLES
  blob,      \* chrome.storage: the sealed array
  past,      \* every value blob has had
  ledger,    \* chrome.storage.local: the sealed ledger
  holders,   \* the task (at most one) in the ledger's shared lock
  session,   \* WASM of each window: the contacts session is active
  issues,    \* each window's integrity issues
  tasks,
  now,       \* Date.now()
  spent,     \* how much of each bound is used up
  seen       \* history: newest generation a finished task read or wrote

vars == <<blob, past, ledger, holders, session, issues, tasks, now, spent, seen>>
storage == <<blob, past>>
env == <<now, spent>>

Status == {"none", "active", "revoked"}
Contacts == [Ids -> Status]
Nobody == [i \in Ids |-> "none"]
Blobs == [sealed : BOOLEAN, gen : L!Generation, contacts : Contacts]
Absent == [sealed |-> FALSE, gen |-> 0, contacts |-> Nobody]

IssueKinds == {"rolled-back", "no-generation", "missing-store", "missing",
               "ledger-unreadable"}

Changes == {"add", "revoke", "remove"}
\* "floor" and "record" apply the revocation floor to what was read, "floor2"
\* and "record2" to what is about to be saved; "observe", "record", "record2"
\* and "mark" wait for the ledger's lock, and the same name with In == TRUE is
\* inside it.
Waiting == {"observe", "record", "record2", "mark"}
Phases == {"idle", "get", "absent", "floor", "floor2", "claim", "set", "done"} \cup Waiting
Task == [pc : Phases, op : Changes \cup {"load"}, id : Ids, view : Contacts,
         gen : L!Generation, ids : SUBSET Ids, in : L!Ledgers, fresh : BOOLEAN,
         warned : BOOLEAN, floorThen : SUBSET Ids,
         seenThen : L!Generation \cup {L!Unmarked}]
IdleTask == [pc |-> "idle", op |-> "load", id |-> CHOOSE i \in Ids : TRUE,
             view |-> Nobody, gen |-> 0, ids |-> {}, in |-> L!AbsentLedger,
             fresh |-> FALSE, warned |-> FALSE, floorThen |-> {}, seenThen |-> 0]

TypeOK ==
  /\ blob \in Blobs /\ past \subseteq Blobs
  /\ ledger \in L!Ledgers
  /\ holders \subseteq Tasks
  /\ session \in [Windows -> BOOLEAN]
  /\ issues \in [Windows -> SUBSET IssueKinds]
  /\ tasks \in [Tasks -> Task]
  /\ now \in 1 .. MaxTime
  /\ spent \in [saves : 0 .. MaxSaves, locks : 0 .. MaxLocks, closes : 0 .. MaxCloses,
                copies : 0 .. MaxCopies, gone : 0 .. MaxGone]
  /\ seen \in L!Generation

-----------------------------------------------------------------------------
Open(t) == session[WindowOf[t]]
Inside(t) == t \in holders
Report(t, kinds) == issues' = [issues EXCEPT ![WindowOf[t]] = @ \cup kinds]
Revoked(c) == {i \in Ids : c[i] = "revoked"}
\* applyRevocationFloor: whoever is in the floor is revoked.
FloorIgnored(c, floor) == c  \* mutant: the stored record is believed
WithFloor(c, floor) ==
  [i \in Ids |-> IF c[i] = "active" /\ i \in floor THEN "revoked" ELSE c[i]]
Changed(t, c) ==
  [c EXCEPT ![tasks[t].id] =
     CASE tasks[t].op = "add" -> "active"
       [] tasks[t].op = "revoke" -> "revoked"
       [] tasks[t].op = "remove" -> "none"]

Become(t, new) == tasks' = [tasks EXCEPT ![t] = new]
GoTo(t, pc) == Become(t, [tasks[t] EXCEPT !.pc = pc])
Fail(t) == Become(t, IdleTask)

\* Where a task goes once its list is saved-ready: an empty list has no floor
\* to apply.
SaveFrom(t, c) ==
  [tasks[t] EXCEPT !.pc = IF c = Nobody THEN "claim" ELSE "floor2", !.view = c]
\* A list is loaded: loadContacts() returns it, a mutation changes it.
AfterLoad(t, c) ==
  IF tasks[t].op = "load" THEN [tasks[t] EXCEPT !.pc = "done", !.view = c]
  ELSE SaveFrom(t, Changed(t, c))

-----------------------------------------------------------------------------
(* Reading *)

\* The guard and the session check of the load come before the first await.
Start(t, op, id) ==
  /\ tasks[t].pc = "idle" /\ Open(t)
  /\ op # "load" =>
       /\ spent.saves < MaxSaves
       /\ \A u \in Tasks : WindowOf[u] = WindowOf[t] =>
            tasks[u].pc = "idle" \/ tasks[u].op = "load"
  /\ spent' = [spent EXCEPT !.saves = IF op = "load" THEN @ ELSE @ + 1]
  /\ Become(t, [IdleTask EXCEPT !.pc = "get", !.op = op, !.id = id,
                                !.floorThen = ledger.floor, !.seenThen = seen])
  /\ UNCHANGED <<storage, ledger, holders, session, issues, now, seen>>

\* The blob arrives and is opened; a lock since makes the opening throw.
Get(t) ==
  /\ tasks[t].pc = "get"
  /\ \/ ~blob.sealed /\ GoTo(t, "absent")
     \/ blob.sealed /\ ~Open(t) /\ Fail(t)
     \/ /\ blob.sealed /\ Open(t)
        /\ Become(t, [tasks[t] EXCEPT !.pc = "observe", !.view = blob.contacts,
                                      !.gen = blob.gen])
  /\ UNCHANGED <<storage, ledger, holders, session, issues, env, seen>>

\* noteAbsent: reported when this device has seen the store. A locked window
\* finds nothing out.
NoteAbsent(t) ==
  LET kinds == IF ~Open(t) THEN {}
               ELSE IF ledger.state = "good" /\ ledger.mark # L!Unmarked THEN {"missing-store"}
               ELSE IF ledger.state = "absent" /\ OthersCarry THEN {"missing"}
               ELSE {} IN
  /\ tasks[t].pc = "absent"
  /\ Report(t, kinds)
  /\ Become(t, [AfterLoad(t, Nobody) EXCEPT !.warned = kinds # {}])
  /\ UNCHANGED <<storage, ledger, holders, session, env, seen>>

\* revokedFloor() is an unlocked read; what is revoked in the list and not yet
\* in the floor is then recorded.
PeekFloor(t) ==
  LET floor == IF Open(t) /\ ledger.state = "good" THEN ledger.floor ELSE {}
      c == WithFloor(tasks[t].view, floor)
      new == Revoked(tasks[t].view) \ floor
      recording == new # {} /\ Open(t)
      seenList == [tasks[t] EXCEPT !.view = c, !.ids = new] IN
  /\ tasks[t].pc \in {"floor", "floor2"}
  /\ Become(t, IF tasks[t].pc = "floor"
               THEN IF recording THEN [seenList EXCEPT !.pc = "record"] ELSE AfterLoad(t, c)
               ELSE [seenList EXCEPT !.pc = IF recording THEN "record2" ELSE "claim"])
  /\ UNCHANGED <<storage, ledger, holders, session, issues, env, seen>>

-----------------------------------------------------------------------------
(* updateLedger: under the shared lock *)

After(t) ==  \* what follows an update of the ledger
  CASE tasks[t].pc = "observe" ->
         IF tasks[t].view = Nobody THEN AfterLoad(t, Nobody)
         ELSE [tasks[t] EXCEPT !.pc = "floor"]
    [] tasks[t].pc = "record" -> AfterLoad(t, tasks[t].view)
    [] tasks[t].pc = "record2" -> [tasks[t] EXCEPT !.pc = "claim"]
    [] tasks[t].pc = "mark" -> [tasks[t] EXCEPT !.pc = "done"]

NoExclusion == TRUE  \* mutant: updateLedger without its lock
LockFree == holders = {}
Release(t) == holders' = holders \ {t}

\* No session when the update is asked for: nothing happens.
SkipLedger(t) ==
  /\ tasks[t].pc \in Waiting /\ ~Inside(t) /\ ~Open(t)
  /\ Become(t, After(t))
  /\ UNCHANGED <<storage, ledger, holders, session, issues, env, seen>>

\* The lock is granted and the ledger read; it opens only under a session.
\* Every caller here is "proven", so a ledger that does not open is replaced
\* by one marked lost, and what is lost is reported at once.
EnterLedger(t) ==
  LET found == IF ledger.state = "good" /\ ~Open(t) THEN "junk" ELSE ledger.state
      scan == OthersCarry \/ (tasks[t].pc # "mark" /\ blob.sealed /\ blob.gen > 0)
      in == IF found = "good" THEN ledger ELSE L!Replacement(found, Open(t) /\ scan) IN
  /\ tasks[t].pc \in Waiting /\ ~Inside(t) /\ LockFree
  /\ holders' = holders \cup {t}
  /\ Report(t, {in.lost} \ {"none"})
  /\ Become(t, [tasks[t] EXCEPT !.in = in, !.fresh = found # "good",
                                !.warned = @ \/ in.lost # "none"])
  /\ UNCHANGED <<storage, ledger, session, env, seen>>

Updated(t) ==
  CASE tasks[t].pc = "observe" -> L!ObserveGeneration(tasks[t].in, tasks[t].gen, FALSE)
    [] tasks[t].pc \in {"record", "record2"} -> L!RecordRevoked(tasks[t].in, tasks[t].ids)
    [] tasks[t].pc = "mark" -> L!RecordWrite(tasks[t].in, tasks[t].gen)

\* The change is made, and the ledger sealed and written if there is one and
\* the session is still there; a failure is swallowed (bestEffort).
LeaveLedger(t) ==
  LET older == tasks[t].pc = "observe" /\ L!Older(tasks[t].in, tasks[t].gen)
      write == Open(t) /\ (tasks[t].fresh \/ Updated(t) # tasks[t].in) IN
  /\ tasks[t].pc \in Waiting /\ Inside(t)
  /\ ledger' = IF write THEN Updated(t) ELSE ledger
  /\ Report(t, IF older THEN {L!OlderKind(tasks[t].gen)} ELSE {})
  /\ Release(t)
  /\ Become(t, [After(t) EXCEPT !.warned = @ \/ older])
  /\ UNCHANGED <<storage, session, env, seen>>

-----------------------------------------------------------------------------
(* Writing *)

\* saveEncryptedArray: refuses without a session, then peeks at the mark.
Claim(t) ==
  LET l == IF Open(t) /\ ledger.state = "good" THEN ledger ELSE L!EmptyLedger
      gen == L!ClaimGeneration(l, now) IN
  /\ tasks[t].pc = "claim"
  /\ IF Open(t) THEN Become(t, [tasks[t] EXCEPT !.pc = "set", !.gen = gen]) ELSE Fail(t)
  /\ UNCHANGED <<storage, ledger, holders, session, issues, env, seen>>

\* The list is sealed and written; sealing throws without a session.
Set(t) ==
  LET new == [sealed |-> TRUE, gen |-> tasks[t].gen, contacts |-> tasks[t].view] IN
  /\ tasks[t].pc = "set"
  /\ \/ Open(t) /\ blob' = new /\ past' = past \cup {new} /\ GoTo(t, "mark")
     \/ ~Open(t) /\ Fail(t) /\ UNCHANGED storage
  /\ UNCHANGED <<ledger, holders, session, issues, env, seen>>

Finish(t) ==
  /\ tasks[t].pc = "done"
  /\ Fail(t)
  /\ seen' = IF tasks[t].seenThen # L!Unmarked /\ tasks[t].gen > seen
             THEN tasks[t].gen ELSE seen
  /\ UNCHANGED <<storage, ledger, holders, session, issues, env>>

-----------------------------------------------------------------------------
(* The device *)

\* Time passes; the system clock may also be set back.
ClockMoves ==
  /\ \E time \in 1 .. MaxTime : time # now /\ now' = time
  /\ UNCHANGED <<storage, ledger, holders, session, issues, tasks, spent, seen>>

\* The master lock drops the session without waiting for anything.
MasterLock(w) ==
  /\ session[w] /\ spent.locks < MaxLocks
  /\ session' = [session EXCEPT ![w] = FALSE]
  /\ spent' = [spent EXCEPT !.locks = @ + 1]
  /\ UNCHANGED <<storage, ledger, holders, issues, tasks, now, seen>>

Unlock(w) ==
  /\ ~session[w]
  /\ session' = [session EXCEPT ![w] = TRUE]
  /\ UNCHANGED <<storage, ledger, holders, issues, tasks, env, seen>>

\* The window is closed: its calls, its warnings and its Web Locks go with it.
Close(w) ==
  /\ \E t \in Tasks : WindowOf[t] = w /\ tasks[t].pc # "idle"
  /\ spent.closes < MaxCloses
  /\ spent' = [spent EXCEPT !.closes = @ + 1]
  /\ tasks' = [t \in Tasks |-> IF WindowOf[t] = w THEN IdleTask ELSE tasks[t]]
  /\ holders' = {t \in holders : WindowOf[t] # w}
  /\ issues' = [issues EXCEPT ![w] = {}]
  /\ session' = [session EXCEPT ![w] = FALSE]
  /\ UNCHANGED <<storage, ledger, now, seen>>

\* The user dismisses the warning: an unproven update, which only amends a
\* ledger that opens; the reports go either way.  After a lost ledger that
\* accepts the store as it is: the history starts again, and a call under
\* way then counts for neither side of it.
Dismiss(w) ==
  /\ issues[w] # {} /\ LockFree
  /\ issues' = [issues EXCEPT ![w] = {}]
  /\ ledger' = IF session[w] /\ ledger.state = "good" THEN L!Acknowledge(ledger) ELSE ledger
  /\ IF ledger' = ledger THEN UNCHANGED <<tasks, seen>>
     ELSE /\ seen' = 0
          /\ tasks' = [t \in Tasks |-> [tasks[t] EXCEPT !.seenThen = L!Unmarked]]
  /\ UNCHANGED <<storage, holders, session, env>>

\* An older copy of the store comes back (a restored profile, sync).
OlderCopy ==
  /\ spent.copies < MaxCopies
  /\ \E b \in past : b.sealed /\ b # blob /\ blob' = b
  /\ spent' = [spent EXCEPT !.copies = @ + 1]
  /\ UNCHANGED <<past, ledger, holders, session, issues, tasks, now, seen>>

LedgerGone ==
  /\ spent.gone < MaxGone
  /\ \E l \in {L!AbsentLedger, L!JunkLedger} : ledger.state = "good" /\ ledger' = l
  /\ spent' = [spent EXCEPT !.gone = @ + 1]
  /\ UNCHANGED <<storage, holders, session, issues, tasks, now, seen>>

-----------------------------------------------------------------------------
\* A new vault has an empty ledger and no contacts; a device upgraded from a
\* build without generations has contacts and no ledger.
Init ==
  /\ \/ blob = Absent /\ ledger = L!EmptyLedger
     \/ /\ blob \in {[sealed |-> TRUE, gen |-> 0, contacts |-> c] : c \in Contacts}
        /\ ledger = L!AbsentLedger
        /\ ~OthersCarry
  /\ past = {blob}
  /\ holders = {}
  /\ session = [w \in Windows |-> TRUE]
  /\ issues = [w \in Windows |-> {}]
  /\ tasks = [t \in Tasks |-> IdleTask]
  /\ now = 1
  /\ spent = [saves |-> 0, locks |-> 0, closes |-> 0, copies |-> 0, gone |-> 0]
  /\ seen = 0

TaskStep(t) ==
  \/ Get(t) \/ NoteAbsent(t) \/ PeekFloor(t)
  \/ SkipLedger(t) \/ EnterLedger(t) \/ LeaveLedger(t)
  \/ Claim(t) \/ Set(t) \/ Finish(t)

Next ==
  \/ \E t \in Tasks : TaskStep(t)
  \/ \E t \in Tasks, op \in Changes \cup {"load"}, id \in Ids : Start(t, op, id)
  \/ \E w \in Windows : MasterLock(w) \/ Unlock(w) \/ Close(w) \/ Dismiss(w)
  \/ ClockMoves \/ OlderCopy \/ LedgerGone

\* Storage replies and grants of the lock arrive; nothing makes a user act.
Moves(t) == \/ Get(t) \/ NoteAbsent(t) \/ PeekFloor(t) \/ SkipLedger(t)
            \/ LeaveLedger(t) \/ Claim(t) \/ Set(t) \/ Finish(t)
Fairness == \A t \in Tasks : WF_vars(Moves(t)) /\ SF_vars(EnterLedger(t))

Spec == Init /\ [][Next]_vars /\ Fairness

-----------------------------------------------------------------------------
(* Properties *)

Outcome(t) == tasks[t].pc \in {"set", "mark", "done"}

\* Whoever this device had seen revoked when a call began is not active in
\* what the call returns or saves, whatever copy of the store it read: the
\* floor is not in that copy (contacts.ts:277).
FloorHolds ==
  \A t \in Tasks : Outcome(t) =>
    \A i \in tasks[t].floorThen : tasks[t].view[i] # "active"

\* A load that returns a copy older than one this device had already finished
\* reading or writing has warned (integrity.ts:449).
OlderCopyIsReported ==
  \A t \in Tasks :
    tasks[t].pc = "done" /\ tasks[t].op = "load" /\ tasks[t].gen < tasks[t].seenThen
      => tasks[t].warned

\* A device whose store and ledger nobody touched never warns, whatever its
\* clock does and wherever a call is cut off (integrity.ts:8).
NoWarningWithoutCause ==
  spent.copies = 0 /\ spent.gone = 0 => \A w \in Windows : issues[w] = {}

\* "Fingerprints this device has seen revoked. Append-only." (integrity.ts:63):
\* only losing the ledger itself takes one out.
FloorOnlyGrows ==
  [][ledger.state = "good" /\ ledger'.state = "good" => ledger.floor \subseteq ledger'.floor]_vars

\* The mark only falls when the user accepts a loss.
MarkOnlyRises ==
  [][ledger.state = "good" /\ ledger'.state = "good" => ledger'.mark >= ledger.mark]_vars

\* A warning is given when it should be, lost ledger or not, and at no other time.
WarningsAreTrue == OlderCopyIsReported /\ NoWarningWithoutCause

\* What the ledger knows of revocations and generations only ever grows.
NothingIsForgotten == FloorOnlyGrows /\ MarkOnlyRises

\* Every call ends.
CallsEnd == \A t \in Tasks : tasks[t].pc # "idle" ~> tasks[t].pc = "idle"
=============================================================================
