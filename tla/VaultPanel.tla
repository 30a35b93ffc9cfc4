------------------------------ MODULE VaultPanel ------------------------------
(***************************************************************************)
(* One side panel: the vault's phase, the unlock in flight, and everything *)
(* a master lock has to take back (src/lib/vault-phase.ts, VaultGate.tsx,  *)
(* MasterUnlockScreen.tsx, useMasterLock.ts, useAutoLock.ts,               *)
(* useReaderTabs.ts, usePendingOperation.ts, live-list.ts).                *)
(*                                                                         *)
(* The reducer applies a dispatch at once; React commits it later, and     *)
(* effects and the closures of event handlers see only what is committed   *)
(* ("shown").  An await on storage, a ceremony or a KDF is a step boundary;*)
(* an await on the WASM module alone, long loaded, is not, except where    *)
(* the code defends against it (show).                                     *)
(***************************************************************************)
EXTENDS Integers, FiniteSets, TLC

CONSTANTS
  Attempts,    \* unlock attempts that can be under way at once
  Method,      \* "passkey" or "password": how the master is protected
  Writes,      \* mutations of a sealed list made in this panel
  Tabs,        \* reader tabs
  MaxUnlocks,  \* bound: attempts started
  MaxLocks,    \* bound: locks and OS locks
  MaxOps       \* bound: selections sent by the context menu

ASSUME MethodAssumption == Method \in {"passkey", "password"}
ASSUME BoundsAssumption == MaxUnlocks \in Nat /\ MaxLocks \in Nat /\ MaxOps \in Nat

VARIABLES
  vault,      \* the reducer's state: phase, opening, gen, protection
  shown,      \* the last commit had the vault open
  session,    \* WASM: the contacts session is active
  keys,       \* a key is unlocked; the key session's lock generation
  attempts,
  idleTimer,  \* the auto-lock timeout is pending
  autoLock,   \* the setting
  list,       \* a live list: what it shows, its generation, reads in flight
  writes,
  readers,    \* unlockedRef, what each tab was last told, shows in flight
  op,         \* the selection: in session storage, in React state
  consumers,  \* reads of the selection in flight
  work,       \* the workspace has text; a sealed draft of it is kept
  spent,
  astray      \* history: what an unlock did whose lock screen was gone

vars == <<vault, shown, session, keys, attempts, idleTimer, autoLock, list, writes,
          readers, op, consumers, work, spent, astray>>

\* A vault is opened once more often than it is locked.
Gen == 0 .. (2 * MaxLocks + 1)
Vaults == [phase : {"loading", "onboarding", "locked", "open"}, opening : BOOLEAN,
           gen : Gen, protection : BOOLEAN]
Reads == [gen : Nat, open : BOOLEAN]
Lists == [shown : {"nothing", "empty", "items", "error"}, gen : Nat, reads : SUBSET Reads]
Views == {"none", "opening", "blank", "shown", "locked"}
Consumer == [pc : {"get", "remove"}, aborted : BOOLEAN]
ReaderTabs == [allowed : BOOLEAN, view : [Tabs -> Views], shows : SUBSET Tabs]
Attempt == [pc : {"idle", "ceremony", "migrating", "opening"}, mount : Gen, gen : Gen,
            batch : BOOLEAN, keysGen : Gen, read : Nat, timer : BOOLEAN, crossed : BOOLEAN]
IdleAttempt == [pc |-> "idle", mount |-> 0, gen |-> 0, batch |-> FALSE, keysGen |-> 0,
                read |-> 0, timer |-> FALSE, crossed |-> FALSE]
\* It opened the vault, joined an opening, or reset the timer of a vault in use.
Strays == [opened : BOOLEAN, joined : BOOLEAN, reset : BOOLEAN]
NotAstray == [opened |-> FALSE, joined |-> FALSE, reset |-> FALSE]

TypeOK ==
  /\ vault \in Vaults
  /\ shown \in BOOLEAN /\ session \in BOOLEAN
  /\ keys \in [open : BOOLEAN, gen : Gen]
  /\ attempts \in [Attempts -> Attempt]
  /\ idleTimer \in BOOLEAN /\ autoLock \in BOOLEAN
  /\ list \in Lists
  /\ writes \in [Writes -> {"unused", "queued", "sealed", "done"}]
  /\ readers \in ReaderTabs
  /\ op \in [stored : BOOLEAN, taken : BOOLEAN]
  /\ consumers \subseteq Consumer
  /\ work \in [text : BOOLEAN, sealed : BOOLEAN]
  /\ spent \in [unlocks : 0 .. MaxUnlocks, locks : 0 .. MaxLocks, ops : 0 .. MaxOps]
  /\ astray \in Strays

Idle(a) == attempts[a].pc = "idle"
\* On its way in.
Entering(a) == attempts[a].pc \in {"ceremony", "migrating"}
Opened == vault.phase = "open"
\* The user sees, and can act on, an open vault.
InUse == shown /\ Opened

panel == <<readers, op, consumers, work, astray>>

-----------------------------------------------------------------------------
(* The reducer *)

Unlocking(v) ==
  IF v.phase = "locked"
  THEN [phase |-> "open", opening |-> TRUE, gen |-> v.gen + 1, protection |-> v.protection]
  ELSE v
SettledByAnyone(v, gen) ==  \* mutant: a late unlock settles a newer one
  IF v.phase = "open" THEN [v EXCEPT !.opening = FALSE] ELSE v
SettledByOthers(v, gen) ==  \* mutant: the comparison is the wrong way round
  IF v.phase = "open" /\ gen # v.gen THEN [v EXCEPT !.opening = FALSE] ELSE v
SettledAndBumped(v, gen) ==  \* mutant: settling counts as a transition
  IF v.phase = "open" /\ gen = v.gen
  THEN [v EXCEPT !.opening = FALSE, !.gen = @ + 1] ELSE v
Settled(v, gen) ==
  IF v.phase = "open" /\ gen = v.gen THEN [v EXCEPT !.opening = FALSE] ELSE v
\* A vault with no master protection has no lock screen to go to.
Locked(v) ==
  IF v.phase = "open"
  THEN [phase |-> IF v.protection THEN "locked" ELSE "open",
        opening |-> FALSE, gen |-> v.gen + 1, protection |-> v.protection]
  ELSE v

-----------------------------------------------------------------------------
(* The live list *)

\* refresh(): the load asks for a session before its first storage read.
Refreshed(l, open) ==
  [shown |-> l.shown, gen |-> l.gen + 1,
   reads |-> l.reads \cup {[gen |-> l.gen + 1, open |-> open]}]

\* A list read while locked is empty; one that loses the session is an error.
\* Only the newest refresh is shown.
AnyReadWins(r) == TRUE  \* mutant: a slower, older read overwrites a newer one
Newest(r) == r.gen = list.gen
EndRead(r) ==
  LET found == IF ~r.open THEN "empty" ELSE IF session THEN "items" ELSE "error" IN
  /\ r \in list.reads
  /\ list' = [list EXCEPT !.reads = @ \ {r}, !.shown = IF Newest(r) THEN found ELSE @]
  /\ UNCHANGED <<vault, shown, session, keys, attempts, idleTimer, autoLock, writes, panel, spent>>

\* A mutation waits for the list's lock, checks the session inside it, ...
QueueWrite(w) ==
  /\ InUse /\ writes[w] = "unused"
  /\ writes' = [writes EXCEPT ![w] = "queued"]
  /\ UNCHANGED <<vault, shown, session, keys, attempts, idleTimer, autoLock, list, panel, spent>>

\* ... seals and writes, or fails for want of a session, ...
Write(w) ==
  /\ writes[w] = "queued" /\ \A x \in Writes : writes[x] # "sealed"
  /\ writes' = [writes EXCEPT ![w] = IF session THEN "sealed" ELSE "done"]
  /\ UNCHANGED <<vault, shown, session, keys, attempts, idleTimer, autoLock, list, panel, spent>>

\* ... and once the storage answers it makes the list refresh.
NotifyStoreChanged(w) ==
  /\ writes[w] = "sealed"
  /\ writes' = [writes EXCEPT ![w] = "done"]
  /\ list' = Refreshed(list, session)
  /\ UNCHANGED <<vault, shown, session, keys, attempts, idleTimer, autoLock, panel, spent>>

-----------------------------------------------------------------------------
(* Unlocking *)

Resolve ==
  /\ vault.phase = "loading"
  /\ \E phase \in {"onboarding", "locked"} :
       vault' = [vault EXCEPT !.phase = phase, !.protection = phase = "locked"]
  /\ UNCHANGED <<shown, session, keys, attempts, idleTimer, autoLock, list, writes, panel, spent>>

\* Onboarding left its session active.  The protection it read back may be
\* gone again (another window can erase the vault).
Onboarded ==
  /\ vault.phase = "onboarding"
  /\ \E p \in BOOLEAN :
       vault' = [phase |-> "open", opening |-> FALSE, gen |-> vault.gen + 1, protection |-> p]
  /\ session' = TRUE
  /\ list' = Refreshed(list, TRUE)
  /\ UNCHANGED <<shown, keys, attempts, idleTimer, autoLock, writes, panel, spent>>

\* The lock screen.  A password is tried once at a time (the button is
\* disabled).  The passkey button never is: a second press aborts a ceremony of
\* this screen's, but not an attempt that is past it.  A press between the
\* dispatch that opens the vault and its commit does what one just before would.
Press(a) ==
  LET rivals == {b \in Attempts : ~Idle(b) /\ attempts[b].mount = vault.gen} IN
  /\ vault.phase = "locked" /\ ~shown /\ Idle(a)
  /\ spent.unlocks < MaxUnlocks
  /\ Method = "password" => rivals = {}
  /\ attempts' = [b \in Attempts |->
       IF b = a THEN [IdleAttempt EXCEPT !.pc = "ceremony", !.mount = vault.gen, !.timer = autoLock]
       ELSE IF b \in rivals /\ attempts[b].pc = "ceremony" THEN IdleAttempt
       ELSE attempts[b]]
  /\ spent' = [spent EXCEPT !.unlocks = @ + 1]
  /\ UNCHANGED <<vault, shown, session, keys, idleTimer, autoLock, list, writes, panel>>

\* The ceremony or the KDF ends: wrong password, dismissed, or a session.
\* onUnlocked then migrates old settings before anything else.
CeremonyEnds(a) ==
  /\ attempts[a].pc = "ceremony"
  /\ \/ attempts' = [attempts EXCEPT ![a] = IdleAttempt] /\ UNCHANGED session
     \/ attempts' = [attempts EXCEPT ![a].pc = "migrating"] /\ session' = TRUE
  /\ UNCHANGED <<vault, shown, keys, idleTimer, autoLock, list, writes, panel, spent>>

\* From here to the next await is one run: the phase opens, the idle timer
\* starts, the lists are read and the batch of keys takes its generation.  An
\* attempt whose lock screen is gone does all of it just the same.
Unlock(a) ==
  /\ attempts[a].pc = "migrating"
  /\ vault' = Unlocking(vault)
  /\ idleTimer' = attempts[a].timer
  /\ list' = Refreshed(list, session)
  /\ attempts' = [attempts EXCEPT ![a] =
       [IdleAttempt EXCEPT !.pc = "opening", !.gen = vault'.gen, !.read = list'.gen,
                           !.batch = Method = "passkey", !.keysGen = keys.gen]]
  /\ astray' = [opened |-> IF Opened THEN astray.opened ELSE attempts[a].mount # vault.gen,
                joined |-> Opened, reset |-> shown]
  /\ UNCHANGED <<shown, session, keys, autoLock, writes, readers, op, consumers, work, spent>>

\* unlockMany opens a key unless a lock has come in between (KeySession).
KeyOpens(a) ==
  /\ attempts[a].pc = "opening" /\ attempts[a].batch /\ attempts[a].keysGen = keys.gen
  /\ keys' = [keys EXCEPT !.open = TRUE]
  /\ UNCHANGED <<vault, shown, session, attempts, idleTimer, autoLock, list, writes, panel, spent>>

BatchEnds(a) ==
  /\ attempts[a].pc = "opening" /\ attempts[a].batch
  /\ attempts' = [attempts EXCEPT ![a].batch = FALSE]
  /\ UNCHANGED <<vault, shown, session, keys, idleTimer, autoLock, list, writes, panel, spent>>

Reading(a) == \E r \in list.reads : r.gen = attempts[a].read

Settle(a) ==
  /\ attempts[a].pc = "opening" /\ ~attempts[a].batch /\ ~Reading(a)
  /\ vault' = Settled(vault, attempts[a].gen)
  /\ attempts' = [attempts EXCEPT ![a] = IdleAttempt]
  /\ UNCHANGED <<shown, session, keys, idleTimer, autoLock, list, writes, panel, spent>>

-----------------------------------------------------------------------------
(* Locking *)

Connected(r) == {t \in Tabs : r.view[t] \in {"blank", "shown", "locked"}}
\* lockNow(): every tab is told, before anything else.
TabsLocked(r) ==
  [allowed |-> FALSE, shows |-> r.shows,
   view |-> [t \in Tabs |-> IF t \in Connected(r) THEN "locked" ELSE r.view[t]]]
KeysLockedQuietly == [open |-> FALSE, gen |-> keys.gen]  \* mutant: no new generation
KeysLocked == [open |-> FALSE, gen |-> keys.gen + 1]

\* useMasterLock's lock().
MasterLock ==
  /\ readers' = TabsLocked(readers)
  /\ work' = IF shown /\ work.text THEN [text |-> FALSE, sealed |-> TRUE] ELSE work
  /\ op' = [stored |-> FALSE, taken |-> FALSE]
  /\ session' = FALSE
  /\ vault' = Locked(vault)
  /\ keys' = KeysLocked
  /\ astray' = NotAstray
  /\ UNCHANGED consumers

LockButton ==
  /\ InUse /\ spent.locks < MaxLocks
  /\ MasterLock
  /\ spent' = [spent EXCEPT !.locks = @ + 1]
  /\ UNCHANGED <<shown, attempts, idleTimer, autoLock, list, writes>>

TimerFires ==
  /\ idleTimer /\ spent.locks < MaxLocks
  /\ idleTimer' = FALSE
  /\ MasterLock
  /\ spent' = [spent EXCEPT !.locks = @ + 1]
  /\ UNCHANGED <<shown, attempts, autoLock, list, writes>>

\* lockEverything, on the OS lock or on leaving the window: it judges by what
\* is on screen.
OsLock ==
  /\ spent.locks < MaxLocks
  /\ spent' = [spent EXCEPT !.locks = @ + 1]
  /\ attempts' = [a \in Attempts |-> IF Entering(a) THEN [attempts[a] EXCEPT !.crossed = TRUE]
                                     ELSE attempts[a]]
  /\ IF shown THEN MasterLock
     ELSE /\ keys' = IF keys.open THEN KeysLocked ELSE keys
          /\ UNCHANGED <<vault, session, panel>>
  /\ UNCHANGED <<shown, idleTimer, autoLock, list, writes>>

\* React commits: the effects that depend on the vault being open run.
NothingArmed == idleTimer  \* mutant: the effect that arms the timer is gone
ArmedByCommit == IF Opened THEN autoLock ELSE FALSE
\* Tabs are shown their message again; any other way of locking is repeated.
ReadersAtCommit ==
  IF Opened THEN [readers EXCEPT !.allowed = TRUE, !.shows = @ \cup Connected(readers)]
  ELSE TabsLocked(readers)
\* The panel starts, or gives up, reading the context menu's selection.
ConsumersAtCommit ==
  IF Opened THEN consumers \cup {[pc |-> "get", aborted |-> FALSE]}
  ELSE {[c EXCEPT !.aborted = TRUE] : c \in consumers}
\* The workspace is mounted with the sealed draft, or unmounted.
WorkAtCommit ==
  IF Opened /\ work.sealed THEN [text |-> TRUE, sealed |-> FALSE]
  ELSE [work EXCEPT !.text = FALSE]

Commit ==
  /\ shown # Opened
  /\ shown' = Opened
  /\ idleTimer' = ArmedByCommit
  /\ readers' = ReadersAtCommit
  /\ consumers' = ConsumersAtCommit
  /\ work' = WorkAtCommit
  /\ astray' = [astray EXCEPT !.reset = FALSE]
  /\ UNCHANGED <<vault, session, keys, attempts, autoLock, list, writes, op, spent>>

\* The user changes the setting, or the reload after an unlock finds another
\* than the defaults of a locked panel.
SetAutoLock ==
  /\ InUse
  /\ autoLock' = ~autoLock
  /\ idleTimer' = autoLock'
  /\ astray' = [astray EXCEPT !.reset = FALSE]
  /\ UNCHANGED <<vault, shown, session, keys, attempts, list, writes, readers, op, consumers,
                 work, spent>>

-----------------------------------------------------------------------------
(* The workspace, reader tabs and the context menu's selection *)

Type ==
  /\ InUse /\ ~work.text
  /\ work' = [work EXCEPT !.text = TRUE]
  /\ UNCHANGED <<vault, shown, session, keys, attempts, idleTimer, autoLock, list, writes,
                 readers, op, consumers, spent, astray>>

rest == <<vault, shown, session, keys, attempts, idleTimer, autoLock, list, writes, astray>>

\* Reply seals the message and opens a tab, which connects when it is ready.
OpenReader(t) ==
  /\ InUse /\ work.text /\ readers.view[t] = "none"
  /\ readers' = [readers EXCEPT !.view[t] = "opening"]
  /\ UNCHANGED <<rest, op, consumers, work, spent>>

Connect(t) ==
  /\ readers.view[t] = "opening"
  /\ readers' = IF readers.allowed
                THEN [readers EXCEPT !.view[t] = "blank", !.shows = @ \cup {t}]
                ELSE [readers EXCEPT !.view[t] = "locked"]
  /\ UNCHANGED <<rest, op, consumers, work, spent>>

\* The unsealed message is posted unless a lock landed meanwhile.
PostAnyway == TRUE  \* mutant: the flag is not read again after the await
MayPost == readers.allowed
Show(t) ==
  /\ t \in readers.shows
  /\ readers' = [readers EXCEPT !.shows = @ \ {t}, !.view[t] = IF MayPost THEN "shown" ELSE @]
  /\ UNCHANGED <<rest, op, consumers, work, spent>>

CloseTab(t) ==
  /\ t \in Connected(readers)
  /\ readers' = [readers EXCEPT !.shows = @ \ {t}, !.view[t] = "none"]
  /\ UNCHANGED <<rest, op, consumers, work, spent>>

\* The service worker stores a selection; a panel that is open hears of it.
OpArrives ==
  /\ spent.ops < MaxOps
  /\ spent' = [spent EXCEPT !.ops = @ + 1]
  /\ op' = [op EXCEPT !.stored = TRUE]
  /\ consumers' = IF shown THEN consumers \cup {[pc |-> "get", aborted |-> FALSE]} ELSE consumers
  /\ UNCHANGED <<rest, readers, work>>

GetOp(c) ==
  /\ c \in consumers /\ c.pc = "get"
  /\ consumers' = (consumers \ {c}) \cup {d \in {[c EXCEPT !.pc = "remove"]} : op.stored}
  /\ UNCHANGED <<rest, readers, op, work, spent>>

\* The selection is out of storage; it is kept unless the panel closed.
TakeOp(c) ==
  /\ c \in consumers /\ c.pc = "remove"
  /\ consumers' = consumers \ {c}
  /\ op' = [stored |-> FALSE, taken |-> op.taken \/ ~c.aborted]
  /\ UNCHANGED <<rest, readers, work, spent>>

\* App's effect drops a sealed draft for the selection, and the workspace,
\* when there is one, takes it.
RouteOp ==
  /\ op.taken /\ shown = Opened /\ (shown \/ work.sealed)
  /\ work' = [text |-> shown \/ work.text, sealed |-> FALSE]
  /\ op' = [op EXCEPT !.taken = ~shown]
  /\ UNCHANGED <<rest, readers, consumers, spent>>

-----------------------------------------------------------------------------
Init ==
  /\ vault = [phase |-> "loading", opening |-> FALSE, gen |-> 0, protection |-> FALSE]
  /\ shown = FALSE /\ session = FALSE
  /\ keys = [open |-> FALSE, gen |-> 0]
  /\ attempts = [a \in Attempts |-> IdleAttempt]
  /\ idleTimer = FALSE /\ autoLock \in BOOLEAN
  /\ list = Refreshed([shown |-> "nothing", gen |-> 0, reads |-> {}], FALSE)
  /\ writes = [w \in Writes |-> "unused"]
  /\ readers = [allowed |-> FALSE, view |-> [t \in Tabs |-> "none"], shows |-> {}]
  /\ op = [stored |-> FALSE, taken |-> FALSE]
  /\ consumers = {}
  /\ work = [text |-> FALSE, sealed |-> FALSE]
  /\ spent = [unlocks |-> 0, locks |-> 0, ops |-> 0]
  /\ astray = NotAstray

Next ==
  \/ Resolve \/ Onboarded \/ Commit
  \/ \E a \in Attempts : \/ Press(a) \/ CeremonyEnds(a) \/ Unlock(a)
                         \/ KeyOpens(a) \/ BatchEnds(a) \/ Settle(a)
  \/ \E r \in list.reads : EndRead(r)
  \/ \E w \in Writes : QueueWrite(w) \/ Write(w) \/ NotifyStoreChanged(w)
  \/ LockButton \/ TimerFires \/ OsLock \/ SetAutoLock
  \/ Type \/ OpArrives \/ RouteOp
  \/ \E t \in Tabs : OpenReader(t) \/ Connect(t) \/ Show(t) \/ CloseTab(t)
  \/ \E c \in consumers : GetOp(c) \/ TakeOp(c)

\* React commits, storage answers and a batch runs to its end; nothing makes
\* the user or the operating system act.
Fairness ==
  /\ WF_vars(Commit)
  /\ WF_vars(\E r \in list.reads : EndRead(r))
  /\ \A a \in Attempts : WF_vars(Unlock(a)) /\ WF_vars(BatchEnds(a)) /\ WF_vars(Settle(a))
  /\ \A t \in Tabs : WF_vars(Show(t))

Spec == Init /\ [][Next]_vars /\ Fairness

\* Nothing tells one attempt from another (for runs without a liveness property).
AttemptsAlike == Permutations(Attempts)

-----------------------------------------------------------------------------
(* Properties *)

\* Behind the lock screen nothing is open but what an unlock in flight has
\* just opened (useMasterLock.ts:44).
LockedIsShut ==
  vault.phase = "locked" =>
    /\ ~keys.open /\ ~work.text
    /\ session => \E a \in Attempts : attempts[a].pc = "migrating"

\* No reader tab shows a message from the moment of the lock, whatever show
\* was in flight (useReaderTabs.ts:87).
LockedTabsAreBlank ==
  vault.phase = "locked" => \A t \in Tabs : readers.view[t] # "shown"

\* A vault stays "opening" until the lists and the keys of the unlock that
\* opened it are in; an earlier unlock that ends late does not settle it
\* (vault-phase.ts:32).  Of two passkey attempts that end in one opening,
\* either settles it for both.
SettledByItsOwnUnlock ==
  \A a \in Attempts :
    attempts[a].pc = "opening" /\ attempts[a].gen = vault.gen /\ Opened
      => vault.opening \/ astray.joined

\* An open vault has its session, unless a second passkey attempt, begun at a
\* lock screen that an opening and a lock have replaced, opened it.
OpenHasSession == Opened /\ vault.protection => session \/ astray.opened

\* What stands on the screen, the lock screen or the vault, is how things are.
ScreenIsTrue == LockedIsShut /\ OpenHasSession

\* What the lock screen's empty read left never stands as the user's keys in
\* a vault that has settled: a newer read is on its way (live-list.ts:62).  A
\* vault opened without its session has no keys to show.
SettledListsAreRead ==
  Opened /\ ~vault.opening /\ vault.protection =>
    list.shown = "items" \/ astray.opened \/ \E r \in list.reads : Newest(r)

\* An open vault with auto-lock has a timer running, unless the reset of an
\* unlock that ended while it was in use, with the setting of its own lock
\* screen, has cleared it.
OpenVaultHasTimer == InUse /\ vault.protection /\ autoLock => idleTimer \/ astray.reset

\* An unlock leaves "opening" in the end, or the vault is locked.
OpeningEnds == vault.opening ~> ~vault.opening

\* A selection is not kept in React state behind the lock screen
\* (usePendingOperation.ts:15).
NoSelectionBehindTheLock == vault.phase = "locked" /\ ~shown => ~op.taken

\* An open vault is never without its session, or it says "your keys are gone"
\* (VaultGate.tsx:176).
EveryVaultHasItsSession == Opened /\ vault.protection => session

\* While stores or master-sealed keys are still opening, the vault is "opening"
\* (vault-phase.ts:26).
OpeningCoversEveryUnlock ==
  \A a \in Attempts : attempts[a].pc = "opening" /\ attempts[a].gen = vault.gen /\ Opened
                        => vault.opening

\* "OS lock screen: always lock" (useAutoLock.ts:91): no unlock begun before
\* one opens the vault after it.
OsLockStopsUnlocks ==
  [][\A a \in Attempts : attempts[a].crossed /\ vault.phase = "locked"
                          => attempts'[a].pc # "opening"]_vars
=============================================================================
