--------------------------- MODULE VaultPanelProofs ---------------------------
(***************************************************************************)
(* What a lock takes back stays taken back, for any number of attempts,    *)
(* locks, writes and tabs.  Three inductive invariants: the types with the *)
(* counters that bound them, the reader tabs, and the screen.              *)
(***************************************************************************)
EXTENDS VaultPanel, TLAPS

\* The phase and the generations bound each other: a vault is opened once more
\* often than it is locked, and only a lock raises the keys' generation.
CountersAgree ==
  /\ vault.gen <= 2 * spent.locks + (IF Opened THEN 1 ELSE 0)
  /\ keys.gen <= spent.locks

TypeInv == TypeOK /\ CountersAgree

\* A refresh adds a read of its own and makes it the newest.
LEMMA RefreshedType ==
  ASSUME NEW l \in Lists, NEW open \in BOOLEAN
  PROVE  /\ Refreshed(l, open) \in Lists
         /\ Refreshed(l, open).gen = l.gen + 1
         /\ Refreshed(l, open).shown = l.shown
         /\ Refreshed(l, open).reads = l.reads \cup {[gen |-> l.gen + 1, open |-> open]}
<1>1. l.gen + 1 \in Nat /\ [gen |-> l.gen + 1, open |-> open] \in Reads
  BY DEF Lists, Reads
<1>2. l.reads \cup {[gen |-> l.gen + 1, open |-> open]} \in SUBSET Reads
  BY <1>1 DEF Lists
<1> QED
  BY <1>1, <1>2 DEF Lists, Refreshed

\* The values an attempt goes through.
LEMMA AttemptTypes ==
  ASSUME NEW x \in Attempt, NEW g \in Gen, NEW k \in Gen, NEW n \in Nat, NEW b \in BOOLEAN
  PROVE  /\ IdleAttempt \in Attempt
         /\ [IdleAttempt EXCEPT !.pc = "ceremony", !.mount = g, !.timer = b] \in Attempt
         /\ [x EXCEPT !.pc = "migrating"] \in Attempt
         /\ [IdleAttempt EXCEPT !.pc = "opening", !.gen = g, !.read = n, !.batch = b,
                                !.keysGen = k] \in Attempt
         /\ [x EXCEPT !.batch = FALSE] \in Attempt
         /\ [x EXCEPT !.crossed = TRUE] \in Attempt
<1>1. 0 \in Gen
  BY BoundsAssumption DEF Gen
<1>2. IdleAttempt \in Attempt
  BY <1>1 DEF IdleAttempt, Attempt
<1>3. \A y \in Attempt : [y EXCEPT !.pc = "ceremony"] \in Attempt
  BY DEF Attempt
<1>4. \A y \in Attempt : [y EXCEPT !.pc = "migrating"] \in Attempt
  BY DEF Attempt
<1>5. \A y \in Attempt : [y EXCEPT !.pc = "opening"] \in Attempt
  BY DEF Attempt
<1>6. \A y \in Attempt : [y EXCEPT !.mount = g] \in Attempt /\ [y EXCEPT !.gen = g] \in Attempt
  BY DEF Attempt
<1>7. \A y \in Attempt : [y EXCEPT !.timer = b] \in Attempt /\ [y EXCEPT !.batch = b] \in Attempt
  BY DEF Attempt
<1>8. \A y \in Attempt : [y EXCEPT !.read = n] \in Attempt /\ [y EXCEPT !.keysGen = k] \in Attempt
  BY DEF Attempt
<1>9. \A y \in Attempt : [y EXCEPT !.batch = FALSE] \in Attempt
                        /\ [y EXCEPT !.crossed = TRUE] \in Attempt
  BY DEF Attempt
<1>10. [[[IdleAttempt EXCEPT !.pc = "ceremony"] EXCEPT !.mount = g] EXCEPT !.timer = b] \in Attempt
  BY <1>2, <1>3, <1>6, <1>7
<1>11. [[[[[IdleAttempt EXCEPT !.pc = "opening"] EXCEPT !.gen = g] EXCEPT !.read = n]
          EXCEPT !.batch = b] EXCEPT !.keysGen = k] \in Attempt
  BY <1>2, <1>5, <1>6, <1>7, <1>8
<1> QED
  BY <1>2, <1>4, <1>9, <1>10, <1>11

LEMMA InitTypeInv == Init => TypeInv
<1> SUFFICES ASSUME Init PROVE TypeInv
  OBVIOUS
<1> USE BoundsAssumption DEF Init
<1>1. 0 \in Gen
  BY DEF Gen
<1>2. IdleAttempt \in Attempt
  BY <1>1 DEF IdleAttempt, Attempt
<1>3. list \in Lists
  <2>1. [shown |-> "nothing", gen |-> 0, reads |-> {}] \in Lists
    BY DEF Lists
  <2> QED
    BY <2>1, RefreshedType
<1>4. vault \in Vaults /\ keys \in [open : BOOLEAN, gen : Gen]
  BY <1>1 DEF Vaults
<1>5. readers \in ReaderTabs
  BY DEF ReaderTabs, Views
<1>6. spent \in [unlocks : 0 .. MaxUnlocks, locks : 0 .. MaxLocks, ops : 0 .. MaxOps]
  OBVIOUS
<1>7. TypeOK
  BY <1>2, <1>3, <1>4, <1>5, <1>6 DEF TypeOK, Strays, NotAstray
<1>8. CountersAgree
  BY DEF CountersAgree, Opened
<1> QED
  BY <1>7, <1>8 DEF TypeInv

\* useMasterLock's lock() keeps the types, and its generations are within the
\* bounds of one lock more.
LEMMA MasterLockTypes ==
  ASSUME TypeInv, MasterLock, spent.locks < MaxLocks,
         spent' = [spent EXCEPT !.locks = @ + 1]
  PROVE  /\ vault' \in Vaults
         /\ keys' \in [open : BOOLEAN, gen : Gen]
         /\ session' \in BOOLEAN
         /\ readers' \in ReaderTabs
         /\ op' \in [stored : BOOLEAN, taken : BOOLEAN]
         /\ consumers' = consumers
         /\ astray' \in Strays
         /\ work' \in [text : BOOLEAN, sealed : BOOLEAN]
         /\ spent' \in [unlocks : 0 .. MaxUnlocks, locks : 0 .. MaxLocks, ops : 0 .. MaxOps]
         /\ CountersAgree'
<1> USE BoundsAssumption DEF TypeInv, TypeOK, MasterLock
<1>1. spent' \in [unlocks : 0 .. MaxUnlocks, locks : 0 .. MaxLocks, ops : 0 .. MaxOps]
      /\ spent'.locks = spent.locks + 1
  OBVIOUS
<1>2. keys' \in [open : BOOLEAN, gen : Gen] /\ keys'.gen <= spent'.locks
  <2>1. keys.gen + 1 \in Gen
    BY DEF Gen, CountersAgree
  <2>2. keys.gen + 1 <= spent'.locks
    BY <1>1 DEF CountersAgree, Gen
  <2> QED
    BY <2>1, <2>2 DEF KeysLocked
<1>3. vault' \in Vaults /\ vault'.gen <= 2 * spent'.locks + (IF Opened' THEN 1 ELSE 0)
  <2>1. CASE vault.phase = "open"
    <3>1. vault.gen + 1 \in Gen /\ vault.gen + 1 <= 2 * spent'.locks
      BY <1>1, <2>1 DEF CountersAgree, Opened, Gen, Vaults
    <3>2. vault' = [phase |-> IF vault.protection THEN "locked" ELSE "open",
                    opening |-> FALSE, gen |-> vault.gen + 1, protection |-> vault.protection]
      BY <2>1 DEF Locked
    <3>3. vault.protection \in BOOLEAN
      BY DEF Vaults
    <3>4. vault' \in Vaults /\ vault'.gen = vault.gen + 1
      BY <3>1, <3>2, <3>3 DEF Vaults
    <3> QED
      BY <3>1, <3>4, <1>1 DEF Gen, Opened
  <2>2. CASE vault.phase # "open"
    BY <1>1, <2>2 DEF Locked, Gen, CountersAgree, Opened, Vaults
  <2> QED
    BY <2>1, <2>2
<1>4. readers' \in ReaderTabs
  BY DEF TabsLocked, Views, ReaderTabs
<1>5. op' \in [stored : BOOLEAN, taken : BOOLEAN] /\ work' \in [text : BOOLEAN, sealed : BOOLEAN]
  OBVIOUS
<1>6. astray' \in Strays
  BY DEF Strays, NotAstray
<1> QED
  BY <1>1, <1>2, <1>3, <1>4, <1>5, <1>6 DEF CountersAgree

\* Every step keeps the types and the counters.
LEMMA NextTypeInv == TypeInv /\ [Next]_vars => TypeInv'
<1> SUFFICES ASSUME TypeInv, [Next]_vars PROVE TypeInv'
  OBVIOUS
<1> USE BoundsAssumption DEF TypeInv, TypeOK
<1>1. CASE Resolve
  <2>1. vault' \in Vaults /\ vault'.gen = vault.gen /\ vault.phase # "open" /\ vault'.phase # "open"
    BY <1>1 DEF Resolve, Vaults
  <2> QED
    BY <1>1, <2>1 DEF Resolve, CountersAgree, Opened, panel
<1>2. CASE Onboarded
  <2>1. list' \in Lists
    BY <1>2, RefreshedType DEF Onboarded
  <2>2. vault.gen + 1 \in Gen /\ vault.gen + 1 <= 2 * spent.locks + 1
    BY <1>2 DEF Onboarded, Opened, CountersAgree, Gen, Vaults
  <2>3. vault' \in Vaults /\ vault'.gen = vault.gen + 1 /\ Opened'
    BY <1>2, <2>2 DEF Onboarded, Vaults, Opened
  <2> QED
    BY <1>2, <2>1, <2>2, <2>3 DEF Onboarded, CountersAgree, panel
<1>3. CASE Commit
  <2>1. readers' \in ReaderTabs
    BY <1>3 DEF Commit, ReadersAtCommit, TabsLocked, Connected, Views, ReaderTabs
  <2>2. consumers' \subseteq Consumer
    <3>1. \A c \in Consumer : [c EXCEPT !.aborted = TRUE] \in Consumer
      BY DEF Consumer
    <3>2. {[c EXCEPT !.aborted = TRUE] : c \in consumers} \subseteq Consumer
      BY <3>1
    <3>3. [pc |-> "get", aborted |-> FALSE] \in Consumer
      BY DEF Consumer
    <3> QED
      BY <1>3, <3>2, <3>3 DEF Commit, ConsumersAtCommit
  <2>3. work' \in [text : BOOLEAN, sealed : BOOLEAN]
    BY <1>3 DEF Commit, WorkAtCommit
  <2>4. shown' \in BOOLEAN /\ idleTimer' \in BOOLEAN
    BY <1>3 DEF Commit, ArmedByCommit, Opened
  <2>5. astray' \in Strays
    BY <1>3 DEF Commit, Strays
  <2> QED
    BY <1>3, <2>1, <2>2, <2>3, <2>4, <2>5 DEF Commit, Opened, CountersAgree
<1>4. ASSUME NEW a \in Attempts, Press(a)
      PROVE  TypeInv'
  <2>1. vault.gen \in Gen
    BY DEF Vaults
  <2>2. attempts' \in [Attempts -> Attempt]
    BY <1>4, <2>1, AttemptTypes DEF Press
  <2>3. spent' \in [unlocks : 0 .. MaxUnlocks, locks : 0 .. MaxLocks, ops : 0 .. MaxOps]
        /\ spent'.locks = spent.locks
    BY <1>4 DEF Press
  <2> QED
    BY <1>4, <2>2, <2>3 DEF Press, CountersAgree, Opened, panel
<1>5. ASSUME NEW a \in Attempts, CeremonyEnds(a)
      PROVE  TypeInv'
  <2>1. 0 \in Gen /\ attempts[a] \in Attempt
    BY DEF Gen
  <2>2. IdleAttempt \in Attempt /\ [attempts[a] EXCEPT !.pc = "migrating"] \in Attempt
    BY <2>1, AttemptTypes
  <2>3. attempts' \in [Attempts -> Attempt] /\ session' \in BOOLEAN
    <3>1. CASE attempts' = [attempts EXCEPT ![a] = IdleAttempt] /\ session' = session
      BY <2>2, <3>1
    <3>2. CASE attempts' = [attempts EXCEPT ![a] = [attempts[a] EXCEPT !.pc = "migrating"]]
               /\ session' = TRUE
      BY <2>2, <3>2
    <3> QED
      BY <1>5, <3>1, <3>2 DEF CeremonyEnds
  <2> QED
    BY <1>5, <2>3 DEF CeremonyEnds, CountersAgree, Opened, panel
<1>6. ASSUME NEW a \in Attempts, Unlock(a)
      PROVE  TypeInv'
  <2>1. vault' \in Vaults /\ vault'.gen <= 2 * spent.locks + (IF Opened' THEN 1 ELSE 0)
    <3>1. CASE vault.phase = "locked"
      <4>1. vault' = [phase |-> "open", opening |-> TRUE, gen |-> vault.gen + 1,
                      protection |-> vault.protection]
        BY <1>6, <3>1 DEF Unlock, Unlocking
      <4>2. vault.gen + 1 \in Gen /\ vault.gen + 1 <= 2 * spent.locks + 1 /\ vault.protection \in BOOLEAN
        BY <3>1 DEF CountersAgree, Opened, Gen, Vaults
      <4> QED
        BY <4>1, <4>2 DEF Vaults, Opened
    <3>2. CASE vault.phase # "locked"
      BY <1>6, <3>2 DEF Unlock, Unlocking, CountersAgree, Opened
    <3> QED
      BY <3>1, <3>2
  <2>2. list' \in Lists /\ list'.gen \in Nat
    BY <1>6, RefreshedType DEF Unlock, Lists
  <2>3. attempts[a] \in Attempt /\ vault'.gen \in Gen /\ keys.gen \in Gen /\ (Method = "passkey") \in BOOLEAN
    BY <2>1 DEF Vaults
  <2>4. [IdleAttempt EXCEPT !.pc = "opening", !.gen = vault'.gen, !.read = list'.gen,
                            !.batch = Method = "passkey", !.keysGen = keys.gen] \in Attempt
    BY <2>2, <2>3, AttemptTypes
  <2>5. attempts' \in [Attempts -> Attempt]
    BY <1>6, <2>4 DEF Unlock
  <2>6. idleTimer' \in BOOLEAN
    BY <1>6 DEF Unlock, Attempt
  <2>7. astray' \in Strays
    <3>1. Opened \in BOOLEAN /\ (attempts[a].mount # vault.gen) \in BOOLEAN /\ astray.opened \in BOOLEAN
      BY DEF Opened, Strays
    <3>2. (IF Opened THEN astray.opened ELSE attempts[a].mount # vault.gen) \in BOOLEAN
      BY <3>1
    <3>3. astray' = [opened |-> IF Opened THEN astray.opened ELSE attempts[a].mount # vault.gen,
                     joined |-> Opened, reset |-> shown]
      BY <1>6 DEF Unlock
    <3> QED
      BY <3>1, <3>2, <3>3 DEF Strays
  <2> QED
    BY <1>6, <2>1, <2>2, <2>5, <2>6, <2>7 DEF Unlock, CountersAgree
<1>7. ASSUME NEW a \in Attempts, KeyOpens(a)
      PROVE  TypeInv'
  <2>1. keys' \in [open : BOOLEAN, gen : Gen] /\ keys'.gen = keys.gen
    BY <1>7 DEF KeyOpens
  <2> QED
    BY <1>7, <2>1 DEF KeyOpens, CountersAgree, Opened, panel
<1>8. ASSUME NEW a \in Attempts, BatchEnds(a)
      PROVE  TypeInv'
  <2>1. 0 \in Gen /\ attempts[a] \in Attempt
    BY DEF Gen
  <2>2. [attempts[a] EXCEPT !.batch = FALSE] \in Attempt
    BY <2>1, AttemptTypes
  <2>3. attempts' \in [Attempts -> Attempt]
    BY <1>8, <2>2 DEF BatchEnds
  <2> QED
    BY <1>8, <2>3 DEF BatchEnds, CountersAgree, Opened, panel
<1>9. ASSUME NEW a \in Attempts, Settle(a)
      PROVE  TypeInv'
  <2>1. 0 \in Gen /\ attempts[a] \in Attempt
    BY DEF Gen
  <2>2. attempts' \in [Attempts -> Attempt]
    BY <1>9, <2>1, AttemptTypes DEF Settle
  <2>3. vault' \in Vaults /\ vault'.gen = vault.gen /\ vault'.phase = vault.phase
    BY <1>9 DEF Settle, Settled, Vaults
  <2> QED
    BY <1>9, <2>2, <2>3 DEF Settle, CountersAgree, Opened, panel
<1>10. ASSUME NEW r \in list.reads, EndRead(r)
       PROVE  TypeInv'
  <2> DEFINE found == IF ~r.open THEN "empty" ELSE IF session THEN "items" ELSE "error"
             shows == IF Newest(r) THEN found ELSE list.shown
  <2>1. shows \in {"nothing", "empty", "items", "error"} /\ list.reads \ {r} \in SUBSET Reads
    BY DEF Lists
  <2>2. \A l \in Lists : [l EXCEPT !.reads = list.reads \ {r}] \in Lists
    BY <2>1 DEF Lists
  <2>3. \A l \in Lists, s \in {"nothing", "empty", "items", "error"} : [l EXCEPT !.shown = s] \in Lists
    BY DEF Lists
  <2>4. list' = [[list EXCEPT !.reads = list.reads \ {r}] EXCEPT !.shown = shows]
    BY <1>10 DEF EndRead
  <2> HIDE DEF shows
  <2>5. list' \in Lists
    BY <2>1, <2>2, <2>3, <2>4
  <2> QED
    BY <1>10, <2>5 DEF EndRead, CountersAgree, Opened, panel
<1>11. ASSUME NEW w \in Writes, QueueWrite(w) \/ Write(w)
       PROVE  TypeInv'
  <2>1. writes' \in [Writes -> {"unused", "queued", "sealed", "done"}]
    BY <1>11 DEF QueueWrite, Write
  <2> QED
    BY <1>11, <2>1 DEF QueueWrite, Write, CountersAgree, Opened, panel
<1>12. ASSUME NEW w \in Writes, NotifyStoreChanged(w)
       PROVE  TypeInv'
  <2>1. list' \in Lists
    BY <1>12, RefreshedType DEF NotifyStoreChanged
  <2>2. writes' \in [Writes -> {"unused", "queued", "sealed", "done"}]
    BY <1>12 DEF NotifyStoreChanged
  <2> QED
    BY <1>12, <2>1, <2>2 DEF NotifyStoreChanged, CountersAgree, Opened, panel
<1>13. CASE LockButton \/ TimerFires
  <2>1. MasterLock /\ spent.locks < MaxLocks /\ spent' = [spent EXCEPT !.locks = @ + 1]
    BY <1>13 DEF LockButton, TimerFires
  <2> QED
    BY <1>13, <2>1, MasterLockTypes DEF LockButton, TimerFires
<1>14. CASE OsLock
  <2>1. attempts' \in [Attempts -> Attempt]
    <3>1. 0 \in Gen
      BY DEF Gen
    <3>2. \A a \in Attempts : [attempts[a] EXCEPT !.crossed = TRUE] \in Attempt
      BY <3>1, AttemptTypes
    <3> QED
      BY <1>14, <3>2 DEF OsLock
  <2>2. CASE shown
    <3>1. MasterLock /\ spent.locks < MaxLocks /\ spent' = [spent EXCEPT !.locks = @ + 1]
      BY <1>14, <2>2 DEF OsLock
    <3> QED
      BY <1>14, <2>1, <3>1, MasterLockTypes DEF OsLock
  <2>3. CASE ~shown
    <3>1. spent' \in [unlocks : 0 .. MaxUnlocks, locks : 0 .. MaxLocks, ops : 0 .. MaxOps]
          /\ spent'.locks = spent.locks + 1
      BY <1>14 DEF OsLock
    <3>2. keys.gen + 1 \in Gen /\ keys.gen + 1 <= spent.locks + 1 /\ keys.gen <= spent.locks + 1
      BY <1>14 DEF OsLock, CountersAgree, Gen
    <3>3. keys' \in [open : BOOLEAN, gen : Gen] /\ keys'.gen <= spent'.locks
      <4>1. CASE keys' = keys
        BY <3>1, <3>2, <4>1
      <4>2. CASE keys' = [open |-> FALSE, gen |-> keys.gen + 1]
        BY <3>1, <3>2, <4>2
      <4> QED
        BY <1>14, <2>3, <4>1, <4>2 DEF OsLock, KeysLocked
    <3>4. vault' = vault
      BY <1>14, <2>3 DEF OsLock
    <3>5. vault'.gen <= 2 * spent'.locks + (IF Opened' THEN 1 ELSE 0)
      BY <3>1, <3>4 DEF CountersAgree, Opened, Vaults, Gen
    <3> QED
      BY <1>14, <2>1, <2>3, <3>1, <3>3, <3>4, <3>5 DEF OsLock, CountersAgree, panel
  <2> QED
    BY <2>2, <2>3
<1>15. CASE SetAutoLock
  <2>1. astray' \in Strays
    BY <1>15 DEF SetAutoLock, Strays
  <2> QED
    BY <1>15, <2>1 DEF SetAutoLock, CountersAgree, Opened
<1>16. CASE Type \/ OpArrives \/ RouteOp
  <2>1. work' \in [text : BOOLEAN, sealed : BOOLEAN]
    <3>1. (shown \/ work.text) \in BOOLEAN
      OBVIOUS
    <3>2. work' \in {work, [work EXCEPT !.text = TRUE],
                    [text |-> shown \/ work.text, sealed |-> FALSE]}
      BY <1>16 DEF Type, OpArrives, RouteOp, rest
    <3>3. CASE work' = work
      BY <3>3
    <3>4. CASE work' = [work EXCEPT !.text = TRUE]
      BY <3>4
    <3>5. CASE work' = [text |-> shown \/ work.text, sealed |-> FALSE]
      BY <3>1, <3>5
    <3> QED
      BY <3>2, <3>3, <3>4, <3>5
  <2>2. consumers' \subseteq consumers \cup {[pc |-> "get", aborted |-> FALSE]}
    BY <1>16 DEF Type, OpArrives, RouteOp, rest
  <2>4. op' \in [stored : BOOLEAN, taken : BOOLEAN]
    <3>1. op' \in {op, [op EXCEPT !.stored = TRUE], [op EXCEPT !.taken = ~shown]}
      BY <1>16 DEF Type, OpArrives, RouteOp, rest
    <3>2. CASE op' = op
      BY <3>2
    <3>3. CASE op' = [op EXCEPT !.stored = TRUE]
      BY <3>3
    <3>4. CASE op' = [op EXCEPT !.taken = ~shown]
      BY <3>4
    <3> QED
      BY <3>1, <3>2, <3>3, <3>4
  <2>5. consumers' \subseteq Consumer
    <3>1. [pc |-> "get", aborted |-> FALSE] \in Consumer
      BY DEF Consumer
    <3> QED
      BY <2>2, <3>1
  <2>3. spent' \in [unlocks : 0 .. MaxUnlocks, locks : 0 .. MaxLocks, ops : 0 .. MaxOps]
        /\ spent'.locks = spent.locks
    BY <1>16 DEF Type, OpArrives, RouteOp, rest
  <2> QED
    BY <1>16, <2>1, <2>3, <2>4, <2>5 DEF Type, OpArrives, RouteOp, rest, CountersAgree, Opened
<1>17. ASSUME NEW t \in Tabs, OpenReader(t) \/ Connect(t) \/ Show(t) \/ CloseTab(t)
       PROVE  TypeInv'
  <2>1. \A r \in ReaderTabs, v \in Views : [r EXCEPT !.view[t] = v] \in ReaderTabs
    BY DEF ReaderTabs
  <2>2. \A r \in ReaderTabs, S \in SUBSET Tabs : [r EXCEPT !.shows = S] \in ReaderTabs
    BY DEF ReaderTabs
  <2>3. readers.view[t] \in Views /\ readers.shows \subseteq Tabs
        /\ {"opening", "blank", "shown", "locked", "none"} \subseteq Views
    BY DEF ReaderTabs, Views
  <2>4. readers' \in ReaderTabs
    <3>1. CASE OpenReader(t)
      BY <2>1, <2>3, <3>1 DEF OpenReader
    <3>2. CASE Connect(t)
      BY <2>1, <2>2, <2>3, <3>2 DEF Connect
    <3>3. CASE Show(t)
      BY <2>1, <2>2, <2>3, <3>3 DEF Show
    <3>4. CASE CloseTab(t)
      BY <2>1, <2>2, <2>3, <3>4 DEF CloseTab
    <3> QED
      BY <1>17, <3>1, <3>2, <3>3, <3>4
  <2> QED
    BY <1>17, <2>4 DEF OpenReader, Connect, Show, CloseTab, rest, CountersAgree, Opened
<1>18. ASSUME NEW c \in consumers, GetOp(c) \/ TakeOp(c)
       PROVE  TypeInv'
  <2>1. [c EXCEPT !.pc = "remove"] \in Consumer
    BY DEF Consumer
  <2>2. consumers' \subseteq Consumer
    <3>1. {d \in {[c EXCEPT !.pc = "remove"]} : op.stored} \subseteq Consumer
      BY <2>1
    <3>2. consumers' \subseteq consumers \cup {d \in {[c EXCEPT !.pc = "remove"]} : op.stored}
      BY <1>18 DEF GetOp, TakeOp
    <3> QED
      BY <3>1, <3>2
  <2>3. op' \in [stored : BOOLEAN, taken : BOOLEAN]
    <3>1. CASE op' = op
      BY <3>1
    <3>2. CASE op' = [stored |-> FALSE, taken |-> op.taken \/ ~c.aborted]
      <4>1. (op.taken \/ ~c.aborted) \in BOOLEAN
        OBVIOUS
      <4> QED
        BY <3>2, <4>1
    <3> QED
      BY <1>18, <3>1, <3>2 DEF GetOp, TakeOp
  <2> QED
    BY <1>18, <2>2, <2>3 DEF GetOp, TakeOp, rest, CountersAgree, Opened
<1>19. CASE UNCHANGED vars
  BY <1>19 DEF vars, CountersAgree, Opened, panel
<1> QED
  BY <1>1, <1>2, <1>3, <1>4, <1>5, <1>6, <1>7, <1>8, <1>9, <1>10, <1>11, <1>12, <1>13,
     <1>14, <1>15, <1>16, <1>17, <1>18, <1>19 DEF Next

\* The panel's state keeps its types, and neither the vault's nor the keys'
\* generation outruns the locks that raise it.
THEOREM PanelTypes == Spec => []TypeOK
<1>1. Spec => []TypeInv
  BY InitTypeInv, NextTypeInv, PTL DEF Spec
<1>2. TypeInv => TypeOK
  BY DEF TypeInv
<1> QED
  BY <1>1, <1>2, PTL
-----------------------------------------------------------------------------
(* Reader tabs *)

\* Outside an open vault nothing is shown and nothing may be.
TabsInv == ~Opened => ~readers.allowed /\ \A t \in Tabs : readers.view[t] # "shown"

\* A lock tells every connected tab, and no tab shows before it is connected.
LEMMA TabsLockedShowNothing ==
  ASSUME readers \in ReaderTabs
  PROVE  /\ TabsLocked(readers).allowed = FALSE
         /\ \A t \in Tabs : TabsLocked(readers).view[t] # "shown"
BY DEF TabsLocked, Connected, ReaderTabs

LEMMA NextTabsInv == TypeOK /\ TabsInv /\ [Next]_vars => TabsInv'
<1> SUFFICES ASSUME TypeOK, TabsInv, [Next]_vars PROVE TabsInv'
  OBVIOUS
<1> USE DEF TabsInv, Opened
<1>1. CASE UNCHANGED readers /\ (vault.phase = "open" => vault'.phase = "open")
  BY <1>1
<1>2. CASE readers' = TabsLocked(readers)
  BY <1>2, TabsLockedShowNothing DEF TypeOK
<1>3. CASE MasterLock
  BY <1>2, <1>3 DEF MasterLock
<1>4. CASE Commit
  <2>1. vault' = vault
    BY <1>4 DEF Commit
  <2> QED
    BY <1>2, <1>4, <2>1 DEF Commit, ReadersAtCommit
<1>5. CASE OsLock
  <2>1. CASE shown
    BY <1>3, <1>5, <2>1 DEF OsLock
  <2>2. CASE ~shown
    BY <1>1, <1>5, <2>2 DEF OsLock, panel
  <2> QED
    BY <2>1, <2>2
<1>6. CASE Resolve \/ Onboarded
  BY <1>1, <1>6 DEF Resolve, Onboarded, panel
<1>7. ASSUME NEW a \in Attempts,
             Press(a) \/ CeremonyEnds(a) \/ Unlock(a) \/ KeyOpens(a) \/ BatchEnds(a) \/ Settle(a)
      PROVE  TabsInv'
  <2>1. UNCHANGED readers
    BY <1>7 DEF Press, CeremonyEnds, Unlock, KeyOpens, BatchEnds, Settle, panel
  <2>2. vault' \in {vault, Unlocking(vault), Settled(vault, attempts[a].gen)}
    BY <1>7 DEF Press, CeremonyEnds, Unlock, KeyOpens, BatchEnds, Settle
  <2>3. vault.phase = "open" => vault'.phase = "open"
    BY <2>2 DEF Unlocking, Settled, TypeOK, Vaults
  <2> QED
    BY <1>1, <2>1, <2>3
<1>8. ASSUME NEW r \in list.reads, EndRead(r)
      PROVE  TabsInv'
  BY <1>1, <1>8 DEF EndRead, panel
<1>9. ASSUME NEW w \in Writes, QueueWrite(w) \/ Write(w) \/ NotifyStoreChanged(w)
      PROVE  TabsInv'
  BY <1>1, <1>9 DEF QueueWrite, Write, NotifyStoreChanged, panel
<1>10. CASE LockButton \/ TimerFires
  BY <1>3, <1>10 DEF LockButton, TimerFires
<1>11. CASE SetAutoLock \/ Type \/ OpArrives \/ RouteOp
  BY <1>1, <1>11 DEF SetAutoLock, Type, OpArrives, RouteOp, rest, panel
<1>12. ASSUME NEW t \in Tabs, OpenReader(t) \/ Connect(t) \/ Show(t) \/ CloseTab(t)
       PROVE  TabsInv'
  <2> SUFFICES ASSUME vault.phase # "open"
               PROVE  ~readers'.allowed /\ \A u \in Tabs : readers'.view[u] # "shown"
    BY <1>12 DEF OpenReader, Connect, Show, CloseTab, rest
  <2> USE DEF TypeOK, ReaderTabs
  <2>1. CASE OpenReader(t)
    BY <2>1 DEF OpenReader, InUse
  <2>2. CASE Connect(t)
    BY <2>2 DEF Connect
  <2>3. CASE Show(t)
    BY <2>3 DEF Show, MayPost
  <2>4. CASE CloseTab(t)
    BY <2>4 DEF CloseTab
  <2> QED
    BY <1>12, <2>1, <2>2, <2>3, <2>4
<1>13. ASSUME NEW c \in consumers, GetOp(c) \/ TakeOp(c)
       PROVE  TabsInv'
  BY <1>1, <1>13 DEF GetOp, TakeOp, rest
<1>14. CASE UNCHANGED vars
  BY <1>1, <1>14 DEF vars
<1> QED
  BY <1>4, <1>5, <1>6, <1>7, <1>8, <1>9, <1>10, <1>11, <1>12, <1>13, <1>14 DEF Next

\* From the moment of a lock no reader tab shows a message, whatever show was
\* in flight: the permission is gone before the tabs are told.
THEOREM LockedTabsStayBlank == Spec => []LockedTabsAreBlank
<1>1. Init => TabsInv
  BY DEF Init, TabsInv
<1>2. Spec => []TabsInv
  BY <1>1, NextTabsInv, PanelTypes, PTL DEF Spec
<1>3. TabsInv => LockedTabsAreBlank
  BY DEF TabsInv, LockedTabsAreBlank, Opened
<1> QED
  BY <1>2, <1>3, PTL

-----------------------------------------------------------------------------
(* The screen *)

\* An attempt on its way in was begun at the lock screen there is, and has its
\* session once it is past its ceremony, or at an earlier one.
EnteringIsBehind ==
  \A a \in Attempts : Entering(a) =>
    /\ vault.phase \in {"locked", "open"} /\ attempts[a].mount <= vault.gen
    /\ attempts[a].mount = vault.gen =>
         /\ vault.phase = "locked" /\ ~shown
         /\ attempts[a].pc = "migrating" => session

\* An attempt that has opened the vault belongs to a past or the present
\* opening, no two to the present one unless one joined the other, and its
\* keys' generation is out of date once the vault is locked.
OpeningIsPast ==
  \A a \in Attempts : attempts[a].pc = "opening" =>
    /\ vault.phase \in {"locked", "open"} /\ attempts[a].gen <= vault.gen
    /\ vault.phase = "locked" => attempts[a].keysGen < keys.gen
    /\ attempts[a].keysGen <= keys.gen

OpeningIsAlone ==
  \A a, b \in Attempts :
    /\ a # b /\ attempts[a].pc = "opening" /\ attempts[b].pc = "opening"
    /\ attempts[a].gen = vault.gen /\ attempts[b].gen = vault.gen /\ Opened
    => astray.joined

\* Before the vault is in use, and again behind the lock screen.
ShutIsShut ==
  /\ ~Opened => ~keys.open /\ ~work.text
  /\ ~shown => ~work.text
  /\ ~Opened /\ ~shown => ~idleTimer
  /\ vault.phase \in {"loading", "onboarding"} => ~shown /\ ~session

SessionIsEntering ==
  vault.phase = "locked" /\ session => \E a \in Attempts : attempts[a].pc = "migrating"

\* The newest read of an open vault's list was begun with a session, when the
\* vault was opened with one.
NewestReadHasSession ==
  Opened /\ vault.protection /\ ~astray.opened =>
    /\ \A r \in list.reads : r.gen = list.gen => r.open
    /\ list.shown = "items" \/ \E r \in list.reads : r.gen = list.gen

NoReadIsAhead == \A r \in list.reads : r.gen <= list.gen

ScreenInv ==
  /\ EnteringIsBehind /\ OpeningIsPast /\ OpeningIsAlone /\ SettledByItsOwnUnlock
  /\ ShutIsShut /\ SessionIsEntering /\ OpenHasSession
  /\ NewestReadHasSession /\ NoReadIsAhead /\ OpenVaultHasTimer

\* A step that leaves what the screen depends on alone, but for the text of a
\* workspace in use.
LEMMA QuietScreen ==
  ASSUME ScreenInv,
         UNCHANGED <<vault, shown, session, keys, attempts, idleTimer, autoLock, list, astray>>,
         work'.text => work.text \/ InUse
  PROVE  ScreenInv'
<1> USE DEF ScreenInv
<1>1. EnteringIsBehind' /\ OpeningIsPast' /\ OpeningIsAlone' /\ SettledByItsOwnUnlock'
  BY DEF EnteringIsBehind, Entering, OpeningIsPast, OpeningIsAlone, SettledByItsOwnUnlock, Opened
<1>2. ShutIsShut' /\ SessionIsEntering' /\ OpenHasSession'
  BY DEF ShutIsShut, SessionIsEntering, OpenHasSession, Opened, InUse
<1>3. NewestReadHasSession' /\ NoReadIsAhead' /\ OpenVaultHasTimer'
  BY DEF NewestReadHasSession, NoReadIsAhead, OpenVaultHasTimer, Opened, InUse
<1> QED
  BY <1>1, <1>2, <1>3

\* A refresh with the session as it is, in an open vault.
LEMMA RefreshedRead ==
  ASSUME list \in Lists, session \in BOOLEAN, NoReadIsAhead,
         list' = Refreshed(list, session)
  PROVE  /\ NoReadIsAhead'
         /\ session => \A r \in list'.reads : r.gen = list'.gen => r.open
         /\ \E r \in list'.reads : r.gen = list'.gen
<1>1. list'.gen = list.gen + 1 /\ list.gen \in Nat
      /\ list'.reads = list.reads \cup {[gen |-> list.gen + 1, open |-> session]}
  BY RefreshedType DEF Lists
<1>2. \A r \in list.reads : r.gen \in Nat /\ r.gen <= list.gen
  BY DEF Lists, Reads, NoReadIsAhead
<1>3. NoReadIsAhead'
  BY <1>1, <1>2 DEF NoReadIsAhead
<1>4. session => \A r \in list'.reads : r.gen = list'.gen => r.open
  BY <1>1, <1>2
<1>5. [gen |-> list.gen + 1, open |-> session] \in list'.reads
  BY <1>1
<1> QED
  BY <1>1, <1>3, <1>4, <1>5

\* The steps of a list and its writes.
LEMMA ListScreen ==
  ASSUME TypeOK, ScreenInv,
         \/ \E r \in list.reads : EndRead(r)
         \/ \E w \in Writes : QueueWrite(w) \/ Write(w) \/ NotifyStoreChanged(w)
  PROVE  ScreenInv'
<1> USE DEF ScreenInv
<1>1. UNCHANGED <<vault, shown, session, keys, attempts, idleTimer, autoLock, work, astray>>
  BY DEF EndRead, QueueWrite, Write, NotifyStoreChanged, panel
<1>2. CASE UNCHANGED list
  BY <1>1, <1>2, QuietScreen
<1>3. NewestReadHasSession' /\ NoReadIsAhead' => ScreenInv'
  <2>1. EnteringIsBehind' /\ OpeningIsPast' /\ OpeningIsAlone' /\ SettledByItsOwnUnlock'
    BY <1>1 DEF EnteringIsBehind, Entering, OpeningIsPast, OpeningIsAlone, SettledByItsOwnUnlock,
                Opened
  <2>2. ShutIsShut' /\ SessionIsEntering' /\ OpenHasSession' /\ OpenVaultHasTimer'
    BY <1>1 DEF ShutIsShut, SessionIsEntering, OpenHasSession, OpenVaultHasTimer, Opened, InUse
  <2> QED
    BY <2>1, <2>2
<1>4. ASSUME NEW r \in list.reads, EndRead(r)
      PROVE  NewestReadHasSession' /\ NoReadIsAhead'
  <2>1. list' = [list EXCEPT !.reads = list.reads \ {r},
                             !.shown = IF Newest(r)
                                       THEN IF ~r.open THEN "empty"
                                            ELSE IF session THEN "items" ELSE "error"
                                       ELSE list.shown]
    BY <1>4 DEF EndRead
  <2>2. list'.gen = list.gen /\ list'.reads = list.reads \ {r}
    BY <2>1 DEF TypeOK, Lists
  <2>3. NoReadIsAhead'
    BY <2>2 DEF NoReadIsAhead
  <2>4. CASE Newest(r)
    <3>1. list'.shown = IF ~r.open THEN "empty" ELSE IF session THEN "items" ELSE "error"
      BY <2>1, <2>4 DEF TypeOK, Lists
    <3> QED
      BY <1>1, <2>2, <2>3, <2>4, <3>1 DEF NewestReadHasSession, Newest, OpenHasSession, Opened
  <2>5. CASE ~Newest(r)
    <3>1. list'.shown = list.shown
      BY <2>1, <2>5 DEF TypeOK, Lists
    <3> QED
      BY <1>1, <2>2, <2>3, <2>5, <3>1 DEF NewestReadHasSession, Newest, OpenHasSession, Opened
  <2> QED
    BY <2>4, <2>5
<1>5. ASSUME NEW w \in Writes, NotifyStoreChanged(w)
      PROVE  NewestReadHasSession' /\ NoReadIsAhead'
  <2>1. list' = Refreshed(list, session)
    BY <1>5 DEF NotifyStoreChanged
  <2> QED
    BY <1>1, <2>1, RefreshedRead DEF NewestReadHasSession, OpenHasSession, Opened, TypeOK
<1> QED
  BY <1>2, <1>3, <1>4, <1>5 DEF QueueWrite, Write

\* The lock screen's button: attempts past their ceremony are left alone.
LEMMA PressScreen ==
  ASSUME TypeOK, ScreenInv, NEW a \in Attempts, Press(a)
  PROVE  ScreenInv'
<1> USE DEF ScreenInv
<1>1. UNCHANGED <<vault, shown, session, keys, idleTimer, autoLock, list, work, astray>>
      /\ vault.phase = "locked" /\ ~shown /\ attempts[a].pc = "idle"
  BY DEF Press, panel, Idle
<1>2. attempts'[a].pc = "ceremony" /\ attempts'[a].mount = vault.gen
  BY DEF Press, IdleAttempt
<1>3. \A b \in Attempts \ {a} : \/ attempts'[b] = attempts[b]
                                \/ attempts[b].pc = "ceremony" /\ attempts'[b].pc = "idle"
  BY DEF Press, IdleAttempt
<1>4. EnteringIsBehind'
  <2>1. vault.gen \in Nat
    BY BoundsAssumption DEF TypeOK, Vaults, Gen
  <2> QED
    BY <1>1, <1>2, <1>3, <2>1 DEF EnteringIsBehind, Entering
<1>5. OpeningIsPast'
  BY <1>1, <1>2, <1>3 DEF OpeningIsPast
<1>6. OpeningIsAlone' /\ SettledByItsOwnUnlock' /\ NewestReadHasSession' /\ OpenVaultHasTimer'
      /\ OpenHasSession'
  BY <1>1 DEF OpeningIsAlone, SettledByItsOwnUnlock, NewestReadHasSession, OpenVaultHasTimer,
              OpenHasSession, Opened, InUse
<1>7. ShutIsShut' /\ NoReadIsAhead'
  BY <1>1 DEF ShutIsShut, NoReadIsAhead, Opened
<1>8. SessionIsEntering'
  <2>1. \A b \in Attempts : attempts[b].pc = "migrating" => attempts'[b].pc = "migrating"
    BY <1>1, <1>3
  <2> QED
    BY <1>1, <2>1 DEF SessionIsEntering
<1> QED
  BY <1>4, <1>5, <1>6, <1>7, <1>8

\* A ceremony fails, or ends with a session, behind the lock screen or in front
\* of a vault that another attempt has opened.
LEMMA CeremonyScreen ==
  ASSUME TypeOK, ScreenInv, NEW a \in Attempts, CeremonyEnds(a)
  PROVE  ScreenInv'
<1> USE DEF ScreenInv
<1>1. UNCHANGED <<vault, shown, keys, idleTimer, autoLock, list, work, astray>>
      /\ attempts[a].pc = "ceremony" /\ (session => session')
  BY DEF CeremonyEnds, panel, TypeOK
<1>2. vault.phase \in {"locked", "open"}
  BY <1>1 DEF EnteringIsBehind, Entering
<1>3. \A b \in Attempts \ {a} : attempts'[b] = attempts[b]
  BY DEF CeremonyEnds, TypeOK
<1>4. \/ attempts'[a].pc = "idle" /\ session' = session
      \/ attempts'[a].pc = "migrating" /\ attempts'[a].mount = attempts[a].mount /\ session' = TRUE
  <2>1. CASE attempts' = [attempts EXCEPT ![a] = IdleAttempt] /\ session' = session
    BY <2>1 DEF TypeOK, IdleAttempt
  <2>2. CASE attempts' = [attempts EXCEPT ![a].pc = "migrating"] /\ session' = TRUE
    BY <2>2 DEF TypeOK, Attempt
  <2> QED
    BY <2>1, <2>2 DEF CeremonyEnds
<1>5. EnteringIsBehind'
  BY <1>1, <1>3, <1>4 DEF EnteringIsBehind, Entering
<1>6. OpeningIsPast'
  BY <1>1, <1>3, <1>4 DEF OpeningIsPast
<1>7. OpeningIsAlone' /\ SettledByItsOwnUnlock'
  BY <1>1, <1>3, <1>4 DEF OpeningIsAlone, SettledByItsOwnUnlock, Opened
<1>8. NewestReadHasSession' /\ OpenVaultHasTimer' /\ OpenHasSession'
  BY <1>1 DEF NewestReadHasSession, OpenVaultHasTimer, OpenHasSession, Opened, InUse
<1>9. ShutIsShut' /\ NoReadIsAhead'
  BY <1>1, <1>2 DEF ShutIsShut, NoReadIsAhead, Opened
<1>10. SessionIsEntering'
  BY <1>1, <1>3, <1>4 DEF SessionIsEntering
<1> QED
  BY <1>5, <1>6, <1>7, <1>8, <1>9, <1>10

\* The unlock opens the vault, with a generation of its own, or joins an
\* opening.
LEMMA UnlockScreen ==
  ASSUME TypeOK, ScreenInv, NEW a \in Attempts, Unlock(a)
  PROVE  ScreenInv'
<1> USE DEF ScreenInv
<1>1. UNCHANGED <<shown, session, keys, autoLock, work>>
  BY DEF Unlock
<1>2. vault.phase \in {"locked", "open"} /\ vault.gen \in Nat
  BY BoundsAssumption DEF Unlock, EnteringIsBehind, Entering, TypeOK, Vaults, Gen
<1>3. astray' = [opened |-> IF Opened THEN astray.opened ELSE attempts[a].mount # vault.gen,
                 joined |-> Opened, reset |-> shown]
  BY DEF Unlock
<1>4. \/ vault.phase = "locked" /\ vault' = [phase |-> "open", opening |-> TRUE, gen |-> vault.gen + 1,
                                           protection |-> vault.protection]
      \/ vault.phase = "open" /\ vault' = vault
  BY <1>2 DEF Unlock, Unlocking
<1>5. /\ vault'.phase = "open" /\ vault'.gen \in Nat /\ vault.gen <= vault'.gen
      /\ vault'.protection = vault.protection
      /\ vault.phase = "locked" => vault'.gen = vault.gen + 1 /\ vault'.opening
  BY <1>2, <1>4
<1>6. /\ attempts'[a].pc = "opening" /\ attempts'[a].gen = vault'.gen
      /\ attempts'[a].keysGen = keys.gen
      /\ \A b \in Attempts \ {a} : attempts'[b] = attempts[b]
  <2> DEFINE opening == [IdleAttempt EXCEPT !.pc = "opening", !.gen = vault'.gen, !.read = list'.gen,
                                            !.batch = Method = "passkey", !.keysGen = keys.gen]
  <2>1. attempts' = [attempts EXCEPT ![a] = opening]
    BY DEF Unlock
  <2>2. opening.pc = "opening"
    BY DEF IdleAttempt
  <2>3. opening.gen = vault'.gen
    BY DEF IdleAttempt
  <2>4. opening.keysGen = keys.gen
    BY DEF IdleAttempt
  <2> HIDE DEF opening
  <2> QED
    BY <2>1, <2>2, <2>3, <2>4 DEF TypeOK
<1>7. \A b \in Attempts : attempts[b].gen \in Nat /\ attempts[b].mount \in Nat
      /\ attempts[b].keysGen \in Nat /\ keys.gen \in Nat
  BY BoundsAssumption DEF TypeOK, Attempt, Gen
<1>8. EnteringIsBehind'
  <2> SUFFICES ASSUME NEW b \in Attempts, Entering(b)'
               PROVE  /\ vault'.phase \in {"locked", "open"} /\ attempts'[b].mount <= vault'.gen
                      /\ attempts'[b].mount # vault'.gen
    BY DEF EnteringIsBehind
  <2>1. b # a /\ attempts'[b] = attempts[b] /\ Entering(b)
    BY <1>6 DEF Entering
  <2>2. attempts[b].mount <= vault.gen /\ (attempts[b].mount = vault.gen => vault.phase = "locked")
    BY <2>1 DEF EnteringIsBehind
  <2> QED
    BY <1>2, <1>4, <1>5, <1>7, <2>1, <2>2
<1>9. OpeningIsPast'
  <2> SUFFICES ASSUME NEW b \in Attempts, attempts'[b].pc = "opening"
               PROVE  attempts'[b].gen <= vault'.gen /\ attempts'[b].keysGen <= keys.gen
    BY <1>1, <1>5 DEF OpeningIsPast
  <2>1. CASE b = a
    BY <1>5, <1>6, <1>7, <2>1
  <2>2. CASE b # a
    <3>1. attempts'[b] = attempts[b] /\ attempts[b].gen <= vault.gen /\ attempts[b].keysGen <= keys.gen
      BY <1>6, <2>2 DEF OpeningIsPast
    <3> QED
      BY <1>2, <1>5, <1>7, <3>1
  <2> QED
    BY <2>1, <2>2
<1>10. OpeningIsAlone'
  <2>1. CASE Opened
    BY <1>3, <2>1 DEF OpeningIsAlone
  <2>2. CASE ~Opened
    <3>1. vault'.gen = vault.gen + 1
      BY <1>2, <1>5, <2>2 DEF Opened
    <3>2. \A b \in Attempts \ {a} : attempts'[b].pc = "opening" => attempts'[b].gen # vault'.gen
      BY <1>2, <1>6, <1>7, <3>1 DEF OpeningIsPast
    <3> QED
      BY <3>2 DEF OpeningIsAlone
  <2> QED
    BY <2>1, <2>2
<1>11. SettledByItsOwnUnlock'
  BY <1>2, <1>3, <1>5 DEF SettledByItsOwnUnlock, Opened
<1>12. SessionIsEntering' /\ ShutIsShut'
  BY <1>1, <1>5 DEF SessionIsEntering, ShutIsShut, Opened
<1>13. OpenHasSession'
  <2>1. CASE vault.phase = "open"
    <3>1. astray'.opened = astray.opened /\ vault' = vault
      BY <1>3, <1>4, <2>1 DEF Opened
    <3> QED
      BY <1>1, <3>1 DEF OpenHasSession, Opened
  <2>2. CASE vault.phase = "locked"
    <3>1. astray'.opened = (attempts[a].mount # vault.gen)
      BY <1>3, <2>2 DEF Opened
    <3>2. attempts[a].mount = vault.gen => session
      BY DEF Unlock, EnteringIsBehind, Entering
    <3> QED
      BY <1>1, <3>1, <3>2 DEF OpenHasSession
  <2> QED
    BY <1>2, <2>1, <2>2
<1>14. NewestReadHasSession' /\ NoReadIsAhead'
  <2>1. list' = Refreshed(list, session)
    BY DEF Unlock
  <2>2. vault'.protection /\ ~astray'.opened => session
    BY <1>1, <1>5, <1>13 DEF OpenHasSession, Opened
  <2> QED
    BY <2>1, <2>2, RefreshedRead DEF NewestReadHasSession, TypeOK
<1>15. OpenVaultHasTimer'
  BY <1>1, <1>3 DEF OpenVaultHasTimer, InUse
<1> QED
  BY <1>8, <1>9, <1>10, <1>11, <1>12, <1>13, <1>14, <1>15

\* The steps of an attempt that has opened the vault: only one of the present
\* opening settles it.
LEMMA OpeningScreen ==
  ASSUME TypeOK, ScreenInv, NEW a \in Attempts, KeyOpens(a) \/ BatchEnds(a) \/ Settle(a)
  PROVE  ScreenInv'
<1> USE DEF ScreenInv
<1>1. UNCHANGED <<shown, session, idleTimer, autoLock, list, work, astray>>
  BY DEF KeyOpens, BatchEnds, Settle, panel
<1>2. attempts[a].pc = "opening" /\ vault.phase \in {"locked", "open"}
  BY DEF KeyOpens, BatchEnds, Settle, OpeningIsPast
<1>3. /\ \A b \in Attempts \ {a} : attempts'[b] = attempts[b]
      /\ attempts'[a].pc = "idle" \/ /\ attempts'[a].pc = "opening"
                                     /\ attempts'[a].gen = attempts[a].gen
                                     /\ attempts'[a].keysGen = attempts[a].keysGen
  <2>1. CASE KeyOpens(a)
    BY <1>2, <2>1 DEF KeyOpens
  <2>2. CASE BatchEnds(a)
    <3>1. attempts' = [attempts EXCEPT ![a] = [attempts[a] EXCEPT !.batch = FALSE]]
          /\ attempts[a] \in Attempt
      BY <2>2 DEF BatchEnds, TypeOK
    <3>2. attempts'[a] = [attempts[a] EXCEPT !.batch = FALSE]
      BY <3>1 DEF TypeOK
    <3> QED
      BY <1>2, <3>1, <3>2 DEF TypeOK, Attempt
  <2>3. CASE Settle(a)
    BY <2>3 DEF Settle, TypeOK, IdleAttempt
  <2> QED
    BY <2>1, <2>2, <2>3
<1>4. vault'.phase = vault.phase /\ vault'.gen = vault.gen /\ vault'.protection = vault.protection
  BY DEF KeyOpens, BatchEnds, Settle, Settled, TypeOK, Vaults
<1>5. keys'.gen = keys.gen /\ (vault.phase # "open" => ~keys'.open)
  <2>1. CASE KeyOpens(a)
    <3>1. keys' = [keys EXCEPT !.open = TRUE] /\ attempts[a].keysGen = keys.gen
      BY <2>1 DEF KeyOpens
    <3>2. keys.gen \in Nat /\ keys'.gen = keys.gen
      BY <3>1, BoundsAssumption DEF TypeOK, Gen
    <3>3. vault.phase # "locked"
      BY <1>2, <3>1, <3>2 DEF OpeningIsPast
    <3> QED
      BY <1>2, <3>2, <3>3
  <2>2. CASE keys' = keys
    BY <2>2 DEF ShutIsShut, Opened
  <2> QED
    BY <2>1, <2>2 DEF BatchEnds, Settle
<1>6. EnteringIsBehind' /\ OpeningIsPast' /\ OpeningIsAlone'
  <2>1. EnteringIsBehind'
    BY <1>1, <1>3, <1>4 DEF EnteringIsBehind, Entering
  <2>2. OpeningIsPast'
    BY <1>2, <1>3, <1>4, <1>5 DEF OpeningIsPast
  <2>3. OpeningIsAlone'
    BY <1>1, <1>2, <1>3, <1>4 DEF OpeningIsAlone, Opened
  <2> QED
    BY <2>1, <2>2, <2>3
<1>7. SettledByItsOwnUnlock'
  <2>1. CASE Settle(a)
    <3>1. attempts'[a].pc = "idle"
      BY <2>1 DEF Settle, TypeOK, IdleAttempt
    <3>2. vault' = IF vault.phase = "open" /\ attempts[a].gen = vault.gen
                   THEN [vault EXCEPT !.opening = FALSE] ELSE vault
      BY <2>1 DEF Settle, Settled
    <3> SUFFICES ASSUME NEW b \in Attempts, attempts'[b].pc = "opening",
                        attempts'[b].gen = vault'.gen, vault'.phase = "open"
                 PROVE  vault'.opening \/ astray.joined
      BY <1>1 DEF SettledByItsOwnUnlock, Opened
    <3>3. b # a /\ attempts[b].pc = "opening" /\ attempts[b].gen = vault.gen /\ Opened
      BY <1>3, <1>4, <3>1 DEF Opened
    <3>4. CASE attempts[a].gen = vault.gen
      BY <1>2, <3>3, <3>4 DEF OpeningIsAlone
    <3>5. CASE attempts[a].gen # vault.gen
      BY <3>2, <3>3, <3>5 DEF SettledByItsOwnUnlock
    <3> QED
      BY <3>4, <3>5
  <2>2. CASE vault' = vault
    BY <1>1, <1>2, <1>3, <2>2 DEF SettledByItsOwnUnlock, Opened
  <2> QED
    BY <2>1, <2>2 DEF KeyOpens, BatchEnds
<1>8. SessionIsEntering'
  <2>1. \A b \in Attempts : attempts[b].pc = "migrating" => attempts'[b].pc = "migrating"
    BY <1>2, <1>3
  <2> QED
    BY <1>1, <1>4, <2>1 DEF SessionIsEntering
<1>9. ShutIsShut' /\ OpenHasSession' /\ OpenVaultHasTimer'
  BY <1>1, <1>4, <1>5 DEF ShutIsShut, OpenHasSession, OpenVaultHasTimer, Opened, InUse
<1>10. NewestReadHasSession' /\ NoReadIsAhead'
  BY <1>1, <1>4 DEF NewestReadHasSession, NoReadIsAhead, Opened
<1> QED
  BY <1>6, <1>7, <1>8, <1>9, <1>10

\* lock(): a vault with a lock screen goes to it with nothing open; an attempt
\* still on its way in was begun at an earlier lock screen.
LEMMA MasterLockScreen ==
  ASSUME TypeOK, ScreenInv, MasterLock, Opened \/ shown,
         UNCHANGED <<shown, autoLock, list>>,
         idleTimer' = FALSE \/ (idleTimer' = idleTimer /\ shown),
         \A a \in Attempts : /\ attempts'[a].pc = attempts[a].pc
                             /\ attempts'[a].mount = attempts[a].mount
                             /\ attempts'[a].gen = attempts[a].gen
                             /\ attempts'[a].keysGen = attempts[a].keysGen
  PROVE  ScreenInv'
<1> USE DEF ScreenInv
<1>1. \A a \in Attempts : Entering(a)' => /\ Entering(a) /\ vault.phase \in {"locked", "open"}
                                          /\ attempts[a].mount <= vault.gen
                                          /\ attempts[a].mount # vault.gen
  BY DEF EnteringIsBehind, Entering, Opened
<1>2. vault.gen \in Nat /\ keys.gen \in Nat
      /\ \A a \in Attempts : attempts[a].gen \in Nat /\ attempts[a].mount \in Nat /\ attempts[a].keysGen \in Nat
  BY BoundsAssumption DEF TypeOK, Attempt, Vaults, Gen
<1>3. CASE Opened
  <2>1. vault' = [phase |-> IF vault.protection THEN "locked" ELSE "open",
                  opening |-> FALSE, gen |-> vault.gen + 1, protection |-> vault.protection]
    BY <1>3 DEF MasterLock, Locked, Opened
  <2>2. vault'.phase \in {"locked", "open"} /\ vault'.gen = vault.gen + 1
        /\ (vault'.phase = "open" => ~vault'.protection)
    BY <2>1
  <2> QED
    <3>1. keys'.gen = keys.gen + 1 /\ ~keys'.open /\ ~session' /\ ~work'.text
      BY DEF MasterLock, KeysLocked, ShutIsShut, TypeOK
    <3>2. EnteringIsBehind' /\ SessionIsEntering'
      BY <1>1, <1>2, <2>2, <3>1 DEF EnteringIsBehind, SessionIsEntering
    <3>3. OpeningIsPast' /\ OpeningIsAlone' /\ SettledByItsOwnUnlock'
      <4>1. \A a \in Attempts : attempts'[a].pc = "opening" => attempts'[a].gen # vault'.gen
        BY <1>2, <2>2 DEF OpeningIsPast
      <4>2. OpeningIsPast'
        BY <1>2, <2>2, <3>1 DEF OpeningIsPast
      <4> QED
        BY <4>1, <4>2 DEF OpeningIsAlone, SettledByItsOwnUnlock
    <3>4. ShutIsShut'
      BY <2>2, <3>1 DEF ShutIsShut, Opened
    <3>5. OpenHasSession' /\ NewestReadHasSession' /\ NoReadIsAhead' /\ OpenVaultHasTimer'
      BY <2>2 DEF OpenHasSession, NewestReadHasSession, NoReadIsAhead, OpenVaultHasTimer, Opened, InUse
    <3> QED
      BY <3>2, <3>3, <3>4, <3>5
<1>4. CASE ~Opened
  <2>1. vault' = vault /\ shown /\ vault.phase = "locked"
    BY <1>4 DEF MasterLock, Locked, Opened, ShutIsShut, TypeOK, Vaults
  <2>2. keys'.gen = keys.gen + 1 /\ ~keys'.open /\ ~session' /\ ~work'.text
    BY DEF MasterLock, KeysLocked, ShutIsShut, TypeOK
  <2>3. EnteringIsBehind' /\ SessionIsEntering'
    BY <1>1, <2>1, <2>2 DEF EnteringIsBehind, SessionIsEntering
  <2>4. OpeningIsPast' /\ OpeningIsAlone' /\ SettledByItsOwnUnlock'
    <3>1. OpeningIsPast'
      BY <1>2, <1>4, <2>1, <2>2 DEF OpeningIsPast
    <3> QED
      BY <1>4, <2>1, <3>1 DEF OpeningIsAlone, SettledByItsOwnUnlock, Opened
  <2>5. ShutIsShut'
    BY <2>1, <2>2 DEF ShutIsShut, Opened
  <2>6. OpenHasSession' /\ NewestReadHasSession' /\ NoReadIsAhead' /\ OpenVaultHasTimer'
    BY <1>4, <2>1 DEF OpenHasSession, NewestReadHasSession, NoReadIsAhead, OpenVaultHasTimer, Opened, InUse
  <2> QED
    BY <2>3, <2>4, <2>5, <2>6
<1> QED
  BY <1>3, <1>4

\* The lock button, the timer and the operating system's lock.
LEMMA LockScreen ==
  ASSUME TypeOK, ScreenInv, LockButton \/ TimerFires \/ OsLock
  PROVE  ScreenInv'
<1>1. CASE LockButton
  BY <1>1, MasterLockScreen DEF LockButton, InUse
<1>2. CASE TimerFires
  <2>1. Opened \/ shown
    BY <1>2 DEF TimerFires, ScreenInv, ShutIsShut
  <2> QED
    BY <1>2, <2>1, MasterLockScreen DEF TimerFires
<1>3. CASE OsLock
  <2>1. \A a \in Attempts : /\ attempts'[a].pc = attempts[a].pc
                            /\ attempts'[a].mount = attempts[a].mount
                            /\ attempts'[a].gen = attempts[a].gen
                            /\ attempts'[a].keysGen = attempts[a].keysGen
    <3> SUFFICES ASSUME NEW a \in Attempts
                 PROVE  /\ attempts'[a].pc = attempts[a].pc
                        /\ attempts'[a].mount = attempts[a].mount
                        /\ attempts'[a].gen = attempts[a].gen
                        /\ attempts'[a].keysGen = attempts[a].keysGen
      OBVIOUS
    <3>1. attempts'[a] = attempts[a] \/ attempts'[a] = [attempts[a] EXCEPT !.crossed = TRUE]
      BY <1>3 DEF OsLock
    <3>2. attempts[a] \in Attempt
      BY DEF TypeOK
    <3> QED
      BY <3>1, <3>2 DEF Attempt
  <2>2. CASE shown
    BY <1>3, <2>1, <2>2, MasterLockScreen DEF OsLock
  <2>3. CASE ~shown
    <3> USE DEF ScreenInv
    <3>1. UNCHANGED <<vault, shown, session, idleTimer, autoLock, list, work, astray>>
      BY <1>3, <2>3 DEF OsLock, panel
    <3>2. keys.gen \in Nat /\ \A a \in Attempts : attempts[a].keysGen \in Nat
      BY BoundsAssumption DEF TypeOK, Attempt, Gen
    <3>3. keys'.gen >= keys.gen /\ ~keys'.open
      BY <1>3, <2>3, <3>2 DEF OsLock, KeysLocked
    <3>4. EnteringIsBehind' /\ OpeningIsAlone' /\ SettledByItsOwnUnlock' /\ SessionIsEntering'
      BY <2>1, <3>1 DEF EnteringIsBehind, Entering, OpeningIsAlone, SettledByItsOwnUnlock,
                        SessionIsEntering, Opened
    <3>5. OpeningIsPast'
      <4>1. keys'.gen \in Nat
        BY <1>3, <2>3, <3>2 DEF OsLock, KeysLocked
      <4>2. \A a \in Attempts : attempts[a].keysGen <= keys.gen => attempts[a].keysGen <= keys'.gen
        BY <3>2, <3>3, <4>1
      <4>3. \A a \in Attempts : attempts[a].keysGen < keys.gen => attempts[a].keysGen < keys'.gen
        BY <3>2, <3>3, <4>1
      <4> QED
        BY <2>1, <3>1, <4>2, <4>3 DEF OpeningIsPast
    <3>6. ShutIsShut' /\ OpenHasSession' /\ OpenVaultHasTimer'
      BY <3>1, <3>3 DEF ShutIsShut, OpenHasSession, OpenVaultHasTimer, Opened, InUse
    <3>7. NewestReadHasSession' /\ NoReadIsAhead'
      BY <3>1 DEF NewestReadHasSession, NoReadIsAhead, Opened
    <3> QED
      BY <3>4, <3>5, <3>6, <3>7
  <2> QED
    BY <2>2, <2>3
<1> QED
  BY <1>1, <1>2, <1>3

\* React's commits and the setting arm the timer.
LEMMA CommitScreen ==
  ASSUME TypeOK, ScreenInv, Commit \/ SetAutoLock
  PROVE  ScreenInv'
<1> USE DEF ScreenInv
<1>1. UNCHANGED <<vault, session, keys, attempts, list>>
      /\ astray'.opened = astray.opened /\ astray'.joined = astray.joined
  BY DEF Commit, SetAutoLock, TypeOK, Strays
<1>2. /\ shown' => Opened
      /\ shown' /\ autoLock' => idleTimer'
      /\ ~shown' => ~idleTimer' /\ ~work'.text
  <2>1. CASE Commit
    <3>1. idleTimer' = (IF Opened THEN autoLock ELSE FALSE) /\ shown' = Opened /\ autoLock' = autoLock
      BY <2>1 DEF Commit, ArmedByCommit
    <3>2. ~Opened => ~work'.text
      BY <2>1 DEF Commit, WorkAtCommit, TypeOK
    <3> QED
      BY <3>1, <3>2 DEF Opened
  <2>2. CASE SetAutoLock
    BY <2>2 DEF SetAutoLock, InUse
  <2> QED
    BY <2>1, <2>2
<1>3. shown' \/ ~Opened
  BY DEF Commit, SetAutoLock, InUse
<1>4. EnteringIsBehind' /\ OpeningIsPast' /\ OpeningIsAlone' /\ SettledByItsOwnUnlock'
      /\ SessionIsEntering'
  BY <1>1, <1>2 DEF EnteringIsBehind, Entering, OpeningIsPast, OpeningIsAlone,
                    SettledByItsOwnUnlock, SessionIsEntering, Opened
<1>5. ShutIsShut' /\ OpenHasSession' /\ OpenVaultHasTimer'
  BY <1>1, <1>2, <1>3 DEF ShutIsShut, OpenHasSession, OpenVaultHasTimer, Opened, InUse
<1>6. NewestReadHasSession' /\ NoReadIsAhead'
  BY <1>1 DEF NewestReadHasSession, NoReadIsAhead, Opened
<1> QED
  BY <1>4, <1>5, <1>6

\* The vault is found, or made.
LEMMA FirstScreen ==
  ASSUME TypeOK, ScreenInv, Resolve \/ Onboarded
  PROVE  ScreenInv'
<1> USE DEF ScreenInv
<1>1. UNCHANGED <<shown, keys, attempts, idleTimer, autoLock, work, astray>>
      /\ vault.phase \in {"loading", "onboarding"}
  BY DEF Resolve, Onboarded, panel
<1>2. \A a \in Attempts : attempts[a].pc = "idle"
  BY <1>1 DEF EnteringIsBehind, Entering, OpeningIsPast, TypeOK, Attempt
<1>3. EnteringIsBehind' /\ OpeningIsPast' /\ OpeningIsAlone' /\ SettledByItsOwnUnlock'
  BY <1>1, <1>2 DEF EnteringIsBehind, Entering, OpeningIsPast, OpeningIsAlone, SettledByItsOwnUnlock
<1>4. CASE Resolve
  <2>1. vault'.phase \in {"onboarding", "locked"} /\ session' = session /\ list' = list
    BY <1>4 DEF Resolve, TypeOK, Vaults
  <2>2. ShutIsShut' /\ SessionIsEntering' /\ OpenHasSession' /\ OpenVaultHasTimer'
    BY <1>1, <1>2, <2>1 DEF ShutIsShut, SessionIsEntering, OpenHasSession, OpenVaultHasTimer, Opened, InUse
  <2>3. NewestReadHasSession' /\ NoReadIsAhead'
    BY <2>1 DEF NewestReadHasSession, NoReadIsAhead, Opened
  <2> QED
    BY <1>3, <2>2, <2>3
<1>5. CASE Onboarded
  <2>1. vault'.phase = "open" /\ session'
    BY <1>5 DEF Onboarded
  <2>2. ShutIsShut' /\ SessionIsEntering' /\ OpenHasSession' /\ OpenVaultHasTimer'
    BY <1>1, <1>2, <2>1 DEF ShutIsShut, SessionIsEntering, OpenHasSession, OpenVaultHasTimer, Opened, InUse
  <2>3. list' = Refreshed(list, TRUE)
    BY <1>5 DEF Onboarded
  <2>4. list'.gen = list.gen + 1 /\ list.gen \in Nat
        /\ list'.reads = list.reads \cup {[gen |-> list.gen + 1, open |-> TRUE]}
    BY <2>3, RefreshedType DEF TypeOK, Lists
  <2>5. \A r \in list.reads : r.gen \in Nat /\ r.gen <= list.gen
    BY DEF TypeOK, Lists, Reads, NoReadIsAhead
  <2>6. NewestReadHasSession' /\ NoReadIsAhead'
    <3>1. NoReadIsAhead' /\ \A r \in list'.reads : r.gen = list'.gen => r.open
      BY <2>4, <2>5 DEF NoReadIsAhead
    <3>2. [gen |-> list.gen + 1, open |-> TRUE] \in list'.reads
      BY <2>4
    <3> QED
      BY <2>4, <3>1, <3>2 DEF NewestReadHasSession
  <2> QED
    BY <1>3, <2>2, <2>6
<1> QED
  BY <1>4, <1>5

LEMMA InitScreenInv == Init => ScreenInv
<1> SUFFICES ASSUME Init PROVE ScreenInv
  OBVIOUS
<1>1. \A a \in Attempts : attempts[a].pc = "idle"
  BY DEF Init, IdleAttempt
<1>2. EnteringIsBehind /\ OpeningIsPast /\ OpeningIsAlone /\ SettledByItsOwnUnlock
  BY <1>1 DEF EnteringIsBehind, Entering, OpeningIsPast, OpeningIsAlone, SettledByItsOwnUnlock
<1>3. ShutIsShut /\ SessionIsEntering /\ OpenHasSession /\ OpenVaultHasTimer
  BY <1>1 DEF Init, ShutIsShut, SessionIsEntering, OpenHasSession, OpenVaultHasTimer, Opened, InUse
<1>4. list.gen = 1 /\ list.reads = {[gen |-> 1, open |-> FALSE]}
  BY DEF Init, Refreshed
<1>5. NewestReadHasSession
  BY DEF Init, NewestReadHasSession, Opened
<1>6. NoReadIsAhead
  BY <1>4 DEF NoReadIsAhead
<1> QED
  BY <1>2, <1>3, <1>5, <1>6 DEF ScreenInv

LEMMA NextScreenInv == TypeOK /\ ScreenInv /\ [Next]_vars => ScreenInv'
<1> SUFFICES ASSUME TypeOK, ScreenInv, [Next]_vars PROVE ScreenInv'
  OBVIOUS
<1>1. CASE Resolve \/ Onboarded
  BY <1>1, FirstScreen
<1>2. CASE Commit \/ SetAutoLock
  BY <1>2, CommitScreen
<1>3. ASSUME NEW a \in Attempts, Press(a) \/ CeremonyEnds(a)
      PROVE  ScreenInv'
  BY <1>3, PressScreen, CeremonyScreen
<1>4. ASSUME NEW a \in Attempts, Unlock(a)
      PROVE  ScreenInv'
  BY <1>4, UnlockScreen
<1>5. ASSUME NEW a \in Attempts, KeyOpens(a) \/ BatchEnds(a) \/ Settle(a)
      PROVE  ScreenInv'
  BY <1>5, OpeningScreen
<1>6. CASE \/ \E r \in list.reads : EndRead(r)
           \/ \E w \in Writes : QueueWrite(w) \/ Write(w) \/ NotifyStoreChanged(w)
  BY <1>6, ListScreen
<1>7. CASE LockButton \/ TimerFires \/ OsLock
  BY <1>7, LockScreen
<1>8. CASE \/ Type \/ OpArrives \/ RouteOp
           \/ \E t \in Tabs : OpenReader(t) \/ Connect(t) \/ Show(t) \/ CloseTab(t)
           \/ \E c \in consumers : GetOp(c) \/ TakeOp(c)
  <2>1. UNCHANGED <<vault, shown, session, keys, attempts, idleTimer, autoLock, list, astray>>
    BY <1>8 DEF Type, OpArrives, RouteOp, OpenReader, Connect, Show, CloseTab, GetOp, TakeOp, rest
  <2>2. work'.text => work.text \/ InUse
    <3>1. CASE Type
      BY <3>1 DEF Type
    <3>2. CASE RouteOp
      BY <3>2 DEF RouteOp, InUse
    <3>3. CASE work' = work
      BY <3>3
    <3> QED
      BY <1>8, <3>1, <3>2, <3>3
         DEF OpArrives, OpenReader, Connect, Show, CloseTab, GetOp, TakeOp, rest
  <2> QED
    BY <2>1, <2>2, QuietScreen
<1>9. CASE UNCHANGED vars
  BY <1>9, QuietScreen DEF vars, panel
<1> QED
  BY <1>1, <1>2, <1>3, <1>4, <1>5, <1>6, <1>7, <1>8, <1>9 DEF Next

LEMMA ScreenHolds == Spec => []ScreenInv
<1>1. TypeOK /\ ScreenInv /\ [Next]_vars => ScreenInv'
  BY NextScreenInv
<1> QED
  BY <1>1, InitScreenInv, PanelTypes, PTL DEF Spec

\* Behind the lock screen neither a key nor a session nor a draft is open but
\* what an attempt on its way in has made, and an open vault has its session,
\* unless an attempt whose lock screen was gone opened it.
THEOREM ScreenStaysTrue == Spec => []ScreenIsTrue
<1>1. TypeOK /\ ScreenInv => ScreenIsTrue
  BY DEF ScreenInv, ScreenIsTrue, LockedIsShut, ShutIsShut, SessionIsEntering, Opened
<1> QED
  BY <1>1, ScreenHolds, PanelTypes, PTL

\* A late ending of an earlier unlock settles nothing: generations tell the
\* openings apart, however many attempts are under way.
THEOREM UnlocksSettleTheirOwn == Spec => []SettledByItsOwnUnlock
<1>1. ScreenInv => SettledByItsOwnUnlock
  BY DEF ScreenInv
<1> QED
  BY <1>1, ScreenHolds, PTL

\* The empty list that the lock screen read does not outlive the opening of the
\* vault, however late that read ends.
THEOREM ListsAreReadAgain == Spec => []SettledListsAreRead
<1>1. ScreenInv => SettledListsAreRead
  BY DEF ScreenInv, SettledListsAreRead, NewestReadHasSession, Newest
<1> QED
  BY <1>1, ScreenHolds, PTL

\* A vault in use has its auto-lock timer, whichever of the unlock, the commit
\* and the setting came last, but for the reset of an unlock that ended while
\* the vault was in use.
THEOREM TimerIsArmed == Spec => []OpenVaultHasTimer
<1>1. ScreenInv => OpenVaultHasTimer
  BY DEF ScreenInv
<1> QED
  BY <1>1, ScreenHolds, PTL

\* A password is tried once at a time: the one attempt on its way in stands on
\* the lock screen it was begun at.
PasswordIsAlone ==
  Method = "password" =>
    /\ astray = NotAstray
    /\ \A a \in Attempts : Entering(a) => /\ attempts[a].mount = vault.gen
                                          /\ \A b \in Attempts : Entering(b) => b = a

LEMMA NextPasswordIsAlone ==
  TypeOK /\ ScreenInv /\ PasswordIsAlone /\ [Next]_vars => PasswordIsAlone'
<1> SUFFICES ASSUME TypeOK, ScreenInv, PasswordIsAlone, [Next]_vars, Method = "password"
             PROVE  /\ astray' = NotAstray
                    /\ \A a \in Attempts : Entering(a)' =>
                         /\ attempts'[a].mount = vault'.gen
                         /\ \A b \in Attempts : Entering(b)' => b = a
  BY DEF PasswordIsAlone, Entering
<1>1. \A a \in Attempts : Entering(a) => /\ attempts[a].mount = vault.gen
                                        /\ vault.phase = "locked" /\ ~shown
                                        /\ \A b \in Attempts : Entering(b) => b = a
  BY DEF PasswordIsAlone, ScreenInv, EnteringIsBehind
<1>2. astray = NotAstray
  BY DEF PasswordIsAlone
\* Most steps: nobody starts, and who is on the way in stays where it is.
<1>3. CASE /\ astray' = astray /\ vault'.gen = vault.gen
           /\ \A a \in Attempts : Entering(a)' => Entering(a) /\ attempts'[a].mount = attempts[a].mount
  BY <1>1, <1>2, <1>3
<1>4. CASE UNCHANGED <<vault, attempts, astray>>
  BY <1>3, <1>4 DEF Entering
<1>5. ASSUME NEW a \in Attempts, Press(a)
      PROVE  PasswordIsAlone'
  <2>1. \A b \in Attempts : ~Entering(b)
    BY <1>1, <1>5 DEF Press, Idle, Entering
  <2>2. attempts'[a].mount = vault.gen
        /\ \A b \in Attempts \ {a} : attempts'[b] = attempts[b]
    BY <1>5, <2>1 DEF Press, IdleAttempt, Entering
  <2>3. vault' = vault /\ astray' = astray
    BY <1>5 DEF Press, panel
  <2> QED
    BY <1>2, <2>1, <2>2, <2>3 DEF PasswordIsAlone, Entering
<1>6. ASSUME NEW a \in Attempts, CeremonyEnds(a)
      PROVE  PasswordIsAlone'
  <2>1. \A b \in Attempts \ {a} : attempts'[b] = attempts[b]
    BY <1>6 DEF CeremonyEnds, TypeOK
  <2>2. attempts'[a].pc = "idle" \/ attempts'[a].mount = attempts[a].mount
    <3>1. CASE attempts' = [attempts EXCEPT ![a] = IdleAttempt]
      BY <3>1 DEF TypeOK, IdleAttempt
    <3>2. CASE attempts' = [attempts EXCEPT ![a].pc = "migrating"]
      BY <3>2 DEF TypeOK, Attempt
    <3> QED
      BY <1>6, <3>1, <3>2 DEF CeremonyEnds
  <2>3. vault' = vault /\ astray' = astray /\ Entering(a)
    BY <1>6 DEF CeremonyEnds, panel, Entering
  <2> QED
    BY <1>1, <1>2, <2>1, <2>2, <2>3 DEF PasswordIsAlone, Entering
<1>7. ASSUME NEW a \in Attempts, Unlock(a)
      PROVE  PasswordIsAlone'
  <2>1. vault.phase = "locked" /\ ~shown /\ attempts[a].mount = vault.gen
        /\ \A b \in Attempts : Entering(b) => b = a
    BY <1>1, <1>7 DEF Unlock, Entering
  <2>2. astray' = NotAstray
    BY <1>7, <2>1 DEF Unlock, Opened, NotAstray, TypeOK
  <2>3. attempts'[a].pc = "opening" /\ \A b \in Attempts \ {a} : attempts'[b] = attempts[b]
    BY <1>7 DEF Unlock, TypeOK, IdleAttempt
  <2> QED
    BY <2>1, <2>2, <2>3 DEF PasswordIsAlone, Entering
<1>8. ASSUME NEW a \in Attempts, KeyOpens(a) \/ BatchEnds(a) \/ Settle(a)
      PROVE  PasswordIsAlone'
  <2>1. astray' = astray /\ vault'.gen = vault.gen
    BY <1>8 DEF KeyOpens, BatchEnds, Settle, Settled, TypeOK, Vaults, panel
  <2>2. \A b \in Attempts \ {a} : attempts'[b] = attempts[b]
    BY <1>8 DEF KeyOpens, BatchEnds, Settle, TypeOK
  <2>3. ~Entering(a)'
    <3>1. attempts[a].pc = "opening"
      BY <1>8 DEF KeyOpens, BatchEnds, Settle
    <3>2. CASE attempts' = attempts
      BY <3>1, <3>2 DEF Entering
    <3>3. CASE attempts' = [attempts EXCEPT ![a].batch = FALSE]
      BY <3>1, <3>3 DEF Entering, TypeOK, Attempt
    <3>4. CASE attempts' = [attempts EXCEPT ![a] = IdleAttempt]
      BY <3>4 DEF Entering, TypeOK, IdleAttempt
    <3> QED
      BY <1>8, <3>2, <3>3, <3>4 DEF KeyOpens, BatchEnds, Settle
  <2> QED
    BY <1>1, <1>2, <2>1, <2>2, <2>3 DEF PasswordIsAlone, Entering
\* A lock finds nobody on the way in.
<1>9. CASE MasterLock /\ attempts' = attempts
  <2>1. CASE Opened
    BY <1>1, <1>9, <2>1 DEF MasterLock, Opened, Entering
  <2>2. CASE ~Opened
    BY <1>1, <1>9, <2>2 DEF MasterLock, Locked, Opened, Entering
  <2> QED
    BY <2>1, <2>2
<1>10. CASE OsLock
  <2>1. \A a \in Attempts : /\ attempts'[a].mount = attempts[a].mount
                            /\ Entering(a)' => Entering(a)
    <3> SUFFICES ASSUME NEW a \in Attempts
                 PROVE  /\ attempts'[a].mount = attempts[a].mount
                        /\ attempts'[a].pc = attempts[a].pc
      BY DEF Entering
    <3>1. attempts'[a] = attempts[a] \/ attempts'[a] = [attempts[a] EXCEPT !.crossed = TRUE]
      BY <1>10 DEF OsLock
    <3>2. attempts[a] \in Attempt
      BY DEF TypeOK
    <3> QED
      BY <3>1, <3>2 DEF Attempt
  <2>2. CASE shown
    BY <1>1, <1>10, <2>1, <2>2 DEF OsLock, MasterLock
  <2>3. CASE ~shown
    <3>1. vault' = vault /\ astray' = astray
      BY <1>10, <2>3 DEF OsLock, panel
    <3> QED
      BY <1>3, <2>1, <3>1
  <2> QED
    BY <2>2, <2>3
<1>11. CASE LockButton \/ TimerFires
  BY <1>9, <1>11 DEF LockButton, TimerFires
<1>12. CASE Commit \/ SetAutoLock
  <2>1. astray' = NotAstray /\ UNCHANGED <<vault, attempts>>
    BY <1>2, <1>12 DEF Commit, SetAutoLock, NotAstray
  <2> QED
    BY <1>2, <1>4, <2>1
<1>13. CASE Resolve \/ Onboarded
  <2>1. \A a \in Attempts : ~Entering(a)
    BY <1>1, <1>13 DEF Resolve, Onboarded
  <2>2. UNCHANGED <<attempts, astray>>
    BY <1>13 DEF Resolve, Onboarded, panel
  <2> QED
    BY <1>2, <2>1, <2>2 DEF Entering
<1>14. CASE \/ \E r \in list.reads : EndRead(r)
            \/ \E w \in Writes : QueueWrite(w) \/ Write(w) \/ NotifyStoreChanged(w)
            \/ Type \/ OpArrives \/ RouteOp
            \/ \E t \in Tabs : OpenReader(t) \/ Connect(t) \/ Show(t) \/ CloseTab(t)
            \/ \E c \in consumers : GetOp(c) \/ TakeOp(c)
            \/ UNCHANGED vars
  <2>1. UNCHANGED <<vault, attempts, astray>>
    BY <1>14 DEF EndRead, QueueWrite, Write, NotifyStoreChanged, Type, OpArrives, RouteOp,
                 OpenReader, Connect, Show, CloseTab, GetOp, TakeOp, panel, rest, vars
  <2> QED
    BY <1>4, <2>1
<1> QED
  BY <1>5, <1>6, <1>7, <1>8, <1>10, <1>11, <1>12, <1>13, <1>14 DEF Next, PasswordIsAlone, Entering

\* Behind a password an open vault always has its session, and is "opening" for
\* as long as any unlock of its opening is: no exception is needed.
THEOREM PasswordsOpenOneVault ==
  ASSUME Method = "password"
  PROVE  Spec => [](EveryVaultHasItsSession /\ OpeningCoversEveryUnlock)
<1>1. Init => PasswordIsAlone
  BY DEF Init, PasswordIsAlone, Entering, IdleAttempt
<1>2. Spec => []PasswordIsAlone
  BY <1>1, NextPasswordIsAlone, ScreenHolds, PanelTypes, PTL DEF Spec
<1>3. ScreenInv /\ PasswordIsAlone => EveryVaultHasItsSession /\ OpeningCoversEveryUnlock
  BY DEF ScreenInv, PasswordIsAlone, NotAstray, OpenHasSession, SettledByItsOwnUnlock,
         EveryVaultHasItsSession, OpeningCoversEveryUnlock
<1> QED
  BY <1>2, <1>3, ScreenHolds, PTL
=============================================================================
