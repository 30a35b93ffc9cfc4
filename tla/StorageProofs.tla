---------------------------- MODULE StorageProofs ----------------------------
(***************************************************************************)
(* The storage layer below the stores: the lock of a page, for any number  *)
(* of calls, the protected stores that run under it, for any number of     *)
(* calls, keys and locks of the vault, the panel's copy of the preferences,*)
(* for any number of updates, locks and other windows' saves, the sealed   *)
(* settings, for any number of saves and faults, chunked values, for any   *)
(* values, windows and calls, the place of the vault, for any number of    *)
(* stores and windows that look for it, move it and close, and the history *)
(* of the operations, for any number of windows and entries.               *)
(***************************************************************************)
EXTENDS PageLock, Keyring, PrefsStore, Chunked, Settings, VaultMove, History,
        FiniteSetTheorems, SequenceTheorems, TLAPS

-----------------------------------------------------------------------------
(* The page's lock: arrivals are numbered, the chain of promises follows    *)
(* the numbers, and the entry in the map is the last of them.               *)

Queued(c) == lockPc[c] \in {"waiting", "running"}
Earlier(d, c) == d \in Arrived /\ turns[d] < turns[c]

TurnsAreNumbers ==
    /\ \A c \in Arrived : turns[c] \in 1 .. Cardinality(Arrived)
    /\ \A c, d \in Arrived : turns[c] = turns[d] => c = d
ResolvedIsDone == resolved = {c \in LockCall : lockPc[c] = "done"}
WaitsForThePrevious ==
    \A c \in LockCall : lockPc[c] = "waiting" =>
        IF prev[c] = NoCall THEN \A d \in LockCall : Earlier(d, c) => lockPc[d] = "done"
        ELSE prev[c] \in Arrived /\ turns[prev[c]] = turns[c] - 1
EntryIsTheLast ==
    IF tail = NoCall THEN \A c \in LockCall : ~Queued(c)
    ELSE Queued(tail) /\ turns[tail] = Cardinality(Arrived)

LockIInv ==
    LockTypeOK /\ TurnsAreNumbers /\ ResolvedIsDone /\ WaitsForThePrevious
    /\ FirstComeFirstServed /\ EntryIsTheLast

LEMMA ArrivedCount ==
  /\ IsFiniteSet(Arrived) /\ Cardinality(Arrived) \in Nat
  /\ Cardinality(Arrived) <= Cardinality(LockCall) /\ Cardinality(LockCall) \in Nat
<1>1. Arrived \subseteq LockCall
  BY DEF Arrived
<1> QED
  BY <1>1, LockAssumption, FS_Subset, FS_CardinalityType

LEMMA InitLock == LockInit => LockIInv
<1> SUFFICES ASSUME LockInit PROVE LockIInv
  OBVIOUS
<1>1. Arrived = {} /\ resolved = {}
  BY DEF LockInit, Arrived
<1>2. LockTypeOK
  BY ArrivedCount DEF LockInit, LockTypeOK
<1> QED
  BY <1>1, <1>2 DEF LockInit, LockIInv, TurnsAreNumbers, ResolvedIsDone, WaitsForThePrevious,
     FirstComeFirstServed, EntryIsTheLast, Queued

\* Calls that are before the one at the end of the chain are before its entry.
LEMMA EnterLock == ASSUME LockIInv, NEW c \in LockCall, Enter(c) PROVE LockIInv'
<1> DEFINE n == Cardinality(Arrived)
<1>1. /\ lockPc[c] = "new" /\ tail' = c /\ resolved' = resolved
      /\ prev' = [prev EXCEPT ![c] = tail] /\ lockPc' = [lockPc EXCEPT ![c] = "waiting"]
      /\ turns' = [turns EXCEPT ![c] = n + 1]
  BY DEF Enter
<1>2. /\ c # NoCall /\ lockPc \in [LockCall -> {"new", "waiting", "running", "done"}]
      /\ prev \in [LockCall -> LockCall \cup {NoCall}]
      /\ turns \in [LockCall -> 0 .. Cardinality(LockCall)] /\ tail \in LockCall \cup {NoCall}
  BY LockAssumption DEF LockIInv, LockTypeOK
<1>3. Arrived' = Arrived \cup {c} /\ c \notin Arrived
  BY <1>1, <1>2 DEF Arrived
<1>4. Cardinality(Arrived') = n + 1 /\ n \in Nat /\ n + 1 <= Cardinality(LockCall)
      /\ Cardinality(LockCall) \in Nat
  <2>1. Cardinality(Arrived \cup {c}) = n + 1
    BY <1>3, ArrivedCount, FS_AddElement
  <2>2. Arrived \cup {c} \subseteq LockCall
    BY DEF Arrived
  <2>3. Cardinality(Arrived \cup {c}) <= Cardinality(LockCall)
    BY <2>2, LockAssumption, FS_Subset
  <2> QED
    BY <1>3, <2>1, <2>3, ArrivedCount
<1>5. \A d \in Arrived : turns[d] \in 1 .. n
  BY DEF LockIInv, TurnsAreNumbers
<1>6. /\ lockPc'[c] = "waiting" /\ turns'[c] = n + 1 /\ prev'[c] = tail
      /\ \A d \in LockCall \ {c} :
           lockPc'[d] = lockPc[d] /\ turns'[d] = turns[d] /\ prev'[d] = prev[d]
  BY <1>1, <1>2
<1> HIDE DEF n
<1>7. LockTypeOK'
  BY <1>1, <1>2, <1>4 DEF LockIInv, LockTypeOK
<1>8. TurnsAreNumbers'
  <2>1. \A d \in Arrived : d \in LockCall \ {c}
    BY <1>3 DEF Arrived
  <2>2. \A d \in Arrived' : turns'[d] \in 1 .. n + 1
    BY <1>3, <1>4, <1>5, <1>6, <2>1
  <2>3. \A d, e \in Arrived' : turns'[d] = turns'[e] => d = e
    BY <1>3, <1>4, <1>5, <1>6, <2>1 DEF LockIInv, TurnsAreNumbers
  <2> QED
    BY <1>4, <2>2, <2>3 DEF TurnsAreNumbers
<1>9. ResolvedIsDone'
  BY <1>1, <1>2, <1>6 DEF LockIInv, ResolvedIsDone
<1>10. WaitsForThePrevious'
  <2> SUFFICES ASSUME NEW d \in LockCall, lockPc'[d] = "waiting"
               PROVE IF prev'[d] = NoCall
                     THEN \A e \in LockCall : Earlier(e, d)' => lockPc'[e] = "done"
                     ELSE prev'[d] \in Arrived' /\ turns'[prev'[d]] = turns'[d] - 1
    BY DEF WaitsForThePrevious
  <2>1. CASE d = c /\ tail = NoCall
    <3>1. \A e \in LockCall \ {c} : e \in Arrived => lockPc[e] = "done"
      BY <1>2, <2>1 DEF LockIInv, EntryIsTheLast, Queued, Arrived
    <3>2. ~Earlier(c, c)'
      BY <1>4, <1>6 DEF Earlier
    <3> QED
      BY <1>3, <1>6, <2>1, <3>1, <3>2 DEF Earlier
  <2>2. CASE d = c /\ tail # NoCall
    <3>1. tail \in Arrived /\ turns[tail] = n /\ tail \in LockCall \ {c}
      BY <1>1, <1>2, <2>2 DEF LockIInv, EntryIsTheLast, Queued, Arrived, n
    <3> QED
      BY <1>3, <1>4, <1>6, <2>2, <3>1
  <2>3. CASE d # c
    <3>1. lockPc[d] = "waiting" /\ d \in Arrived /\ turns[d] \in 1 .. n /\ turns'[d] = turns[d]
      BY <1>5, <1>6, <2>3 DEF Arrived
    <3>2. CASE prev[d] = NoCall
      <4>1. ASSUME NEW e \in LockCall, Earlier(e, d)' PROVE lockPc'[e] = "done"
        <5>1. e # c
          BY <1>4, <1>6, <3>1, <4>1 DEF Earlier
        <5> QED
          BY <1>3, <1>6, <3>1, <3>2, <4>1, <5>1 DEF Earlier, LockIInv, WaitsForThePrevious
      <4> QED
        BY <1>6, <2>3, <3>2, <4>1
    <3>3. CASE prev[d] # NoCall
      <4>1. prev[d] \in Arrived /\ turns[prev[d]] = turns[d] - 1 /\ prev[d] \in LockCall \ {c}
        BY <1>3, <3>1, <3>3 DEF LockIInv, WaitsForThePrevious, Arrived
      <4> QED
        BY <1>3, <1>6, <2>3, <3>1, <3>3, <4>1
    <3> QED
      BY <3>2, <3>3
  <2> QED
    BY <2>1, <2>2, <2>3
<1>11. FirstComeFirstServed'
  <2> SUFFICES ASSUME NEW d \in LockCall, NEW e \in LockCall, d \in Arrived', e \in Arrived',
                      turns'[d] < turns'[e], lockPc'[e] \in {"running", "done"}
               PROVE  lockPc'[d] = "done"
    BY DEF FirstComeFirstServed
  <2>1. e # c /\ e \in Arrived
    BY <1>3, <1>6
  <2>2. d # c
    BY <1>4, <1>5, <1>6, <2>1
  <2> QED
    BY <1>3, <1>6, <2>1, <2>2 DEF LockIInv, FirstComeFirstServed
<1>12. EntryIsTheLast'
  BY <1>1, <1>2, <1>4, <1>6 DEF EntryIsTheLast, Queued
<1> QED
  BY <1>7, <1>8, <1>9, <1>10, <1>11, <1>12 DEF LockIInv

\* A step that makes no call arrive leaves every number where it is.
LEMMA NumbersStay ==
  ASSUME TurnsAreNumbers, Arrived' = Arrived, turns' = turns
  PROVE  TurnsAreNumbers'
  BY DEF TurnsAreNumbers

LEMMA RunLock == ASSUME LockIInv, NEW c \in LockCall, Run(c) PROVE LockIInv'
<1>1. /\ lockPc[c] = "waiting" /\ PrevResolved(c)
      /\ lockPc' = [lockPc EXCEPT ![c] = "running"] /\ UNCHANGED <<tail, prev, resolved, turns>>
  BY DEF Run
<1>2. lockPc \in [LockCall -> {"new", "waiting", "running", "done"}]
  BY DEF LockIInv, LockTypeOK
<1>3. lockPc'[c] = "running" /\ \A d \in LockCall \ {c} : lockPc'[d] = lockPc[d]
  BY <1>1, <1>2
<1>4. Arrived' = Arrived /\ c \in Arrived
  BY <1>1, <1>3 DEF Arrived
<1>5. \A d \in LockCall : Earlier(d, c) => lockPc[d] = "done"
  <2> SUFFICES ASSUME NEW d \in LockCall, Earlier(d, c) PROVE lockPc[d] = "done"
    OBVIOUS
  <2>1. CASE prev[c] = NoCall
    BY <1>1, <2>1 DEF LockIInv, WaitsForThePrevious
  <2>2. CASE prev[c] # NoCall
    <3> DEFINE p == prev[c]
    <3>1. p \in Arrived /\ p \in LockCall /\ turns[p] = turns[c] - 1
      BY <1>1, <2>2 DEF LockIInv, WaitsForThePrevious, Arrived
    <3>2. lockPc[p] = "done"
      BY <1>1, <2>2 DEF PrevResolved, LockIInv, ResolvedIsDone
    <3>3. turns[d] \in Nat /\ turns[c] \in Nat /\ d \in Arrived /\ turns[d] < turns[c]
      BY DEF Earlier, LockIInv, LockTypeOK
    <3>4. CASE turns[d] = turns[p]
      BY <3>1, <3>2, <3>3, <3>4 DEF LockIInv, TurnsAreNumbers
    <3>5. CASE turns[d] # turns[p]
      <4>1. turns[d] < turns[p]
        BY <3>1, <3>3, <3>5
      <4> QED
        BY <3>1, <3>2, <3>3, <4>1 DEF LockIInv, FirstComeFirstServed
    <3> QED
      BY <3>4, <3>5
  <2> QED
    BY <2>1, <2>2
<1>6. LockTypeOK'
  BY <1>1, <1>2 DEF LockIInv, LockTypeOK
<1>7. TurnsAreNumbers'
  BY <1>1, <1>4, NumbersStay DEF LockIInv
<1>8. ResolvedIsDone'
  BY <1>1, <1>2, <1>3 DEF LockIInv, ResolvedIsDone
<1>9. WaitsForThePrevious'
  BY <1>1, <1>3, <1>4 DEF LockIInv, WaitsForThePrevious, Earlier
<1>10. FirstComeFirstServed'
  BY <1>1, <1>3, <1>4, <1>5 DEF LockIInv, FirstComeFirstServed, Earlier
<1>11. EntryIsTheLast'
  BY <1>1, <1>2, <1>3, <1>4 DEF LockIInv, LockTypeOK, EntryIsTheLast, Queued
<1> QED
  BY <1>6, <1>7, <1>8, <1>9, <1>10, <1>11 DEF LockIInv

LEMMA LeaveLock == ASSUME LockIInv, NEW c \in LockCall, Leave(c) PROVE LockIInv'
<1>1. /\ lockPc[c] = "running" /\ resolved' = resolved \cup {c}
      /\ tail' = IF tail = c THEN NoCall ELSE tail
      /\ lockPc' = [lockPc EXCEPT ![c] = "done"] /\ UNCHANGED <<prev, turns>>
  BY DEF Leave, Resolved, TailAfter
<1>2. lockPc \in [LockCall -> {"new", "waiting", "running", "done"}]
      /\ turns \in [LockCall -> Nat]
  BY DEF LockIInv, LockTypeOK
<1>3. lockPc'[c] = "done" /\ \A d \in LockCall \ {c} : lockPc'[d] = lockPc[d]
  BY <1>1, <1>2
<1>4. Arrived' = Arrived /\ c \in Arrived
  BY <1>1, <1>3 DEF Arrived
<1>5. LockTypeOK'
  BY <1>1, <1>2 DEF LockIInv, LockTypeOK
<1>6. TurnsAreNumbers'
  BY <1>1, <1>4, NumbersStay DEF LockIInv
<1>7. ResolvedIsDone'
  BY <1>1, <1>2, <1>3 DEF LockIInv, ResolvedIsDone
<1>8. WaitsForThePrevious'
  BY <1>1, <1>3, <1>4 DEF LockIInv, WaitsForThePrevious, Earlier
<1>9. FirstComeFirstServed'
  BY <1>1, <1>3, <1>4 DEF LockIInv, FirstComeFirstServed
<1>10. EntryIsTheLast'
  <2>1. CASE tail = c
    \* Everybody who arrived came before the last arrival, and is done.
    <3>1. ASSUME NEW d \in LockCall \ {c}, d \in Arrived PROVE lockPc[d] = "done"
      <4>1. turns[c] = Cardinality(Arrived) /\ c # NoCall
        BY <2>1, LockAssumption DEF LockIInv, EntryIsTheLast
      <4>2. turns[d] \in 1 .. Cardinality(Arrived) /\ turns[d] # turns[c]
        BY <1>4, <3>1 DEF LockIInv, TurnsAreNumbers
      <4>3. turns[d] < turns[c]
        BY <4>1, <4>2, ArrivedCount
      <4> QED
        BY <1>1, <1>4, <3>1, <4>3 DEF LockIInv, FirstComeFirstServed
    <3> QED
      BY <1>1, <1>2, <1>3, <2>1, <3>1 DEF EntryIsTheLast, Queued, Arrived
  <2>2. CASE tail # c /\ tail = NoCall
    BY <1>1, <2>2 DEF LockIInv, EntryIsTheLast, Queued
  <2>3. CASE tail # c /\ tail # NoCall
    <3>1. tail \in LockCall \ {c}
      BY <2>3 DEF LockIInv, LockTypeOK
    <3> QED
      BY <1>1, <1>3, <1>4, <2>3, <3>1 DEF LockIInv, EntryIsTheLast, Queued
  <2> QED
    BY <2>1, <2>2, <2>3
<1> QED
  BY <1>5, <1>6, <1>7, <1>8, <1>9, <1>10 DEF LockIInv

LEMMA NextLock == LockIInv /\ [LockNext]_lockVars => LockIInv'
<1> SUFFICES ASSUME LockIInv, [LockNext]_lockVars PROVE LockIInv'
  OBVIOUS
<1>1. CASE UNCHANGED lockVars
  BY <1>1 DEF lockVars, LockIInv, LockTypeOK, TurnsAreNumbers, ResolvedIsDone, WaitsForThePrevious,
     FirstComeFirstServed, EntryIsTheLast, Queued, Earlier, Arrived
<1> QED
  BY <1>1, EnterLock, RunLock, LeaveLock DEF LockNext

LEMMA TurnsFollow == LockIInv => TurnsAreKept
<1> SUFFICES ASSUME LockIInv PROVE TurnsAreKept
  OBVIOUS
<1>1. OneAtATime
  <2> SUFFICES ASSUME NEW c \in LockCall, NEW d \in LockCall, lockPc[c] = "running",
                      lockPc[d] = "running", c # d
               PROVE  FALSE
    BY DEF OneAtATime
  <2>1. c \in Arrived /\ d \in Arrived /\ turns[c] \in Nat /\ turns[d] \in Nat
    BY DEF Arrived, LockIInv, LockTypeOK
  <2>2. turns[c] < turns[d] \/ turns[d] < turns[c]
    BY <2>1 DEF LockIInv, TurnsAreNumbers
  <2> QED
    BY <2>1, <2>2 DEF LockIInv, FirstComeFirstServed
<1>2. EntryOnlyWhileBusy
  <2> DEFINE busy == {c \in LockCall : lockPc[c] \in {"waiting", "running"}}
  <2>1. CASE tail = NoCall
    BY <2>1 DEF LockIInv, EntryIsTheLast, Queued, EntryOnlyWhileBusy
  <2>2. CASE tail # NoCall
    <3>1. tail \in busy /\ turns[tail] = Cardinality(Arrived)
      BY <2>2 DEF LockIInv, LockTypeOK, EntryIsTheLast, Queued
    <3>2. \A c \in busy : turns[c] \in 1 .. Cardinality(Arrived)
      BY DEF Arrived, LockIInv, TurnsAreNumbers
    <3>3. \A c \in busy : turns[c] <= turns[tail]
      BY <3>1, <3>2, ArrivedCount
    <3> QED
      BY <3>1, <3>3 DEF EntryOnlyWhileBusy
  <2> QED
    BY <2>1, <2>2
<1> QED
  BY <1>1, <1>2 DEF LockIInv, TurnsAreKept

\* Whatever calls a page makes and however their tasks end, they run one at a
\* time in the order they came, and the map's entry is the last of those that
\* are queued (engine.ts withLock).
THEOREM TurnsAreTaken == LockSpec => []TurnsAreKept
BY InitLock, NextLock, TurnsFollow, PTL DEF LockSpec

-----------------------------------------------------------------------------
(* The protected stores: what a call knows from one of its steps to the     *)
(* next.                                                                    *)

Results == {"none", "skipped", "locked", "failed", "missing", "done"}
Places == {"idle", "queued", "load", "read", "change", "save", "ended"}
Calls == [at : Places, op : Ops, id : KeyId \cup {""}, page : RingPage, read : Rings,
          lockedLoad : BOOLEAN, dropped : BOOLEAN, overtaken : BOOLEAN, result : Results]

Busy == {"load", "read", "change", "save"}
Changing(x) == x.at \in {"change", "save"}

HasTarget(x) == x.at \in Busy \cup {"queued"} => x.id \in KeyId
ReadIsKept(x) == Changing(x) /\ ~x.overtaken /\ ~x.lockedLoad => x.read = kept
\* A locked load finds nothing, and under a guard only when the lock came later.
LockedLoadIsEmpty(x) ==
    /\ x.at \in {"queued", "load", "read"} => ~x.lockedLoad
    /\ Changing(x) /\ x.lockedLoad =>
         DOMAIN x.read = {} /\ x.op # "normalize" /\ (x.dropped \/ ~Guarded(store, x.op))
GuardSawSession(x) == x.at = "load" /\ Guarded(store, x.op) => x.page \in open \/ x.dropped
UpdateHasItem(x) == x.at = "save" /\ x.op \in Updates => x.id \in DOMAIN x.read

CallOK(x) ==
    HasTarget(x) /\ ReadIsKept(x) /\ LockedLoadIsEmpty(x) /\ GuardSawSession(x) /\ UpdateHasItem(x)

RingTypes ==
    /\ store \in {"keyring", "crx"} /\ kept \in Rings /\ open \subseteq RingPage
    /\ ringHolder \in [RingPage -> RingCall \cup {Free}]
    /\ ring \in [RingCall -> Calls]
LockIsHeld == \A c \in RingCall : ring[c].at \in Busy => ringHolder[ring[c].page] = c
RingIInv == RingTypes /\ LockIsHeld /\ \A c \in RingCall : CallOK(ring[c])

LEMMA CallUpdates ==
  ASSUME NEW x \in Calls
  PROVE  /\ \A v \in Places : [x EXCEPT !.at = v] \in Calls
         /\ \A v \in Rings : [x EXCEPT !.read = v] \in Calls
         /\ \A v \in BOOLEAN : [x EXCEPT !.lockedLoad = v] \in Calls
         /\ \A v \in BOOLEAN : [x EXCEPT !.dropped = v] \in Calls
         /\ \A v \in BOOLEAN : [x EXCEPT !.overtaken = v] \in Calls
         /\ \A v \in Results : [x EXCEPT !.result = v] \in Calls
  BY DEF Calls

LEMMA ItemTypes ==
  /\ Fresh \in Items /\ [Fresh EXCEPT !.alias = "named"] \in Items
  /\ \A i \in Items : \A v \in {"", "named"} : [i EXCEPT !.alias = v] \in Items
  /\ \A i \in Items : [i EXCEPT !.seal = "new"] \in Items
  BY DEF Fresh, Items

LEMMA RingFunctions ==
  /\ \A r \in Rings : DOMAIN r \subseteq KeyId /\ \A k \in DOMAIN r : r[k] \in Items
  /\ \A S \in SUBSET KeyId : \A r \in [S -> Items] : r \in Rings
  /\ \A r \in Rings : r \in [DOMAIN r -> Items]
  BY DEF Rings

LEMMA NoItems == <<>> \in Rings /\ DOMAIN <<>> = {}
<1>1. DOMAIN <<>> = {}
  OBVIOUS
<1>2. <<>> \in [{} -> Items]
  OBVIOUS
<1> QED
  BY <1>1, <1>2, RingFunctions

LEMMA NoCallType ==
  /\ NoCallYet \in Calls /\ NoCallYet.at = "idle" /\ NoCallYet.op = "put"
  /\ ~NoCallYet.lockedLoad /\ ~NoCallYet.overtaken /\ ~NoCallYet.dropped
  BY NoItems DEF NoCallYet, Calls, Places, Ops, RingPage, Results

\* What a mutation makes of the items: a ring again, with every other item in it.
LEMMA ChangedItems ==
  ASSUME NEW op \in Ops, NEW id \in KeyId, NEW items \in Rings,
         op \in Updates => id \in DOMAIN items
  PROVE  /\ Change(op, id, items) \in Rings
         /\ \A k \in DOMAIN items : k \in DOMAIN Change(op, id, items) \/ (op = "remove" /\ k = id)
         /\ op = "reseal" => /\ id \in DOMAIN Change(op, id, items)
                             /\ Change(op, id, items)[id].seal = "new"
<1> DEFINE r == Change(op, id, items)
<1>1. op \in {"put", "remove", "normalize", "alias", "reseal", "use"}
  BY DEF Ops, Updates
<1>2. items \in [DOMAIN items -> Items] /\ DOMAIN items \in SUBSET KeyId
  BY RingFunctions
<1>3. CASE op = "put"
  <2> DEFINE i == [Fresh EXCEPT !.alias = "named"]
  <2>1. r = [k \in DOMAIN items \cup {id} |-> IF k = id THEN i ELSE items[k]]
    BY <1>3 DEF Change, WithItem
  <2>2. i \in Items
    BY ItemTypes
  <2> HIDE DEF i
  <2>3. r \in [DOMAIN items \cup {id} -> Items] /\ DOMAIN items \cup {id} \in SUBSET KeyId
    BY <1>2, <2>1, <2>2
  <2>4. r \in Rings
    BY <2>3, RingFunctions
  <2> QED
    BY <1>3, <2>3, <2>4
<1>4. CASE op = "remove"
  <2>1. r = [k \in DOMAIN items \ {id} |-> items[k]]
    BY <1>4 DEF Change, Without, Restrict
  <2>2. r \in [DOMAIN items \ {id} -> Items] /\ DOMAIN items \ {id} \in SUBSET KeyId
    BY <1>2, <2>1
  <2>3. r \in Rings
    BY <2>2, RingFunctions
  <2> QED
    BY <1>4, <2>2, <2>3
<1>5. CASE op = "alias"
  <2>1. id \in DOMAIN items
    BY <1>5 DEF Updates
  <2> DEFINE i == [items[id] EXCEPT !.alias = IF items[id].alias = "" THEN "named" ELSE ""]
  <2>2. i \in Items
    BY <1>2, <2>1, ItemTypes
  <2>3. r = [items EXCEPT ![id] = i]
    BY <1>5 DEF Change
  <2> HIDE DEF i
  <2>4. r \in [DOMAIN items -> Items]
    BY <1>2, <2>1, <2>2, <2>3
  <2>5. r \in Rings
    BY <1>2, <2>4, RingFunctions
  <2> QED
    BY <1>5, <2>4, <2>5
<1>6. CASE op = "reseal"
  <2>1. id \in DOMAIN items
    BY <1>6 DEF Updates
  <2> DEFINE i == [items[id] EXCEPT !.seal = "new"]
  <2>2. i \in Items /\ i.seal = "new"
    BY <1>2, <2>1, ItemTypes DEF Items
  <2>3. r = [items EXCEPT ![id] = i]
    BY <1>6 DEF Change
  <2> HIDE DEF i
  <2>4. r \in [DOMAIN items -> Items] /\ r[id] = i
    BY <1>2, <2>1, <2>2, <2>3
  <2>5. r \in Rings
    BY <1>2, <2>4, RingFunctions
  <2> QED
    BY <1>6, <2>1, <2>2, <2>4, <2>5
<1>7. CASE op \in {"normalize", "use"}
  BY <1>7 DEF Change
<1> QED
  BY <1>1, <1>3, <1>4, <1>5, <1>6, <1>7

LEMMA InitRing == RingInit => RingIInv
<1> SUFFICES ASSUME RingInit PROVE RingIInv
  OBVIOUS
<1>1. kept \in Rings
  <2>1. kept \in [KeyId -> Items]
    BY ItemTypes DEF RingInit
  <2> QED
    BY <2>1, RingFunctions
<1>2. ring \in [RingCall -> Calls] /\ \A c \in RingCall : ring[c] = NoCallYet
  BY NoCallType DEF RingInit
<1>3. \A c \in RingCall : CallOK(ring[c])
  BY <1>2, NoCallType DEF CallOK, HasTarget, ReadIsKept, LockedLoadIsEmpty, GuardSawSession,
     UpdateHasItem, Changing, Busy
<1>4. LockIsHeld
  BY <1>2, NoCallType DEF LockIsHeld, Busy
<1> QED
  BY <1>1, <1>2, <1>3, <1>4 DEF RingInit, RingIInv, RingTypes, RingPage

\* A step of one call that stores nothing: the others know what they knew.
LEMMA OneCallMoves ==
  ASSUME RingIInv, NEW c \in RingCall, NEW y \in Calls, CallOK(y),
         ring' = [ring EXCEPT ![c] = y], UNCHANGED <<store, kept, open>>,
         \/ /\ ringHolder' = ringHolder
            /\ y.at \in Busy => ring[c].at \in Busy /\ y.page = ring[c].page
         \/ /\ ringHolder' = [ringHolder EXCEPT ![ring[c].page] = Free]
            /\ y.at \notin Busy
            /\ ring[c].at \in Busy \/ ringHolder[ring[c].page] = Free
         \/ /\ ringHolder[ring[c].page] = Free /\ y.page = ring[c].page
            /\ ringHolder' = [ringHolder EXCEPT ![ring[c].page] = c]
  PROVE  RingIInv'
<1>1. /\ ring \in [RingCall -> Calls] /\ ringHolder \in [RingPage -> RingCall \cup {Free}]
      /\ ring[c].page \in RingPage
  BY DEF RingIInv, RingTypes, Calls
<1>2. ring'[c] = y /\ \A d \in RingCall \ {c} : ring'[d] = ring[d] /\ ring[d].page \in RingPage
  BY <1>1 DEF Calls
<1>3. RingTypes'
  BY <1>1 DEF RingIInv, RingTypes
<1>4. \A d \in RingCall : CallOK(ring[d])'
  BY <1>2 DEF RingIInv, CallOK, HasTarget, ReadIsKept, LockedLoadIsEmpty, GuardSawSession,
     UpdateHasItem, Changing
<1>5. LockIsHeld'
  <2>1. Free \notin RingCall /\ \A d \in RingCall : ring[d].at \in Busy => ringHolder[ring[d].page] = d
    BY RingAssumption DEF RingIInv, LockIsHeld
  <2>2. ASSUME NEW d \in RingCall, ring'[d].at \in Busy PROVE ringHolder'[ring'[d].page] = d
    <3>1. CASE ringHolder' = ringHolder /\ (y.at \in Busy => ring[c].at \in Busy /\ y.page = ring[c].page)
      BY <1>2, <2>1, <2>2, <3>1
    <3>2. CASE /\ ringHolder' = [ringHolder EXCEPT ![ring[c].page] = Free]
               /\ y.at \notin Busy
               /\ ring[c].at \in Busy \/ ringHolder[ring[c].page] = Free
      <4>1. d # c /\ ring'[d] = ring[d] /\ ringHolder[ring[d].page] = d
        BY <1>2, <2>1, <2>2, <3>2
      <4>2. ring[d].page # ring[c].page
        BY <2>1, <3>2, <4>1
      <4> QED
        BY <1>1, <3>2, <4>1, <4>2
    <3>3. CASE /\ ringHolder[ring[c].page] = Free /\ y.page = ring[c].page
               /\ ringHolder' = [ringHolder EXCEPT ![ring[c].page] = c]
      <4>1. CASE d = c
        BY <1>1, <1>2, <3>3, <4>1
      <4>2. CASE d # c
        <5>1. ring'[d] = ring[d] /\ ringHolder[ring[d].page] = d
          BY <1>2, <2>1, <2>2, <4>2
        <5> QED
          BY <1>1, <2>1, <3>3, <5>1
      <4> QED
        BY <4>1, <4>2
    <3> QED
      BY <3>1, <3>2, <3>3
  <2> QED
    BY <2>2 DEF LockIsHeld
<1> QED
  BY <1>3, <1>4, <1>5 DEF RingIInv

\* A call that ends.
LEMMA CallEnds ==
  ASSUME RingIInv, NEW c \in RingCall, NEW result \in Results, EndCall(c, result),
         UNCHANGED <<store, kept, open>>,
         ring[c].at \in Busy \/ ringHolder[ring[c].page] = Free
  PROVE  RingIInv' /\ ring'[c].at = "ended" /\ ring'[c].result = result
<1> DEFINE y == [[NoCallYet EXCEPT !.at = "ended"] EXCEPT !.result = result]
<1>1. [NoCallYet EXCEPT !.at = "ended"] \in Calls
  BY NoCallType, CallUpdates DEF Places
<1>2. y \in Calls
  BY <1>1, CallUpdates
<1>3. y.at = "ended" /\ y.result = result /\ y.op = "put"
  BY NoCallType DEF Calls
<1>4. ring' = [ring EXCEPT ![c] = y] /\ ringHolder' = [ringHolder EXCEPT ![ring[c].page] = Free]
  BY DEF EndCall
<1>5. CallOK(y)
  BY <1>3 DEF CallOK, HasTarget, ReadIsKept, LockedLoadIsEmpty, GuardSawSession, UpdateHasItem,
     Changing, Busy
<1>6. ring'[c] = y
  BY <1>4 DEF RingIInv, RingTypes
<1> HIDE DEF y
<1>7. RingIInv'
  BY <1>2, <1>3, <1>4, <1>5, OneCallMoves DEF Busy
<1> QED
  BY <1>3, <1>6, <1>7

\* A call that only moves on.
LEMMA CallMovesOn ==
  ASSUME RingIInv, NEW c \in RingCall, NEW place \in Places, Step(c, place)
  PROVE  \E y \in Calls :
           /\ ring' = [ring EXCEPT ![c] = y]
           /\ y.at = place /\ y.op = ring[c].op /\ y.id = ring[c].id /\ y.page = ring[c].page
           /\ y.read = ring[c].read /\ y.lockedLoad = ring[c].lockedLoad
           /\ y.dropped = ring[c].dropped /\ y.overtaken = ring[c].overtaken
           /\ y.result = ring[c].result
<1> DEFINE y == [ring[c] EXCEPT !.at = place]
<1>1. ring[c] \in Calls
  BY DEF RingIInv, RingTypes
<1>2. y \in Calls
  BY <1>1, CallUpdates
<1>3. ring' = [ring EXCEPT ![c] = y]
  BY DEF Step
<1>4. /\ y.at = place /\ y.op = ring[c].op /\ y.id = ring[c].id /\ y.page = ring[c].page
      /\ y.read = ring[c].read /\ y.lockedLoad = ring[c].lockedLoad
      /\ y.dropped = ring[c].dropped /\ y.overtaken = ring[c].overtaken
      /\ y.result = ring[c].result
  BY <1>1 DEF Calls
<1> HIDE DEF y
<1> QED
  BY <1>2, <1>3, <1>4

LEMMA CallRingKeeps == ASSUME RingIInv, NEW c \in RingCall, CallRing(c) PROVE RingIInv'
<1>1. PICK op \in OpsOf(store), id \in KeyId, p \in RingPage :
        ring' = [ring EXCEPT ![c] = [NoCallYet EXCEPT !.at = "queued", !.op = op, !.id = id, !.page = p]]
  BY DEF CallRing
<1> DEFINE a == [NoCallYet EXCEPT !.at = "queued"]
           b == [a EXCEPT !.op = op]
           z == [b EXCEPT !.id = id]
           y == [z EXCEPT !.page = p]
<1>2. op \in Ops
  BY DEF OpsOf
<1>3. y \in Calls /\ y.at = "queued" /\ y.id = id /\ ~y.lockedLoad
  <2>1. a \in Calls
    BY NoCallType, CallUpdates DEF Places
  <2>2. a.at = "queued" /\ ~a.lockedLoad
    BY NoCallType DEF Calls
  <2> HIDE DEF a
  <2>3. \A v \in Ops : [a EXCEPT !.op = v] \in Calls
    BY <2>1 DEF Calls
  <2>4. b \in Calls
    BY <1>2, <2>3
  <2>5. b.at = "queued" /\ ~b.lockedLoad
    BY <2>1, <2>2 DEF Calls
  <2> HIDE DEF b
  <2>6. \A v \in KeyId : [b EXCEPT !.id = v] \in Calls
    BY <2>4 DEF Calls
  <2>7. z \in Calls
    BY <2>6
  <2>8. z.at = "queued" /\ ~z.lockedLoad /\ z.id = id
    BY <2>4, <2>5 DEF Calls
  <2> HIDE DEF z
  <2>9. \A v \in RingPage : [z EXCEPT !.page = v] \in Calls
    BY <2>7 DEF Calls
  <2>10. y \in Calls
    BY <2>9
  <2>11. y.at = "queued" /\ ~y.lockedLoad /\ y.id = id
    BY <2>7, <2>8 DEF Calls
  <2> QED
    BY <2>10, <2>11
<1>4. CallOK(y)
  BY <1>3 DEF CallOK, HasTarget, ReadIsKept, LockedLoadIsEmpty, GuardSawSession, UpdateHasItem,
     Changing, Busy
<1>5. ring' = [ring EXCEPT ![c] = y] /\ UNCHANGED <<store, kept, open, ringHolder>>
  BY <1>1 DEF CallRing
<1> HIDE DEF y
<1> QED
  BY <1>3, <1>4, <1>5, OneCallMoves DEF Busy

LEMMA GuardKeeps == ASSUME RingIInv, NEW c \in RingCall, Guard(c) PROVE RingIInv'
<1> DEFINE x == ring[c]
<1>1. x.at = "queued" /\ ringHolder[x.page] = Free /\ UNCHANGED <<store, kept, open>>
  BY DEF Guard, PageIsFree
<1>2. CASE Guarded(store, x.op) /\ ~HasSession(c)
  <2>1. EndCall(c, "skipped") \/ EndCall(c, "locked")
    BY <1>2 DEF Guard
  <2> QED
    BY <1>1, <2>1, CallEnds DEF Results
<1>3. CASE ~(Guarded(store, x.op) /\ ~HasSession(c))
  <2>1. Step(c, "load") /\ ringHolder' = [ringHolder EXCEPT ![x.page] = c]
    BY <1>3 DEF Guard
  <2>2. PICK y \in Calls :
           /\ ring' = [ring EXCEPT ![c] = y]
           /\ y.at = "load" /\ y.op = x.op /\ y.id = x.id /\ y.page = x.page
           /\ y.lockedLoad = x.lockedLoad
    BY <2>1, CallMovesOn DEF Places
  <2>3. CallOK(x)
    BY DEF RingIInv
  <2>4. CallOK(y)
    BY <1>1, <1>3, <2>2, <2>3 DEF CallOK, HasTarget, ReadIsKept, LockedLoadIsEmpty, GuardSawSession,
       UpdateHasItem, Changing, Busy, HasSession
  <2> QED
    BY <1>1, <2>1, <2>2, <2>4, OneCallMoves
<1> QED
  BY <1>2, <1>3

LEMMA LoadCheckKeeps == ASSUME RingIInv, NEW c \in RingCall, LoadCheck(c) PROVE RingIInv'
<1> DEFINE x == ring[c]
<1>1. x.at = "load" /\ UNCHANGED <<store, kept, open>> /\ x \in Calls /\ CallOK(x)
  BY DEF LoadCheck, RingIInv, RingTypes
<1>2. CASE HasSession(c)
  <2>1. Step(c, "read") /\ UNCHANGED ringHolder
    BY <1>2 DEF LoadCheck
  <2>2. PICK y \in Calls :
           /\ ring' = [ring EXCEPT ![c] = y]
           /\ y.at = "read" /\ y.op = x.op /\ y.id = x.id /\ y.page = x.page
           /\ y.lockedLoad = x.lockedLoad
    BY <2>1, CallMovesOn DEF Places
  <2>3. CallOK(y)
    BY <1>1, <2>2 DEF CallOK, HasTarget, ReadIsKept, LockedLoadIsEmpty, GuardSawSession,
       UpdateHasItem, Changing, Busy
  <2> QED
    BY <1>1, <2>1, <2>2, <2>3, OneCallMoves DEF Busy
<1>3. CASE ~HasSession(c) /\ x.op = "normalize"
  <2>1. EndCall(c, "skipped")
    BY <1>3 DEF LoadCheck
  <2> QED
    BY <1>1, <2>1, CallEnds DEF Results, Busy
<1>4. CASE ~HasSession(c) /\ x.op # "normalize"
  <2> DEFINE y == [[[x EXCEPT !.at = "change"] EXCEPT !.read = <<>>] EXCEPT !.lockedLoad = TRUE]
  <2>1. ring' = [ring EXCEPT ![c].at = "change", ![c].read = <<>>, ![c].lockedLoad = TRUE]
        /\ UNCHANGED ringHolder
    BY <1>4 DEF LoadCheck
  <2>2. [x EXCEPT !.at = "change"] \in Calls
    BY <1>1, CallUpdates DEF Places
  <2>3. [[x EXCEPT !.at = "change"] EXCEPT !.read = <<>>] \in Calls
    BY <2>2, CallUpdates, NoItems
  <2>4. y \in Calls
    BY <2>3, CallUpdates
  <2>5. /\ y.at = "change" /\ y.op = x.op /\ y.id = x.id /\ y.page = x.page /\ y.read = <<>>
        /\ y.lockedLoad = TRUE /\ y.dropped = x.dropped
    BY <1>1 DEF Calls
  <2>6. ring \in [RingCall -> Calls]
    BY DEF RingIInv, RingTypes
  <2>7. ring' = [ring EXCEPT ![c] = y]
    BY <2>1, <2>6
  <2> HIDE DEF y
  <2>8. CallOK(y)
    BY <1>1, <1>4, <2>5, NoItems DEF CallOK, HasTarget, ReadIsKept, LockedLoadIsEmpty,
       GuardSawSession, UpdateHasItem, Changing, Busy, HasSession
  <2> QED
    BY <1>1, <2>1, <2>4, <2>5, <2>7, <2>8, OneCallMoves DEF Busy
<1> QED
  BY <1>2, <1>3, <1>4

LEMMA LoadKeeps == ASSUME RingIInv, NEW c \in RingCall, Load(c) PROVE RingIInv'
<1> DEFINE x == ring[c]
<1>1. x.at = "read" /\ UNCHANGED <<store, kept, open>> /\ x \in Calls /\ CallOK(x) /\ kept \in Rings
  BY DEF Load, RingIInv, RingTypes
<1>2. CASE HasSession(c)
  <2> DEFINE y == [[x EXCEPT !.at = "change"] EXCEPT !.read = kept]
  <2>1. ring' = [ring EXCEPT ![c].at = "change", ![c].read = kept] /\ UNCHANGED ringHolder
    BY <1>2 DEF Load
  <2>2. [x EXCEPT !.at = "change"] \in Calls
    BY <1>1, CallUpdates DEF Places
  <2>3. y \in Calls
    BY <1>1, <2>2, CallUpdates
  <2>4. /\ y.at = "change" /\ y.id = x.id /\ y.page = x.page /\ y.read = kept
        /\ y.lockedLoad = x.lockedLoad
    BY <1>1 DEF Calls
  <2>5. ring \in [RingCall -> Calls]
    BY DEF RingIInv, RingTypes
  <2>6. ring' = [ring EXCEPT ![c] = y]
    BY <2>1, <2>5
  <2> HIDE DEF y
  <2>7. CallOK(y)
    BY <1>1, <2>4 DEF CallOK, HasTarget, ReadIsKept, LockedLoadIsEmpty, GuardSawSession,
       UpdateHasItem, Changing, Busy
  <2> QED
    BY <1>1, <2>1, <2>3, <2>4, <2>6, <2>7, OneCallMoves DEF Busy
<1>3. CASE ~HasSession(c)
  <2>1. EndCall(c, "failed")
    BY <1>3 DEF Load
  <2> QED
    BY <1>1, <2>1, CallEnds DEF Results, Busy
<1> QED
  BY <1>2, <1>3

LEMMA ModifyKeeps == ASSUME RingIInv, NEW c \in RingCall, Modify(c) PROVE RingIInv'
<1> DEFINE x == ring[c]
           missing == x.op \in Updates /\ x.id \notin DOMAIN x.read
<1>1. x.at = "change" /\ UNCHANGED <<store, kept, open>> /\ x \in Calls /\ CallOK(x)
  BY DEF Modify, RingIInv, RingTypes
<1>2. CASE missing \/ ~HasSession(c)
  <2>1. EndCall(c, "missing") \/ EndCall(c, "done") \/ EndCall(c, "failed")
    BY <1>2 DEF Modify
  <2> QED
    BY <1>1, <2>1, CallEnds DEF Results, Busy
<1>3. CASE ~missing /\ HasSession(c)
  <2>1. Step(c, "save") /\ UNCHANGED ringHolder
    BY <1>3 DEF Modify
  <2>2. PICK y \in Calls :
           /\ ring' = [ring EXCEPT ![c] = y]
           /\ y.at = "save" /\ y.op = x.op /\ y.id = x.id /\ y.page = x.page /\ y.read = x.read
           /\ y.lockedLoad = x.lockedLoad /\ y.dropped = x.dropped /\ y.overtaken = x.overtaken
    BY <2>1, CallMovesOn DEF Places
  <2>3. CallOK(y)
    BY <1>1, <1>3, <2>2 DEF CallOK, HasTarget, ReadIsKept, LockedLoadIsEmpty, GuardSawSession,
       UpdateHasItem, Changing, Busy
  <2> QED
    BY <1>1, <2>1, <2>2, <2>3, OneCallMoves DEF Busy
<1> QED
  BY <1>2, <1>3

\* What is sealed changes under every call of the other page, and under none of
\* its own: nobody else there holds the lock.
LEMMA SaveKeeps == ASSUME RingIInv, NEW c \in RingCall, Save(c) PROVE RingIInv'
<1> DEFINE x == ring[c]
           gone == [[NoCallYet EXCEPT !.at = "ended"] EXCEPT !.result = "done"]
<1>1. /\ x.at = "save" /\ x \in Calls /\ CallOK(x) /\ kept' = Change(x.op, x.id, x.read)
      /\ ringHolder' = [ringHolder EXCEPT ![x.page] = Free] /\ UNCHANGED <<store, open>>
  BY DEF Save, RingIInv, RingTypes
<1>2. kept' \in Rings
  <2>1. x.op \in Ops /\ x.id \in KeyId /\ x.read \in Rings
        /\ (x.op \in Updates => x.id \in DOMAIN x.read)
    BY <1>1 DEF Calls, CallOK, HasTarget, UpdateHasItem, Busy
  <2> QED
    BY <1>1, <2>1, ChangedItems
<1>3. gone \in Calls /\ gone.at = "ended"
  <2> DEFINE a == [NoCallYet EXCEPT !.at = "ended"]
  <2>1. a \in Calls
    BY NoCallType, CallUpdates DEF Places
  <2>2. a.at = "ended"
    BY NoCallType DEF Calls
  <2> HIDE DEF a
  <2>3. [a EXCEPT !.result = "done"] \in Calls
    BY <2>1, CallUpdates DEF Results
  <2>4. [a EXCEPT !.result = "done"].at = "ended"
    BY <2>1, <2>2 DEF Calls
  <2> QED
    BY <2>3, <2>4 DEF a
<1>4. ring' = [d \in RingCall |->
                 IF d = c THEN gone
                 ELSE IF ring[d].page # x.page /\ ring[d].at \in {"change", "save"}
                 THEN [ring[d] EXCEPT !.overtaken = TRUE]
                 ELSE ring[d]]
  BY DEF Save
<1> HIDE DEF gone
<1>5. ring'[c] = gone
  BY <1>4
<1>6. \A d \in RingCall \ {c} :
        /\ ring[d] \in Calls /\ CallOK(ring[d])
        /\ ring'[d] = IF ring[d].page # x.page /\ Changing(ring[d])
                      THEN [ring[d] EXCEPT !.overtaken = TRUE] ELSE ring[d]
  BY <1>4 DEF RingIInv, RingTypes, Changing
<1>7. \A d \in RingCall \ {c} :
        /\ ring'[d] \in Calls /\ ring'[d].at = ring[d].at /\ ring'[d].op = ring[d].op
        /\ ring'[d].id = ring[d].id /\ ring'[d].page = ring[d].page
        /\ ring'[d].read = ring[d].read /\ ring'[d].lockedLoad = ring[d].lockedLoad
        /\ ring'[d].dropped = ring[d].dropped
        /\ ring[d].page # x.page /\ Changing(ring[d]) => ring'[d].overtaken
  <2> TAKE d \in RingCall \ {c}
  <2>1. ring[d] \in Calls
    BY <1>6
  <2>2. CASE ring[d].page # x.page /\ Changing(ring[d])
    <3>1. ring'[d] = [ring[d] EXCEPT !.overtaken = TRUE]
      BY <1>6, <2>2
    <3>2. [ring[d] EXCEPT !.overtaken = TRUE] \in Calls
      BY <2>1, CallUpdates
    <3> QED
      BY <2>1, <3>1, <3>2 DEF Calls
  <2>3. CASE ~(ring[d].page # x.page /\ Changing(ring[d]))
    BY <1>6, <2>1, <2>3
  <2> QED
    BY <2>2, <2>3
<1>8. /\ ringHolder \in [RingPage -> RingCall \cup {Free}] /\ Free \notin RingCall
      /\ x.page \in RingPage /\ ringHolder[x.page] = c
      /\ \A d \in RingCall : ring[d].page \in RingPage /\ (ring[d].at \in Busy => ringHolder[ring[d].page] = d)
  BY <1>1, RingAssumption DEF RingIInv, RingTypes, LockIsHeld, Calls, Busy
<1>9. \A d \in RingCall \ {c} : ring[d].at \in Busy => ring[d].page # x.page
  BY <1>8
<1>10. RingTypes'
  <2>1. ring' \in [RingCall -> Calls]
    BY <1>3, <1>4, <1>5, <1>7
  <2> QED
    BY <1>1, <1>2, <1>8, <2>1 DEF RingIInv, RingTypes
<1>11. LockIsHeld'
  BY <1>1, <1>3, <1>5, <1>7, <1>8, <1>9 DEF LockIsHeld, Busy
<1>12. ASSUME NEW d \in RingCall PROVE CallOK(ring[d])'
  <2>1. CASE d = c
    BY <1>3, <1>5, <2>1 DEF CallOK, HasTarget, ReadIsKept, LockedLoadIsEmpty, GuardSawSession,
       UpdateHasItem, Changing, Busy
  <2>2. CASE d # c
    <3>1. /\ CallOK(ring[d]) /\ ring'[d].at = ring[d].at /\ ring'[d].op = ring[d].op
          /\ ring'[d].id = ring[d].id /\ ring'[d].page = ring[d].page
          /\ ring'[d].read = ring[d].read /\ ring'[d].lockedLoad = ring[d].lockedLoad
          /\ ring'[d].dropped = ring[d].dropped /\ store' = store /\ open' = open
      BY <1>1, <1>6, <1>7, <2>2
    <3>2. Changing(ring[d]) => ring'[d].overtaken
      BY <1>7, <1>9, <2>2 DEF Changing, Busy
    <3>3. HasTarget(ring[d])'
      BY <3>1 DEF CallOK, HasTarget
    <3>4. GuardSawSession(ring[d])' /\ UpdateHasItem(ring[d])'
      BY <3>1 DEF CallOK, GuardSawSession, UpdateHasItem, Guarded
    <3>5. ReadIsKept(ring[d])'
      BY <3>1, <3>2 DEF ReadIsKept, Changing
    <3>6. LockedLoadIsEmpty(ring[d])'
      BY <3>1 DEF CallOK, LockedLoadIsEmpty, Changing, Guarded
    <3> QED
      BY <3>3, <3>4, <3>5, <3>6 DEF CallOK
  <2> QED
    BY <2>1, <2>2
<1> QED
  BY <1>10, <1>11, <1>12 DEF RingIInv

LEMMA FlipKeeps == ASSUME RingIInv, NEW p \in RingPage, Flip(p) PROVE RingIInv'
<1> DEFINE drops(d) == ring[d].dropped \/ (ring[d].page = p /\ p \in open /\ ring[d].at = "load")
<1>1. /\ UNCHANGED <<store, kept, ringHolder>>
      /\ open' = IF p \in open THEN open \ {p} ELSE open \cup {p}
      /\ ring' = [d \in RingCall |-> [ring[d] EXCEPT !.dropped = drops(d)]]
  BY DEF Flip
<1>2. \A d \in RingCall : ring[d] \in Calls /\ CallOK(ring[d])
  BY DEF RingIInv, RingTypes
<1>3. ASSUME NEW d \in RingCall
      PROVE  /\ ring'[d] \in Calls /\ ring'[d].at = ring[d].at /\ ring'[d].op = ring[d].op
             /\ ring'[d].id = ring[d].id /\ ring'[d].page = ring[d].page
             /\ ring'[d].read = ring[d].read /\ ring'[d].lockedLoad = ring[d].lockedLoad
             /\ ring'[d].overtaken = ring[d].overtaken /\ (ring'[d].dropped <=> drops(d))
  <2>1. drops(d) \in BOOLEAN
    BY <1>2 DEF Calls
  <2>2. ring'[d] = [ring[d] EXCEPT !.dropped = drops(d)]
    BY <1>1
  <2> HIDE DEF drops
  <2>3. [ring[d] EXCEPT !.dropped = drops(d)] \in Calls
    BY <1>2, <2>1, CallUpdates
  <2> QED
    BY <1>2, <2>2, <2>3 DEF Calls
<1>4. RingTypes'
  <2>1. ring' \in [RingCall -> Calls]
    BY <1>1, <1>3
  <2> QED
    BY <1>1, <2>1 DEF RingIInv, RingTypes
<1>5. LockIsHeld'
  BY <1>1, <1>3 DEF RingIInv, LockIsHeld
<1>6. \A d \in RingCall : CallOK(ring[d])'
  BY <1>1, <1>2, <1>3 DEF CallOK, HasTarget, ReadIsKept, LockedLoadIsEmpty, GuardSawSession,
     UpdateHasItem, Changing
<1> QED
  BY <1>4, <1>5, <1>6 DEF RingIInv

LEMMA NextRing == RingIInv /\ [RingNext]_ringVars => RingIInv'
<1> SUFFICES ASSUME RingIInv, [RingNext]_ringVars PROVE RingIInv'
  OBVIOUS
<1>1. CASE UNCHANGED ringVars
  BY <1>1 DEF ringVars, RingIInv, RingTypes, LockIsHeld, CallOK, HasTarget, ReadIsKept,
     LockedLoadIsEmpty, GuardSawSession, UpdateHasItem
<1> QED
  BY <1>1, CallRingKeeps, GuardKeeps, LoadCheckKeeps, LoadKeeps, ModifyKeeps, SaveKeeps, FlipKeeps
  DEF RingNext

\* A call ends with a write only by its own save.
LEMMA WriteIsASave ==
  ASSUME RingIInv, RingNext, NEW c \in RingCall, RingWrites(c)
  PROVE  Save(c)
<1>1. ring[c].at = "save" /\ ring'[c].at = "ended" /\ ring \in [RingCall -> Calls]
  BY DEF RingWrites, RingIInv, RingTypes
<1>2. ASSUME NEW d \in RingCall, CallRing(d) \/ Guard(d) \/ LoadCheck(d) \/ Load(d) \/ Modify(d)
      PROVE  FALSE
  <2>1. ring[d].at # "save"
    BY <1>2 DEF CallRing, Guard, LoadCheck, Load, Modify
  <2>2. \A e \in RingCall \ {d} : ring'[e] = ring[e]
    BY <1>1, <1>2 DEF CallRing, Guard, LoadCheck, Load, Modify, EndCall, Step
  <2> QED
    BY <1>1, <2>1, <2>2
<1>3. ASSUME NEW d \in RingCall, d # c, Save(d) PROVE FALSE
  BY <1>1, <1>3 DEF Save, Calls
<1>4. ASSUME NEW p \in RingPage, Flip(p) PROVE FALSE
  BY <1>1, <1>4 DEF Flip, Calls
<1> QED
  BY <1>2, <1>3, <1>4 DEF RingNext

LEMMA WritesAreCurrent ==
  ASSUME RingIInv, RingNext, NEW c \in RingCall, RingWrites(c), ~ring[c].overtaken, ~ring[c].lockedLoad
  PROVE  kept' = Change(ring[c].op, ring[c].id, kept)
<1>1. Save(c) /\ CallOK(ring[c])
  BY WriteIsASave DEF RingIInv
<1> QED
  BY <1>1 DEF Save, CallOK, ReadIsKept, Changing

\* Only a removal takes an item, unless the array it was read from is not there
\* any more; a locked load that gets as far as saving is a put.
LEMMA WritesTakeTheirOwn ==
  ASSUME RingIInv, RingNext, NEW c \in RingCall, NEW k \in KeyId, RingWrites(c),
         k \in DOMAIN kept \ DOMAIN kept'
  PROVE  \/ ring[c].op = "remove" /\ ring[c].id = k
         \/ ring[c].overtaken
         \/ ring[c].lockedLoad /\ (ring[c].dropped \/ (store = "keyring" /\ ring[c].op = "put"))
<1> DEFINE x == ring[c]
<1>1. Save(c) /\ CallOK(x) /\ x \in Calls /\ kept \in Rings /\ x.at = "save"
  BY WriteIsASave DEF RingIInv, RingTypes, Save
<1>2. CASE ~x.overtaken /\ ~x.lockedLoad
  <2>1. x.read = kept /\ kept' = Change(x.op, x.id, kept) /\ x.op \in Ops /\ x.id \in KeyId
        /\ (x.op \in Updates => x.id \in DOMAIN kept)
    BY <1>1, <1>2 DEF Save, CallOK, ReadIsKept, Changing, HasTarget, UpdateHasItem, Busy, Calls
  <2> QED
    BY <1>1, <2>1, ChangedItems
<1>3. CASE ~x.overtaken /\ x.lockedLoad
  <2>1. DOMAIN x.read = {} /\ x.op # "normalize" /\ (x.dropped \/ ~Guarded(store, x.op))
    BY <1>1, <1>3 DEF CallOK, LockedLoadIsEmpty, Changing
  <2>2. x.op \notin Updates /\ x.op \in Ops
    BY <1>1, <2>1 DEF CallOK, UpdateHasItem, Calls
  <2>3. x.op \in {"put", "remove"} /\ store \in {"keyring", "crx"}
    BY <2>1, <2>2 DEF Ops, RingIInv, RingTypes
  <2> QED
    BY <1>3, <2>1, <2>3 DEF Guarded
<1> QED
  BY <1>2, <1>3

LEMMA ReportsAreSaved ==
  ASSUME RingIInv, RingNext, NEW c \in RingCall, ring[c].op = "reseal",
         ring[c].result = "none", ring'[c].result = "done"
  PROVE  ring[c].id \in DOMAIN kept' /\ kept'[ring[c].id].seal = "new"
<1> DEFINE x == ring[c]
<1>1. ring \in [RingCall -> Calls] /\ x \in Calls /\ CallOK(x)
  BY DEF RingIInv, RingTypes
<1>2. CASE Save(c)
  <2>1. x.id \in KeyId /\ x.id \in DOMAIN x.read /\ x.read \in Rings /\ "reseal" \in Ops
        /\ kept' = Change("reseal", x.id, x.read)
    BY <1>1, <1>2 DEF Save, CallOK, HasTarget, UpdateHasItem, Busy, Calls, Updates, Ops
  <2> QED
    BY <2>1, ChangedItems
<1>3. ASSUME NEW d \in RingCall, d # c, Save(d) PROVE FALSE
  <2>1. ring'[c] = ring[c] \/ ring'[c] = [ring[c] EXCEPT !.overtaken = TRUE]
    BY <1>3 DEF Save
  <2> QED
    BY <1>1, <2>1 DEF Calls
<1>4. ASSUME NEW p \in RingPage, Flip(p) PROVE FALSE
  BY <1>1, <1>4 DEF Flip, Calls
<1>5. ASSUME NEW d \in RingCall, CallRing(d) \/ Guard(d) \/ LoadCheck(d) \/ Load(d) \/ Modify(d)
      PROVE  FALSE
  <2>1. CASE d # c
    <3>1. ring'[c] = ring[c]
      BY <1>1, <1>5, <2>1 DEF CallRing, Guard, LoadCheck, Load, Modify, EndCall, Step
    <3> QED
      BY <3>1
  <2>2. CASE d = c
    <3>1. \A v \in Results : EndCall(c, v) => ring'[c].result = v
      <4>1. \A v \in Results : EndCall(c, v) =>
              ring'[c] = [NoCallYet EXCEPT !.at = "ended", !.result = v]
        BY <1>1 DEF EndCall
      <4>2. \A v \in Results : [NoCallYet EXCEPT !.at = "ended", !.result = v].result = v
        BY NoCallType DEF Calls
      <4> QED
        BY <4>1, <4>2
    <3>2. \A v \in Places : Step(c, v) => ring'[c].result = "none"
      BY <1>1 DEF Step, Calls
    <3>3. CASE CallRing(c)
      <4>1. PICK op \in OpsOf(store), id \in KeyId, p \in RingPage :
              ring'[c] = [NoCallYet EXCEPT !.at = "queued", !.op = op, !.id = id, !.page = p]
        BY <1>1, <3>3 DEF CallRing
      <4>2. [NoCallYet EXCEPT !.at = "queued", !.op = op, !.id = id, !.page = p].result = "none"
        BY DEF NoCallYet
      <4> QED
        BY <4>1, <4>2
    <3>4. CASE Guard(c)
      BY <3>1, <3>2, <3>4 DEF Guard, Results, Places
    <3>5. CASE LoadCheck(c)
      <4>1. CASE HasSession(c)
        BY <3>2, <3>5, <4>1 DEF LoadCheck, Places
      <4>2. CASE ~HasSession(c)
        <5>1. ring' = [ring EXCEPT ![c].at = "change", ![c].read = <<>>, ![c].lockedLoad = TRUE]
          BY <3>5, <4>2 DEF LoadCheck
        <5>2. ring'[c].result = x.result
          BY <1>1, <5>1 DEF Calls
        <5> QED
          BY <5>2
      <4> QED
        BY <4>1, <4>2
    <3>6. CASE Load(c)
      <4>1. CASE HasSession(c)
        BY <1>1, <3>6, <4>1 DEF Load, Calls
      <4>2. CASE ~HasSession(c)
        BY <3>1, <3>6, <4>2 DEF Load, Results
      <4> QED
        BY <4>1, <4>2
    <3>7. CASE Modify(c)
      <4>1. EndCall(c, "missing") \/ EndCall(c, "failed") \/ Step(c, "save")
        BY <3>7 DEF Modify, ThrowsIfMissing
      <4> QED
        BY <3>1, <3>2, <4>1 DEF Results, Places
    <3> QED
      BY <1>5, <2>2, <3>3, <3>4, <3>5, <3>6, <3>7
  <2> QED
    BY <2>1, <2>2
<1> QED
  BY <1>2, <1>3, <1>4, <1>5 DEF RingNext

\* However many calls of the two pages interleave and wherever the vault locks,
\* no write undoes another of its page, only a removal takes a key, but for the
\* two gaps the code has, and what is reported as re-sealed is (protected-store
\* .ts:6, keyring.ts:142, 169).
THEOREM RingIsKept == RingSpec => KeysAreKept
<1>1. RingIInv => RingTypeOK
  BY DEF RingIInv, RingTypes, RingTypeOK, Calls
<1>2. RingIInv /\ [RingNext]_ringVars =>
        [\A c \in RingCall : RingWrites(c) /\ ~ring[c].overtaken /\ ~ring[c].lockedLoad
           => kept' = Change(ring[c].op, ring[c].id, kept)]_ringVars
  BY WritesAreCurrent
<1>3. RingIInv /\ [RingNext]_ringVars =>
        [\A c \in RingCall, k \in KeyId :
           RingWrites(c) /\ k \in DOMAIN kept \ DOMAIN kept' =>
             \/ ring[c].op = "remove" /\ ring[c].id = k
             \/ ring[c].overtaken
             \/ ring[c].lockedLoad /\ (ring[c].dropped \/ (store = "keyring"
                                                     /\ ring[c].op = "put"))]_ringVars
  BY WritesTakeTheirOwn
<1>4. RingIInv /\ [RingNext]_ringVars =>
        [\A c \in RingCall :
          ring[c].op = "reseal" /\ ring[c].result = "none" /\ ring'[c].result = "done" =>
              /\ ring[c].id \in DOMAIN kept'
              /\ kept'[ring[c].id].seal = "new"]_ringVars
  BY ReportsAreSaved
<1> QED
  BY <1>1, <1>2, <1>3, <1>4, InitRing, NextRing, PTL
  DEF RingSpec, KeysAreKept, WritesChangeWhatIsThere, LockedLoadWipesNothing, ReportedMeansSaved

-----------------------------------------------------------------------------
(* The preferences of the panel.  What keeps its copy true is that the last *)
(* of the re-reads under way sees what is stored, or an event that is still *)
(* to come does; and that one of them will be taken once the updates under  *)
(* way have ended.                                                          *)

Ats == {"idle", "saving", "stored", "rejected", "done", "failed"}
Changes == [at : Ats, field : Field, nth : Nat]
Reloads == [epoch : Nat, before : BOOLEAN, read : Prefs \cup {Unread}, real : BOOLEAN,
            failed : BOOLEAN]

OpenUpdates == {u \in Update : update[u].at \in {"saving", "stored", "rejected"}}
Landed(u) == update[u].at \in {"stored", "done"}
LandedUnlock(p) == p["unlock"] \in Update => Landed(p["unlock"])
NoDefaults(p) == \A f \in Field : p[f] # "default"
LastReload == reloads[Len(reloads)]

PrefsTypes ==
    /\ snapshot \in Prefs /\ saved \in Prefs
    /\ update \in [Update -> Changes] /\ reloads \in Seq(Reloads)
    /\ writeEpoch \in Nat /\ events \in Nat
    /\ reloadDropped \in BOOLEAN /\ unlocked \in BOOLEAN

WritesAreCounted ==
    writesInFlight = Cardinality(OpenUpdates) /\ writesInFlight <= writeEpoch

ReadIsOfItsTime(r) ==
    /\ r.failed => r.read = Strict
    /\ r.real => r.read \in Prefs /\ NoDefaults(r.read)
    /\ r.epoch <= writeEpoch
    /\ LandedUnlock(r.read)
ReadsAreOfTheirTime == \A i \in 1 .. Len(reloads) : ReadIsOfItsTime(reloads[i])

LastBeganLast ==
    \A i \in 1 .. Len(reloads) : reloads[i].epoch <= LastReload.epoch

SeesStorage(r) ==
    \/ r.read = Unread
    \/ r.failed
    \/ r.real /\ (r.read = saved \/ events > 0)
LastSeesStorage ==
    unlocked /\ reloads # <<>> => LastReload.before /\ SeesStorage(LastReload)

ShownOrToBeRead ==
    unlocked =>
        \/ events > 0
        \/ \E u \in Update : update[u].at \in {"saving", "rejected"}
        \/ reloads # <<>> /\ LastReload.epoch = writeEpoch
        \/ reloadDropped /\ writesInFlight > 0
        \/ writesInFlight = 0 /\ snapshot \in {saved, Strict}

PrefsIInv ==
    /\ PrefsTypes /\ WritesAreCounted
    /\ NoDefaults(saved) /\ LandedUnlock(saved)
    /\ UnlockSettingShownWhenStored /\ ChangeInFlightIsShown
    /\ ReadsAreOfTheirTime /\ LastBeganLast /\ LastSeesStorage /\ ShownOrToBeRead

LEMMA PrefsValues ==
  /\ \A u \in Update : u \in Value /\ u # "default" /\ u # "unread" /\ u # "stored"
                       /\ u # "other window" /\ u # "strict"
  /\ Defaults \in Prefs /\ Strict \in Prefs /\ Unread \notin Prefs
  /\ Unread["unlock"] \notin Update /\ Defaults["unlock"] \notin Update
  /\ Strict["unlock"] \notin Update
  /\ Defaults # Strict /\ ~NoDefaults(Defaults)
<1>1. \A u \in Update : u \in Value /\ u # "default" /\ u # "unread" /\ u # "stored"
                        /\ u # "other window" /\ u # "strict"
  BY UpdateAssumption DEF Value
<1>2. Defaults \in Prefs /\ Strict \in Prefs
  BY DEF Defaults, Strict, Prefs, Value
<1>3. Unread["theme"] = "unread" /\ Unread["unlock"] = "unread"
      /\ Defaults["unlock"] = "default" /\ Strict["unlock"] = "strict"
  BY DEF Unread, Defaults, Strict, Field
<1>4. "unread" \notin Value /\ "unread" \notin Update /\ "default" \notin Update
      /\ "strict" \notin Update
  BY UpdateAssumption DEF Value
<1>5. Unread \notin Prefs
  BY <1>3, <1>4 DEF Prefs, Field
<1>6. Defaults # Strict /\ ~NoDefaults(Defaults)
  BY <1>3 DEF NoDefaults, Field
<1> QED
  BY <1>1, <1>2, <1>3, <1>4, <1>5, <1>6

LEMMA OpenAreFinite == IsFiniteSet(OpenUpdates) /\ Cardinality(OpenUpdates) \in Nat
                       /\ Cardinality(OpenUpdates) <= Cardinality(Update)
                       /\ Cardinality(Update) \in Nat
<1>1. OpenUpdates \subseteq Update
  BY DEF OpenUpdates
<1> QED
  BY <1>1, UpdateAssumption, FS_Subset, FS_CardinalityType

\* While no update is under way none is being saved.
LEMMA NoneIsOpen ==
  ASSUME WritesAreCounted PROVE writesInFlight = 0 <=> OpenUpdates = {}
<1> QED
  BY OpenAreFinite, FS_EmptySet DEF WritesAreCounted

LEMMA InitPrefs == PrefsInit => PrefsIInv
<1> SUFFICES ASSUME PrefsInit PROVE PrefsIInv
  OBVIOUS
<1>1. saved \in Prefs /\ NoDefaults(saved) /\ saved["unlock"] = "stored"
  BY DEF PrefsInit, Prefs, Value, NoDefaults, Field
<1>2. snapshot \in Prefs /\ snapshot["unlock"] \notin Update
  BY <1>1, PrefsValues, UpdateAssumption DEF PrefsInit
<1>3. update \in [Update -> Changes]
  BY DEF PrefsInit, Changes, Ats, Field
<1>4. \A u \in Update : update[u].at = "idle"
  BY DEF PrefsInit
<1>5. reloads = <<>> /\ Len(reloads) = 0 /\ reloads \in Seq(Reloads)
  BY DEF PrefsInit
<1>6. PrefsTypes
  BY <1>1, <1>2, <1>3, <1>5 DEF PrefsInit, PrefsTypes
<1>7. OpenUpdates = {}
  BY <1>4 DEF OpenUpdates
<1>8. WritesAreCounted
  BY <1>7, FS_EmptySet DEF WritesAreCounted, PrefsInit
<1>9. LandedUnlock(saved) /\ UnlockSettingShownWhenStored
  BY <1>1, <1>2, UpdateAssumption DEF LandedUnlock, UnlockSettingShownWhenStored
<1>10. ChangeInFlightIsShown
  BY <1>4 DEF ChangeInFlightIsShown
<1>11. ReadsAreOfTheirTime /\ LastBeganLast /\ LastSeesStorage
  BY <1>5 DEF ReadsAreOfTheirTime, LastBeganLast, LastSeesStorage
<1>12. ShownOrToBeRead
  BY DEF ShownOrToBeRead, PrefsInit
<1> QED
  BY <1>1, <1>6, <1>8, <1>9, <1>10, <1>11, <1>12 DEF PrefsIInv

LEMMA AReadBegins ==
  ASSUME PrefsTypes
  PROVE  /\ Starting \in Reloads /\ Starting.epoch = writeEpoch /\ Starting.before = unlocked
         /\ Starting.read = Unread /\ Starting.real = FALSE /\ Starting.failed = FALSE
         /\ \E r \in Reloads : /\ r = [Starting EXCEPT !.before = TRUE]
                               /\ r.epoch = writeEpoch /\ r.before /\ r.read = Unread
                               /\ r.real = FALSE /\ r.failed = FALSE
<1>1. Starting \in Reloads
  BY DEF Starting, Reloads, PrefsTypes
<1>2. /\ Starting.epoch = writeEpoch /\ Starting.before = unlocked
      /\ Starting.read = Unread /\ Starting.real = FALSE /\ Starting.failed = FALSE
  BY DEF Starting
<1> DEFINE r == [Starting EXCEPT !.before = TRUE]
<1>3. r \in Reloads /\ r.epoch = writeEpoch /\ r.before /\ r.read = Unread /\ r.real = FALSE
      /\ r.failed = FALSE
  BY <1>1, <1>2 DEF Reloads
<1>4. r = [Starting EXCEPT !.before = TRUE]
  OBVIOUS
<1> HIDE DEF r
<1> QED
  BY <1>1, <1>2, <1>3, <1>4

\* A re-read that begins now is the last, and begins no earlier than the others.
LEMMA AnotherBegins ==
  ASSUME PrefsIInv, NEW r \in Reloads, reloads' = Append(reloads, r),
         r.epoch = writeEpoch, r.read = Unread, r.real = FALSE, r.failed = FALSE,
         unlocked' => r.before,
         writeEpoch' = writeEpoch,
         \A u \in Update : Landed(u) => Landed(u)'
  PROVE  /\ reloads' \in Seq(Reloads)
         /\ ReadsAreOfTheirTime' /\ LastBeganLast' /\ LastSeesStorage' /\ ShownOrToBeRead'
<1>0. reloads \in Seq(Reloads) /\ writeEpoch \in Nat
  BY DEF PrefsIInv, PrefsTypes
<1>3. /\ reloads' \in Seq(Reloads) /\ reloads' # <<>>
      /\ Len(reloads') = Len(reloads) + 1 /\ Len(reloads) \in Nat
      /\ \A i \in 1 .. Len(reloads) : reloads'[i] = reloads[i]
      /\ reloads'[Len(reloads) + 1] = r
  BY <1>0, AppendProperties, LenProperties
<1>4. \A i \in 1 .. Len(reloads') : reloads'[i] = r \/ (i \in 1 .. Len(reloads)
                                                      /\ reloads'[i] = reloads[i])
  BY <1>3
<1>5. LastReload' = r
  BY <1>3 DEF LastReload
<1>6. ReadIsOfItsTime(r)'
  <2>1. LandedUnlock(r.read)'
    BY PrefsValues DEF LandedUnlock
  <2>2. r.epoch <= writeEpoch'
    BY <1>0
  <2> QED
    BY <2>1, <2>2 DEF ReadIsOfItsTime
<1>7. \A i \in 1 .. Len(reloads) : reloads[i] \in Reloads /\ ReadIsOfItsTime(reloads[i])
  BY <1>0, ElementOfSeq DEF PrefsIInv, ReadsAreOfTheirTime
<1>8. \A x \in Reloads : ReadIsOfItsTime(x) => ReadIsOfItsTime(x)'
  BY DEF ReadIsOfItsTime, LandedUnlock
<1>9. ReadsAreOfTheirTime'
  <2> SUFFICES ASSUME NEW i \in 1 .. Len(reloads'), NEW x \in Reloads, x = reloads'[i]
               PROVE  ReadIsOfItsTime(x)'
    BY <1>3, ElementOfSeq DEF ReadsAreOfTheirTime
  <2>1. CASE x = r
    BY <1>6, <2>1
  <2>2. CASE i \in 1 .. Len(reloads) /\ x = reloads[i]
    BY <1>7, <1>8, <2>2
  <2> QED
    BY <1>4, <2>1, <2>2
<1>10. LastBeganLast'
  <2>1. \A i \in 1 .. Len(reloads) : reloads[i].epoch <= writeEpoch
    BY <1>7 DEF ReadIsOfItsTime
  <2> QED
    BY <1>0, <1>4, <1>5, <2>1 DEF LastBeganLast
<1>11. LastSeesStorage' /\ ShownOrToBeRead'
  BY <1>3, <1>5 DEF LastSeesStorage, SeesStorage, ShownOrToBeRead
<1> QED
  BY <1>3, <1>9, <1>10, <1>11

\* Steps that leave the re-reads alone.
LEMMA NoneBegins ==
  ASSUME PrefsIInv, reloads' = reloads, writeEpoch' \in Nat, writeEpoch <= writeEpoch',
         \A u \in Update : Landed(u) => Landed(u)',
         unlocked' => unlocked,
         (saved' = saved /\ events' = events) \/ events' > 0
  PROVE  ReadsAreOfTheirTime' /\ LastBeganLast' /\ LastSeesStorage'
<1>0. reloads \in Seq(Reloads) /\ writeEpoch \in Nat
  BY DEF PrefsIInv, PrefsTypes
<1>1. \A i \in 1 .. Len(reloads) : reloads[i] \in Reloads /\ ReadIsOfItsTime(reloads[i])
  BY <1>0, ElementOfSeq DEF PrefsIInv, ReadsAreOfTheirTime
<1>2. \A x \in Reloads : x.epoch \in Nat
  BY DEF Reloads
<1>3. \A x \in Reloads : ReadIsOfItsTime(x) => ReadIsOfItsTime(x)'
  BY <1>0, <1>2 DEF ReadIsOfItsTime, LandedUnlock
<1>4. ReadsAreOfTheirTime'
  <2> SUFFICES ASSUME NEW i \in 1 .. Len(reloads'), NEW x \in Reloads, x = reloads'[i]
               PROVE  ReadIsOfItsTime(x)'
    BY <1>1 DEF ReadsAreOfTheirTime
  <2> QED
    BY <1>1, <1>3
<1>5. LastReload' = LastReload
  BY DEF LastReload
<1>6. LastBeganLast'
  BY <1>5 DEF LastBeganLast, PrefsIInv
<1>7. LastSeesStorage'
  BY <1>5 DEF LastSeesStorage, SeesStorage, PrefsIInv
<1> QED
  BY <1>4, <1>6, <1>7

\* The read half of a re-read.
LEMMA OneReads ==
  ASSUME PrefsIInv, NEW i \in 1 .. Len(reloads), NEW y \in Reloads,
         reloads' \in Seq(Reloads), Len(reloads') = Len(reloads), reloads'[i] = y,
         \A j \in 1 .. Len(reloads) : j # i => reloads'[j] = reloads[j],
         y.epoch = reloads[i].epoch, y.before = reloads[i].before,
         ReadIsOfItsTime(y), unlocked => SeesStorage(y),
         UNCHANGED <<snapshot, writeEpoch, writesInFlight, reloadDropped, saved, update,
                     events, unlocked, prefTurns>>
  PROVE  PrefsIInv'
<1>0. PrefsTypes /\ PrefsTypes' /\ Len(reloads) \in Nat
  BY LenProperties DEF PrefsIInv, PrefsTypes
<1>1. WritesAreCounted' /\ NoDefaults(saved)' /\ LandedUnlock(saved)'
      /\ UnlockSettingShownWhenStored' /\ ChangeInFlightIsShown'
  BY DEF PrefsIInv, WritesAreCounted, OpenUpdates, NoDefaults, LandedUnlock, Landed,
     UnlockSettingShownWhenStored, ChangeInFlightIsShown
<1>2. \A x \in Reloads : /\ ReadIsOfItsTime(x) => ReadIsOfItsTime(x)'
                         /\ SeesStorage(x) => SeesStorage(x)'
  BY DEF ReadIsOfItsTime, LandedUnlock, Landed, SeesStorage
<1>3. \A j \in 1 .. Len(reloads) :
        reloads[j] \in Reloads /\ ReadIsOfItsTime(reloads[j])
  BY <1>0, ElementOfSeq DEF PrefsIInv, PrefsTypes, ReadsAreOfTheirTime
<1>4. ReadsAreOfTheirTime'
  <2> SUFFICES ASSUME NEW j \in 1 .. Len(reloads'), NEW x \in Reloads, x = reloads'[j]
               PROVE  ReadIsOfItsTime(x)'
    BY ElementOfSeq DEF ReadsAreOfTheirTime
  <2>1. CASE j = i
    BY <1>2, <2>1
  <2>2. CASE j # i
    BY <1>2, <1>3, <2>2
  <2> QED
    BY <2>1, <2>2
<1>5. \A j \in 1 .. Len(reloads) : /\ reloads'[j].epoch = reloads[j].epoch
                                   /\ reloads'[j].before = reloads[j].before
  OBVIOUS
<1>6. Len(reloads) \in 1 .. Len(reloads) /\ LastReload'.epoch = LastReload.epoch
      /\ LastReload'.before = LastReload.before
  BY <1>0, <1>5 DEF LastReload
<1>7. LastBeganLast'
  BY <1>5, <1>6 DEF LastBeganLast, PrefsIInv
<1>8. reloads # <<>> /\ reloads' # <<>>
  BY <1>6
<1>9. LastSeesStorage'
  <2>1. CASE i = Len(reloads)
    <3>1. LastReload' = y
      BY <2>1 DEF LastReload
    <3>2. unlocked' => SeesStorage(y)'
      BY <1>2
    <3>3. unlocked' => LastReload'.before
      BY <1>6, <1>8 DEF PrefsIInv, LastSeesStorage
    <3> QED
      BY <3>1, <3>2, <3>3 DEF LastSeesStorage, SeesStorage
  <2>2. CASE i # Len(reloads)
    <3>1. LastReload' = LastReload
      BY <1>6, <2>2 DEF LastReload
    <3> QED
      BY <1>8, <3>1 DEF PrefsIInv, LastSeesStorage, SeesStorage
  <2> QED
    BY <2>1, <2>2
<1>10. ShownOrToBeRead'
  BY <1>6, <1>8 DEF PrefsIInv, ShownOrToBeRead
<1> QED
  BY <1>0, <1>1, <1>4, <1>7, <1>9, <1>10 DEF PrefsIInv

LEMMA ReadPrefsKeeps == ASSUME PrefsIInv, ReadPrefs PROVE PrefsIInv'
<1>0. PrefsTypes /\ reloads \in Seq(Reloads) /\ Len(reloads) \in Nat
  BY LenProperties DEF PrefsIInv, PrefsTypes
<1>1. PICK i \in 1 .. Len(reloads) :
        /\ reloads[i].read = Unread
        /\ \/ reloads' = [reloads EXCEPT ![i].read = IF unlocked THEN saved ELSE Defaults,
                                         ![i].real = unlocked]
           \/ reloads' = [reloads EXCEPT ![i].read = Strict, ![i].failed = TRUE]
        /\ UNCHANGED <<snapshot, writeEpoch, writesInFlight, reloadDropped, saved, update,
                       events, unlocked, prefTurns>>
  BY DEF ReadPrefs
<1>2. PICK r \in Reloads : r = reloads[i]
  BY <1>0, ElementOfSeq
<1>3. ReadIsOfItsTime(r) /\ r.read = Unread
  BY <1>1, <1>2 DEF PrefsIInv, ReadsAreOfTheirTime
<1>4. ~r.failed /\ ~r.real
  BY <1>3, PrefsValues DEF ReadIsOfItsTime
<1>5. CASE reloads' = [reloads EXCEPT ![i].read = IF unlocked THEN saved ELSE Defaults,
                                      ![i].real = unlocked]
  <2> DEFINE p == IF unlocked THEN saved ELSE Defaults
  <2>1. p \in Prefs /\ unlocked \in BOOLEAN
    BY <1>0, PrefsValues DEF PrefsTypes
  <2>2. LandedUnlock(p) /\ (unlocked => p = saved /\ NoDefaults(p))
    BY PrefsValues DEF PrefsIInv, LandedUnlock
  <2>3. reloads' = [reloads EXCEPT ![i].read = p, ![i].real = unlocked]
    BY <1>5
  <2> HIDE DEF p
  <2> DEFINE a == [r EXCEPT !.read = p]
  <2> DEFINE y == [a EXCEPT !.real = unlocked]
  <2>4. a \in Reloads
    BY <1>2, <2>1 DEF Reloads
  <2>5. y \in Reloads
    <3> HIDE DEF a
    <3> QED
      BY <2>1, <2>4 DEF Reloads
  <2>6. y.epoch = r.epoch /\ y.before = r.before /\ y.read = p /\ (y.real <=> unlocked)
        /\ (y.failed <=> r.failed)
    BY <1>2, <2>1 DEF Reloads
  <2> HIDE DEF y
  <2>7. /\ reloads' \in Seq(Reloads) /\ Len(reloads') = Len(reloads) /\ reloads'[i] = y
        /\ \A j \in 1 .. Len(reloads) : j # i => reloads'[j] = reloads[j]
    <3>1. [reloads EXCEPT ![i] = a] \in Seq(Reloads)
          /\ Len([reloads EXCEPT ![i] = a]) = Len(reloads)
          /\ \A j \in 1 .. Len(reloads) :
               [reloads EXCEPT ![i] = a][j] = IF j = i THEN a ELSE reloads[j]
      <4> HIDE DEF a
      <4> QED
        BY <1>0, <2>4, ExceptSeq
    <3> DEFINE s == [reloads EXCEPT ![i] = a]
    <3>2. reloads' = [s EXCEPT ![i] = [s[i] EXCEPT !.real = unlocked]]
      BY <1>2, <2>3
    <3>3. s[i] = a
      BY <3>1
    <3> HIDE DEF s
    <3>4. reloads' = [s EXCEPT ![i] = y]
      BY <3>2, <3>3 DEF y
    <3>5. s \in Seq(Reloads) /\ Len(s) = Len(reloads)
          /\ \A j \in 1 .. Len(reloads) : j # i => s[j] = reloads[j]
      BY <3>1 DEF s
    <3> HIDE DEF a
    <3> QED
      BY <2>5, <3>4, <3>5, ExceptSeq
  <2>8. ReadIsOfItsTime(y) /\ (unlocked => SeesStorage(y))
    BY <1>3, <1>4, <2>1, <2>2, <2>6 DEF ReadIsOfItsTime, SeesStorage
  <2> QED
    BY <1>1, <1>2, <2>5, <2>6, <2>7, <2>8, OneReads
<1>6. CASE reloads' = [reloads EXCEPT ![i].read = Strict, ![i].failed = TRUE]
  <2> DEFINE a == [r EXCEPT !.read = Strict]
  <2> DEFINE y == [a EXCEPT !.failed = TRUE]
  <2>4. a \in Reloads
    BY <1>2, PrefsValues DEF Reloads
  <2>5. y \in Reloads
    <3> HIDE DEF a
    <3> QED
      BY <2>4 DEF Reloads
  <2>6. y.epoch = r.epoch /\ y.before = r.before /\ y.read = Strict /\ (y.real <=> r.real)
        /\ y.failed
    BY <1>2 DEF Reloads
  <2> HIDE DEF y
  <2>7. /\ reloads' \in Seq(Reloads) /\ Len(reloads') = Len(reloads) /\ reloads'[i] = y
        /\ \A j \in 1 .. Len(reloads) : j # i => reloads'[j] = reloads[j]
    <3>1. [reloads EXCEPT ![i] = a] \in Seq(Reloads)
          /\ Len([reloads EXCEPT ![i] = a]) = Len(reloads)
          /\ \A j \in 1 .. Len(reloads) :
               [reloads EXCEPT ![i] = a][j] = IF j = i THEN a ELSE reloads[j]
      <4> HIDE DEF a
      <4> QED
        BY <1>0, <2>4, ExceptSeq
    <3> DEFINE s == [reloads EXCEPT ![i] = a]
    <3>2. reloads' = [s EXCEPT ![i] = [s[i] EXCEPT !.failed = TRUE]]
      BY <1>2, <1>6
    <3>3. s[i] = a
      BY <3>1
    <3> HIDE DEF s
    <3>4. reloads' = [s EXCEPT ![i] = y]
      BY <3>2, <3>3 DEF y
    <3>5. s \in Seq(Reloads) /\ Len(s) = Len(reloads)
          /\ \A j \in 1 .. Len(reloads) : j # i => s[j] = reloads[j]
      BY <3>1 DEF s
    <3> HIDE DEF a
    <3> QED
      BY <2>5, <3>4, <3>5, ExceptSeq
  <2>8. ReadIsOfItsTime(y) /\ SeesStorage(y)
    BY <1>3, <1>4, <2>6, PrefsValues DEF ReadIsOfItsTime, SeesStorage, LandedUnlock
  <2> QED
    BY <1>1, <1>2, <2>5, <2>6, <2>7, <2>8, OneReads
<1> QED
  BY <1>1, <1>5, <1>6

\* What a re-read that ends can show: the strictest preset, a reading of the
\* settings that is the last one's or has a later one behind it, or what is shown.
LEMMA FinishShows ==
  ASSUME PrefsIInv, FinishReload
  PROVE  \/ snapshot' = snapshot
         \/ /\ writesInFlight = 0 /\ snapshot' = Head(reloads).read
            /\ snapshot' \in Prefs /\ Head(reloads).epoch = writeEpoch
            /\ Head(reloads).failed \/ (Head(reloads).before /\ unlocked)
<1>0. reloads \in Seq(Reloads) /\ reloads # <<>> /\ Head(reloads) \in Reloads
      /\ Head(reloads).read # Unread
  BY HeadTailProperties DEF PrefsIInv, PrefsTypes, FinishReload
<1>1. Head(reloads).read \in Prefs
  BY <1>0 DEF Reloads
<1> QED
  BY <1>1 DEF FinishReload, Undisturbed, BothSides

LEMMA FinishReloadKeeps == ASSUME PrefsIInv, FinishReload PROVE PrefsIInv'
<1>0. PrefsTypes /\ reloads \in Seq(Reloads) /\ Len(reloads) \in Nat /\ reloads # <<>>
      /\ writesInFlight \in Nat
  BY LenProperties, OpenAreFinite DEF PrefsIInv, PrefsTypes, FinishReload, WritesAreCounted
<1>1. /\ Len(reloads) >= 1 /\ Head(reloads) \in Reloads /\ Head(reloads) = reloads[1]
      /\ Tail(reloads) \in Seq(Reloads) /\ Len(Tail(reloads)) = Len(reloads) - 1
      /\ \A i \in 1 .. Len(Tail(reloads)) : Tail(reloads)[i] = reloads[i + 1]
  BY <1>0, HeadTailProperties, EmptySeq
<1>2. reloads' = Tail(reloads)
      /\ UNCHANGED <<writeEpoch, writesInFlight, saved, update, events, unlocked, prefTurns>>
  BY DEF FinishReload
<1>3. \A i \in 1 .. Len(reloads') : i + 1 \in 1 .. Len(reloads)
                                    /\ reloads'[i] = reloads[i + 1]
  BY <1>0, <1>1, <1>2
<1>4. \A i \in 1 .. Len(reloads) :
        reloads[i] \in Reloads /\ ReadIsOfItsTime(reloads[i])
  BY <1>0, ElementOfSeq DEF PrefsIInv, ReadsAreOfTheirTime
<1>5. PICK r \in Reloads : r = Head(reloads) /\ ReadIsOfItsTime(r)
  BY <1>0, <1>1, <1>4
<1>6. PrefsTypes'
  BY <1>0, <1>1, <1>2, FinishShows DEF PrefsTypes, FinishReload
<1>7. WritesAreCounted' /\ NoDefaults(saved)' /\ LandedUnlock(saved)'
  BY <1>2 DEF PrefsIInv, WritesAreCounted, OpenUpdates, NoDefaults, LandedUnlock, Landed
<1>8. LandedUnlock(r.read)
  BY <1>5 DEF ReadIsOfItsTime
<1>9. UnlockSettingShownWhenStored'
  <2>1. CASE snapshot' = snapshot
    BY <1>2, <2>1 DEF PrefsIInv, UnlockSettingShownWhenStored
  <2>2. CASE snapshot' = r.read
    BY <1>2, <1>8, <2>2 DEF UnlockSettingShownWhenStored, LandedUnlock, Landed
  <2> QED
    BY <1>5, <2>1, <2>2, FinishShows
<1>10. ChangeInFlightIsShown'
  <2>1. CASE snapshot' = snapshot
    BY <1>2, <2>1 DEF PrefsIInv, ChangeInFlightIsShown
  <2>2. CASE writesInFlight = 0
    <3>1. OpenUpdates = {}
      BY <2>2, NoneIsOpen DEF PrefsIInv
    <3> QED
      BY <1>2, <3>1 DEF ChangeInFlightIsShown, OpenUpdates
  <2> QED
    BY <2>1, <2>2, FinishShows
<1>11. \A x \in Reloads : ReadIsOfItsTime(x) => ReadIsOfItsTime(x)'
  BY <1>2 DEF ReadIsOfItsTime, LandedUnlock, Landed
<1>12. ReadsAreOfTheirTime'
  <2> SUFFICES ASSUME NEW j \in 1 .. Len(reloads'), NEW x \in Reloads, x = reloads'[j]
               PROVE  ReadIsOfItsTime(x)'
    BY <1>3, <1>4 DEF ReadsAreOfTheirTime
  <2>1. PICK k \in 1 .. Len(reloads) : x = reloads[k]
    BY <1>3
  <2>2. ReadIsOfItsTime(x)
    BY <1>4, <2>1
  <2>3. ReadIsOfItsTime(x) => ReadIsOfItsTime(x)'
    BY <1>11, Zenon
  <2> QED
    BY <2>2, <2>3
<1>13. reloads' # <<>> => LastReload' = LastReload /\ LastReload \in Reloads
  <2>1. reloads' # <<>> => Len(reloads') \in 1 .. Len(reloads')
    BY <1>1, <1>2, EmptySeq, LenProperties
  <2>2. Len(reloads') + 1 = Len(reloads)
    BY <1>0, <1>1, <1>2
  <2> QED
    BY <1>3, <1>4, <2>1, <2>2 DEF LastReload
<1>14. reloads' = <<>> => LastReload = r
  <2>1. reloads' = <<>> => Len(reloads) = 1
    <3>1. reloads' = <<>> => Len(reloads') = 0
      BY EmptySeq
    <3> QED
      BY <1>0, <1>1, <1>2, <3>1
  <2> QED
    BY <1>1, <1>5, <2>1 DEF LastReload
<1>15. LastBeganLast'
  <2> SUFFICES ASSUME NEW i \in 1 .. Len(reloads') PROVE reloads'[i].epoch <= LastReload'.epoch
    BY DEF LastBeganLast
  <2>1. reloads' # <<>> /\ LastReload' = LastReload
    BY <1>3, <1>13, EmptySeq
  <2> QED
    BY <1>3, <2>1 DEF PrefsIInv, LastBeganLast
<1>16. LastSeesStorage'
  BY <1>0, <1>2, <1>13 DEF PrefsIInv, LastSeesStorage, SeesStorage
<1>17. ASSUME unlocked PROVE ShownOrToBeRead'
  <2>1. CASE events > 0 \/ \E u \in Update : update[u].at \in {"saving", "rejected"}
    BY <1>2, <2>1 DEF ShownOrToBeRead
  <2>2. CASE writesInFlight > 0
             /\ (reloadDropped \/ LastReload.epoch = writeEpoch)
    <3>1. reloadDropped'
      BY <1>0, <2>2 DEF FinishReload, Undisturbed, PrefsTypes
    <3> QED
      BY <1>2, <2>2, <3>1 DEF ShownOrToBeRead
  <2>3. CASE reloads' # <<>> /\ r.epoch = writeEpoch
    <3>1. LastReload.epoch = writeEpoch
      <4>1. r.epoch <= LastReload.epoch /\ LastReload.epoch <= writeEpoch
        BY <1>0, <1>1, <1>4, <1>5 DEF PrefsIInv, LastBeganLast, LastReload, ReadIsOfItsTime
      <4>2. LastReload.epoch \in Nat /\ writeEpoch \in Nat
        BY <1>0, <1>13, <2>3 DEF Reloads, PrefsTypes
      <4> QED
        BY <2>3, <4>1, <4>2
    <3> QED
      BY <1>2, <1>13, <2>3, <3>1 DEF ShownOrToBeRead
  <2>4. CASE reloads' # <<>> /\ LastReload.epoch = writeEpoch
    BY <1>2, <1>13, <2>4 DEF ShownOrToBeRead
  <2>5. CASE writesInFlight = 0 /\ reloads' = <<>> /\ r.epoch = writeEpoch
    <3>1. LastReload = r /\ r.before /\ SeesStorage(r)
      BY <1>0, <1>14, <1>17, <2>5 DEF PrefsIInv, LastSeesStorage
    <3>2. snapshot' = r.read /\ r.read # Unread
      BY <1>5, <1>17, <2>5, <3>1 DEF FinishReload, Undisturbed, BothSides
    <3>3. snapshot' = Strict \/ snapshot' = saved \/ events > 0
      BY <1>5, <3>1, <3>2 DEF SeesStorage, ReadIsOfItsTime
    <3> QED
      BY <1>2, <2>5, <3>3 DEF ShownOrToBeRead
  <2>6. CASE writesInFlight = 0 /\ snapshot \in {saved, Strict} /\ r.epoch # writeEpoch
    <3>1. snapshot' = snapshot
      BY <1>5, <2>6, FinishShows
    <3> QED
      BY <1>2, <2>6, <3>1 DEF ShownOrToBeRead
  <2> QED
    BY <1>0, <1>14, <1>17, <2>1, <2>2, <2>3, <2>4, <2>5, <2>6 DEF PrefsIInv, ShownOrToBeRead
<1>18. ShownOrToBeRead'
  BY <1>2, <1>17 DEF ShownOrToBeRead
<1> QED
  BY <1>6, <1>7, <1>9, <1>10, <1>12, <1>15, <1>16, <1>18 DEF PrefsIInv

-----------------------------------------------------------------------------
\* An update that ends makes room for one: the count of those under way follows.
LEMMA UpdateTypes ==
  ASSUME PrefsTypes, NEW u \in Update
  PROVE  \E x \in Changes : x = update[u] /\ x.at \in Ats /\ x.field \in Field /\ x.nth \in Nat
<1>1. update[u] \in Changes
  BY DEF PrefsTypes
<1> QED
  BY <1>1 DEF Changes

\* One update moves: which are open, and which have landed.
LEMMA UpdateMoves ==
  ASSUME PrefsTypes, NEW u \in Update, NEW y \in Changes, update' = [update EXCEPT ![u] = y]
  PROVE  /\ update' \in [Update -> Changes]
         /\ update'[u] = y
         /\ \A v \in Update : v # u => update'[v] = update[v]
         /\ y.at \in {"saving", "stored", "rejected"} => OpenUpdates' = OpenUpdates \cup {u}
         /\ y.at \notin {"saving", "stored", "rejected"} => OpenUpdates' = OpenUpdates \ {u}
         /\ (Landed(u) => y.at \in {"stored", "done"}) =>
              \A v \in Update : Landed(v) => Landed(v)'
<1>1. update \in [Update -> Changes]
  BY DEF PrefsTypes
<1>2. update' \in [Update -> Changes] /\ update'[u] = y
      /\ \A v \in Update : v # u => update'[v] = update[v]
  BY <1>1
<1>3. y.at \in {"saving", "stored", "rejected"} => OpenUpdates' = OpenUpdates \cup {u}
  BY <1>2 DEF OpenUpdates
<1>4. y.at \notin {"saving", "stored", "rejected"} => OpenUpdates' = OpenUpdates \ {u}
  BY <1>2 DEF OpenUpdates
<1>5. (Landed(u) => y.at \in {"stored", "done"}) =>
        \A v \in Update : Landed(v) => Landed(v)'
  BY <1>2 DEF Landed
<1> QED
  BY <1>2, <1>3, <1>4, <1>5

LEMMA StartUpdateKeeps == ASSUME PrefsIInv, NEW u \in Update, StartUpdate(u) PROVE PrefsIInv'
<1>0. PrefsTypes /\ writeEpoch \in Nat /\ writesInFlight \in Nat
  BY OpenAreFinite DEF PrefsIInv, PrefsTypes, WritesAreCounted
<1>1. PICK f \in Field :
        /\ update' = [update EXCEPT ![u] = [at |-> "saving", field |-> f, nth |-> writeEpoch]]
        /\ snapshot' = IF Optimistic(f) THEN [snapshot EXCEPT ![f] = u] ELSE snapshot
  BY DEF StartUpdate
<1>2. /\ update[u].at = "idle" /\ unlocked
      /\ writeEpoch' = writeEpoch + 1 /\ writesInFlight' = writesInFlight + 1
      /\ UNCHANGED <<reloadDropped, saved, reloads, events, unlocked, prefTurns>>
  BY DEF StartUpdate
<1>3. [at |-> "saving", field |-> f, nth |-> writeEpoch] \in Changes
  BY <1>0 DEF Changes, Ats
<1>4. PICK y \in Changes : /\ y.at = "saving" /\ y.field = f
                           /\ update' = [update EXCEPT ![u] = y]
  BY <1>1, <1>3
<1>5. /\ update' \in [Update -> Changes] /\ update'[u] = y
      /\ \A v \in Update : v # u => update'[v] = update[v]
      /\ OpenUpdates' = OpenUpdates \cup {u}
      /\ \A v \in Update : Landed(v) => Landed(v)'
  <2>1. ~Landed(u)
    BY <1>2 DEF Landed
  <2> QED
    BY <1>0, <1>4, <2>1, UpdateMoves
<1>6. snapshot' \in Prefs
  BY <1>0, <1>1, PrefsValues DEF PrefsTypes, Prefs
<1>7. snapshot'["unlock"] = snapshot["unlock"]
  BY <1>0, <1>1 DEF PrefsTypes, Prefs, Optimistic, Field
<1>8. PrefsTypes'
  BY <1>0, <1>2, <1>5, <1>6 DEF PrefsTypes
<1>9. WritesAreCounted'
  <2>1. u \notin OpenUpdates
    BY <1>2 DEF OpenUpdates
  <2>2. Cardinality(OpenUpdates') = Cardinality(OpenUpdates) + 1
    BY <1>5, <2>1, OpenAreFinite, FS_AddElement
  <2> QED
    BY <1>0, <1>2, <2>2 DEF PrefsIInv, WritesAreCounted
<1>10. NoDefaults(saved)' /\ LandedUnlock(saved)'
  BY <1>2, <1>5 DEF PrefsIInv, NoDefaults, LandedUnlock
<1>11. UnlockSettingShownWhenStored'
  BY <1>5, <1>7 DEF PrefsIInv, UnlockSettingShownWhenStored, Landed
<1>12. ChangeInFlightIsShown'
  <2> SUFFICES ASSUME NEW v \in Update, update'[v].at \in {"saving", "stored"},
                      Optimistic(update'[v].field)
               PROVE  snapshot'["theme"] \in Update
    BY DEF ChangeInFlightIsShown, Optimistic
  <2>1. CASE Optimistic(f)
    BY <1>0, <1>1, <2>1 DEF PrefsTypes, Prefs, Optimistic
  <2>2. CASE ~Optimistic(f)
    <3>1. v # u
      BY <1>4, <1>5, <2>2
    <3> QED
      BY <1>1, <1>5, <2>2, <3>1 DEF PrefsIInv, ChangeInFlightIsShown, Optimistic
  <2> QED
    BY <2>1, <2>2
<1>13. ReadsAreOfTheirTime' /\ LastBeganLast' /\ LastSeesStorage'
  BY <1>0, <1>2, <1>5, NoneBegins
<1>14. ShownOrToBeRead'
  BY <1>4, <1>5 DEF ShownOrToBeRead
<1> QED
  BY <1>8, <1>9, <1>10, <1>11, <1>12, <1>13, <1>14 DEF PrefsIInv

LEMMA StoreUpdateKeeps == ASSUME PrefsIInv, NEW u \in Update, StoreUpdate(u) PROVE PrefsIInv'
<1>0. PrefsTypes /\ writeEpoch \in Nat /\ writesInFlight \in Nat /\ events \in Nat
  BY OpenAreFinite DEF PrefsIInv, PrefsTypes, WritesAreCounted
<1>1. /\ update[u].at = "saving"
      /\ UNCHANGED <<snapshot, writeEpoch, writesInFlight, reloadDropped, reloads, unlocked,
                     prefTurns>>
  BY DEF StoreUpdate
<1>2. PICK x \in Changes : x = update[u] /\ x.field \in Field
  BY <1>0, UpdateTypes
<1>3. PICK y \in Changes :
        /\ update' = [update EXCEPT ![u] = y] /\ y.field = x.field
        /\ \/ y.at = "stored" /\ unlocked /\ saved' = [saved EXCEPT ![x.field] = u]
              /\ events' = events + 1
           \/ y.at = "stored" /\ ~unlocked /\ UNCHANGED <<saved, events>>
           \/ y.at = "rejected" /\ UNCHANGED <<saved, events>>
  <2>1. CASE update' = [update EXCEPT ![u].at = "stored"]
             /\ \/ unlocked /\ saved' = [saved EXCEPT ![x.field] = u] /\ events' = events + 1
                \/ ~unlocked /\ UNCHANGED <<saved, events>>
    <3> DEFINE y == [x EXCEPT !.at = "stored"]
    <3>1. y \in Changes /\ y.field = x.field /\ y.at = "stored"
      BY DEF Changes, Ats
    <3>2. update' = [update EXCEPT ![u] = y]
      BY <1>2, <2>1
    <3> HIDE DEF y
    <3> QED
      BY <2>1, <3>1, <3>2
  <2>2. CASE update' = [update EXCEPT ![u].at = "rejected"] /\ UNCHANGED <<saved, events>>
    <3> DEFINE y == [x EXCEPT !.at = "rejected"]
    <3>1. y \in Changes /\ y.field = x.field /\ y.at = "rejected"
      BY DEF Changes, Ats
    <3>2. update' = [update EXCEPT ![u] = y]
      BY <1>2, <2>2
    <3> HIDE DEF y
    <3> QED
      BY <2>2, <3>1, <3>2
  <2> QED
    BY <1>2, <2>1, <2>2 DEF StoreUpdate
<1>4. /\ update' \in [Update -> Changes] /\ update'[u] = y
      /\ \A v \in Update : v # u => update'[v] = update[v]
      /\ OpenUpdates' = OpenUpdates \cup {u}
      /\ \A v \in Update : Landed(v) => Landed(v)'
  <2>1. ~Landed(u)
    BY <1>1 DEF Landed
  <2> QED
    BY <1>0, <1>3, <2>1, UpdateMoves
<1>5. OpenUpdates' = OpenUpdates
  BY <1>1, <1>4 DEF OpenUpdates
<1>6. saved' = saved \/ (saved' = [saved EXCEPT ![x.field] = u] /\ y.at = "stored")
  BY <1>3
<1>7. saved' \in Prefs /\ NoDefaults(saved')
  BY <1>0, <1>2, <1>6, PrefsValues DEF PrefsIInv, PrefsTypes, Prefs, NoDefaults
<1>8. LandedUnlock(saved)'
  <2>1. saved'["unlock"] = saved["unlock"] \/ (saved'["unlock"] = u /\ y.at = "stored")
    BY <1>0, <1>2, <1>6 DEF PrefsTypes, Prefs, Field
  <2>2. \A v \in Update : v = saved["unlock"] => Landed(v)'
    BY <1>4 DEF PrefsIInv, LandedUnlock
  <2>3. CASE saved'["unlock"] = saved["unlock"]
    BY <2>2, <2>3 DEF LandedUnlock, Landed
  <2>4. CASE saved'["unlock"] = u /\ y.at = "stored"
    BY <1>4, <2>4 DEF LandedUnlock, Landed
  <2> QED
    BY <2>1, <2>3, <2>4
<1>9. PrefsTypes'
  BY <1>0, <1>1, <1>3, <1>4, <1>7 DEF PrefsTypes
<1>10. WritesAreCounted'
  BY <1>1, <1>5 DEF PrefsIInv, WritesAreCounted
<1>11. UnlockSettingShownWhenStored'
  BY <1>1, <1>4 DEF PrefsIInv, UnlockSettingShownWhenStored, Landed
<1>12. ChangeInFlightIsShown'
  <2> SUFFICES ASSUME NEW v \in Update, update'[v].at \in {"saving", "stored"},
                      Optimistic(update'[v].field)
               PROVE  snapshot'["theme"] \in Update
    BY DEF ChangeInFlightIsShown, Optimistic
  <2>1. update[v].at \in {"saving", "stored"} /\ update[v].field = update'[v].field
    BY <1>1, <1>2, <1>3, <1>4
  <2> QED
    BY <1>1, <2>1 DEF PrefsIInv, ChangeInFlightIsShown, Optimistic
<1>13. (saved' = saved /\ events' = events) \/ events' > 0
  BY <1>0, <1>3
<1>14. ReadsAreOfTheirTime' /\ LastBeganLast' /\ LastSeesStorage'
  BY <1>0, <1>1, <1>4, <1>13, NoneBegins
<1>15. ShownOrToBeRead'
  <2>1. unlocked => events' > 0 \/ update'[u].at = "rejected"
    BY <1>0, <1>3, <1>4
  <2> QED
    BY <1>1, <2>1 DEF ShownOrToBeRead
<1> QED
  BY <1>7, <1>8, <1>9, <1>10, <1>11, <1>12, <1>14, <1>15 DEF PrefsIInv, NoDefaults

\* What ends an update: one fewer is under way.
LEMMA OneFewer ==
  ASSUME PrefsIInv, NEW u \in Update, update[u].at \in {"stored", "rejected"},
         OpenUpdates' = OpenUpdates \ {u}, writesInFlight' = writesInFlight - 1,
         writeEpoch' = writeEpoch
  PROVE  WritesAreCounted' /\ writesInFlight \in Nat /\ writesInFlight > 0
<1>1. u \in OpenUpdates
  BY DEF OpenUpdates
<1>2. Cardinality(OpenUpdates') = Cardinality(OpenUpdates) - 1
  BY <1>1, OpenAreFinite, FS_RemoveElement
<1>3. writesInFlight = Cardinality(OpenUpdates) /\ writesInFlight <= writeEpoch
      /\ writeEpoch \in Nat
  BY DEF PrefsIInv, PrefsTypes, WritesAreCounted
<1>4. writesInFlight # 0
  BY <1>1, NoneIsOpen DEF PrefsIInv
<1> QED
  BY <1>2, <1>3, <1>4, OpenAreFinite DEF WritesAreCounted

LEMMA FinishUpdateKeeps == ASSUME PrefsIInv, NEW u \in Update, FinishUpdate(u) PROVE PrefsIInv'
<1>0. PrefsTypes /\ writeEpoch \in Nat /\ events \in Nat /\ unlocked \in BOOLEAN
  BY DEF PrefsIInv, PrefsTypes
<1>1. /\ update[u].at = "stored" /\ writesInFlight' = writesInFlight - 1
      /\ update' = [update EXCEPT ![u].at = "done", ![u].nth = 0]
      /\ snapshot' = IF Optimistic(update[u].field) THEN snapshot
                     ELSE [snapshot EXCEPT ![update[u].field] = u]
      /\ UNCHANGED <<writeEpoch, saved, events, unlocked, prefTurns>>
  BY DEF FinishUpdate
<1>2. PICK x \in Changes : x = update[u] /\ x.field \in Field
  BY <1>0, UpdateTypes
<1>3. PICK y \in Changes : update' = [update EXCEPT ![u] = y] /\ y.at = "done"
  <2> DEFINE a == [x EXCEPT !.at = "done"]
  <2> DEFINE y == [a EXCEPT !.nth = 0]
  <2>1. a \in Changes
    BY DEF Changes, Ats
  <2>2. y \in Changes /\ y.at = a.at
    <3> HIDE DEF a
    <3> QED
      BY <2>1 DEF Changes
  <2>3. a.at = "done"
    BY DEF Changes
  <2>4. update' = [[update EXCEPT ![u] = a] EXCEPT ![u] = y]
    BY <1>0, <1>1, <1>2 DEF PrefsTypes
  <2>5. update' = [update EXCEPT ![u] = y]
    <3> HIDE DEF a, y
    <3> QED
      BY <1>0, <2>4 DEF PrefsTypes
  <2> HIDE DEF y
  <2> QED
    BY <2>2, <2>3, <2>5
<1>4. /\ update' \in [Update -> Changes] /\ update'[u] = y
      /\ \A v \in Update : v # u => update'[v] = update[v]
      /\ OpenUpdates' = OpenUpdates \ {u}
      /\ \A v \in Update : Landed(v) => Landed(v)'
  BY <1>0, <1>3, UpdateMoves
<1>5. WritesAreCounted' /\ writesInFlight \in Nat /\ writesInFlight > 0
  BY <1>1, <1>4, OneFewer
<1>6. snapshot' \in Prefs /\ snapshot'["theme"] = snapshot["theme"]
      /\ (snapshot'["unlock"] = snapshot["unlock"] \/ snapshot'["unlock"] = u)
  BY <1>0, <1>1, <1>2, PrefsValues DEF PrefsTypes, Prefs, Optimistic, Field
<1>7. NoDefaults(saved)' /\ LandedUnlock(saved)'
  BY <1>1, <1>4 DEF PrefsIInv, NoDefaults, LandedUnlock
<1>8. UnlockSettingShownWhenStored'
  <2>1. \A v \in Update : v = snapshot["unlock"] => Landed(v)'
    BY <1>4 DEF PrefsIInv, UnlockSettingShownWhenStored, Landed
  <2> QED
    BY <1>3, <1>4, <1>6, <2>1 DEF UnlockSettingShownWhenStored, Landed
<1>9. ChangeInFlightIsShown'
  <2> SUFFICES ASSUME NEW v \in Update, update'[v].at \in {"saving", "stored"},
                      Optimistic(update'[v].field)
               PROVE  snapshot'["theme"] \in Update
    BY DEF ChangeInFlightIsShown, Optimistic
  <2>1. v # u
    BY <1>3, <1>4
  <2> QED
    BY <1>4, <1>6, <2>1 DEF PrefsIInv, ChangeInFlightIsShown, Optimistic
<1>10. CASE ReloadAgain
  <2>1. reloadDropped' = FALSE /\ reloads' = Append(reloads, Starting)
    BY <1>10 DEF FinishUpdate
  <2>3. /\ reloads' \in Seq(Reloads)
        /\ ReadsAreOfTheirTime' /\ LastBeganLast' /\ LastSeesStorage' /\ ShownOrToBeRead'
    BY <1>0, <1>1, <1>4, <2>1, AReadBegins, AnotherBegins
  <2> QED
    BY <1>0, <1>1, <1>4, <1>5, <1>6, <1>7, <1>8, <1>9, <2>1, <2>3 DEF PrefsIInv, PrefsTypes
<1>11. CASE ~ReloadAgain
  <2>1. UNCHANGED <<reloadDropped, reloads>>
    BY <1>11 DEF FinishUpdate
  <2>2. ReadsAreOfTheirTime' /\ LastBeganLast' /\ LastSeesStorage'
    BY <1>0, <1>1, <1>4, <2>1, NoneBegins
  <2>3. ASSUME unlocked PROVE ShownOrToBeRead'
    <3>1. CASE \E v \in Update : update[v].at \in {"saving", "rejected"}
      <4>1. PICK v \in Update : update[v].at \in {"saving", "rejected"}
        BY <3>1
      <4>2. update'[v].at \in {"saving", "rejected"}
        BY <1>1, <1>4, <4>1
      <4> QED
        BY <4>2 DEF ShownOrToBeRead
    <3>2. CASE reloads # <<>> /\ LastReload.epoch = writeEpoch
      BY <1>1, <2>1, <3>2 DEF ShownOrToBeRead, LastReload
    <3>3. CASE reloadDropped /\ writesInFlight > 0
      <4>1. writesInFlight # 1
        BY <1>11, <3>3 DEF ReloadAgain
      <4> QED
        BY <1>1, <1>5, <2>1, <3>3, <4>1 DEF ShownOrToBeRead
    <3>4. CASE events > 0
      BY <1>1, <3>4 DEF ShownOrToBeRead
    <3> QED
      BY <1>5, <2>3, <3>1, <3>2, <3>3, <3>4 DEF PrefsIInv, ShownOrToBeRead
  <2>4. ShownOrToBeRead'
    BY <1>1, <2>3 DEF ShownOrToBeRead
  <2> QED
    BY <1>0, <1>1, <1>4, <1>5, <1>6, <1>7, <1>8, <1>9, <2>1, <2>2, <2>4 DEF PrefsIInv, PrefsTypes
<1> QED
  BY <1>10, <1>11

LEMMA FailUpdateKeeps == ASSUME PrefsIInv, NEW u \in Update, FailUpdate(u) PROVE PrefsIInv'
<1>0. PrefsTypes
  BY DEF PrefsIInv
<1>1. /\ update[u].at = "rejected" /\ writesInFlight' = writesInFlight - 1
      /\ update' = [update EXCEPT ![u].at = "failed", ![u].nth = 0]
      /\ reloadDropped' = FALSE /\ reloads' = Append(reloads, Starting)
      /\ UNCHANGED <<snapshot, writeEpoch, saved, events, unlocked, prefTurns>>
  BY DEF FailUpdate
<1>2. PICK x \in Changes : x = update[u]
  BY <1>0, UpdateTypes
<1>3. PICK y \in Changes : update' = [update EXCEPT ![u] = y] /\ y.at = "failed"
  <2> DEFINE a == [x EXCEPT !.at = "failed"]
  <2> DEFINE y == [a EXCEPT !.nth = 0]
  <2>1. a \in Changes
    BY DEF Changes, Ats
  <2>2. y \in Changes /\ y.at = a.at
    <3> HIDE DEF a
    <3> QED
      BY <2>1 DEF Changes
  <2>3. a.at = "failed"
    BY DEF Changes
  <2>4. update' = [[update EXCEPT ![u] = a] EXCEPT ![u] = y]
    BY <1>0, <1>1, <1>2 DEF PrefsTypes
  <2>5. update' = [update EXCEPT ![u] = y]
    <3> HIDE DEF a, y
    <3> QED
      BY <1>0, <2>4 DEF PrefsTypes
  <2> HIDE DEF y
  <2> QED
    BY <2>2, <2>3, <2>5
<1>4. /\ update' \in [Update -> Changes] /\ update'[u] = y
      /\ \A v \in Update : v # u => update'[v] = update[v]
      /\ OpenUpdates' = OpenUpdates \ {u}
      /\ \A v \in Update : Landed(v) => Landed(v)'
  <2>1. ~Landed(u)
    BY <1>1 DEF Landed
  <2> QED
    BY <1>0, <1>3, <2>1, UpdateMoves
<1>5. WritesAreCounted'
  BY <1>1, <1>4, OneFewer
<1>6. NoDefaults(saved)' /\ LandedUnlock(saved)'
  BY <1>1, <1>4 DEF PrefsIInv, NoDefaults, LandedUnlock
<1>7. UnlockSettingShownWhenStored'
  BY <1>1, <1>4 DEF PrefsIInv, UnlockSettingShownWhenStored, Landed
<1>8. ChangeInFlightIsShown'
  BY <1>1, <1>3, <1>4 DEF PrefsIInv, ChangeInFlightIsShown
<1>9. /\ reloads' \in Seq(Reloads)
      /\ ReadsAreOfTheirTime' /\ LastBeganLast' /\ LastSeesStorage' /\ ShownOrToBeRead'
  BY <1>0, <1>1, <1>4, AReadBegins, AnotherBegins
<1> QED
  BY <1>0, <1>1, <1>4, <1>5, <1>6, <1>7, <1>8, <1>9 DEF PrefsIInv, PrefsTypes

\* Steps of the rest of the world: they touch no update and nothing that is shown.
LEMMA OutsideKeeps ==
  ASSUME PrefsIInv, UNCHANGED <<snapshot, writeEpoch, writesInFlight, update>>
  PROVE  /\ WritesAreCounted' /\ UnlockSettingShownWhenStored' /\ ChangeInFlightIsShown'
         /\ \A u \in Update : Landed(u) => Landed(u)'
         /\ saved' = saved => NoDefaults(saved)' /\ LandedUnlock(saved)'
<1> QED
  BY DEF PrefsIInv, WritesAreCounted, OpenUpdates, UnlockSettingShownWhenStored,
     ChangeInFlightIsShown, Landed, NoDefaults, LandedUnlock

LEMMA WorldKeeps ==
  ASSUME PrefsIInv, StorageEvent \/ OtherWindowSaves \/ Unlock \/ LockVault PROVE PrefsIInv'
<1>0. PrefsTypes /\ writeEpoch \in Nat /\ events \in Nat
  BY DEF PrefsIInv, PrefsTypes
<1>1. CASE StorageEvent
  <2>0. /\ UNCHANGED <<snapshot, writeEpoch, writesInFlight, reloadDropped, saved, update,
                       unlocked>>
        /\ reloads' = Append(reloads, Starting) /\ events' \in Nat
    BY <1>0, <1>1 DEF StorageEvent
  <2>1. /\ reloads' \in Seq(Reloads)
        /\ ReadsAreOfTheirTime' /\ LastBeganLast' /\ LastSeesStorage' /\ ShownOrToBeRead'
    BY <1>0, <2>0, AReadBegins, AnotherBegins, OutsideKeeps
  <2>2. PrefsTypes'
    BY <1>0, <2>0, <2>1 DEF PrefsTypes
  <2> QED
    BY <2>0, <2>1, <2>2, OutsideKeeps DEF PrefsIInv
<1>2. CASE Unlock
  <2>1. PICK r \in Reloads : /\ r = [Starting EXCEPT !.before = TRUE]
                             /\ r.epoch = writeEpoch /\ r.before /\ r.read = Unread
                             /\ r.real = FALSE /\ r.failed = FALSE
    BY <1>0, AReadBegins
  <2>2. /\ reloads' \in Seq(Reloads)
        /\ ReadsAreOfTheirTime' /\ LastBeganLast' /\ LastSeesStorage' /\ ShownOrToBeRead'
    BY <1>0, <1>2, <2>1, AnotherBegins, OutsideKeeps DEF Unlock
  <2>3. PrefsTypes'
    BY <1>0, <1>2, <2>2 DEF Unlock, PrefsTypes
  <2> QED
    BY <1>2, <2>2, <2>3, OutsideKeeps DEF Unlock, PrefsIInv
<1>3. CASE LockVault
  <2>1. PrefsTypes'
    BY <1>0, <1>3 DEF LockVault, PrefsTypes
  <2>2. ReadsAreOfTheirTime' /\ LastBeganLast' /\ LastSeesStorage'
    BY <1>0, <1>3, NoneBegins, OutsideKeeps DEF LockVault
  <2>3. ShownOrToBeRead'
    BY <1>3 DEF LockVault, ShownOrToBeRead
  <2> QED
    BY <1>3, <2>1, <2>2, <2>3, OutsideKeeps DEF LockVault, PrefsIInv
<1>4. CASE OtherWindowSaves
  <2>1. /\ UNCHANGED <<snapshot, writeEpoch, writesInFlight, reloadDropped, update, reloads,
                       unlocked>>
        /\ events' = events + 1 /\ events' > 0 /\ events' \in Nat
    <3>1. events' = events + 1
      BY <1>4, Zenon DEF OtherWindowSaves
    <3>2. UNCHANGED <<snapshot, writeEpoch, writesInFlight, reloadDropped, update, reloads,
                      unlocked>>
      BY <1>4, Zenon DEF OtherWindowSaves
    <3> QED
      BY <1>0, <3>1, <3>2
  <2>2. saved' \in Prefs /\ saved'["unlock"] = saved["unlock"] /\ NoDefaults(saved')
    BY <1>0, <1>4 DEF OtherWindowSaves, PrefsIInv, PrefsTypes, Prefs, Value, Field, NoDefaults
  <2>3. PrefsTypes'
    BY <1>0, <2>1, <2>2 DEF PrefsTypes
  <2>4. LandedUnlock(saved)' /\ NoDefaults(saved)'
    BY <2>1, <2>2 DEF PrefsIInv, LandedUnlock, Landed, NoDefaults
  <2>5. ReadsAreOfTheirTime' /\ LastBeganLast' /\ LastSeesStorage'
    BY <1>0, <2>1, NoneBegins, OutsideKeeps
  <2>6. ShownOrToBeRead'
    BY <1>0, <2>1 DEF ShownOrToBeRead
  <2> QED
    BY <2>1, <2>3, <2>4, <2>5, <2>6, OutsideKeeps DEF PrefsIInv
<1> QED
  BY <1>1, <1>2, <1>3, <1>4

LEMMA NextPrefs == PrefsIInv /\ [PrefsNext]_prefVars => PrefsIInv'
<1> SUFFICES ASSUME PrefsIInv, [PrefsNext]_prefVars PROVE PrefsIInv'
  OBVIOUS
<1>1. CASE UNCHANGED prefVars
  <2>1. reloads' = reloads /\ unlocked' = unlocked /\ saved' = saved /\ events' = events
        /\ reloadDropped' = reloadDropped
        /\ UNCHANGED <<snapshot, writeEpoch, writesInFlight, update>>
    BY <1>1 DEF prefVars
  <2>2. PrefsTypes /\ PrefsTypes' /\ writeEpoch \in Nat
    BY <2>1 DEF PrefsIInv, PrefsTypes
  <2>3. ReadsAreOfTheirTime' /\ LastBeganLast' /\ LastSeesStorage'
    BY <2>1, <2>2, NoneBegins, OutsideKeeps
  <2>4. ShownOrToBeRead'
    BY <2>1 DEF PrefsIInv, ShownOrToBeRead, LastReload
  <2> QED
    BY <2>1, <2>2, <2>3, <2>4, OutsideKeeps DEF PrefsIInv
<1> QED
  BY <1>1, ReadPrefsKeeps, FinishReloadKeeps, WorldKeeps, StartUpdateKeeps, StoreUpdateKeeps,
     FinishUpdateKeeps, FailUpdateKeeps DEF PrefsNext

\* No re-read shows a locked vault's defaults unless another is still to come.
LEMMA DefaultsDoNotStay ==
  PrefsIInv /\ [PrefsNext]_prefVars =>
    [snapshot # Defaults /\ snapshot' = Defaults => reloads' # <<>>]_prefVars
<1> SUFFICES ASSUME PrefsIInv, PrefsNext, snapshot # Defaults, snapshot' = Defaults,
                    reloads' = <<>>
             PROVE  FALSE
  OBVIOUS
<1>0. PrefsTypes /\ Defaults["theme"] = "default" /\ Defaults["unlock"] = "default"
  BY DEF PrefsIInv, Defaults, Field
<1>1. CASE FinishReload
  <2>1. /\ snapshot' = Head(reloads).read
        /\ Head(reloads).failed \/ (Head(reloads).before /\ unlocked)
    BY <1>1, FinishShows
  <2>2. reloads \in Seq(Reloads) /\ reloads # <<>> /\ reloads' = Tail(reloads)
    BY <1>0, <1>1 DEF FinishReload, PrefsTypes
  <2>3. Head(reloads) = reloads[1] /\ Len(reloads) = 1
    <3>1. Len(Tail(reloads)) = 0
      <4>1. Tail(reloads) = <<>>
        BY <2>2
      <4> QED
        BY <4>1, EmptySeq
    <3>2. Len(Tail(reloads)) = Len(reloads) - 1 /\ Len(reloads) \in Nat
      BY <2>2, HeadTailProperties, LenProperties
    <3>3. Len(reloads) = 1
      BY <2>2, <3>1, <3>2
    <3>4. Head(reloads) = reloads[1]
      BY <2>2
    <3> QED
      BY <3>3, <3>4
  <2>4. PICK r \in Reloads : r = Head(reloads) /\ r = LastReload /\ ReadIsOfItsTime(r)
    BY <2>2, <2>3, ElementOfSeq DEF LastReload, PrefsIInv, ReadsAreOfTheirTime
  <2>5. ~r.failed
    BY <2>1, <2>4, PrefsValues DEF ReadIsOfItsTime
  <2>6. unlocked /\ SeesStorage(r)
    BY <2>1, <2>2, <2>4, <2>5 DEF PrefsIInv, LastSeesStorage
  <2>7. r.real
    BY <1>1, <2>4, <2>5, <2>6 DEF SeesStorage, FinishReload
  <2> QED
    BY <2>1, <2>4, <2>7, PrefsValues DEF ReadIsOfItsTime
<1>2. ASSUME NEW u \in Update, StartUpdate(u) \/ FinishUpdate(u) PROVE FALSE
  <2>1. snapshot' = snapshot \/ \E f \in Field : snapshot' = [snapshot EXCEPT ![f] = u]
    <3>1. CASE StartUpdate(u)
      BY <3>1 DEF StartUpdate
    <3>2. CASE FinishUpdate(u)
      BY <1>0, <3>2, UpdateTypes DEF FinishUpdate
    <3> QED
      BY <1>2, <3>1, <3>2
  <2>2. PICK f \in Field : snapshot' = [snapshot EXCEPT ![f] = u]
    BY <2>1
  <2>3. snapshot'[f] = u
    BY <1>0, <2>2 DEF PrefsTypes, Prefs
  <2> QED
    BY <1>0, <2>3, PrefsValues DEF Field
<1> QED
  BY <1>1, <1>2 DEF PrefsNext, ReadPrefs, StorageEvent, OtherWindowSaves, Unlock, LockVault,
     StoreUpdate, FailUpdate

\* However many updates overlap and wherever the vault locks and opens: the
\* panel, at rest, shows what is stored, or the strictest preset after a read
\* that failed; a change stays shown while it is saved; what the next unlock acts
\* on is shown only when stored (preferences-store.ts: reload, update).
THEOREM ShownSettingsAreStored == PrefsSpec => ShownIsStored
<1>1. PrefsIInv => PrefsTypeOK /\ QuietPanelShowsStorage /\ ChangeInFlightIsShown
                   /\ UnlockSettingShownWhenStored
  <2> SUFFICES ASSUME PrefsIInv
               PROVE  PrefsTypeOK /\ QuietPanelShowsStorage
    BY DEF PrefsIInv
  <2>1. PrefsTypeOK
    <3>1. \A r \in Reloads : r.read \in Prefs \cup {Unread}
      BY DEF Reloads
    <3>2. \A i \in 1 .. Len(reloads) : reloads[i] \in Reloads
      BY ElementOfSeq DEF PrefsIInv, PrefsTypes
    <3> QED
      BY <3>1, <3>2, OpenAreFinite DEF PrefsIInv, PrefsTypes, WritesAreCounted, PrefsTypeOK
  <2>2. QuietPanelShowsStorage
    <3> SUFFICES ASSUME unlocked, reloads = <<>>, events = 0, writesInFlight = 0
                 PROVE  snapshot = saved \/ snapshot = Strict
      BY DEF QuietPanelShowsStorage
    <3>1. \A u \in Update : update[u].at \notin {"saving", "rejected"}
      BY NoneIsOpen DEF PrefsIInv, OpenUpdates
    <3> QED
      BY <3>1 DEF PrefsIInv, ShownOrToBeRead
  <2> QED
    BY <2>1, <2>2
<1> QED
  BY <1>1, InitPrefs, NextPrefs, DefaultsDoNotStay, PTL
  DEF PrefsSpec, ShownIsStored, LockedReadsAreNotTaken

---------------------------------------------------------------------------
(* What a chunked value promises holds for any values, windows and calls.  *)
(* ChunkIInv is inductive: what is under the key and in the items is told  *)
(* from what has happened that the code cannot exclude.                    *)

Pcs == {"idle", "set", "trim", "assemble", "unchunk", "unhead"}
Heads == {NoItem} \cup {HeadFor(v) : v \in ChunkedValue}
SomePieces == {Piece(v, i) : v \in ChunkedValue, i \in ChunkIx}
Flags == {"overlap", "crash", "unchunked", "remote", "exact", "twice"}
FreeOf(by) == disturbed \cap by = {}

ChunkTypes ==
    /\ head \in Heads /\ chunk \in [ChunkIx -> {NoItem} \cup SomePieces]
    /\ calls = [w \in Writer |-> calls[w]]
    /\ \A w \in Writer :
          /\ calls[w] = [pc |-> calls[w].pc, v |-> calls[w].v, seen |-> calls[w].seen,
                         got |-> calls[w].got]
          /\ calls[w].pc \in Pcs /\ calls[w].seen \in Heads
          /\ calls[w].pc \in {"set", "trim"} => calls[w].v \in ChunkedValue
    /\ made \in 0 .. MaxCalls
    /\ incoming \subseteq Heads \cup SomePieces
    /\ disturbed \subseteq Flags

\* An item holds a piece of a value that has it; if that value fills its last
\* item, this is known.
WrittenBy(i, v) ==
    i <= v.n /\ chunk[i] = Piece(v, i) /\ (v.last = FullChunk => "exact" \in disturbed)
PiecesAreWritten ==
    FreeOf({"remote"}) =>
        /\ incoming = {}
        /\ \A i \in ChunkIx : chunk[i] # NoItem => \E v \in ChunkedValue : WrittenBy(i, v)

Holds(i, v) == chunk[i] \in {NoItem, Piece(v, i)}
\* The items that a manifest names are its value's, or gone.
HeadsPieces == FreeOf({"remote"}) => \A i \in 1 .. ChunksOf(head) : Holds(i, head.of)

\* What a reader will find: the value m it saw, its first pieces perhaps of one
\* value stored since.
FindsOver(r, m, a) ==
    /\ calls[r].seen = HeadFor(m) /\ m.n > 0
    /\ \A i \in 1 .. m.n : Holds(i, IF i <= a.n THEN a ELSE m)
ReaderFinds ==
    FreeOf({"remote", "twice"}) =>
        \A r \in Writer : calls[r].pc = "assemble" =>
            \E m, a \in ChunkedValue : FindsOver(r, m, a)

\* Of the writes that do not overlap, each knows what is under the key.
SeenIsHead ==
    FreeOf({"remote", "overlap"}) =>
        \A w \in Writer :
            /\ calls[w].pc \in {"set", "unchunk", "unhead"} => head = calls[w].seen
            /\ calls[w].pc = "trim" => head = HeadFor(calls[w].v)

HeadIsWhole ==
    FreeOf({"remote", "overlap", "unchunked"}) =>
        \A i \in 1 .. ChunksOf(head) : chunk[i] = Piece(head.of, i)

\* A piece that the manifest does not name is about to be trimmed; a key that is
\* about to be removed has lost its pieces.
LeftoversAreTrimmed ==
    FreeOf({"remote", "overlap", "crash"}) =>
        /\ \A i \in ChunkIx : chunk[i] # NoItem /\ i > ChunksOf(head) =>
              \E w \in Writer : calls[w].pc = "trim" /\ i \in LeftOver(w)
        /\ \A w \in Writer : calls[w].pc = "unhead" =>
              \A i \in 1 .. ChunksOf(head) : chunk[i] = NoItem

ChunkIInv ==
    /\ ChunkTypes /\ PiecesAreWritten /\ HeadsPieces /\ ReaderFinds /\ SeenIsHead
    /\ HeadIsWhole /\ LeftoversAreTrimmed /\ ReadIsWhole

---------------------------------------------------------------------------
LEMMA ItemFacts ==
    /\ \A v \in ChunkedValue : ChunksOf(HeadFor(v)) = v.n /\ HeadFor(v).of = v /\ HeadFor(v) # NoItem
    /\ \A v \in ChunkedValue : IsManifest(HeadFor(v)) <=> v.n > 0
    /\ \A v \in ChunkedValue : v.n \in 0 .. 3 /\ v.last \in 0 .. FullChunk
    /\ \A v, i : Piece(v, i) # NoItem /\ Piece(v, i).of = v /\ Piece(v, i).ix = i
                 /\ Piece(v, i).kind = "piece"
    /\ \A h \in Heads : h.kind # "piece"
    /\ ChunksOf(NoItem) = 0 /\ ~IsManifest(NoItem) /\ NoItem \in Heads
    /\ ChunkIx = {1, 2, 3} /\ FullChunk \in Nat /\ FullChunk > 0
    /\ \A h \in Heads : ChunksOf(h) \in 0 .. 3
<1> USE ChunkAssumption
<1>1. \A v \in ChunkedValue : v.n \in 0 .. 3 /\ v.last \in 0 .. FullChunk
  BY DEF MaxChunks
<1>2. \A v \in ChunkedValue : ChunksOf(HeadFor(v)) = v.n /\ HeadFor(v).of = v /\ HeadFor(v) # NoItem
  BY <1>1 DEF HeadFor, Verbatim, Manifest, ChunksOf, IsManifest, NoItem
<1>3. \A v \in ChunkedValue : IsManifest(HeadFor(v)) <=> v.n > 0
  BY <1>1 DEF HeadFor, Verbatim, Manifest, IsManifest
<1>4. \A v, i : Piece(v, i) # NoItem /\ Piece(v, i).of = v /\ Piece(v, i).ix = i
                /\ Piece(v, i).kind = "piece"
  BY DEF Piece, NoItem
<1>5. \A h \in Heads : h.kind # "piece"
  BY DEF Heads, HeadFor, Verbatim, Manifest, NoItem
<1>6. ChunksOf(NoItem) = 0 /\ ~IsManifest(NoItem) /\ NoItem \in Heads
  BY DEF ChunksOf, IsManifest, NoItem, Heads
<1>7. ChunkIx = {1, 2, 3} /\ FullChunk \in Nat /\ FullChunk > 0
  BY DEF ChunkIx, MaxChunks
<1>8. \A h \in Heads : ChunksOf(h) \in 0 .. 3
  BY <1>1, <1>2, <1>6 DEF Heads
<1> QED
  BY <1>1, <1>2, <1>3, <1>4, <1>5, <1>6, <1>7, <1>8

LEMMA InitChunk == ChunkInit => ChunkIInv
<1> SUFFICES ASSUME ChunkInit PROVE ChunkIInv
  OBVIOUS
<1>1. ChunkTypes
  BY ItemFacts, ChunkAssumption DEF ChunkInit, ChunkTypes, Heads, Idle, Pcs, Flags
<1>2. ReaderFinds /\ SeenIsHead /\ ReadIsWhole
  BY DEF ChunkInit, ReaderFinds, SeenIsHead, ReadIsWhole, Idle, NoRead
<1>3. PiecesAreWritten /\ HeadsPieces /\ HeadIsWhole /\ LeftoversAreTrimmed
  BY ItemFacts DEF ChunkInit, PiecesAreWritten, HeadsPieces, HeadIsWhole, LeftoversAreTrimmed, Idle
<1> QED
  BY <1>1, <1>2, <1>3 DEF ChunkIInv

\* What two pieces of different values come to.
LEMMA MixturesAreTold ==
    ASSUME ChunkIInv, NEW r \in Writer, calls[r].pc = "assemble",
           Reassembled(calls[r].seen).kind = "mixture"
    PROVE  disturbed \cap {"remote", "exact", "twice"} # {}
<1> SUFFICES ASSUME disturbed \cap {"remote", "exact", "twice"} = {} PROVE FALSE
  OBVIOUS
<1> DEFINE s == calls[r].seen
<1>1. PICK m \in ChunkedValue, a \in ChunkedValue : FindsOver(r, m, a)
  BY DEF ChunkIInv, ReaderFinds, FreeOf
<1>2. s.of = m /\ m.n \in 1 .. 3 /\ a.n \in 0 .. 3
  BY <1>1, ItemFacts DEF FindsOver
<1>3. NoItem \notin Pieces(s) /\ LengthMatches(s) /\ Cardinality(Origins(s)) > 1
  BY DEF Reassembled
<1>4. \A i \in 1 .. m.n : chunk[i] = Piece(IF i <= a.n THEN a ELSE m, i)
  BY <1>1, <1>2, <1>3 DEF FindsOver, Pieces, Holds
<1>5. Origins(s) = {IF i <= a.n THEN a ELSE m : i \in 1 .. m.n}
  BY <1>2, <1>4, ItemFacts DEF Origins, Pieces
<1>6. ASSUME NEW o, Origins(s) = {o} PROVE FALSE
  BY <1>3, <1>6, FS_Singleton
<1>7. a.n > 0 /\ a.n < m.n
  <2>1. CASE a.n = 0
    BY <1>2, <1>5, <1>6, <2>1
  <2>2. CASE a.n >= m.n
    BY <1>2, <1>5, <1>6, <2>2
  <2> QED
    BY <1>2, <2>1, <2>2
<1>8. chunk[a.n] = Piece(a, a.n)
  BY <1>2, <1>4, <1>7
<1>9. a.last # FullChunk
  <2>1. chunk[a.n] # NoItem /\ a.n \in ChunkIx
    BY <1>2, <1>7, <1>8, ItemFacts
  <2>2. PICK v \in ChunkedValue : WrittenBy(a.n, v)
    BY <2>1 DEF ChunkIInv, PiecesAreWritten, FreeOf
  <2>3. v = a
    BY <1>8, <2>2 DEF WrittenBy, Piece
  <2> QED
    BY <2>2, <2>3 DEF WrittenBy
<1>10. \A i \in 1 .. m.n : chunk[i] # NoItem /\ PieceLen(chunk[i]) =
         IF i < a.n THEN FullChunk ELSE IF i = a.n THEN a.last
         ELSE IF i < m.n THEN FullChunk ELSE m.last
  BY <1>2, <1>4, <1>7, ItemFacts DEF PieceLen
<1>11. LenOfPieces(s) # ValueLen(m)
  <2>0. a.last \in Nat /\ m.last \in Nat /\ FullChunk \in Nat
    BY ItemFacts
  <2>1. CASE m.n = 2
    BY <1>2, <1>7, <1>9, <1>10, <2>0, <2>1 DEF LenOfPieces, ValueLen
  <2>2. CASE m.n = 3 /\ a.n = 1
    BY <1>2, <1>9, <1>10, <2>0, <2>2 DEF LenOfPieces, ValueLen
  <2>3. CASE m.n = 3 /\ a.n = 2
    BY <1>2, <1>9, <1>10, <2>0, <2>3 DEF LenOfPieces, ValueLen
  <2> QED
    BY <1>2, <1>7, <2>1, <2>2, <2>3
<1> QED
  BY <1>2, <1>3, <1>11 DEF LengthMatches

---------------------------------------------------------------------------
\* A call that writes nothing.
LEMMA CallKeepsItems ==
    ASSUME ChunkIInv, UNCHANGED <<head, chunk, incoming>>, disturbed \subseteq disturbed'
    PROVE  PiecesAreWritten' /\ HeadsPieces'
<1>1. PiecesAreWritten'
  BY DEF ChunkIInv, PiecesAreWritten, WrittenBy, FreeOf
<1>2. HeadsPieces'
  BY DEF ChunkIInv, HeadsPieces, Holds, FreeOf
<1> QED
  BY <1>1, <1>2

LEMMA CallBegins ==
    ASSUME ChunkIInv, NEW w \in Writer, NEW pc \in Pcs \ {"idle", "trim"}, NEW v,
           pc = "set" => v \in ChunkedValue, pc = "assemble" => IsManifest(head),
           pc = "unhead" => ~IsManifest(head), Begin(w, pc, v)
    PROVE  ChunkIInv'
<1> USE DEF Begin
<1>0. /\ calls'[w] = [pc |-> pc, v |-> v, seen |-> head, got |-> NoRead]
      /\ \A u \in Writer \ {w} : calls'[u] = calls[u]
      /\ calls' = [u \in Writer |-> calls'[u]]
  BY DEF ChunkIInv, ChunkTypes
<1>1. ChunkTypes'
  <2>1. made' \in 0 .. MaxCalls
    BY ChunkAssumption DEF ChunkIInv, ChunkTypes
  <2>2. \A u \in Writer :
          /\ calls'[u] = [pc |-> calls'[u].pc, v |-> calls'[u].v, seen |-> calls'[u].seen,
                         got |-> calls'[u].got]
          /\ calls'[u].pc \in Pcs /\ calls'[u].seen \in Heads
          /\ calls'[u].pc \in {"set", "trim"} => calls'[u].v \in ChunkedValue
    BY <1>0 DEF ChunkIInv, ChunkTypes
  <2> QED
    BY <1>0, <2>1, <2>2 DEF ChunkIInv, ChunkTypes
<1>2. PiecesAreWritten' /\ HeadsPieces'
  BY CallKeepsItems
<1>3. ReaderFinds'
  <2> SUFFICES ASSUME FreeOf({"remote", "twice"}), NEW r \in Writer,
                      calls'[r].pc = "assemble"
               PROVE  \E m, a \in ChunkedValue : FindsOver(r, m, a)'
    BY DEF ReaderFinds, FreeOf
  <2>1. CASE r = w
    <3>1. PICK m \in ChunkedValue : head = HeadFor(m)
      BY <1>0, <2>1, ItemFacts DEF ChunkIInv, ChunkTypes, Heads
    <3>2. m.n > 0 /\ head.of = m /\ ChunksOf(head) = m.n
      BY <1>0, <2>1, <3>1, ItemFacts
    <3>3. \A i \in 1 .. m.n : Holds(i, m)
      BY <3>2 DEF ChunkIInv, HeadsPieces, FreeOf
    <3>4. FindsOver(r, m, m)'
      BY <1>0, <2>1, <3>1, <3>2, <3>3 DEF FindsOver, Holds
    <3> QED
      BY <3>4
  <2>2. CASE r # w
    BY <1>0, <2>2 DEF ChunkIInv, ReaderFinds, FindsOver, Holds
  <2> QED
    BY <2>1, <2>2
<1>4. SeenIsHead'
  BY <1>0 DEF ChunkIInv, SeenIsHead, FreeOf
<1>5. HeadIsWhole'
  BY DEF ChunkIInv, HeadIsWhole, FreeOf
<1>6. LeftoversAreTrimmed'
  <2> SUFFICES ASSUME FreeOf({"remote", "overlap", "crash"}) PROVE LeftoversAreTrimmed'
    BY DEF LeftoversAreTrimmed, FreeOf
  <2>1. ASSUME NEW i \in ChunkIx, chunk[i] # NoItem, i > ChunksOf(head)
        PROVE  \E u \in Writer : calls'[u].pc = "trim" /\ i \in LeftOver(u)'
    BY <1>0, <2>1 DEF ChunkIInv, LeftoversAreTrimmed, LeftOver
  <2>2. ASSUME NEW u \in Writer, calls'[u].pc = "unhead", NEW i \in 1 .. ChunksOf(head)
        PROVE  chunk[i] = NoItem
    BY <1>0, <2>2 DEF ChunkIInv, LeftoversAreTrimmed, ChunksOf
  <2> QED
    BY <2>1, <2>2 DEF LeftoversAreTrimmed
<1>7. ReadIsWhole'
  BY <1>0 DEF ChunkIInv, ReadIsWhole, NoRead
<1> QED
  BY <1>1, <1>2, <1>3, <1>4, <1>5, <1>6, <1>7 DEF ChunkIInv

\* What is left to say when one call ends or moves on and nothing else changes.
LEMMA CallMoves ==
    ASSUME ChunkIInv, NEW w \in Writer, NEW call,
           calls' = [calls EXCEPT ![w] = call],
           call = [pc |-> call.pc, v |-> call.v, seen |-> call.seen, got |-> call.got],
           call.pc \in Pcs, call.seen \in Heads,
           call.pc \in {"set", "trim"} => call.v \in ChunkedValue
    PROVE  /\ calls' = [u \in Writer |-> calls'[u]]
           /\ calls'[w] = call /\ \A u \in Writer \ {w} : calls'[u] = calls[u]
           /\ \A u \in Writer :
                 /\ calls'[u] = [pc |-> calls'[u].pc, v |-> calls'[u].v, seen |-> calls'[u].seen,
                                got |-> calls'[u].got]
                 /\ calls'[u].pc \in Pcs /\ calls'[u].seen \in Heads
                 /\ calls'[u].pc \in {"set", "trim"} => calls'[u].v \in ChunkedValue
<1>1. calls' = [u \in Writer |-> calls'[u]] /\ calls'[w] = call
      /\ \A u \in Writer \ {w} : calls'[u] = calls[u]
  BY DEF ChunkIInv, ChunkTypes
<1> QED
  BY <1>1 DEF ChunkIInv, ChunkTypes

LEMMA IdleCall ==
    /\ Idle = [pc |-> Idle.pc, v |-> Idle.v, seen |-> Idle.seen, got |-> Idle.got]
    /\ Idle.pc = "idle" /\ Idle.seen \in Heads /\ Idle.got.kind = "none" /\ Idle.pc \in Pcs
  BY DEF Idle, NoRead, Heads, Pcs

\* The call of w ends or reads; nothing is written.
LEMMA ChunkCallEnds ==
    ASSUME ChunkIInv, NEW w \in Writer, NEW call, calls' = [calls EXCEPT ![w] = call],
           call = [pc |-> "idle", v |-> call.v, seen |-> call.seen, got |-> call.got],
           call.seen \in Heads, UNCHANGED <<head, chunk, incoming>>,
           made' \in 0 .. MaxCalls, disturbed' \subseteq Flags,
           disturbed \subseteq disturbed', calls[w].pc = "trim" => "crash" \in disturbed',
           call.got.kind = "mixture" => disturbed' \cap {"remote", "exact", "twice"} # {}
    PROVE  ChunkIInv'
<1>0. /\ calls' = [u \in Writer |-> calls'[u]]
      /\ calls'[w] = call /\ \A u \in Writer \ {w} : calls'[u] = calls[u]
      /\ \A u \in Writer :
            /\ calls'[u] = [pc |-> calls'[u].pc, v |-> calls'[u].v, seen |-> calls'[u].seen,
                           got |-> calls'[u].got]
            /\ calls'[u].pc \in Pcs /\ calls'[u].seen \in Heads
            /\ calls'[u].pc \in {"set", "trim"} => calls'[u].v \in ChunkedValue
  <2>1. call.pc = "idle" /\ call.pc \in Pcs
    BY DEF Pcs
  <2> QED
    BY <2>1, CallMoves
<1>1. ChunkTypes'
  BY <1>0 DEF ChunkIInv, ChunkTypes
<1>2. PiecesAreWritten' /\ HeadsPieces'
  BY CallKeepsItems
<1>3. ReaderFinds'
  BY <1>0 DEF ChunkIInv, ReaderFinds, FindsOver, Holds, FreeOf
<1>4. SeenIsHead'
  BY <1>0 DEF ChunkIInv, SeenIsHead, FreeOf
<1>5. HeadIsWhole'
  BY DEF ChunkIInv, HeadIsWhole, FreeOf
<1>6. LeftoversAreTrimmed'
  <2> SUFFICES ASSUME FreeOf({"remote", "overlap", "crash"})' PROVE LeftoversAreTrimmed'
    BY DEF LeftoversAreTrimmed
  <2>0. FreeOf({"remote", "overlap", "crash"}) /\ calls[w].pc # "trim"
    BY DEF FreeOf
  <2>1. ASSUME NEW i \in ChunkIx, chunk[i] # NoItem, i > ChunksOf(head)
        PROVE  \E u \in Writer : calls'[u].pc = "trim" /\ i \in LeftOver(u)'
    BY <1>0, <2>0, <2>1 DEF ChunkIInv, LeftoversAreTrimmed, LeftOver
  <2>2. ASSUME NEW u \in Writer, calls'[u].pc = "unhead", NEW i \in 1 .. ChunksOf(head)
        PROVE  chunk[i] = NoItem
    BY <1>0, <2>0, <2>2 DEF ChunkIInv, LeftoversAreTrimmed, ChunksOf
  <2> QED
    BY <2>1, <2>2 DEF LeftoversAreTrimmed
<1>7. ReadIsWhole'
  <2> SUFFICES ASSUME NEW u \in Writer, calls'[u].got.kind = "mixture"
               PROVE  disturbed' \cap {"remote", "exact", "twice"} # {}
    BY DEF ReadIsWhole
  <2> QED
    BY <1>0 DEF ChunkIInv, ReadIsWhole
<1> QED
  BY <1>1, <1>2, <1>3, <1>4, <1>5, <1>6, <1>7 DEF ChunkIInv

LEMMA ReadHeadKeeps == ASSUME ChunkIInv, NEW w \in Writer, ReadHead(w) PROVE ChunkIInv'
<1>1. CASE IsManifest(head)
  <2>1. Begin(w, "assemble", Missing) /\ "assemble" \in Pcs \ {"idle", "trim"}
    BY <1>1 DEF ReadHead, Pcs
  <2> QED
    BY <1>1, <2>1, CallBegins
<1>2. CASE ~IsManifest(head)
  <2> DEFINE got == IF head = NoItem THEN NoRead ELSE [kind |-> "whole", of |-> head.of]
             call == [calls[w] EXCEPT !.got = got]
  <2>1. calls' = [calls EXCEPT ![w] = call] /\ calls[w].pc = "idle"
        /\ UNCHANGED <<head, chunk, incoming, disturbed>> /\ made' = made + 1 /\ made < MaxCalls
    BY <1>2 DEF ReadHead
  <2>2. got.kind # "mixture"
    BY DEF NoRead
  <2>3. calls[w] = [pc |-> calls[w].pc, v |-> calls[w].v, seen |-> calls[w].seen,
                    got |-> calls[w].got] /\ calls[w].seen \in Heads
    BY DEF ChunkIInv, ChunkTypes
  <2> HIDE DEF got
  <2>4. /\ call = [pc |-> "idle", v |-> call.v, seen |-> call.seen, got |-> call.got]
        /\ call.seen \in Heads /\ call.got = got
    BY <2>1, <2>3
  <2>5. made' \in 0 .. MaxCalls /\ disturbed' \subseteq Flags
    BY <2>1, ChunkAssumption DEF ChunkIInv, ChunkTypes
  <2> HIDE DEF call
  <2> QED
    BY <2>1, <2>2, <2>4, <2>5, ChunkCallEnds
<1> QED
  BY <1>1, <1>2

LEMMA RemoveHeadKeeps == ASSUME ChunkIInv, NEW w \in Writer, RemoveHead(w) PROVE ChunkIInv'
<1>1. "unchunk" \in Pcs \ {"idle", "trim"} /\ "unhead" \in Pcs \ {"idle", "trim"}
  BY DEF Pcs
<1>2. CASE IsManifest(head)
  BY <1>1, <1>2, CallBegins DEF RemoveHead
<1>3. CASE ~IsManifest(head)
  BY <1>1, <1>3, CallBegins DEF RemoveHead
<1> QED
  BY <1>2, <1>3

LEMMA CloseKeeps == ASSUME ChunkIInv, NEW w \in Writer, Close(w) PROVE ChunkIInv'
<1>1. /\ calls' = [calls EXCEPT ![w] = Idle] /\ UNCHANGED <<head, chunk, incoming, made>>
      /\ disturbed' = disturbed \cup {"crash"}
  BY DEF Close
<1>2. made' \in 0 .. MaxCalls /\ disturbed' \subseteq Flags
  BY <1>1 DEF ChunkIInv, ChunkTypes, Flags
<1>3. Idle = [pc |-> "idle", v |-> Idle.v, seen |-> Idle.seen, got |-> Idle.got]
  BY IdleCall
<1> QED
  BY <1>1, <1>2, <1>3, IdleCall, ChunkCallEnds

LEMMA AssembleKeeps == ASSUME ChunkIInv, NEW w \in Writer, Assemble(w) PROVE ChunkIInv'
<1> DEFINE got == Reassembled(calls[w].seen)
           call == [Idle EXCEPT !.got = got]
<1>1. /\ calls[w].pc = "assemble" /\ calls' = [calls EXCEPT ![w] = call]
      /\ UNCHANGED <<head, chunk, incoming, made, disturbed>>
  BY DEF Assemble
<1>2. got.kind = "mixture" => disturbed \cap {"remote", "exact", "twice"} # {}
  BY <1>1, MixturesAreTold
<1> HIDE DEF got
<1>3. /\ call = [pc |-> "idle", v |-> call.v, seen |-> call.seen, got |-> call.got]
      /\ call.seen \in Heads /\ call.got = got
  BY IdleCall DEF Idle
<1>4. made' \in 0 .. MaxCalls /\ disturbed' \subseteq Flags
  BY <1>1 DEF ChunkIInv, ChunkTypes
<1> HIDE DEF call
<1> QED
  BY <1>1, <1>2, <1>3, <1>4, ChunkCallEnds

---------------------------------------------------------------------------
\* The writes: none of another window's is under way, or it is an overlap.
LEMMA NoOverlap ==
    ASSUME NEW w \in Writer, "overlap" \notin Overlap(w)
    PROVE  \A u \in Writer \ {w} : ~Writing(u)
  BY DEF Overlap

LEMMA SetKeeps == ASSUME ChunkIInv, NEW w \in Writer, SetItems(w) PROVE ChunkIInv'
<1>0. PICK v : v = calls[w].v
  OBVIOUS
<1> DEFINE longer == ChunksOf(calls[w].seen) > v.n
           call == IF longer THEN [calls[w] EXCEPT !.pc = "trim"] ELSE Idle
<1>1. CASE calls' = [calls EXCEPT ![w] = Idle] /\ UNCHANGED <<head, chunk, disturbed>>
  <2>1. UNCHANGED <<head, chunk, incoming>> /\ calls[w].pc = "set"
        /\ made' \in 0 .. MaxCalls /\ disturbed' \subseteq Flags /\ disturbed \subseteq disturbed'
    BY <1>1 DEF SetItems, ChunkIInv, ChunkTypes
  <2>2. Idle = [pc |-> "idle", v |-> Idle.v, seen |-> Idle.seen, got |-> Idle.got]
    BY IdleCall
  <2> QED
    BY <1>1, <2>1, <2>2, IdleCall, ChunkCallEnds
<1>2. CASE /\ head' = HeadFor(v)
           /\ chunk' = [i \in ChunkIx |-> IF i \in ChunksOfValue(v) THEN Piece(v, i) ELSE chunk[i]]
           /\ calls' = [calls EXCEPT ![w] = call]
           /\ disturbed' = disturbed \cup Overlap(w) \cup Exact(v) \cup Twice
  <2>0. calls[w].pc = "set" /\ v \in ChunkedValue /\ v.n \in 0 .. 3 /\ UNCHANGED <<incoming, made>>
    BY <1>0, ItemFacts DEF SetItems, ChunkIInv, ChunkTypes
  <2>1. /\ calls[w] = [pc |-> calls[w].pc, v |-> v, seen |-> calls[w].seen, got |-> calls[w].got]
        /\ calls[w].seen \in Heads
    BY <1>0 DEF ChunkIInv, ChunkTypes
  <2>2. /\ call = [pc |-> call.pc, v |-> call.v, seen |-> call.seen, got |-> call.got]
        /\ call.pc = (IF longer THEN "trim" ELSE "idle") /\ call.pc \in Pcs /\ call.seen \in Heads
        /\ call.pc = "trim" => call.v = v /\ call.seen = calls[w].seen
        /\ call.got.kind = "mixture" => calls[w].got.kind = "mixture"
        /\ call.pc \in {"set", "trim"} => call.v \in ChunkedValue
    <3>1. CASE longer
      BY <2>0, <2>1, <3>1 DEF Pcs
    <3>2. CASE ~longer
      BY <3>2, IdleCall DEF Pcs
    <3> QED
      BY <3>1, <3>2
  <2>3. /\ calls' = [u \in Writer |-> calls'[u]]
        /\ calls'[w] = call /\ \A u \in Writer \ {w} : calls'[u] = calls[u]
        /\ \A u \in Writer :
              /\ calls'[u] = [pc |-> calls'[u].pc, v |-> calls'[u].v, seen |-> calls'[u].seen,
                             got |-> calls'[u].got]
              /\ calls'[u].pc \in Pcs /\ calls'[u].seen \in Heads
              /\ calls'[u].pc \in {"set", "trim"} => calls'[u].v \in ChunkedValue
    <3> HIDE DEF call
    <3> QED
      BY <1>2, <2>2, CallMoves
  <2> HIDE DEF call
  <2>4. \A i \in ChunkIx : chunk'[i] = IF i <= v.n THEN Piece(v, i) ELSE chunk[i]
    BY <1>2, ItemFacts DEF ChunksOfValue
  <2>5. ChunksOf(head') = v.n /\ head'.of = v /\ head' \in Heads
    BY <1>2, <2>0, ItemFacts DEF Heads
  <2>6. ChunkTypes'
    <3>1. disturbed' \subseteq Flags
      BY <1>2 DEF ChunkIInv, ChunkTypes, Flags, Overlap, Exact, Twice
    <3>2. chunk' \in [ChunkIx -> {NoItem} \cup SomePieces]
      <4>1. \A i \in ChunkIx : chunk'[i] \in {NoItem} \cup SomePieces
        BY <2>0, <2>4 DEF ChunkIInv, ChunkTypes, SomePieces
      <4> QED
        BY <1>2, <4>1
    <3> QED
      BY <2>0, <2>3, <2>5, <3>1, <3>2 DEF ChunkIInv, ChunkTypes
  <2>7. PiecesAreWritten'
    <3> SUFFICES ASSUME FreeOf({"remote"})', NEW i \in ChunkIx, chunk'[i] # NoItem
                 PROVE  incoming' = {} /\ \E u \in ChunkedValue : WrittenBy(i, u)'
      BY <1>2, <2>0 DEF PiecesAreWritten, FreeOf, ChunkIInv
    <3>1. incoming' = {} /\ FreeOf({"remote"})
      BY <1>2, <2>0 DEF ChunkIInv, PiecesAreWritten, FreeOf
    <3>2. CASE i <= v.n
      <4>1. v.last = FullChunk => "exact" \in disturbed'
        BY <1>2 DEF Exact
      <4>2. WrittenBy(i, v)'
        BY <2>4, <3>2, <4>1 DEF WrittenBy
      <4> QED
        BY <2>0, <3>1, <4>2
    <3>3. CASE ~(i <= v.n)
      <4>1. PICK u \in ChunkedValue : WrittenBy(i, u)
        BY <2>4, <3>1, <3>3 DEF ChunkIInv, PiecesAreWritten
      <4>2. WrittenBy(i, u)'
        BY <1>2, <2>4, <3>3, <4>1 DEF WrittenBy
      <4> QED
        BY <3>1, <4>2
    <3> QED
      BY <3>2, <3>3
  <2>8. HeadsPieces' /\ HeadIsWhole'
    BY <2>0, <2>4, <2>5, ItemFacts DEF HeadsPieces, HeadIsWhole, Holds
  <2>9. ReaderFinds'
    <3> SUFFICES ASSUME FreeOf({"remote", "twice"})', NEW r \in Writer, calls'[r].pc = "assemble"
                 PROVE  \E m, a \in ChunkedValue : FindsOver(r, m, a)'
      BY DEF ReaderFinds
    <3>1. r # w /\ calls'[r] = calls[r]
      BY <2>2, <2>3
    <3>2. FreeOf({"remote", "twice"}) /\ head = calls[r].seen
      BY <1>2, <3>1 DEF FreeOf, Twice
    <3>3. PICK m \in ChunkedValue : calls[r].seen = HeadFor(m) /\ m.n > 0
      BY <3>1, <3>2 DEF ChunkIInv, ReaderFinds, FindsOver
    <3>4. \A i \in 1 .. m.n : Holds(i, m)
      BY <3>2, <3>3, ItemFacts DEF ChunkIInv, HeadsPieces, FreeOf
    <3>5. m.n \in 1 .. 3
      BY <3>3, ItemFacts
    <3>6. FindsOver(r, m, v)'
      BY <2>4, <3>1, <3>3, <3>4, <3>5, ItemFacts DEF FindsOver, Holds
    <3> QED
      BY <2>0, <3>6
  <2>10. ASSUME "overlap" \notin disturbed'
         PROVE  \A u \in Writer \ {w} : calls'[u] = calls[u]
                   /\ calls[u].pc \notin {"set", "trim", "unchunk", "unhead"}
    BY <1>2, <2>3, <2>10, NoOverlap DEF Writing
  <2>11. SeenIsHead'
    <3> SUFFICES ASSUME FreeOf({"remote", "overlap"})', NEW u \in Writer
                 PROVE  /\ calls'[u].pc \in {"set", "unchunk", "unhead"} => head' = calls'[u].seen
                        /\ calls'[u].pc = "trim" => head' = HeadFor(calls'[u].v)
      BY DEF SeenIsHead
    <3> QED
      BY <1>2, <2>2, <2>3, <2>10 DEF FreeOf
  <2>12. LeftoversAreTrimmed'
    <3> SUFFICES ASSUME FreeOf({"remote", "overlap", "crash"})' PROVE LeftoversAreTrimmed'
      BY DEF LeftoversAreTrimmed
    <3>0. /\ FreeOf({"remote", "overlap", "crash"}) /\ FreeOf({"remote", "overlap"})
          /\ "overlap" \notin disturbed'
      BY <1>2 DEF FreeOf
    <3>1. ASSUME NEW i \in ChunkIx, chunk'[i] # NoItem, i > ChunksOf(head')
          PROVE  \E u \in Writer : calls'[u].pc = "trim" /\ i \in LeftOver(u)'
      <4>1. chunk[i] # NoItem /\ i > v.n
        BY <2>0, <2>4, <2>5, <3>1, ItemFacts
      <4>2. ~(i > ChunksOf(head))
        BY <2>0, <2>10, <3>0, <4>1 DEF ChunkIInv, LeftoversAreTrimmed
      <4>3. i <= ChunksOf(calls[w].seen) /\ longer
        <5>1. head = calls[w].seen
          BY <2>0, <3>0 DEF ChunkIInv, SeenIsHead
        <5>2. ChunksOf(calls[w].seen) \in 0 .. 3 /\ i \in 1 .. 3 /\ v.n \in 0 .. 3
          BY <2>0, <2>1, ItemFacts
        <5> QED
          BY <4>1, <4>2, <5>1, <5>2
      <4>4. calls'[w].pc = "trim" /\ calls'[w].v = v /\ calls'[w].seen = calls[w].seen
        BY <2>2, <2>3, <4>3
      <4> QED
        BY <4>1, <4>3, <4>4 DEF LeftOver, ChunksOf
    <3>2. \A u \in Writer : calls'[u].pc # "unhead"
      BY <2>2, <2>3, <2>10, <3>0
    <3> QED
      BY <3>1, <3>2 DEF LeftoversAreTrimmed
  <2>13. ReadIsWhole'
    BY <1>2, <2>2, <2>3 DEF ChunkIInv, ReadIsWhole
  <2> QED
    BY <2>6, <2>7, <2>8, <2>9, <2>11, <2>12, <2>13 DEF ChunkIInv
<1> QED
  BY <1>0, <1>1, <1>2 DEF SetItems

\* What taking items away leaves as it was.
LEMMA ItemsGo ==
    ASSUME ChunkIInv, NEW w \in Writer, UNCHANGED incoming,
           chunk' = [i \in ChunkIx |-> chunk'[i]], \A i \in ChunkIx : chunk'[i] \in {NoItem, chunk[i]},
           \A f \in {"remote", "exact", "twice"} : f \in disturbed => f \in disturbed',
           calls'[w].pc # "assemble", calls'[w].got.kind = "mixture" => calls[w].got.kind = "mixture",
           \A u \in Writer \ {w} : calls'[u] = calls[u]
    PROVE  /\ chunk' \in [ChunkIx -> {NoItem} \cup SomePieces]
           /\ PiecesAreWritten' /\ ReaderFinds' /\ ReadIsWhole'
           /\ head' = head => HeadsPieces'
<1>1. chunk' \in [ChunkIx -> {NoItem} \cup SomePieces]
  <2>1. \A i \in ChunkIx : chunk'[i] \in {NoItem} \cup SomePieces
    BY DEF ChunkIInv, ChunkTypes
  <2> QED
    BY <2>1
<1>2. PiecesAreWritten'
  <2> SUFFICES ASSUME FreeOf({"remote"})'
               PROVE  /\ incoming' = {}
                      /\ \A i \in ChunkIx : chunk'[i] # NoItem => \E u \in ChunkedValue : WrittenBy(i, u)'
    BY DEF PiecesAreWritten
  <2>1. FreeOf({"remote"})
    BY DEF FreeOf
  <2>2. ASSUME NEW i \in ChunkIx, chunk'[i] # NoItem
        PROVE  \E u \in ChunkedValue : WrittenBy(i, u)'
    BY <2>1, <2>2 DEF ChunkIInv, PiecesAreWritten, WrittenBy
  <2> QED
    BY <2>1, <2>2 DEF ChunkIInv, PiecesAreWritten
<1>3. ReaderFinds'
  <2> SUFFICES ASSUME FreeOf({"remote", "twice"})', NEW r \in Writer, calls'[r].pc = "assemble"
               PROVE  \E m, a \in ChunkedValue : FindsOver(r, m, a)'
    BY DEF ReaderFinds
  <2>1. FreeOf({"remote", "twice"}) /\ calls'[r] = calls[r]
    BY DEF FreeOf
  <2>2. PICK m \in ChunkedValue, a \in ChunkedValue : FindsOver(r, m, a)
    BY <2>1 DEF ChunkIInv, ReaderFinds
  <2>3. \A i \in 1 .. m.n : i \in ChunkIx
    BY ItemFacts
  <2>4. FindsOver(r, m, a)'
    BY <2>1, <2>2, <2>3 DEF FindsOver, Holds
  <2> QED
    BY <2>4
<1>4. ReadIsWhole'
  BY DEF ChunkIInv, ReadIsWhole
<1>5. ASSUME head' = head PROVE HeadsPieces'
  <2>1. \A i \in 1 .. ChunksOf(head) : i \in ChunkIx
    BY ItemFacts DEF ChunkIInv, ChunkTypes
  <2> QED
    BY <1>5, <2>1 DEF ChunkIInv, HeadsPieces, Holds, FreeOf
<1> QED
  BY <1>1, <1>2, <1>3, <1>4, <1>5

LEMMA TrimKeeps == ASSUME ChunkIInv, NEW w \in Writer, Trim(w) PROVE ChunkIInv'
<1>1. /\ calls[w].pc = "trim" /\ calls' = [calls EXCEPT ![w] = Idle] /\ UNCHANGED <<head, incoming, made>>
      /\ chunk' = [i \in ChunkIx |-> IF i \in LeftOver(w) THEN NoItem ELSE chunk[i]]
      /\ disturbed' = disturbed \cup Overlap(w)
  BY DEF Trim
<1>2. /\ calls' = [u \in Writer |-> calls'[u]]
      /\ calls'[w] = Idle /\ \A u \in Writer \ {w} : calls'[u] = calls[u]
      /\ \A u \in Writer :
            /\ calls'[u] = [pc |-> calls'[u].pc, v |-> calls'[u].v, seen |-> calls'[u].seen,
                           got |-> calls'[u].got]
            /\ calls'[u].pc \in Pcs /\ calls'[u].seen \in Heads
            /\ calls'[u].pc \in {"set", "trim"} => calls'[u].v \in ChunkedValue
  BY <1>1, CallMoves, IdleCall
<1>3. /\ chunk' \in [ChunkIx -> {NoItem} \cup SomePieces]
      /\ PiecesAreWritten' /\ ReaderFinds' /\ ReadIsWhole' /\ HeadsPieces'
  <2>1. chunk' = [i \in ChunkIx |-> chunk'[i]] /\ \A i \in ChunkIx : chunk'[i] \in {NoItem, chunk[i]}
    BY <1>1
  <2> QED
    BY <1>1, <1>2, <2>1, IdleCall, ItemsGo
<1>4. ChunkTypes'
  BY <1>1, <1>2, <1>3 DEF ChunkIInv, ChunkTypes, Overlap, Flags
<1>5. SeenIsHead'
  BY <1>1, <1>2, IdleCall DEF ChunkIInv, SeenIsHead, FreeOf
<1>6. HeadIsWhole'
  <2> SUFFICES ASSUME FreeOf({"remote", "overlap", "unchunked"})', NEW i \in 1 .. ChunksOf(head)
               PROVE  chunk'[i] = Piece(head.of, i)
    BY <1>1 DEF HeadIsWhole, ChunksOf
  <2>1. FreeOf({"remote", "overlap", "unchunked"}) /\ FreeOf({"remote", "overlap"})
    BY <1>1 DEF FreeOf
  <2>2. head = HeadFor(calls[w].v) /\ calls[w].v \in ChunkedValue
    BY <1>1, <2>1 DEF ChunkIInv, SeenIsHead, ChunkTypes
  <2>3. i \in ChunkIx /\ i <= calls[w].v.n /\ calls[w].v.n \in Nat /\ i \in Nat
    BY <2>2, ItemFacts
  <2>4. i \notin LeftOver(w)
    BY <2>3 DEF LeftOver
  <2> QED
    BY <1>1, <2>1, <2>3, <2>4 DEF ChunkIInv, HeadIsWhole
<1>7. LeftoversAreTrimmed'
  <2> SUFFICES ASSUME FreeOf({"remote", "overlap", "crash"})' PROVE LeftoversAreTrimmed'
    BY DEF LeftoversAreTrimmed
  <2>1. FreeOf({"remote", "overlap", "crash"}) /\ "overlap" \notin Overlap(w)
    BY <1>1 DEF FreeOf
  <2>2. \A u \in Writer \ {w} : calls'[u] = calls[u] /\ calls[u].pc \notin {"trim", "unhead"}
    BY <1>2, <2>1, NoOverlap DEF Writing
  <2>3. ASSUME NEW i \in ChunkIx, chunk'[i] # NoItem, i > ChunksOf(head) PROVE FALSE
    <3>1. i \notin LeftOver(w) /\ chunk[i] # NoItem
      BY <1>1, <2>3
    <3> QED
      BY <2>1, <2>2, <2>3, <3>1 DEF ChunkIInv, LeftoversAreTrimmed
  <2>4. \A u \in Writer : calls'[u].pc # "unhead"
    BY <1>2, <2>2, IdleCall
  <2> QED
    BY <1>1, <2>3, <2>4 DEF LeftoversAreTrimmed, ChunksOf
<1> QED
  BY <1>3, <1>4, <1>5, <1>6, <1>7 DEF ChunkIInv

LEMMA RemoveChunksKeeps == ASSUME ChunkIInv, NEW w \in Writer, RemoveChunks(w) PROVE ChunkIInv'
<1> DEFINE call == [calls[w] EXCEPT !.pc = "unhead"]
<1>1. /\ calls[w].pc = "unchunk" /\ calls' = [calls EXCEPT ![w] = call] /\ UNCHANGED <<head, incoming, made>>
      /\ chunk' = [i \in ChunkIx |-> IF i <= ChunksOf(calls[w].seen) THEN NoItem ELSE chunk[i]]
      /\ disturbed' = disturbed \cup Overlap(w) \cup {"unchunked"}
  BY DEF RemoveChunks
<1>0. /\ call = [pc |-> call.pc, v |-> call.v, seen |-> call.seen, got |-> call.got]
      /\ call.pc = "unhead" /\ call.pc \in Pcs /\ call.seen = calls[w].seen /\ call.got = calls[w].got
      /\ call.seen \in Heads
  BY DEF ChunkIInv, ChunkTypes, Pcs
<1> HIDE DEF call
<1>2. /\ calls' = [u \in Writer |-> calls'[u]]
      /\ calls'[w] = call /\ \A u \in Writer \ {w} : calls'[u] = calls[u]
      /\ \A u \in Writer :
            /\ calls'[u] = [pc |-> calls'[u].pc, v |-> calls'[u].v, seen |-> calls'[u].seen,
                           got |-> calls'[u].got]
            /\ calls'[u].pc \in Pcs /\ calls'[u].seen \in Heads
            /\ calls'[u].pc \in {"set", "trim"} => calls'[u].v \in ChunkedValue
  BY <1>0, <1>1, CallMoves
<1>3. /\ chunk' \in [ChunkIx -> {NoItem} \cup SomePieces]
      /\ PiecesAreWritten' /\ ReaderFinds' /\ ReadIsWhole' /\ HeadsPieces'
  <2>1. chunk' = [i \in ChunkIx |-> chunk'[i]] /\ \A i \in ChunkIx : chunk'[i] \in {NoItem, chunk[i]}
    BY <1>1
  <2> QED
    BY <1>0, <1>1, <1>2, <2>1, ItemsGo
<1>4. ChunkTypes'
  BY <1>1, <1>2, <1>3 DEF ChunkIInv, ChunkTypes, Overlap, Flags
<1>5. SeenIsHead'
  BY <1>0, <1>1, <1>2 DEF ChunkIInv, SeenIsHead, FreeOf
<1>6. HeadIsWhole'
  BY <1>1 DEF HeadIsWhole, FreeOf
<1>7. LeftoversAreTrimmed'
  <2> SUFFICES ASSUME FreeOf({"remote", "overlap", "crash"})' PROVE LeftoversAreTrimmed'
    BY DEF LeftoversAreTrimmed
  <2>1. /\ FreeOf({"remote", "overlap", "crash"}) /\ FreeOf({"remote", "overlap"})
        /\ "overlap" \notin Overlap(w)
    BY <1>1 DEF FreeOf
  <2>2. \A u \in Writer \ {w} : calls'[u] = calls[u] /\ calls[u].pc \notin {"trim", "unhead"}
    BY <1>2, <2>1, NoOverlap DEF Writing
  <2>3. ASSUME NEW i \in ChunkIx, chunk'[i] # NoItem, i > ChunksOf(head) PROVE FALSE
    BY <1>1, <2>1, <2>2, <2>3 DEF ChunkIInv, LeftoversAreTrimmed
  <2>4. ASSUME NEW i \in 1 .. ChunksOf(head) PROVE chunk'[i] = NoItem
    <3>1. head = calls[w].seen
      BY <1>1, <2>1, Zenon DEF ChunkIInv, SeenIsHead
    <3>2. head \in Heads
      BY DEF ChunkIInv, ChunkTypes
    <3>3. ChunksOf(head) \in 0 .. 3 /\ ChunkIx = {1, 2, 3}
      BY <3>2, ItemFacts, Zenon
    <3>4. i \in ChunkIx /\ i <= ChunksOf(head)
      BY <3>3
    <3> QED
      BY <1>1, <3>1, <3>4
  <2> QED
    BY <1>1, <2>3, <2>4 DEF LeftoversAreTrimmed, ChunksOf
<1> QED
  BY <1>3, <1>4, <1>5, <1>6, <1>7 DEF ChunkIInv

LEMMA RemoveKeyKeeps == ASSUME ChunkIInv, NEW w \in Writer, RemoveKey(w) PROVE ChunkIInv'
<1>1. /\ calls[w].pc = "unhead" /\ calls' = [calls EXCEPT ![w] = Idle] /\ UNCHANGED <<chunk, incoming, made>>
      /\ head' = NoItem /\ disturbed' = (disturbed \ {"unchunked"}) \cup Overlap(w)
  BY DEF RemoveKey
<1>2. /\ calls' = [u \in Writer |-> calls'[u]]
      /\ calls'[w] = Idle /\ \A u \in Writer \ {w} : calls'[u] = calls[u]
      /\ \A u \in Writer :
            /\ calls'[u] = [pc |-> calls'[u].pc, v |-> calls'[u].v, seen |-> calls'[u].seen,
                           got |-> calls'[u].got]
            /\ calls'[u].pc \in Pcs /\ calls'[u].seen \in Heads
            /\ calls'[u].pc \in {"set", "trim"} => calls'[u].v \in ChunkedValue
  BY <1>1, CallMoves, IdleCall
<1>3. /\ chunk' \in [ChunkIx -> {NoItem} \cup SomePieces]
      /\ PiecesAreWritten' /\ ReaderFinds' /\ ReadIsWhole'
  <2>1. chunk' = [i \in ChunkIx |-> chunk'[i]] /\ \A i \in ChunkIx : chunk'[i] \in {NoItem, chunk[i]}
    BY <1>1 DEF ChunkIInv, ChunkTypes
  <2> QED
    BY <1>1, <1>2, <2>1, IdleCall, ItemsGo
<1>4. ChunkTypes'
  BY <1>1, <1>2, <1>3, ItemFacts DEF ChunkIInv, ChunkTypes, Overlap, Flags
<1>5. HeadsPieces' /\ HeadIsWhole'
  BY <1>1, ItemFacts DEF HeadsPieces, HeadIsWhole
<1>6. ASSUME "overlap" \notin disturbed'
      PROVE  /\ "overlap" \notin Overlap(w)
             /\ \A u \in Writer \ {w} :
                   calls'[u] = calls[u] /\ calls[u].pc \notin {"set", "trim", "unchunk", "unhead"}
  BY <1>1, <1>2, <1>6, NoOverlap DEF Writing
<1>7. SeenIsHead'
  BY <1>2, <1>6, IdleCall DEF SeenIsHead, FreeOf
<1>8. LeftoversAreTrimmed'
  <2> SUFFICES ASSUME FreeOf({"remote", "overlap", "crash"})' PROVE LeftoversAreTrimmed'
    BY DEF LeftoversAreTrimmed
  <2>1. FreeOf({"remote", "overlap", "crash"}) /\ "overlap" \notin disturbed'
    BY <1>1, <1>6 DEF FreeOf, Overlap
  <2>2. ASSUME NEW i \in ChunkIx, chunk'[i] # NoItem PROVE FALSE
    <3>1. CASE i > ChunksOf(head)
      BY <1>1, <1>6, <2>1, <2>2, <3>1 DEF ChunkIInv, LeftoversAreTrimmed
    <3>2. CASE ~(i > ChunksOf(head))
      <4>1. i \in 1 .. ChunksOf(head)
        BY <3>2, ItemFacts DEF ChunkIInv, ChunkTypes
      <4> QED
        BY <1>1, <2>1, <2>2, <4>1 DEF ChunkIInv, LeftoversAreTrimmed
    <3> QED
      BY <3>1, <3>2
  <2>3. \A u \in Writer : calls'[u].pc # "unhead"
    BY <1>2, <1>6, <2>1, IdleCall
  <2> QED
    BY <2>2, <2>3 DEF LeftoversAreTrimmed
<1> QED
  BY <1>3, <1>4, <1>5, <1>7, <1>8 DEF ChunkIInv

---------------------------------------------------------------------------
\* Another device's write: nothing is said of the items from then on.
LEMMA RemoteKeeps ==
    ASSUME ChunkIInv, ChunkTypes', "remote" \in disturbed', UNCHANGED calls,
           disturbed \subseteq disturbed'
    PROVE  ChunkIInv'
<1>1. PiecesAreWritten' /\ HeadsPieces' /\ ReaderFinds' /\ SeenIsHead' /\ HeadIsWhole'
      /\ LeftoversAreTrimmed'
  BY DEF PiecesAreWritten, HeadsPieces, ReaderFinds, SeenIsHead, HeadIsWhole,
         LeftoversAreTrimmed, FreeOf
<1>2. ReadIsWhole'
  BY DEF ChunkIInv, ReadIsWhole
<1> QED
  BY <1>1, <1>2 DEF ChunkIInv

LEMMA NextChunk == ChunkIInv /\ [ChunkNext]_chunkVars => ChunkIInv'
<1> SUFFICES ASSUME ChunkIInv, [ChunkNext]_chunkVars PROVE ChunkIInv'
  OBVIOUS
<1>1. ASSUME NEW w \in Writer, NEW v \in ChunkedValue, Begin(w, "set", v) PROVE ChunkIInv'
  <2>1. "set" \in Pcs \ {"idle", "trim"}
    BY DEF Pcs
  <2> QED
    BY <1>1, <2>1, CallBegins
<1>2. ASSUME NEW w \in Writer, ReadHead(w) \/ RemoveHead(w) \/ ChunkStep(w) \/ Close(w)
      PROVE  ChunkIInv'
  BY <1>2, ReadHeadKeeps, RemoveHeadKeeps, SetKeeps, TrimKeeps, RemoveChunksKeeps,
     RemoveKeyKeeps, AssembleKeeps, CloseKeeps DEF ChunkStep
<1>3. CASE RemoteWrite
  <2>1. PICK v \in ChunkedValue :
          incoming' = {HeadFor(v)} \cup {Piece(v, i) : i \in ChunksOfValue(v)}
    BY <1>3 DEF RemoteWrite
  <2>2. incoming' \subseteq Heads \cup SomePieces
    BY <2>1 DEF Heads, SomePieces, ChunksOfValue
  <2>3. made' \in 0 .. MaxCalls
    BY <1>3, ChunkAssumption DEF RemoteWrite, ChunkIInv, ChunkTypes
  <2>4. ChunkTypes'
    BY <1>3, <2>2, <2>3 DEF RemoteWrite, ChunkIInv, ChunkTypes, Flags
  <2> QED
    BY <1>3, <2>4, RemoteKeeps DEF RemoteWrite
<1>4. CASE Arrive
  <2>1. "remote" \in disturbed
    BY <1>4 DEF Arrive, ChunkIInv, PiecesAreWritten, FreeOf
  <2>2. PICK item \in incoming :
          /\ incoming' = incoming \ {item}
          /\ IF item.kind = "piece"
             THEN chunk' = [chunk EXCEPT ![item.ix] = item] /\ UNCHANGED head
             ELSE head' = item /\ UNCHANGED chunk
    BY <1>4 DEF Arrive
  <2>3. head' \in Heads /\ chunk' \in [ChunkIx -> {NoItem} \cup SomePieces]
    <3>1. CASE item \in Heads
      BY <2>2, <3>1, ItemFacts DEF ChunkIInv, ChunkTypes
    <3>2. CASE item \in SomePieces
      BY <2>2, <3>2, ItemFacts DEF ChunkIInv, ChunkTypes, SomePieces
    <3> QED
      BY <3>1, <3>2 DEF ChunkIInv, ChunkTypes
  <2>4. ChunkTypes'
    BY <1>4, <2>2, <2>3 DEF Arrive, ChunkIInv, ChunkTypes
  <2> QED
    BY <1>4, <2>1, <2>4, RemoteKeeps DEF Arrive
<1>5. CASE UNCHANGED chunkVars
  <2> USE <1>5 DEF chunkVars
  <2>1. ChunkTypes' /\ PiecesAreWritten' /\ HeadsPieces' /\ ReadIsWhole'
    BY DEF ChunkIInv, ChunkTypes, PiecesAreWritten, WrittenBy, HeadsPieces, Holds, FreeOf, ReadIsWhole
  <2>2. ReaderFinds' /\ SeenIsHead'
    BY DEF ChunkIInv, ReaderFinds, FindsOver, Holds, SeenIsHead, FreeOf
  <2>3. HeadIsWhole' /\ LeftoversAreTrimmed'
    BY DEF ChunkIInv, HeadIsWhole, LeftoversAreTrimmed, LeftOver, ChunksOf, IsManifest, FreeOf
  <2> QED
    BY <2>1, <2>2, <2>3 DEF ChunkIInv
<1> QED
  BY <1>1, <1>2, <1>3, <1>4, <1>5 DEF ChunkNext

\* A manifest whose pieces are all its own gives its value.
LEMMA WholeHeadIsRead ==
    ASSUME ChunkIInv, IsManifest(head), \A i \in 1 .. ChunksOf(head) : chunk[i] = Piece(head.of, i)
    PROVE  Reassembled(head) = [kind |-> "whole", of |-> head.of]
<1>1. PICK m \in ChunkedValue : head = HeadFor(m)
  BY ItemFacts DEF ChunkIInv, ChunkTypes, Heads
<1>2. head.of = m /\ m.n \in 1 .. 3 /\ ChunksOf(head) = m.n /\ m.last \in Nat
  BY <1>1, ItemFacts
<1>3. \A i \in 1 .. m.n : chunk[i] = Piece(m, i) /\ chunk[i] # NoItem /\ chunk[i].of = m
        /\ PieceLen(chunk[i]) = IF i < m.n THEN FullChunk ELSE m.last
  BY <1>2, ItemFacts DEF PieceLen
<1>4. NoItem \notin Pieces(head)
  BY <1>2, <1>3 DEF Pieces
<1>5. Origins(head) = {m}
  BY <1>2, <1>3 DEF Origins, Pieces
<1>6. LenOfPieces(head) = ValueLen(m)
  <2>1. CASE m.n = 1
    BY <1>2, <1>3, <2>1, ItemFacts DEF LenOfPieces, ValueLen
  <2>2. CASE m.n = 2
    BY <1>2, <1>3, <2>2, ItemFacts DEF LenOfPieces, ValueLen
  <2>3. CASE m.n = 3
    BY <1>2, <1>3, <2>3, ItemFacts DEF LenOfPieces, ValueLen
  <2> QED
    BY <1>2, <2>1, <2>2, <2>3
<1>7. LengthMatches(head)
  BY <1>2, <1>6 DEF LengthMatches
<1>8. ~(Cardinality(Origins(head)) > 1)
  <2>1. Cardinality({m}) = 1
    BY FS_Singleton
  <2> QED
    BY <1>5, <2>1
<1>9. (CHOOSE o \in Origins(head) : TRUE) = m
  BY <1>5
<1> QED
  BY <1>2, <1>4, <1>7, <1>8, <1>9 DEF Reassembled

\* However calls of however many windows meet, and whatever fails, closes or
\* arrives: a read gives a stored value whole or is refused, what is stored can
\* be read, and a finished write leaves none of a longer value's chunks, except
\* after what the code cannot exclude (chunked.ts: setChunked, getChunked,
\* removeChunked).
THEOREM ChunksStayWhole == ChunkSpec => []ChunksAreWhole
<1>1. ChunkIInv => ChunksAreWhole
  <2> SUFFICES ASSUME ChunkIInv PROVE ChunksAreWhole
    OBVIOUS
  <2>1. ChunkTypeOK
    BY DEF ChunkIInv, ChunkTypes, ChunkTypeOK, Heads, SomePieces, Pcs, Flags
  <2>2. StoredIsReadable
    <3> SUFFICES ASSUME disturbed \cap {"overlap", "unchunked", "remote"} = {}, IsManifest(head)
                 PROVE  Reassembled(head) = [kind |-> "whole", of |-> head.of]
      BY DEF StoredIsReadable, HeadReadable
    <3>1. \A i \in 1 .. ChunksOf(head) : chunk[i] = Piece(head.of, i)
      BY DEF ChunkIInv, HeadIsWhole, FreeOf
    <3> QED
      BY <3>1, WholeHeadIsRead
  <2>3. NothingLeftOver
    <3> SUFFICES ASSUME disturbed \subseteq {"exact", "twice"}, \A w \in Writer : ~Writing(w),
                        NEW i \in ChunkIx, chunk[i] # NoItem
                 PROVE  i <= ChunksOf(head)
      BY DEF NothingLeftOver
    <3>1. ~(i > ChunksOf(head))
      BY DEF ChunkIInv, LeftoversAreTrimmed, FreeOf, Writing
    <3> QED
      BY <3>1, ItemFacts DEF ChunkIInv, ChunkTypes
  <2> QED
    BY <2>1, <2>2, <2>3 DEF ChunkIInv, ChunksAreWhole
<1> QED
  BY <1>1, InitChunk, NextChunk, PTL DEF ChunkSpec

-----------------------------------------------------------------------------
(* The sealed settings: every generation is that of a save, and where the   *)
(* user chose strict something tells of it, and a ledger that holds nothing *)
(* against the stored copy is ahead of every relaxed one.                   *)

\* Types, and the numbers: every generation is that of a save.
Kept == older \cup {blob}
SettingsTypes ==
    /\ SettingsTypeOK
    /\ settled \in BOOLEAN /\ otherGen \in BOOLEAN /\ checked \in BOOLEAN
    /\ ledgerKey \in {"right", "wrong"} /\ fate \in {"none", "genuine", "migrated"}
    /\ faults \in 0 .. MaxFaults /\ saves \in Nat
Saving == doing \in {"migrate, then save", "settle, then save", "save"}
MostSaves == MaxSaves + faults + (IF blob.state = "absent" THEN 0 ELSE 1)
SavesAreCounted == saves <= MostSaves /\ (Saving => saves < MostSaves)
NumbersAreSaves ==
    /\ \A b \in Kept : b.gen <= saves
    /\ \A b \in older : b.state = "sealed"
    /\ marks.mark <= saves /\ marks.suspect.gen <= saves /\ marks.suspect.mark <= saves
    /\ marks.mark = L!Unmarked => marks.suspect = L!NotHeld
    /\ settled => marks.state = "good"

\* Until the settings of an older version have been taken over, nothing else happens.
GenuineWaits ==
    fate = "genuine" =>
        /\ legacy = "genuine" /\ blob = NoBlob /\ older = {} /\ ~otherGen /\ ~settled /\ ~checked
        /\ runs = "unread"
        /\ (session = "none" /\ doing = "nothing") \/ (session = "right" /\ Migrating)

\* What the panel runs on has been read in this session, and the ledger has it.
LockedIsUnread == session = "none" => runs = "unread" /\ doing = "nothing"
SavesFollowReads == Saving => runs # "unread"
ReadIsNoted ==
    session # "none" /\ runs # "unread" /\ (doing = "nothing" \/ Saving) /\ Readable =>
        /\ marks.state = "good" /\ ledgerKey = session
        /\ blob.gen >= marks.mark \/ marks.lost # "none" \/ marks.suspect # L!NotHeld

\* Where a strict choice stands, something tells of it, and a ledger that holds
\* nothing against the stored copy is ahead of every relaxed one.
Trusting == /\ marks.state = "good" /\ ledgerKey = "right"
            /\ marks.lost = "none" /\ marks.suspect = L!NotHeld
Relaxed(b) == b.state = "sealed" /\ b.key = "right" /\ b.val.lock = "relaxed"
StrictIsTold ==
    choice = "strict" /\ fate # "genuine" =>
        /\ marks.state # "absent" \/ otherGen \/ (blob.state = "sealed" /\ blob.key = "right")
        /\ Trusting => /\ marks.mark # L!Unmarked
                       /\ \A b \in Kept : Relaxed(b) => b.gen < marks.mark

SettingsIInv ==
    /\ SettingsTypes /\ SavesAreCounted /\ NumbersAreSaves /\ GenuineWaits
    /\ LockedIsUnread /\ SavesFollowReads /\ ReadIsNoted /\ StrictIsTold /\ FaultsNeverRelax

-----------------------------------------------------------------------------
(* The numbers a save takes, and what an observation leaves of a ledger.    *)

Bound == MaxSaves + MaxFaults + 1

LEMMA LedgerShapes ==
    ASSUME NEW l \in L!Ledgers
    PROVE  /\ l = [state |-> l.state, mark |-> l.mark, floor |-> l.floor, lost |-> l.lost,
                   suspect |-> l.suspect]
           /\ l.state \in {"good", "absent", "junk"} /\ l.mark \in 0 .. Bound \cup {-1}
           /\ l.lost \in {"none", "missing", "ledger-unreadable"}
           /\ l.suspect \in L!Held \cup {L!NotHeld}
           /\ l.floor = {}
<1>1. /\ l = [state |-> l.state, mark |-> l.mark, floor |-> l.floor, lost |-> l.lost,
              suspect |-> l.suspect]
      /\ l.state \in {"good", "absent", "junk"} /\ l.mark \in L!Generation \cup {L!Unmarked}
      /\ l.lost \in {"none", "missing", "ledger-unreadable"}
      /\ l.suspect \in L!Held \cup {L!NotHeld}
      /\ l.floor \in SUBSET {}
  BY DEF L!Ledgers
<1> QED
  BY <1>1 DEF L!Generation, L!Unmarked, Bound

LEMMA EmptyLedgers ==
    /\ \A l \in {L!EmptyLedger, L!AbsentLedger, L!JunkLedger} :
          l \in L!Ledgers /\ l.mark = -1 /\ l.lost = "none" /\ l.suspect = L!NotHeld
    /\ L!EmptyLedger.state = "good" /\ L!AbsentLedger.state = "absent"
    /\ L!JunkLedger.state = "junk"
  BY SettingsAssumption
  DEF L!EmptyLedger, L!AbsentLedger, L!JunkLedger, L!Ledgers, L!Generation, L!Unmarked

\* What a session sees of the ledger: the ledger, or one that does not open.
LEMMA SeenLedger ==
    ASSUME marks \in L!Ledgers
    PROVE  /\ Seen \in L!Ledgers
           /\ Seen.state = "good" => Seen = marks
           /\ Seen.state = "good" <=> marks.state = "good" /\ ledgerKey = session
           /\ Seen.state = "absent" <=> marks.state = "absent"
           /\ Seen.mark = marks.mark \/ Seen.mark = -1
<1>1. Seen = marks \/ (Seen = L!JunkLedger /\ ledgerKey # session /\ marks.state # "absent")
  BY DEF Seen
<1>2. marks.state \in {"good", "absent", "junk"}
  BY LedgerShapes
<1>3. /\ L!JunkLedger \in L!Ledgers /\ L!JunkLedger.state = "junk" /\ L!JunkLedger.mark = -1
  BY EmptyLedgers
<1>4. CASE Seen = marks
  <2>1. ledgerKey = session \/ marks.state # "good"
    BY <1>3, <1>4 DEF Seen
  <2> QED
    BY <1>4, <2>1
<1>5. CASE Seen = L!JunkLedger /\ ledgerKey # session /\ marks.state # "absent"
  BY <1>3, <1>5
<1> QED
  BY <1>1, <1>4, <1>5

\* What a proven update starts from: the ledger, or a replacement that says what was lost.
LEMMA ProvenLedger ==
    ASSUME marks \in L!Ledgers, NEW skip \in BOOLEAN
    PROVE  /\ Proven(skip) \in L!Ledgers
           /\ Proven(skip).state = "good"
           /\ Proven(skip).mark = marks.mark \/ Proven(skip).mark = -1
           /\ Seen.state = "good" => Proven(skip) = marks
           /\ Seen.state # "good" =>
                /\ Proven(skip).mark = -1 /\ Proven(skip).suspect = L!NotHeld
                /\ Proven(skip).lost = "none" <=>
                      Seen.state # "junk" /\ ~CarryGenerations(skip)
<1> DEFINE p == L!Replacement(Seen.state, CarryGenerations(skip))
<1>1. /\ L!EmptyLedger \in L!Ledgers /\ L!EmptyLedger.state = "good"
      /\ L!EmptyLedger.mark = -1 /\ L!EmptyLedger.suspect = L!NotHeld
  BY EmptyLedgers
<1>2. PICK lost \in {"none", "missing", "ledger-unreadable"} :
        /\ p = [L!EmptyLedger EXCEPT !.lost = lost]
        /\ lost = "none" <=> Seen.state # "junk" /\ ~CarryGenerations(skip)
  BY DEF L!Replacement
<1>3. /\ p \in L!Ledgers /\ p.state = "good" /\ p.mark = -1 /\ p.suspect = L!NotHeld
      /\ p.lost = lost
  BY <1>1, <1>2 DEF L!Ledgers
<1>4. CASE Seen.state = "good"
  BY <1>4, SeenLedger DEF Proven
<1>5. CASE Seen.state # "good"
  <2>1. Proven(skip) = p
    BY <1>5 DEF Proven
  <2> QED
    BY <1>2, <1>3, <1>5, <2>1
<1> QED
  BY <1>4, <1>5

\* A ledger behind the count of the saves: the next save takes the next number, and
\* recording it takes the mark there and leaves the rest.
LEMMA NextMark ==
    ASSUME NEW l \in L!Ledgers, NEW s \in Nat, l.mark <= s
    PROVE  L!ClaimGeneration(l, s + 1) = s + 1
<1>1. l.mark \in Int
  BY LedgerShapes, SettingsAssumption DEF Bound
<1> QED
  BY <1>1 DEF L!ClaimGeneration, L!Unmarked

LEMMA NumberRecorded ==
    ASSUME NEW l \in L!Ledgers, NEW s \in Nat, l.mark <= s, s + 1 <= Bound
    PROVE  /\ L!RecordWrite(l, s + 1) \in L!Ledgers
           /\ L!RecordWrite(l, s + 1).state = l.state
           /\ L!RecordWrite(l, s + 1).mark = s + 1
           /\ L!RecordWrite(l, s + 1).lost = l.lost
           /\ L!RecordWrite(l, s + 1).suspect = l.suspect
<1>1. l.mark \in Int
  BY LedgerShapes, SettingsAssumption DEF Bound
<1>2. L!RecordWrite(l, s + 1) = [l EXCEPT !.mark = s + 1]
  BY <1>1 DEF L!RecordWrite
<1>3. s + 1 \in L!Generation
  BY SettingsAssumption DEF L!Generation, Bound
<1> QED
  BY <1>2, <1>3 DEF L!Ledgers

\* Observing a copy: a current one moves the mark to it, an older one is held.
LEMMA CopyObserved ==
    ASSUME NEW l \in L!Ledgers, NEW g \in 0 .. Bound
    PROVE  /\ L!ObserveGeneration(l, g, TRUE) \in L!Ledgers
           /\ L!ObserveGeneration(l, g, TRUE).state = l.state
           /\ L!ObserveGeneration(l, g, TRUE).lost = l.lost
           /\ IF l.mark # -1 /\ g < l.mark
              THEN /\ L!ObserveGeneration(l, g, TRUE).mark = l.mark
                   /\ L!ObserveGeneration(l, g, TRUE).suspect # L!NotHeld
                   /\ L!ObserveGeneration(l, g, TRUE).suspect.gen = g
                   /\ L!ObserveGeneration(l, g, TRUE).suspect.mark = l.mark
              ELSE /\ L!ObserveGeneration(l, g, TRUE).mark = g
                   /\ L!ObserveGeneration(l, g, TRUE).suspect = l.suspect
<1>1. l.mark \in 0 .. Bound \cup {-1}
  BY LedgerShapes
<1>2. g \in L!Generation
  BY DEF L!Generation, Bound
<1>3. CASE l.mark # -1 /\ g < l.mark
  <2> DEFINE k == [kind |-> L!OlderKind(g), gen |-> g, mark |-> l.mark]
  <2>1. L!ObserveGeneration(l, g, TRUE) = [l EXCEPT !.suspect = k]
    BY <1>3 DEF L!ObserveGeneration, L!Older, L!Unmarked
  <2>2. k \in L!Held /\ k # L!NotHeld /\ k.gen = g /\ k.mark = l.mark
    <3>1. l.mark \in L!Generation
      BY <1>1, <1>3 DEF L!Generation, Bound
    <3>2. L!OlderKind(g) \in {"rolled-back", "no-generation"}
      BY DEF L!OlderKind
    <3>3. k \in L!Held
      BY <1>2, <3>1, <3>2 DEF L!Held
    <3>4. k.kind # "none"
      BY <3>2
    <3>5. L!NotHeld.kind = "none"
      BY DEF L!NotHeld
    <3> QED
      BY <3>3, <3>4, <3>5
  <2> HIDE DEF k
  <2>3. [l EXCEPT !.suspect = k] \in L!Ledgers
    BY <2>2 DEF L!Ledgers
  <2>4. /\ [l EXCEPT !.suspect = k].state = l.state /\ [l EXCEPT !.suspect = k].lost = l.lost
        /\ [l EXCEPT !.suspect = k].mark = l.mark /\ [l EXCEPT !.suspect = k].suspect = k
    BY DEF L!Ledgers
  <2> QED
    BY <1>3, <2>1, <2>2, <2>3, <2>4
<1>4. CASE ~(l.mark # -1 /\ g < l.mark)
  <2>1. L!ObserveGeneration(l, g, TRUE) = [l EXCEPT !.mark = g]
    BY <1>4 DEF L!ObserveGeneration, L!Older, L!Unmarked
  <2>2. [l EXCEPT !.mark = g] \in L!Ledgers
    BY <1>2 DEF L!Ledgers
  <2>3. /\ [l EXCEPT !.mark = g].state = l.state /\ [l EXCEPT !.mark = g].lost = l.lost
        /\ [l EXCEPT !.mark = g].mark = g /\ [l EXCEPT !.mark = g].suspect = l.suspect
    BY DEF L!Ledgers
  <2> QED
    BY <1>4, <2>1, <2>2, <2>3
<1> QED
  BY <1>3, <1>4

\* Dismissing what is held: nothing is held after, and the mark goes to the held copy
\* or stays.
LEMMA HeldIsAccepted ==
    ASSUME NEW l \in L!Ledgers
    PROVE  /\ L!Acknowledge(l) \in L!Ledgers
           /\ L!Acknowledge(l).state = l.state
           /\ L!Acknowledge(l).suspect = L!NotHeld
           /\ L!Acknowledge(l).mark \in {l.mark, l.suspect.gen}
<1> DEFINE m == IF l.suspect # L!NotHeld /\ l.mark = l.suspect.mark THEN l.suspect.gen ELSE l.mark
<1>1. m \in L!Generation \cup {L!Unmarked}
  BY DEF L!Ledgers, L!Held
<1>2. L!Acknowledge(l) = [l EXCEPT !.lost = "none", !.suspect = L!NotHeld, !.mark = m]
  BY DEF L!Acknowledge
<1>3. m \in {l.mark, l.suspect.gen}
  OBVIOUS
<1> HIDE DEF m
<1> QED
  BY <1>1, <1>2, <1>3 DEF L!Ledgers

\* A save: the next number, on a ledger that keeps what it held or says what was lost.
LEMMA SaveFacts ==
    ASSUME marks \in L!Ledgers, saves \in Nat, marks.mark <= saves, saves + 1 <= Bound,
           NEW val, SaveAs(val)
    PROVE  /\ blob' = [state |-> "sealed", gen |-> saves + 1, key |-> session, val |-> val]
           /\ older' = IF blob.state = "sealed" THEN older \cup {blob} ELSE older
           /\ saves' = saves + 1
           /\ ledgerKey' = session /\ settled' = (settled /\ Seen.state = "good")
           /\ marks' \in L!Ledgers /\ marks'.state = "good" /\ marks'.mark = saves + 1
           /\ Seen.state = "good" =>
                 marks'.lost = marks.lost /\ marks'.suspect = marks.suspect
           /\ Seen.state # "good" =>
                 /\ marks'.suspect = L!NotHeld
                 /\ marks'.lost = "none" <=> Seen.state # "junk" /\ ~CarryGenerations(TRUE)
<1>1. L!ClaimGeneration(Seen, saves + 1) = saves + 1
  <2>1. Seen \in L!Ledgers /\ Seen.mark <= saves
    BY SeenLedger
  <2> QED
    BY <2>1, NextMark
<1>2. PICK p \in L!Ledgers :
        /\ p = Proven(TRUE) /\ p.mark <= saves /\ p.state = "good"
        /\ Seen.state = "good" => p = marks
        /\ Seen.state # "good" =>
             /\ p.suspect = L!NotHeld
             /\ p.lost = "none" <=> Seen.state # "junk" /\ ~CarryGenerations(TRUE)
  <2>1. /\ Proven(TRUE) \in L!Ledgers /\ Proven(TRUE).state = "good"
        /\ Proven(TRUE).mark = marks.mark \/ Proven(TRUE).mark = -1
        /\ Seen.state = "good" => Proven(TRUE) = marks
        /\ Seen.state # "good" =>
             /\ Proven(TRUE).suspect = L!NotHeld
             /\ Proven(TRUE).lost = "none" <=> Seen.state # "junk" /\ ~CarryGenerations(TRUE)
    BY ProvenLedger, Zenon
  <2>2. Proven(TRUE).mark <= saves
    <3>1. Proven(TRUE).mark = marks.mark \/ Proven(TRUE).mark = -1
      BY <2>1, Zenon
    <3>2. CASE Proven(TRUE).mark = marks.mark
      BY <3>2
    <3>3. CASE Proven(TRUE).mark = -1
      <4>1. -1 <= saves
        OBVIOUS
      <4> QED
        BY <3>3, <4>1
    <3> QED
      BY <3>1, <3>2, <3>3
  <2> QED
    BY <2>1, <2>2
<1>3. /\ L!RecordWrite(p, saves + 1) \in L!Ledgers
      /\ L!RecordWrite(p, saves + 1).state = p.state
      /\ L!RecordWrite(p, saves + 1).mark = saves + 1
      /\ L!RecordWrite(p, saves + 1).lost = p.lost
      /\ L!RecordWrite(p, saves + 1).suspect = p.suspect
  BY <1>2, NumberRecorded
<1>4. /\ marks' = L!RecordWrite(p, saves + 1)
      /\ ledgerKey' = session /\ settled' = (settled /\ Seen.state = "good")
  BY <1>1, <1>2 DEF SaveAs, StoreLedger
<1>5. /\ blob' = [state |-> "sealed", gen |-> saves + 1, key |-> session, val |-> val]
      /\ older' = IF blob.state = "sealed" THEN older \cup {blob} ELSE older
      /\ saves' = saves + 1
  BY <1>1 DEF SaveAs
<1> QED
  BY <1>2, <1>3, <1>4, <1>5

\* What the numbers of the invariant say, spelled out.
LEMMA Counters ==
    ASSUME SettingsIInv
    PROVE  /\ marks \in L!Ledgers /\ saves \in Nat /\ faults \in 0 .. MaxFaults
           /\ marks.mark <= saves /\ marks.mark \in Int
           /\ MaxSaves \in Nat /\ MaxFaults \in Nat
           /\ blob \in Blobs /\ older \subseteq Blobs
           /\ blob.gen \in 0 .. Bound /\ blob.gen <= saves /\ blob.val \in Values
           /\ \A b \in Kept : b.gen <= saves /\ b.gen \in Int
           /\ Saving => saves + 1 <= Bound
           /\ blob.state = "absent" => saves + 1 <= Bound
<1>1. /\ marks \in L!Ledgers /\ saves \in Nat /\ faults \in 0 .. MaxFaults
      /\ blob \in Blobs /\ older \subseteq Blobs /\ marks.mark <= saves
      /\ \A b \in Kept : b.gen <= saves
  BY DEF SettingsIInv, SettingsTypes, SettingsTypeOK, NumbersAreSaves
<1>2. marks.mark \in Int /\ MaxSaves \in Nat /\ MaxFaults \in Nat
  BY <1>1, LedgerShapes, SettingsAssumption DEF Bound
<1>3. \A b \in Blobs : b.gen \in 0 .. Bound /\ b.gen \in Int /\ b.val \in Values
  BY <1>2 DEF Blobs, Bound
<1>4. Kept \subseteq Blobs /\ blob \in Kept
  BY <1>1 DEF Kept
<1>5. Saving => saves + 1 <= Bound
  BY <1>1, <1>2 DEF SettingsIInv, SavesAreCounted, MostSaves, Bound
<1>6. blob.state = "absent" => saves + 1 <= Bound
  BY <1>1, <1>2 DEF SettingsIInv, SavesAreCounted, MostSaves, Bound
<1> QED
  BY <1>1, <1>2, <1>3, <1>4, <1>5, <1>6

\* Where the user's strict choice stands and the vault's key is in, a ledger that says
\* nothing is lost or held, or that was never written, cannot come with no copy or with
\* a relaxed one that it takes for current.
LEMMA StrictIsNotForgotten ==
    ASSUME SettingsIInv, choice = "strict", fate # "genuine", session = "right"
    PROVE  /\ blob.state = "absent" => SeenBefore
           /\ Seen.state = "absent" => CarryGenerations(FALSE)
           /\ Seen.state = "good" /\ marks.lost = "none" /\ marks.suspect = L!NotHeld =>
                 marks.mark # -1 /\ \A b \in Kept : Relaxed(b) => b.gen < marks.mark
<1>1. marks \in L!Ledgers
  BY Counters
<1>2. marks.state # "absent" \/ otherGen \/ (blob.state = "sealed" /\ blob.key = "right")
  BY DEF SettingsIInv, StrictIsTold
<1>3. Trusting => /\ marks.mark # -1
                  /\ \A b \in Kept : Relaxed(b) => b.gen < marks.mark
  BY DEF SettingsIInv, StrictIsTold, L!Unmarked
<1>4. /\ Seen.state = "good" => Seen = marks
      /\ Seen.state = "good" <=> marks.state = "good" /\ ledgerKey = session
      /\ Seen.state = "absent" <=> marks.state = "absent"
      /\ Seen.state \in {"good", "absent", "junk"}
  <2>1. Seen \in L!Ledgers
    BY <1>1, SeenLedger
  <2> QED
    BY <1>1, <2>1, SeenLedger, LedgerShapes
<1>5. Seen.state = "good" /\ marks.lost = "none" /\ marks.suspect = L!NotHeld => Trusting
  BY <1>4 DEF Trusting
<1>6. Seen.state = "absent" => CarryGenerations(FALSE)
  BY <1>2, <1>4 DEF CarryGenerations, Readable
<1>7. ASSUME blob.state = "absent" PROVE SeenBefore
  <2>1. CASE Seen.state = "junk"
    BY <2>1 DEF SeenBefore
  <2>2. CASE Seen.state = "absent"
    <3>1. otherGen
      BY <1>2, <1>4, <1>7, <2>2
    <3> QED
      BY <2>2, <3>1 DEF SeenBefore, CarryGenerations
  <2>3. CASE Seen.state = "good"
    <3>1. marks.mark = -1 => marks.suspect = L!NotHeld
      BY DEF SettingsIInv, NumbersAreSaves, L!Unmarked
    <3>2. Seen = marks
      BY <1>4, <2>3
    <3>3. marks.mark # -1 \/ marks.lost # "none"
      BY <1>3, <1>5, <2>3, <3>1
    <3> QED
      BY <2>3, <3>2, <3>3 DEF SeenBefore, L!Unmarked
  <2> QED
    BY <1>4, <2>1, <2>2, <2>3
<1> QED
  BY <1>3, <1>5, <1>6, <1>7

-----------------------------------------------------------------------------
(* The steps.                                                              *)

LEMMA StartOfSettings == SettingsInit => SettingsIInv
<1> SUFFICES ASSUME SettingsInit PROVE SettingsIInv
  OBVIOUS
<1>1. /\ blob = NoBlob /\ older = {} /\ settled = FALSE /\ otherGen = FALSE
      /\ ledgerKey = "right" /\ session = "none" /\ checked = FALSE /\ doing = "nothing"
      /\ runs = "unread" /\ saves = 0 /\ faults = 0 /\ fate = legacy
      /\ legacy \in {"none", "genuine"}
      /\ choice = IF legacy = "genuine" THEN "strict" ELSE "relaxed"
  BY DEF SettingsInit
<1>2. /\ marks \in L!Ledgers /\ marks.mark = -1 /\ marks.lost = "none"
      /\ marks.suspect = L!NotHeld
  <2>1. marks \in {L!EmptyLedger, L!AbsentLedger, L!JunkLedger}
    BY DEF SettingsInit
  <2> QED
    BY <2>1, EmptyLedgers
<1>3. /\ NoBlob \in Blobs /\ NoBlob.state = "absent" /\ NoBlob.gen = 0
  BY SettingsAssumption DEF NoBlob, Blobs, Values, Default, Locks
<1>4. SettingsTypes
  <2>1. SettingsTypeOK
    BY <1>1, <1>2, <1>3 DEF SettingsTypeOK, Locks
  <2>2. faults \in 0 .. MaxFaults /\ saves \in Nat
    BY <1>1, SettingsAssumption
  <2> QED
    BY <1>1, <2>1, <2>2 DEF SettingsTypes
<1>5. SavesAreCounted
  BY <1>1, <1>3, SettingsAssumption DEF SavesAreCounted, MostSaves, Saving
<1>6. NumbersAreSaves
  BY <1>1, <1>2, <1>3 DEF NumbersAreSaves, Kept, L!NotHeld
<1>7. GenuineWaits /\ LockedIsUnread /\ SavesFollowReads /\ ReadIsNoted
  BY <1>1 DEF GenuineWaits, LockedIsUnread, SavesFollowReads, ReadIsNoted, Saving
<1>8. StrictIsTold /\ FaultsNeverRelax
  BY <1>1 DEF StrictIsTold, FaultsNeverRelax
<1> QED
  BY <1>4, <1>5, <1>6, <1>7, <1>8 DEF SettingsIInv

\* Asking, unlocking and closing move no store.

LEMMA SettingsAskKeeps ==
    ASSUME SettingsIInv, NEW what \in {"read", "save"}, Ask(what)
    PROVE  SettingsIInv'
<1>1. UNCHANGED <<blob, older, marks, ledgerKey, settled, otherGen, legacy, choice, fate, saves, faults>>
  BY DEF Ask
<1>2. SettingsTypes'
  BY <1>1 DEF SettingsIInv, SettingsTypes, SettingsTypeOK, Ask
<1>3. SavesAreCounted'
  <2>1. MostSaves' = MostSaves /\ saves' = saves
    BY <1>1 DEF MostSaves
  <2>2. saves < MaxSaves => saves < MostSaves
    BY Counters DEF MostSaves
  <2>3. Saving' => Saving \/ saves < MaxSaves
    BY DEF Saving, Ask
  <2> QED
    BY <2>1, <2>2, <2>3 DEF SettingsIInv, SavesAreCounted
<1>4. NumbersAreSaves'
  BY <1>1 DEF SettingsIInv, NumbersAreSaves, Kept
<1>5. GenuineWaits'
  BY <1>1 DEF SettingsIInv, GenuineWaits, LockedIsUnread, Migrating, Ask
<1>6. LockedIsUnread' /\ SavesFollowReads'
  BY <1>1 DEF SettingsIInv, LockedIsUnread, SavesFollowReads, Saving, Ask
<1>7. ReadIsNoted'
  BY <1>1 DEF SettingsIInv, ReadIsNoted, LockedIsUnread, Saving, Readable, Ask
<1>8. StrictIsTold'
  BY <1>1 DEF SettingsIInv, StrictIsTold, Trusting, Relaxed, Kept
<1>9. FaultsNeverRelax'
  BY <1>1 DEF SettingsIInv, FaultsNeverRelax, LockedIsUnread, Ask
<1> QED
  BY <1>2, <1>3, <1>4, <1>5, <1>6, <1>7, <1>8, <1>9 DEF SettingsIInv

LEMMA SettingsUnlockKeeps ==
    ASSUME SettingsIInv, NEW key \in {"right", "wrong"}, UnlockAs(key)
    PROVE  SettingsIInv'
<1>1. UNCHANGED <<blob, older, marks, ledgerKey, settled, otherGen, legacy, choice, fate, saves, faults>>
  BY DEF UnlockAs
<1>2. SettingsTypes'
  BY <1>1 DEF SettingsIInv, SettingsTypes, SettingsTypeOK, UnlockAs
<1>3. SavesAreCounted'
  <2>1. MostSaves' = MostSaves /\ saves' = saves
    BY <1>1 DEF MostSaves
  <2>2. ~Saving'
    BY DEF Saving, UnlockAs
  <2> QED
    BY <2>1, <2>2 DEF SettingsIInv, SavesAreCounted
<1>4. NumbersAreSaves'
  BY <1>1 DEF SettingsIInv, NumbersAreSaves, Kept
<1>5. GenuineWaits'
  <2> SUFFICES ASSUME fate' = "genuine" PROVE GenuineWaits'
    BY DEF GenuineWaits
  <2>1. /\ legacy = "genuine" /\ blob = NoBlob /\ older = {} /\ ~otherGen /\ ~settled /\ ~checked
        /\ runs = "unread"
    BY <1>1, Zenon DEF SettingsIInv, GenuineWaits
  <2>2. /\ legacy' = "genuine" /\ blob' = NoBlob /\ older' = {} /\ ~otherGen' /\ ~settled'
    BY <1>1, <2>1, Zenon
  <2>3. ~checked' /\ runs' = "unread"
    BY <2>1, Zenon DEF UnlockAs
  <2>4. (session' = "none" /\ doing' = "nothing") \/ (session' = "right" /\ Migrating')
    BY <1>1, <2>1 DEF Migrating, UnlockAs
  <2> QED
    BY <2>2, <2>3, <2>4, Zenon DEF GenuineWaits, NoBlob, Default
<1>6. LockedIsUnread' /\ SavesFollowReads'
  BY <1>1 DEF SettingsIInv, LockedIsUnread, SavesFollowReads, Saving, UnlockAs
<1>7. ReadIsNoted'
  BY <1>1 DEF SettingsIInv, ReadIsNoted, LockedIsUnread, Saving, Readable, UnlockAs
<1>8. StrictIsTold'
  BY <1>1 DEF SettingsIInv, StrictIsTold, Trusting, Relaxed, Kept
<1>9. FaultsNeverRelax'
  BY <1>1 DEF SettingsIInv, FaultsNeverRelax, LockedIsUnread, UnlockAs
<1> QED
  BY <1>2, <1>3, <1>4, <1>5, <1>6, <1>7, <1>8, <1>9 DEF SettingsIInv

LEMMA SettingsCloseKeeps ==
    ASSUME SettingsIInv, ClosePanel
    PROVE  SettingsIInv'
<1>1. UNCHANGED <<blob, older, marks, ledgerKey, settled, otherGen, legacy, choice, fate, saves, faults>>
  BY DEF ClosePanel
<1>2. SettingsTypes'
  BY <1>1 DEF SettingsIInv, SettingsTypes, SettingsTypeOK, ClosePanel
<1>3. SavesAreCounted'
  <2>1. MostSaves' = MostSaves /\ saves' = saves
    BY <1>1 DEF MostSaves
  <2>2. ~Saving'
    BY DEF Saving, ClosePanel
  <2> QED
    BY <2>1, <2>2 DEF SettingsIInv, SavesAreCounted
<1>4. NumbersAreSaves'
  BY <1>1 DEF SettingsIInv, NumbersAreSaves, Kept
<1>5. GenuineWaits'
  <2> SUFFICES ASSUME fate' = "genuine" PROVE GenuineWaits'
    BY DEF GenuineWaits
  <2>1. /\ legacy = "genuine" /\ blob = NoBlob /\ older = {} /\ ~otherGen /\ ~settled /\ ~checked
        /\ runs = "unread"
    BY <1>1, Zenon DEF SettingsIInv, GenuineWaits
  <2>2. /\ legacy' = "genuine" /\ blob' = NoBlob /\ older' = {} /\ ~otherGen' /\ ~settled'
    BY <1>1, <2>1, Zenon
  <2>3. ~checked' /\ runs' = "unread"
    BY <2>1, Zenon DEF ClosePanel
  <2>4. (session' = "none" /\ doing' = "nothing") \/ (session' = "right" /\ Migrating')
    BY <1>1, <2>1 DEF Migrating, ClosePanel
  <2> QED
    BY <2>2, <2>3, <2>4, Zenon DEF GenuineWaits, NoBlob, Default
<1>6. LockedIsUnread' /\ SavesFollowReads'
  BY <1>1 DEF SettingsIInv, LockedIsUnread, SavesFollowReads, Saving, ClosePanel
<1>7. ReadIsNoted'
  BY <1>1 DEF SettingsIInv, ReadIsNoted, LockedIsUnread, Saving, Readable, ClosePanel
<1>8. StrictIsTold'
  BY <1>1 DEF SettingsIInv, StrictIsTold, Trusting, Relaxed, Kept
<1>9. FaultsNeverRelax'
  BY <1>1 DEF SettingsIInv, FaultsNeverRelax, LockedIsUnread, ClosePanel
<1> QED
  BY <1>2, <1>3, <1>4, <1>5, <1>6, <1>7, <1>8, <1>9 DEF SettingsIInv

\* After the plaintext is dropped nothing but the marker has changed.
LEMMA SettingsSettleKeeps ==
    ASSUME SettingsIInv, Settle
    PROVE  SettingsIInv'
<1>1. /\ UNCHANGED <<blob, older, marks, ledgerKey, otherGen, session, runs, choice, saves, faults>>
      /\ doing \in {"settle, then read", "settle, then save"}
      /\ doing' = IF doing = "settle, then read" THEN "read" ELSE "save"
  BY DEF Settle
<1>2. fate # "genuine" /\ fate' = fate
  BY DEF Settle, SettingsIInv, GenuineWaits, LockedIsUnread, Migrating
<1>3. settled' = settled \/ (settled' = TRUE /\ Seen.state = "good")
  BY DEF Settle
<1>4. marks.state = "good" \/ Seen.state # "good"
  BY Counters, SeenLedger
<1>5. SettingsTypes'
  <2>1. settled \in BOOLEAN /\ fate \in {"none", "genuine", "migrated"}
    BY DEF SettingsIInv, SettingsTypes
  <2>2. settled' \in BOOLEAN
    BY <1>3, <2>1
  <2>3. checked' \in BOOLEAN
    BY DEF Settle
  <2>4. SettingsTypeOK'
    BY <1>1 DEF SettingsIInv, SettingsTypes, SettingsTypeOK, Settle
  <2>5. otherGen' \in BOOLEAN /\ ledgerKey' \in {"right", "wrong"}
    BY <1>1 DEF SettingsIInv, SettingsTypes
  <2>6. faults' \in 0 .. MaxFaults /\ saves' \in Nat
    BY <1>1, Counters
  <2> QED
    BY <1>2, <2>1, <2>2, <2>3, <2>4, <2>5, <2>6 DEF SettingsTypes
<1>6. SavesAreCounted'
  <2>1. MostSaves' = MostSaves /\ saves' = saves
    BY <1>1 DEF MostSaves
  <2>2. Saving' => Saving
    BY <1>1 DEF Saving
  <2> QED
    BY <2>1, <2>2 DEF SettingsIInv, SavesAreCounted
<1>7. NumbersAreSaves'
  <2>1. settled' => marks'.state = "good"
    BY <1>1, <1>3, <1>4 DEF SettingsIInv, NumbersAreSaves
  <2> QED
    BY <1>1, <2>1 DEF SettingsIInv, NumbersAreSaves, Kept
<1>8. GenuineWaits'
  BY <1>2 DEF GenuineWaits
<1>9. LockedIsUnread' /\ SavesFollowReads'
  BY <1>1 DEF SettingsIInv, LockedIsUnread, SavesFollowReads, Saving
<1>10. ReadIsNoted'
  BY <1>1 DEF SettingsIInv, ReadIsNoted, Saving, Readable
<1>11. StrictIsTold'
  BY <1>1, <1>2 DEF SettingsIInv, StrictIsTold, Trusting, Relaxed, Kept
<1>12. FaultsNeverRelax'
  BY <1>1 DEF SettingsIInv, FaultsNeverRelax
<1> QED
  BY <1>5, <1>6, <1>7, <1>8, <1>9, <1>10, <1>11, <1>12 DEF SettingsIInv

\* The settings of a device that has none, and the strictest preset.
LEMMA Presets ==
    /\ Default \in Values /\ Default.lock = "relaxed" /\ Default.from = "user"
    /\ Strictest \in Values /\ Strictest.lock = "strict" /\ Strictest.from = "user"
  BY DEF Values, Default, Strictest, Locks

\* What a save keeps, whatever is saved: the numbers, and a ledger ahead of every
\* earlier copy.
LEMMA SealedSaveKeeps ==
    ASSUME SettingsIInv, NEW val \in Values, SaveAs(val), saves + 1 <= Bound,
           session \in {"right", "wrong"}
    PROVE  /\ blob' \in Blobs /\ older' \subseteq Blobs /\ marks' \in L!Ledgers
           /\ settled' \in BOOLEAN /\ ledgerKey' \in {"right", "wrong"} /\ saves' \in Nat
           /\ NumbersAreSaves'
           /\ marks'.mark = saves + 1 /\ marks'.mark # L!Unmarked
           /\ Kept' \subseteq Kept \cup {blob'}
           /\ \A b \in Kept : b.gen < marks'.mark
<1>1. /\ blob' = [state |-> "sealed", gen |-> saves + 1, key |-> session, val |-> val]
      /\ older' = IF blob.state = "sealed" THEN older \cup {blob} ELSE older
      /\ saves' = saves + 1
      /\ ledgerKey' = session /\ settled' = (settled /\ Seen.state = "good")
      /\ marks' \in L!Ledgers /\ marks'.state = "good" /\ marks'.mark = saves + 1
      /\ marks'.suspect = marks.suspect \/ marks'.suspect = L!NotHeld
  BY Counters, SaveFacts
<1>2. blob' \in Blobs
  <2>1. saves + 1 \in 0 .. MaxSaves + MaxFaults + 1
    BY Counters DEF Bound
  <2> QED
    BY <1>1, <2>1 DEF Blobs
<1>3. older' \subseteq Blobs
  BY <1>1, Counters
<1>4. Kept' \subseteq Kept \cup {blob'}
  BY <1>1 DEF Kept
<1>5. \A b \in Kept : b.gen < marks'.mark /\ b.gen <= saves'
  BY <1>1, Counters
<1>6. NumbersAreSaves'
  <2>1. \A b \in Kept' : b.gen <= saves'
    <3>1. blob'.gen <= saves'
      BY <1>1, Counters
    <3> QED
      BY <1>4, <1>5, <3>1
  <2>2. \A b \in older' : b.state = "sealed"
    BY <1>1 DEF SettingsIInv, NumbersAreSaves
  <2>3. marks'.mark <= saves'
    BY <1>1, Counters
  <2>4. marks'.suspect.gen <= saves' /\ marks'.suspect.mark <= saves'
    <3>1. marks.suspect.gen <= saves /\ marks.suspect.mark <= saves
      BY DEF SettingsIInv, NumbersAreSaves
    <3>2. L!NotHeld.gen = 0 /\ L!NotHeld.mark = 0
      BY DEF L!NotHeld
    <3>3. marks.suspect.gen \in Int /\ marks.suspect.mark \in Int
      <4>1. marks.suspect \in L!Held \cup {L!NotHeld}
        BY Counters, LedgerShapes
      <4> QED
        BY <4>1, Counters DEF L!Held, L!NotHeld, L!Generation
    <3> QED
      BY <1>1, <3>1, <3>2, <3>3, Counters
  <2>5. marks'.mark # L!Unmarked
    BY <1>1, Counters DEF L!Unmarked
  <2> QED
    BY <1>1, <2>1, <2>2, <2>3, <2>4, <2>5 DEF NumbersAreSaves
<1>7. settled' \in BOOLEAN /\ saves' \in Nat /\ marks'.mark # L!Unmarked
  BY <1>1, Counters DEF L!Unmarked
<1> QED
  BY <1>1, <1>2, <1>3, <1>4, <1>5, <1>6, <1>7

\* The strictest settings are what a migration saves, once, where there are none.
LEMMA SettingsMigrateKeeps ==
    ASSUME SettingsIInv, Migrate
    PROVE  SettingsIInv'
<1>1. /\ UNCHANGED <<otherGen, legacy, session, checked, runs, choice, faults>> /\ Migrating
      /\ doing' = IF doing = "migrate, then read" THEN "settle, then read"
                  ELSE "settle, then save"
  BY DEF Migrate
<1>2. session \in {"right", "wrong"}
  BY <1>1 DEF SettingsIInv, SettingsTypes, SettingsTypeOK, LockedIsUnread, Migrating
<1>3. LockedIsUnread' /\ SavesFollowReads'
  BY <1>1 DEF SettingsIInv, LockedIsUnread, SavesFollowReads, Saving, Migrating
<1>4. Saving' <=> Saving
  BY <1>1 DEF Saving, Migrating
<1>5. FaultsNeverRelax'
  BY <1>1 DEF SettingsIInv, FaultsNeverRelax
<1>6. doing' \in {"settle, then read", "settle, then save"}
  BY <1>1
<1>7. CASE legacy # "none" /\ Eligible
  <2> DEFINE val == [Strictest EXCEPT !.from = IF legacy = "genuine" THEN "legacy" ELSE "planted"]
  <2>1. /\ SaveAs(val)
        /\ fate' = IF legacy = "genuine" THEN "migrated" ELSE fate
    BY <1>7 DEF Migrate
  <2>2. val \in Values /\ val.lock = "strict"
    <3>1. PICK f \in {"legacy", "planted"} : val = [Strictest EXCEPT !.from = f]
      OBVIOUS
    <3>2. \A st \in Values : [st EXCEPT !.from = f] \in Values
                             /\ [st EXCEPT !.from = f].lock = st.lock
      BY DEF Values
    <3> QED
      BY <3>1, <3>2, Presets
  <2> HIDE DEF val
  <2>3. blob.state = "absent" /\ saves + 1 <= Bound
    BY <1>7, Counters DEF Eligible
  <2>4. fate' # "genuine" /\ fate' \in {"none", "genuine", "migrated"}
    BY <2>1 DEF SettingsIInv, SettingsTypes, GenuineWaits
  <2>5. /\ blob' \in Blobs /\ older' \subseteq Blobs /\ marks' \in L!Ledgers
        /\ settled' \in BOOLEAN /\ ledgerKey' \in {"right", "wrong"} /\ saves' \in Nat
        /\ NumbersAreSaves'
        /\ marks'.mark # L!Unmarked
        /\ Kept' \subseteq Kept \cup {blob'}
        /\ \A b \in Kept : b.gen < marks'.mark
    BY <1>2, <2>1, <2>2, <2>3, SealedSaveKeeps
  <2>6. /\ blob' = [state |-> "sealed", gen |-> saves + 1, key |-> session, val |-> val]
        /\ saves' = saves + 1 /\ ledgerKey' = session
        /\ marks'.state = "good" /\ marks'.mark = saves + 1
    BY <2>1, <2>3, Counters, SaveFacts
  <2>7. SettingsTypes'
    <3>1. SettingsTypeOK'
      BY <1>1, <1>6, <2>5 DEF SettingsIInv, SettingsTypes, SettingsTypeOK
    <3>2. otherGen' \in BOOLEAN /\ checked' \in BOOLEAN
      BY <1>1 DEF SettingsIInv, SettingsTypes
    <3>3. faults' \in 0 .. MaxFaults
      BY <1>1, Counters
    <3> QED
      BY <2>4, <2>5, <3>1, <3>2, <3>3 DEF SettingsTypes
  <2>8. SavesAreCounted'
    <3>1. MostSaves' = MostSaves + 1
      <4>1. blob'.state = "sealed" /\ faults' = faults
        BY <1>1, <2>6
      <4>2. MostSaves' = MaxSaves + faults + 1
        BY <4>1 DEF MostSaves
      <4>3. MostSaves = MaxSaves + faults + 0
        BY <2>3 DEF MostSaves
      <4> QED
        BY <4>2, <4>3, Counters
    <3>2. MostSaves \in Int
      BY Counters DEF MostSaves
    <3> QED
      BY <1>4, <2>6, <3>1, <3>2, Counters DEF SettingsIInv, SavesAreCounted
  <2>9. GenuineWaits'
    BY <2>4 DEF GenuineWaits
  <2>10. ReadIsNoted'
    <3>1. blob'.gen >= marks'.mark
      <4>1. blob'.gen = saves + 1 /\ marks'.mark = saves + 1
        BY <2>6
      <4> QED
        BY <4>1, Counters
    <3>2. marks'.state = "good" /\ ledgerKey' = session'
      BY <1>1, <2>6
    <3> QED
      BY <3>1, <3>2 DEF ReadIsNoted
  <2>11. StrictIsTold'
    <3>1. ~Relaxed(blob')
      BY <2>2, <2>6 DEF Relaxed
    <3>2. \A b \in Kept' : Relaxed(b) => b.gen < marks'.mark
      BY <2>5, <3>1
    <3> QED
      BY <2>5, <2>6, <3>2 DEF StrictIsTold, Relaxed
  <2> QED
    BY <1>3, <1>5, <2>5, <2>7, <2>8, <2>9, <2>10, <2>11 DEF SettingsIInv
<1>8. CASE ~(legacy # "none" /\ Eligible)
  <2>1. UNCHANGED <<blob, older, marks, ledgerKey, settled, saves, fate>>
    BY <1>8 DEF Migrate
  <2>2. fate # "genuine"
    <3> SUFFICES ASSUME fate = "genuine" PROVE FALSE
      OBVIOUS
    <3>1. legacy = "genuine" /\ ~settled /\ ~otherGen /\ blob = NoBlob
      BY Zenon DEF SettingsIInv, GenuineWaits
    <3>2. blob.state = "absent"
      BY <3>1 DEF NoBlob
    <3> QED
      BY <1>8, <3>1, <3>2 DEF Eligible, IsSettled
  <2>3. SettingsTypes'
    BY <1>1, <1>6, <2>1 DEF SettingsIInv, SettingsTypes, SettingsTypeOK
  <2>4. SavesAreCounted'
    <3>1. MostSaves' = MostSaves /\ saves' = saves
      BY <1>1, <2>1 DEF MostSaves
    <3> QED
      BY <1>4, <3>1 DEF SettingsIInv, SavesAreCounted
  <2>5. NumbersAreSaves'
    BY <2>1 DEF SettingsIInv, NumbersAreSaves, Kept
  <2>6. GenuineWaits'
    BY <2>1, <2>2 DEF GenuineWaits
  <2>7. ReadIsNoted'
    BY <1>1, <1>4, <1>6, <2>1 DEF SettingsIInv, ReadIsNoted, Readable
  <2>8. StrictIsTold'
    BY <1>1, <2>1, <2>2 DEF SettingsIInv, StrictIsTold, Trusting, Relaxed, Kept
  <2> QED
    BY <1>3, <1>5, <2>3, <2>4, <2>5, <2>6, <2>7, <2>8 DEF SettingsIInv
<1> QED
  BY <1>7, <1>8

\* What reading a copy that opens leaves of the ledger: it holds nothing against the
\* copy only where it held nothing before, lost nothing, and is not ahead of it.
LEMMA ObservedFacts ==
    ASSUME SettingsIInv, Readable
    PROVE  /\ Observed \in L!Ledgers /\ Observed.state = "good"
           /\ Observed.mark <= saves /\ Observed.mark # -1
           /\ Observed.suspect.gen <= saves /\ Observed.suspect.mark <= saves
           /\ blob.gen >= Observed.mark \/ Observed.suspect # L!NotHeld
           /\ Observed.lost = "none" /\ Observed.suspect = L!NotHeld =>
                /\ Seen.state = "good" /\ marks.lost = "none" /\ marks.suspect = L!NotHeld
                /\ ~(marks.mark # -1 /\ blob.gen < marks.mark)
                /\ Observed.mark = blob.gen
<1>1. PICK p \in L!Ledgers :
        /\ p = Proven(FALSE) /\ p.state = "good"
        /\ p.mark = marks.mark \/ p.mark = -1
        /\ Seen.state = "good" => p = marks
        /\ Seen.state # "good" => p.suspect = L!NotHeld /\ p.lost # "none"
  <2>1. /\ Proven(FALSE) \in L!Ledgers /\ Proven(FALSE).state = "good"
        /\ Proven(FALSE).mark = marks.mark \/ Proven(FALSE).mark = -1
        /\ Seen.state = "good" => Proven(FALSE) = marks
        /\ Seen.state # "good" =>
             /\ Proven(FALSE).suspect = L!NotHeld
             /\ Proven(FALSE).lost = "none" <=> Seen.state # "junk" /\ ~CarryGenerations(FALSE)
    BY Counters, ProvenLedger, Zenon
  <2>2. CarryGenerations(FALSE)
    BY DEF CarryGenerations
  <2> QED
    BY <2>1, <2>2, Zenon
<1>2. blob.gen \in 0 .. Bound /\ blob.gen <= saves
  BY Counters
<1>3. Observed = L!ObserveGeneration(p, blob.gen, TRUE)
  BY <1>1 DEF Observed
<1>4. /\ Observed \in L!Ledgers /\ Observed.state = "good" /\ Observed.lost = p.lost
      /\ IF p.mark # -1 /\ blob.gen < p.mark
         THEN /\ Observed.mark = p.mark /\ Observed.suspect # L!NotHeld
              /\ Observed.suspect.gen = blob.gen /\ Observed.suspect.mark = p.mark
         ELSE Observed.mark = blob.gen /\ Observed.suspect = p.suspect
  BY <1>1, <1>2, <1>3, CopyObserved
<1>5. p.mark <= saves /\ p.mark \in Int
  <2>1. CASE p.mark = marks.mark
    BY <2>1, Counters
  <2>2. CASE p.mark = -1
    <3>1. -1 <= saves
      BY Counters
    <3> QED
      BY <2>2, <3>1
  <2> QED
    BY <1>1, <2>1, <2>2
<1>6. p.suspect.gen <= saves /\ p.suspect.mark <= saves
  <2>1. marks.suspect.gen <= saves /\ marks.suspect.mark <= saves
    BY DEF SettingsIInv, NumbersAreSaves
  <2>2. L!NotHeld.gen <= saves /\ L!NotHeld.mark <= saves
    BY Counters DEF L!NotHeld
  <2> QED
    BY <1>1, <2>1, <2>2
<1>7. CASE p.mark # -1 /\ blob.gen < p.mark
  BY <1>2, <1>4, <1>5, <1>7
<1>8. CASE ~(p.mark # -1 /\ blob.gen < p.mark)
  <2>1. /\ Observed.mark = blob.gen /\ Observed.suspect = p.suspect
    BY <1>4, <1>8
  <2>2. Observed.mark <= saves /\ Observed.mark # -1 /\ blob.gen >= Observed.mark
    BY <1>2, <2>1
  <2>3. Observed.lost = "none" /\ Observed.suspect = L!NotHeld =>
          /\ Seen.state = "good" /\ marks.lost = "none" /\ marks.suspect = L!NotHeld
          /\ ~(marks.mark # -1 /\ blob.gen < marks.mark)
    BY <1>1, <1>4, <1>8, <2>1
  <2> QED
    BY <1>4, <1>6, <2>1, <2>2, <2>3
<1> QED
  BY <1>7, <1>8

\* A read under the vault's key shows the strict lock the user chose.
LEMMA ReadShowsStrict ==
    ASSUME SettingsIInv, choice = "strict", fate # "genuine", session = "right"
    PROVE  Overlay.lock # "relaxed"
<1>1. CASE Readable /\ HeldOrLost
  <2>1. Overlay = [blob.val EXCEPT !.lock = "strict"]
    BY <1>1 DEF Overlay, Stored
  <2>2. \A v \in Values : [v EXCEPT !.lock = "strict"].lock = "strict"
    BY DEF Values
  <2> QED
    BY <2>1, <2>2, Counters
<1>2. CASE Readable /\ ~HeldOrLost
  <2>1. Overlay = blob.val
    BY <1>2 DEF Overlay, Stored
  <2>2. /\ Seen.state = "good" /\ marks.lost = "none" /\ marks.suspect = L!NotHeld
        /\ ~(marks.mark # -1 /\ blob.gen < marks.mark)
    BY <1>2, ObservedFacts DEF HeldOrLost
  <2>3. ~Relaxed(blob)
    BY <2>2, StrictIsNotForgotten DEF Kept
  <2> QED
    BY <1>2, <2>1, <2>3 DEF Relaxed, Readable
<1>3. CASE ~Readable
  <2>1. blob.state = "absent" => SeenBefore
    BY StrictIsNotForgotten
  <2>2. Overlay = Strictest
    BY <1>3, <2>1 DEF Overlay, Stored
  <2> QED
    BY <2>2, Presets
<1> QED
  BY <1>1, <1>2, <1>3

LEMMA SettingsReadKeeps ==
    ASSUME SettingsIInv, Read
    PROVE  SettingsIInv'
<1>1. /\ UNCHANGED <<blob, older, otherGen, legacy, session, checked, choice, fate, saves, faults>>
      /\ doing = "read" /\ doing' = "nothing" /\ runs' = Overlay.lock
  BY DEF Read
<1>2. fate # "genuine" /\ session \in {"right", "wrong"}
  BY <1>1 DEF SettingsIInv, SettingsTypes, SettingsTypeOK, GenuineWaits, LockedIsUnread, Migrating
<1>3. SavesAreCounted'
  <2>1. MostSaves' = MostSaves /\ saves' = saves /\ ~Saving'
    BY <1>1 DEF MostSaves, Saving
  <2> QED
    BY <2>1 DEF SettingsIInv, SavesAreCounted
<1>4. GenuineWaits' /\ LockedIsUnread' /\ SavesFollowReads'
  BY <1>1, <1>2 DEF GenuineWaits, LockedIsUnread, SavesFollowReads, Saving
<1>5. FaultsNeverRelax'
  BY <1>1, <1>2, ReadShowsStrict DEF FaultsNeverRelax
<1>6. Overlay.lock \in Locks
  <2>1. \A v \in Values : v.lock \in Locks /\ [v EXCEPT !.lock = "strict"].lock \in Locks
    BY DEF Values, Locks
  <2>2. Stored \in Values
    BY Presets, Counters DEF Stored
  <2> QED
    BY <2>1, <2>2 DEF Overlay
<1>7. \/ Readable /\ marks' = Observed /\ ledgerKey' = session
         /\ settled' = (settled /\ Seen.state = "good")
      \/ ~Readable /\ UNCHANGED <<marks, ledgerKey, settled>>
  BY DEF Read, NoteRead, StoreLedger
<1>8. /\ marks' \in L!Ledgers /\ ledgerKey' \in {"right", "wrong"} /\ settled' \in BOOLEAN
      /\ NumbersAreSaves'
  <2>1. CASE Readable /\ marks' = Observed /\ ledgerKey' = session
             /\ settled' = (settled /\ Seen.state = "good")
    <3>1. /\ marks' \in L!Ledgers /\ marks'.state = "good"
          /\ marks'.mark <= saves /\ marks'.mark # -1
          /\ marks'.suspect.gen <= saves /\ marks'.suspect.mark <= saves
      BY <2>1, ObservedFacts
    <3>2. NumbersAreSaves'
      BY <1>1, <3>1 DEF SettingsIInv, NumbersAreSaves, Kept, L!Unmarked
    <3> QED
      BY <1>2, <2>1, <3>1, <3>2
  <2>2. CASE UNCHANGED <<marks, ledgerKey, settled>>
    BY <1>1, <2>2 DEF SettingsIInv, SettingsTypes, SettingsTypeOK, NumbersAreSaves, Kept
  <2> QED
    BY <1>7, <2>1, <2>2
<1>9. SettingsTypes'
  <2>1. SettingsTypeOK'
    BY <1>1, <1>6, <1>8 DEF SettingsIInv, SettingsTypes, SettingsTypeOK
  <2> QED
    BY <1>1, <1>8, <2>1 DEF SettingsIInv, SettingsTypes
<1>10. ReadIsNoted'
  <2> SUFFICES ASSUME Readable PROVE ReadIsNoted'
    BY <1>1 DEF ReadIsNoted, Readable
  <2>1. marks' = Observed /\ ledgerKey' = session
    BY <1>7
  <2>2. marks'.state = "good" /\ (blob.gen >= marks'.mark \/ marks'.suspect # L!NotHeld)
    BY <2>1, ObservedFacts
  <2> QED
    BY <1>1, <2>1, <2>2 DEF ReadIsNoted
<1>11. StrictIsTold'
  <2> SUFFICES ASSUME choice = "strict" PROVE StrictIsTold'
    BY <1>1 DEF StrictIsTold
  <2>1. CASE ~Readable /\ UNCHANGED <<marks, ledgerKey, settled>>
    BY <1>1, <1>2, <2>1 DEF SettingsIInv, StrictIsTold, Trusting, Relaxed, Kept
  <2>2. CASE Readable /\ marks' = Observed /\ ledgerKey' = session
    <3>1. marks'.state = "good" /\ marks'.mark # L!Unmarked
      BY <2>2, ObservedFacts DEF L!Unmarked
    <3>2. ASSUME Trusting' PROVE \A b \in Kept' : Relaxed(b) => b.gen < marks'.mark
      <4>1. session = "right" /\ marks'.lost = "none" /\ marks'.suspect = L!NotHeld
        BY <2>2, <3>2 DEF Trusting
      <4>2. /\ Seen.state = "good" /\ marks.lost = "none" /\ marks.suspect = L!NotHeld
            /\ ~(marks.mark # -1 /\ blob.gen < marks.mark)
            /\ marks'.mark = blob.gen
        BY <2>2, <4>1, ObservedFacts
      <4>3. marks.mark # -1 /\ \A b \in Kept : Relaxed(b) => b.gen < marks.mark
        BY <1>2, <4>1, <4>2, StrictIsNotForgotten
      <4>4. marks.mark <= blob.gen
        BY <4>2, <4>3, Counters
      <4>5. \A b \in Kept : Relaxed(b) => b.gen < blob.gen
        BY <4>3, <4>4, Counters
      <4>6. Kept' = Kept
        BY <1>1 DEF Kept
      <4> QED
        BY <4>2, <4>5, <4>6
    <3> QED
      BY <3>1, <3>2 DEF StrictIsTold, Relaxed
  <2> QED
    BY <1>7, <2>1, <2>2
<1> QED
  BY <1>3, <1>4, <1>5, <1>8, <1>9, <1>10, <1>11 DEF SettingsIInv

\* One change to a value: of the output it keeps the lock and who set it, of the lock it
\* keeps the output and makes it the user's.
Changed(on, change) == IF change = "out" THEN [on EXCEPT !.out = 1 - @]
                       ELSE [on EXCEPT !.lock = change, !.from = "user"]
LEMMA OneChange ==
    ASSUME NEW on \in Values, NEW change \in {"strict", "relaxed", "out"}
    PROVE  /\ Changed(on, change) \in Values
           /\ change = "out" => /\ Changed(on, change).lock = on.lock
                                /\ Changed(on, change).from = on.from
           /\ change # "out" => /\ Changed(on, change).lock = change
                                /\ Changed(on, change).from = "user"
                                /\ Changed(on, change).out = on.out
<1>1. CASE change = "out"
  <2>1. 1 - on.out \in 0 .. 1
    BY DEF Values
  <2>2. Changed(on, change) = [on EXCEPT !.out = 1 - on.out]
    BY <1>1 DEF Changed
  <2> QED
    BY <1>1, <2>1, <2>2 DEF Values
<1>2. CASE change # "out"
  <2>1. Changed(on, change) = [on EXCEPT !.lock = change, !.from = "user"]
    BY <1>2 DEF Changed
  <2>2. change \in Locks
    BY <1>2 DEF Locks
  <2> QED
    BY <1>2, <2>1, <2>2 DEF Values
<1> QED
  BY <1>1, <1>2

\* A save is of one change onto what is stored, or it is refused.
LEMMA SaveIs ==
    ASSUME SettingsIInv, SaveChange
    PROVE  /\ UNCHANGED <<otherGen, legacy, session, checked, fate, faults>>
           /\ doing = "save" /\ doing' = "read" /\ Stored \in Values
           /\ fate # "genuine" /\ session \in {"right", "wrong"} /\ runs # "unread"
           /\ \/ MayReplace /\ \E change \in {"strict", "relaxed", "out"} :
                    /\ SaveAs(Changed(Stored, change))
                    /\ runs' = IF change # "out" THEN change ELSE runs
                    /\ choice' = IF change # "out" /\ session = "right" THEN change ELSE choice
              \/ UNCHANGED <<blob, older, marks, ledgerKey, settled, saves, choice, runs>>
<1>1. /\ UNCHANGED <<otherGen, legacy, session, checked, fate, faults>>
      /\ doing = "save" /\ doing' = "read"
  BY DEF SaveChange
<1>2. fate # "genuine" /\ session \in {"right", "wrong"} /\ runs # "unread"
  BY <1>1 DEF SettingsIInv, SettingsTypes, SettingsTypeOK, GenuineWaits, LockedIsUnread,
              SavesFollowReads, Saving, Migrating
<1>3. Stored \in Values
  BY Presets, Counters DEF Stored
<1>4. \/ MayReplace /\ \E change \in {"strict", "relaxed", "out"} :
            /\ SaveAs(Changed(Stored, change))
            /\ runs' = IF change # "out" THEN change ELSE runs
            /\ choice' = IF change # "out" /\ session = "right" THEN change ELSE choice
      \/ UNCHANGED <<blob, older, marks, ledgerKey, settled, saves, choice, runs>>
  BY DEF SaveChange, MergeOnto, Changed
<1> QED
  BY <1>1, <1>2, <1>3, <1>4

\* Saving something else does not make a relaxed copy current: one that opens is held or
\* is not stored where the user chose strict.
LEMMA RoutineSaveIsStrict ==
    ASSUME SettingsIInv, SaveAs(Changed(Stored, "out")), doing = "save", choice = "strict",
           fate # "genuine", session = "right", runs # "unread", Stored \in Values,
           marks'.lost = "none", marks'.suspect = L!NotHeld
    PROVE  Changed(Stored, "out").lock # "relaxed"
<1> SUFFICES ASSUME Stored.lock = "relaxed" PROVE FALSE
  BY OneChange
<1>1. Readable
  <2> SUFFICES ASSUME ~Readable PROVE FALSE
    OBVIOUS
  <2>1. blob.state = "absent" => SeenBefore
    BY StrictIsNotForgotten
  <2>2. Stored = Strictest
    BY <2>1 DEF Stored
  <2> QED
    BY <2>2, Presets
<1>2. Relaxed(blob)
  BY <1>1 DEF Relaxed, Stored, Readable
<1>3. /\ marks.state = "good" /\ ledgerKey = session
      /\ blob.gen >= marks.mark \/ marks.lost # "none" \/ marks.suspect # L!NotHeld
  BY <1>1 DEF SettingsIInv, ReadIsNoted, Saving
<1>4. Seen.state = "good"
  BY <1>3, Counters, SeenLedger
<1>5. marks.lost = "none" /\ marks.suspect = L!NotHeld
  <2>1. saves + 1 <= Bound
    BY Counters DEF Saving
  <2> QED
    BY <1>4, <2>1, Counters, SaveFacts
<1>6. blob.gen < marks.mark
  BY <1>2, <1>4, <1>5, StrictIsNotForgotten DEF Kept
<1> QED
  BY <1>3, <1>5, <1>6, Counters

LEMMA SettingsSaveChangeKeeps ==
    ASSUME SettingsIInv, SaveChange
    PROVE  SettingsIInv'
<1>1. /\ UNCHANGED <<otherGen, legacy, session, checked, fate, faults>>
      /\ doing = "save" /\ doing' = "read" /\ Stored \in Values
      /\ fate # "genuine" /\ session \in {"right", "wrong"} /\ runs # "unread"
  BY SaveIs
<1>2. GenuineWaits' /\ LockedIsUnread' /\ SavesFollowReads'
  BY <1>1 DEF GenuineWaits, LockedIsUnread, SavesFollowReads, Saving
<1>3. ReadIsNoted'
  BY <1>1 DEF ReadIsNoted, Saving
<1>4. Saving /\ ~Saving'
  BY <1>1 DEF Saving
<1>5. otherGen' \in BOOLEAN /\ checked' \in BOOLEAN /\ faults' \in 0 .. MaxFaults
      /\ fate' \in {"none", "genuine", "migrated"}
  BY <1>1 DEF SettingsIInv, SettingsTypes
<1>6. CASE MayReplace /\ \E change \in {"strict", "relaxed", "out"} :
              /\ SaveAs(Changed(Stored, change))
              /\ runs' = IF change # "out" THEN change ELSE runs
              /\ choice' = IF change # "out" /\ session = "right" THEN change ELSE choice
  <2>1. PICK change \in {"strict", "relaxed", "out"} :
          /\ SaveAs(Changed(Stored, change))
          /\ runs' = IF change # "out" THEN change ELSE runs
          /\ choice' = IF change # "out" /\ session = "right" THEN change ELSE choice
    BY <1>6
  <2>2. Changed(Stored, change) \in Values /\ saves + 1 <= Bound
    BY <1>1, <1>4, OneChange, Counters
  <2>3. /\ blob' \in Blobs /\ older' \subseteq Blobs /\ marks' \in L!Ledgers
        /\ settled' \in BOOLEAN /\ ledgerKey' \in {"right", "wrong"} /\ saves' \in Nat
        /\ NumbersAreSaves'
        /\ marks'.mark # L!Unmarked
        /\ Kept' \subseteq Kept \cup {blob'}
        /\ \A b \in Kept : b.gen < marks'.mark
    BY <1>1, <2>1, <2>2, SealedSaveKeeps
  <2>4. /\ blob' = [state |-> "sealed", gen |-> saves + 1, key |-> session,
                    val |-> Changed(Stored, change)]
        /\ saves' = saves + 1 /\ ledgerKey' = session
        /\ marks'.state = "good" /\ marks'.mark = saves + 1
    BY <2>1, <2>2, Counters, SaveFacts
  <2>5. SettingsTypes'
    <3>1. runs' \in Locks \cup {"unread"} /\ choice' \in Locks
      BY <2>1 DEF SettingsIInv, SettingsTypes, SettingsTypeOK, Locks
    <3>2. SettingsTypeOK'
      BY <1>1, <2>3, <3>1 DEF SettingsIInv, SettingsTypes, SettingsTypeOK, Locks
    <3> QED
      BY <1>5, <2>3, <3>2 DEF SettingsTypes
  <2>6. SavesAreCounted'
    <3>1. MostSaves' >= MostSaves
      <4>1. blob'.state = "sealed" /\ faults' = faults
        BY <1>1, <2>4
      <4>2. MostSaves' = MaxSaves + faults + 1
        BY <4>1 DEF MostSaves
      <4>3. MostSaves \in {MaxSaves + faults + 0, MaxSaves + faults + 1}
        BY DEF MostSaves
      <4> QED
        BY <4>2, <4>3, Counters
    <3>2. MostSaves \in Int /\ MostSaves' \in Int
      BY <1>1, Counters DEF MostSaves
    <3> QED
      BY <1>4, <2>4, <3>1, <3>2, Counters DEF SettingsIInv, SavesAreCounted
  <2>7. StrictIsTold'
    <3> SUFFICES ASSUME choice' = "strict" PROVE StrictIsTold'
      BY DEF StrictIsTold
    <3>1. ASSUME Trusting' PROVE ~Relaxed(blob')
      <4>1. session = "right" /\ marks'.lost = "none" /\ marks'.suspect = L!NotHeld
        BY <2>4, <3>1 DEF Trusting
      <4>2. CASE change = "out"
        <5>1. choice = "strict"
          BY <2>1, <4>2
        <5>2. Changed(Stored, "out").lock # "relaxed"
          BY <1>1, <2>1, <4>1, <4>2, <5>1, RoutineSaveIsStrict
        <5> QED
          BY <2>4, <4>2, <5>2 DEF Relaxed
      <4>3. CASE change # "out"
        <5>1. change = "strict"
          BY <2>1, <4>1, <4>3
        <5> QED
          BY <1>1, <2>4, <5>1, OneChange DEF Relaxed
      <4> QED
        BY <4>2, <4>3
    <3>2. ASSUME Trusting' PROVE \A b \in Kept' : Relaxed(b) => b.gen < marks'.mark
      BY <2>3, <3>1, <3>2
    <3> QED
      BY <2>3, <2>4, <3>2 DEF StrictIsTold, Relaxed
  <2>8. FaultsNeverRelax'
    BY <1>1, <2>1 DEF SettingsIInv, FaultsNeverRelax
  <2> QED
    BY <1>2, <1>3, <2>3, <2>5, <2>6, <2>7, <2>8 DEF SettingsIInv
<1>7. CASE UNCHANGED <<blob, older, marks, ledgerKey, settled, saves, choice, runs>>
  <2>1. SettingsTypes'
    BY <1>1, <1>7 DEF SettingsIInv, SettingsTypes, SettingsTypeOK
  <2>2. SavesAreCounted'
    <3>1. MostSaves' = MostSaves /\ saves' = saves
      BY <1>1, <1>7 DEF MostSaves
    <3> QED
      BY <1>4, <3>1 DEF SettingsIInv, SavesAreCounted
  <2>3. NumbersAreSaves'
    BY <1>7 DEF SettingsIInv, NumbersAreSaves, Kept
  <2>4. StrictIsTold'
    BY <1>1, <1>7 DEF SettingsIInv, StrictIsTold, Trusting, Relaxed, Kept
  <2>5. FaultsNeverRelax'
    BY <1>1, <1>7 DEF SettingsIInv, FaultsNeverRelax
  <2> QED
    BY <1>2, <1>3, <2>1, <2>2, <2>3, <2>4, <2>5 DEF SettingsIInv
<1> QED
  BY <1>6, <1>7, SaveIs

\* Another store is written, which may replace a ledger that is missing or does not open.
LEMMA SettingsStoreWrittenKeeps ==
    ASSUME SettingsIInv, StoreWritten
    PROVE  SettingsIInv'
<1>1. /\ UNCHANGED <<blob, older, legacy, session, checked, doing, runs, choice, fate, saves, faults>>
      /\ otherGen' = TRUE /\ ~otherGen /\ session = "right" /\ doing = "nothing"
      /\ marks' = Proven(FALSE) /\ ledgerKey' = session
      /\ settled' = (settled /\ Seen.state = "good")
  BY DEF StoreWritten, WritesWait, StoreLedger
<1>2. fate # "genuine"
  BY <1>1 DEF SettingsIInv, GenuineWaits, Migrating
<1>3. /\ marks' \in L!Ledgers /\ marks'.state = "good"
      /\ marks'.mark = marks.mark \/ marks'.mark = -1
      /\ Seen.state = "good" => marks' = marks
      /\ Seen.state # "good" =>
           /\ marks'.mark = -1 /\ marks'.suspect = L!NotHeld
           /\ marks'.lost = "none" <=> Seen.state # "junk" /\ ~CarryGenerations(FALSE)
  BY <1>1, Counters, ProvenLedger, Zenon
<1>4. Seen.state = "good" => marks.state = "good" /\ ledgerKey = session
  BY Counters, SeenLedger
<1>5. SettingsTypes'
  <2>1. SettingsTypeOK'
    BY <1>1, <1>3 DEF SettingsIInv, SettingsTypes, SettingsTypeOK
  <2>2. settled' \in BOOLEAN /\ otherGen' \in BOOLEAN
    BY <1>1 DEF SettingsIInv, SettingsTypes
  <2> QED
    BY <1>1, <2>1, <2>2 DEF SettingsIInv, SettingsTypes
<1>6. SavesAreCounted'
  <2>1. MostSaves' = MostSaves /\ saves' = saves /\ (Saving' <=> Saving)
    BY <1>1 DEF MostSaves, Saving
  <2> QED
    BY <2>1 DEF SettingsIInv, SavesAreCounted
<1>7. NumbersAreSaves'
  <2>1. CASE Seen.state = "good"
    <3>1. marks' = marks /\ settled' = settled
      BY <1>1, <1>3, <2>1 DEF SettingsIInv, SettingsTypes
    <3> QED
      BY <1>1, <3>1 DEF SettingsIInv, NumbersAreSaves, Kept
  <2>2. CASE Seen.state # "good"
    <3>1. marks'.mark = -1 /\ marks'.suspect = L!NotHeld
      BY <1>3, <2>2
    <3>2. L!NotHeld.gen <= saves /\ L!NotHeld.mark <= saves /\ -1 <= saves
      BY Counters DEF L!NotHeld
    <3>3. /\ marks'.mark <= saves /\ marks'.suspect.gen <= saves /\ marks'.suspect.mark <= saves
      BY <3>1, <3>2
    <3> QED
      BY <1>1, <1>3, <3>1, <3>3 DEF SettingsIInv, NumbersAreSaves, Kept
  <2> QED
    BY <2>1, <2>2
<1>8. GenuineWaits' /\ LockedIsUnread' /\ SavesFollowReads'
  BY <1>1, <1>2 DEF GenuineWaits, LockedIsUnread, SavesFollowReads, Saving
<1>9. ReadIsNoted'
  <2> SUFFICES ASSUME runs # "unread", Readable PROVE ReadIsNoted'
    BY <1>1 DEF ReadIsNoted, Readable
  <2>1. /\ marks.state = "good" /\ ledgerKey = session
        /\ blob.gen >= marks.mark \/ marks.lost # "none" \/ marks.suspect # L!NotHeld
    BY <1>1 DEF SettingsIInv, ReadIsNoted
  <2>2. marks' = marks
    BY <1>3, <2>1, Counters, SeenLedger
  <2> QED
    BY <1>1, <2>1, <2>2 DEF ReadIsNoted
<1>10. StrictIsTold'
  <2> SUFFICES ASSUME choice = "strict" PROVE StrictIsTold'
    BY <1>1 DEF StrictIsTold
  <2>1. ASSUME Trusting' PROVE Trusting /\ marks' = marks
    <3>1. marks'.lost = "none"
      BY <2>1 DEF Trusting
    <3>2. Seen.state # "absent" \/ CarryGenerations(FALSE)
      BY <1>1, <1>2, StrictIsNotForgotten
    <3>3. Seen.state \in {"good", "absent", "junk"}
      BY Counters, SeenLedger, LedgerShapes
    <3>4. Seen.state = "good"
      BY <1>3, <3>1, <3>2, <3>3, Zenon
    <3> QED
      BY <1>1, <1>3, <1>4, <2>1, <3>4 DEF Trusting
  <2>2. Trusting' => /\ marks'.mark # L!Unmarked
                     /\ \A b \in Kept' : Relaxed(b) => b.gen < marks'.mark
    <3> SUFFICES ASSUME Trusting'
                 PROVE  /\ marks'.mark # L!Unmarked
                        /\ \A b \in Kept' : Relaxed(b) => b.gen < marks'.mark
      OBVIOUS
    <3>1. marks' = marks /\ Trusting /\ Kept' = Kept
      BY <1>1, <2>1 DEF Kept
    <3> QED
      BY <1>2, <3>1 DEF SettingsIInv, StrictIsTold
  <2> QED
    BY <1>3, <2>2 DEF StrictIsTold, Relaxed
<1>11. FaultsNeverRelax'
  BY <1>1 DEF SettingsIInv, FaultsNeverRelax
<1> QED
  BY <1>5, <1>6, <1>7, <1>8, <1>9, <1>10, <1>11 DEF SettingsIInv

\* The user accepts the held copy.
LEMMA SettingsDismissKeeps ==
    ASSUME SettingsIInv, Dismiss
    PROVE  SettingsIInv'
<1>1. /\ UNCHANGED <<blob, older, ledgerKey, settled, otherGen, legacy, session, checked,
                     runs, fate, saves, faults>>
      /\ session # "none" /\ doing = "nothing" /\ doing' = "read"
      /\ choice' = "relaxed" /\ marks' = L!Acknowledge(marks)
  BY DEF Dismiss
<1>2. fate # "genuine"
  BY <1>1 DEF SettingsIInv, GenuineWaits, Migrating
<1>3. /\ marks' \in L!Ledgers /\ marks'.state = marks.state /\ marks'.suspect = L!NotHeld
      /\ marks'.mark \in {marks.mark, marks.suspect.gen}
  BY <1>1, Counters, HeldIsAccepted
<1>4. SettingsTypes'
  <2>1. SettingsTypeOK'
    BY <1>1, <1>3 DEF SettingsIInv, SettingsTypes, SettingsTypeOK, Locks
  <2> QED
    BY <1>1, <2>1 DEF SettingsIInv, SettingsTypes
<1>5. SavesAreCounted'
  <2>1. MostSaves' = MostSaves /\ saves' = saves /\ ~Saving'
    BY <1>1 DEF MostSaves, Saving
  <2> QED
    BY <2>1 DEF SettingsIInv, SavesAreCounted
<1>6. NumbersAreSaves'
  <2>1. marks'.mark <= saves
    BY <1>3 DEF SettingsIInv, NumbersAreSaves
  <2>2. marks'.suspect.gen <= saves /\ marks'.suspect.mark <= saves
    BY <1>3, Counters DEF L!NotHeld
  <2> QED
    BY <1>1, <1>3, <2>1, <2>2 DEF SettingsIInv, NumbersAreSaves, Kept
<1>7. GenuineWaits' /\ LockedIsUnread' /\ SavesFollowReads' /\ ReadIsNoted'
  BY <1>1, <1>2 DEF GenuineWaits, LockedIsUnread, SavesFollowReads, ReadIsNoted, Saving
<1>8. StrictIsTold' /\ FaultsNeverRelax'
  BY <1>1 DEF StrictIsTold, FaultsNeverRelax
<1> QED
  BY <1>4, <1>5, <1>6, <1>7, <1>8 DEF SettingsIInv

\* A fault deletes, mangles or puts back, and the panel reads again.
LEMMA SettingsFaultKeeps ==
    ASSUME SettingsIInv, Fault
    PROVE  SettingsIInv'
<1>1. /\ UNCHANGED <<older, ledgerKey, otherGen, session, checked, fate, saves>>
      /\ faults < MaxFaults /\ faults' = faults + 1 /\ doing = "nothing" /\ runs' = "unread"
      /\ doing' = IF session = "none" THEN "nothing" ELSE "read"
      /\ choice' = IF NoTrace' THEN "relaxed" ELSE choice
  BY DEF Fault
<1>2. blob' \in older \cup {blob, NoBlob} \/ (blob' = [blob EXCEPT !.state = "junk"])
  BY DEF Fault
<1>3. \/ UNCHANGED <<marks, settled>>
      \/ marks' \in {L!AbsentLedger, L!JunkLedger} /\ settled' = FALSE
  BY DEF Fault
<1>4. legacy' = legacy \/ (settled /\ legacy = "none" /\ legacy' = "planted" /\ blob' = blob)
  BY DEF Fault
<1>5. /\ NoBlob \in Blobs /\ NoBlob.state = "absent" /\ NoBlob.gen = 0
  BY Presets, Counters DEF NoBlob, Blobs
<1>6. /\ [blob EXCEPT !.state = "junk"] \in Blobs
      /\ [blob EXCEPT !.state = "junk"].state = "junk"
      /\ [blob EXCEPT !.state = "junk"].gen = blob.gen
  BY Counters DEF Blobs
<1>7. /\ blob' \in Blobs /\ blob'.gen <= saves
      /\ blob'.state = "sealed" => blob' \in Kept
  <2>1. CASE blob' \in older \cup {blob}
    BY <2>1, Counters DEF Kept
  <2>2. CASE blob' = NoBlob
    BY <1>5, <2>2, Counters
  <2>3. CASE blob' = [blob EXCEPT !.state = "junk"]
    BY <1>6, <2>3, Counters
  <2> QED
    BY <1>2, <2>1, <2>2, <2>3
<1>8. SettingsTypes'
  <2>1. marks' \in L!Ledgers /\ settled' \in BOOLEAN
    BY <1>3, EmptyLedgers DEF SettingsIInv, SettingsTypes, SettingsTypeOK
  <2>2. SettingsTypeOK'
    <3>1. doing' \in {"nothing", "read"} /\ runs' \in {"unread"}
      BY <1>1
    <3>2. choice' \in Locks /\ legacy' \in {"none", "genuine", "planted"}
      BY <1>1, <1>4 DEF SettingsIInv, SettingsTypes, SettingsTypeOK, Locks
    <3>3. older' \subseteq Blobs /\ session' \in {"none", "right", "wrong"}
      BY <1>1 DEF SettingsIInv, SettingsTypes, SettingsTypeOK
    <3> QED
      BY <1>7, <2>1, <3>1, <3>2, <3>3 DEF SettingsTypeOK
  <2>3. faults' \in 0 .. MaxFaults /\ saves' \in Nat
    BY <1>1, Counters
  <2> QED
    BY <1>1, <2>1, <2>2, <2>3 DEF SettingsIInv, SettingsTypes
<1>9. SavesAreCounted'
  <2>1. ~Saving'
    BY <1>1 DEF Saving
  <2>2. MostSaves' \in {MaxSaves + (faults + 1) + 0, MaxSaves + (faults + 1) + 1}
    BY <1>1 DEF MostSaves
  <2>3. MostSaves \in {MaxSaves + faults + 0, MaxSaves + faults + 1}
    BY DEF MostSaves
  <2>4. MostSaves <= MostSaves' /\ MostSaves \in Int /\ MostSaves' \in Int
    BY <2>2, <2>3, Counters
  <2> QED
    BY <1>1, <2>1, <2>4, Counters DEF SettingsIInv, SavesAreCounted
<1>10. NumbersAreSaves'
  <2>1. /\ marks'.mark <= saves /\ marks'.suspect.gen <= saves /\ marks'.suspect.mark <= saves
        /\ marks'.mark = L!Unmarked => marks'.suspect = L!NotHeld
        /\ settled' => marks'.state = "good"
    <3>1. CASE UNCHANGED <<marks, settled>>
      BY <3>1 DEF SettingsIInv, NumbersAreSaves
    <3>2. CASE marks' \in {L!AbsentLedger, L!JunkLedger} /\ settled' = FALSE
      <4>1. marks'.mark = -1 /\ marks'.suspect = L!NotHeld
        BY <3>2, EmptyLedgers
      <4>2. -1 <= saves /\ L!NotHeld.gen <= saves /\ L!NotHeld.mark <= saves
        BY Counters DEF L!NotHeld
      <4> QED
        BY <3>2, <4>1, <4>2
    <3> QED
      BY <1>3, <3>1, <3>2
  <2>2. \A b \in Kept' : b.gen <= saves
    BY <1>1, <1>7, Counters DEF Kept
  <2> QED
    BY <1>1, <2>1, <2>2 DEF SettingsIInv, NumbersAreSaves
<1>11. GenuineWaits'
  <2> SUFFICES ASSUME fate = "genuine" PROVE GenuineWaits'
    BY <1>1 DEF GenuineWaits
  <2>1. /\ legacy = "genuine" /\ blob = NoBlob /\ older = {} /\ ~otherGen /\ ~settled /\ ~checked
    BY Zenon DEF SettingsIInv, GenuineWaits
  <2>2. session = "none"
    BY <1>1 DEF SettingsIInv, GenuineWaits, Migrating
  <2>3. blob' = NoBlob
    <3>1. blob.state # "sealed"
      BY <1>5, <2>1
    <3>2. blob' \in older \cup {blob, NoBlob}
      BY <3>1 DEF Fault
    <3> QED
      BY <2>1, <3>2
  <2>4. ~settled'
    BY <1>3, <2>1, Zenon
  <2>5. legacy' = "genuine"
    BY <1>4, <2>1
  <2>6. older' = {} /\ ~otherGen' /\ ~checked'
    BY <1>1, <2>1, Zenon
  <2>7. runs' = "unread" /\ session' = "none" /\ doing' = "nothing"
    BY <1>1, <2>2
  <2> QED
    BY <2>3, <2>4, <2>5, <2>6, <2>7, Zenon DEF GenuineWaits, NoBlob, Default
<1>12. LockedIsUnread' /\ SavesFollowReads' /\ ReadIsNoted' /\ FaultsNeverRelax'
  BY <1>1 DEF LockedIsUnread, SavesFollowReads, ReadIsNoted, FaultsNeverRelax, Saving
<1>13. StrictIsTold'
  <2> SUFFICES ASSUME choice' = "strict", fate # "genuine" PROVE StrictIsTold'
    BY <1>1 DEF StrictIsTold
  <2>1. choice = "strict" /\ ~NoTrace'
    BY <1>1
  <2>2. marks'.state # "absent" \/ otherGen' \/ (blob'.state = "sealed" /\ blob'.key = "right")
    <3>1. blob'.key \in {"right", "wrong"}
      BY <1>7 DEF Blobs
    <3> QED
      BY <2>1, <3>1 DEF NoTrace
  <2>3. Trusting' => /\ marks'.mark # L!Unmarked
                     /\ \A b \in Kept' : Relaxed(b) => b.gen < marks'.mark
    <3> SUFFICES ASSUME Trusting'
                 PROVE  /\ marks'.mark # L!Unmarked
                        /\ \A b \in Kept' : Relaxed(b) => b.gen < marks'.mark
      OBVIOUS
    <3>1. marks' = marks
      BY <1>3, EmptyLedgers DEF Trusting
    <3>2. Trusting
      BY <1>1, <3>1 DEF Trusting
    <3>3. marks.mark # L!Unmarked /\ \A b \in Kept : Relaxed(b) => b.gen < marks.mark
      BY <2>1, <3>2 DEF SettingsIInv, StrictIsTold
    <3>4. \A b \in Kept' : Relaxed(b) => b \in Kept
      BY <1>1, <1>7 DEF Kept, Relaxed
    <3> QED
      BY <3>1, <3>3, <3>4
  <2> QED
    BY <2>2, <2>3 DEF StrictIsTold, Relaxed
<1> QED
  BY <1>8, <1>9, <1>10, <1>11, <1>12, <1>13 DEF SettingsIInv

LEMMA SettingsStutterKeeps ==
    ASSUME SettingsIInv, UNCHANGED settingsVars
    PROVE  SettingsIInv'
<1>1. UNCHANGED <<blob, older, marks, ledgerKey, settled, otherGen, legacy, session, checked,
                  doing, runs, choice, fate, saves, faults>>
  BY DEF settingsVars
<1>2. SettingsTypes'
  <2>1. SettingsTypeOK'
    BY <1>1 DEF SettingsIInv, SettingsTypes, SettingsTypeOK
  <2>2. faults' \in 0 .. MaxFaults /\ saves' \in Nat
    BY <1>1, Counters
  <2> QED
    BY <1>1, <2>1, <2>2, Zenon DEF SettingsIInv, SettingsTypes
<1>3. SavesAreCounted'
  <2>1. MostSaves' = MostSaves /\ saves' = saves /\ (Saving' <=> Saving)
    BY <1>1 DEF MostSaves, Saving
  <2> QED
    BY <2>1 DEF SettingsIInv, SavesAreCounted
<1>4. NumbersAreSaves'
  BY <1>1 DEF SettingsIInv, NumbersAreSaves, Kept
<1>5. GenuineWaits'
  BY <1>1, Zenon DEF SettingsIInv, GenuineWaits, Migrating, NoBlob, Default
<1>6. LockedIsUnread' /\ SavesFollowReads' /\ FaultsNeverRelax'
  BY <1>1 DEF SettingsIInv, LockedIsUnread, SavesFollowReads, FaultsNeverRelax, Saving
<1>7. ReadIsNoted'
  BY <1>1 DEF SettingsIInv, ReadIsNoted, Saving, Readable
<1>8. StrictIsTold'
  BY <1>1 DEF SettingsIInv, StrictIsTold, Trusting, Relaxed, Kept
<1> QED
  BY <1>2, <1>3, <1>4, <1>5, <1>6, <1>7, <1>8 DEF SettingsIInv

LEMMA SettingsNextKeeps ==
    ASSUME SettingsIInv, [SettingsNext]_settingsVars
    PROVE  SettingsIInv'
<1>1. CASE Ask("read") \/ Ask("save")
  BY <1>1, SettingsAskKeeps
<1>2. CASE Migrate
  BY <1>2, SettingsMigrateKeeps
<1>3. CASE Settle
  BY <1>3, SettingsSettleKeeps
<1>4. CASE Read
  BY <1>4, SettingsReadKeeps
<1>5. CASE SaveChange
  BY <1>5, SettingsSaveChangeKeeps
<1>6. CASE UnlockAs("right") \/ UnlockAs("wrong")
  BY <1>6, SettingsUnlockKeeps
<1>7. CASE StoreWritten
  BY <1>7, SettingsStoreWrittenKeeps
<1>8. CASE ClosePanel
  BY <1>8, SettingsCloseKeeps
<1>9. CASE Dismiss
  BY <1>9, SettingsDismissKeeps
<1>10. CASE Fault
  BY <1>10, SettingsFaultKeeps
<1>11. CASE UNCHANGED settingsVars
  BY <1>11, SettingsStutterKeeps
<1> QED
  BY <1>1, <1>2, <1>3, <1>4, <1>5, <1>6, <1>7, <1>8, <1>9, <1>10, <1>11 DEF SettingsNext

-----------------------------------------------------------------------------
(* What no step does.                                                      *)

RoutineStep == doing = "save" /\ Readable /\ blob'.val.out # blob.val.out =>
                  blob'.val.lock = blob.val.lock
WrongKeyStep == session = "wrong" /\ ~TookTheLedger /\ blob.state = "sealed" /\ blob.key = "right"
                   /\ faults' = faults => blob' = blob
PlantedStep == settled /\ session = "right" /\ ledgerKey = "right" /\ blob'.val.from = "planted" =>
                  blob.val.from = "planted" \/ blob' \in older

\* Only four actions write the settings: a migration where there are none and the
\* migration is not settled, a save of one change onto what is stored, and a fault.
LEMMA WhoWrites ==
    ASSUME SettingsIInv, [SettingsNext]_settingsVars, blob' # blob
    PROVE  \/ /\ blob.state = "absent" /\ ~IsSettled /\ Migrating
           \/ /\ doing = "save" /\ MayReplace
              /\ \E change \in {"strict", "relaxed", "out"} :
                    blob'.val = Changed(Stored, change)
           \/ /\ doing = "nothing" /\ faults' = faults + 1
              /\ blob' \in older \cup {NoBlob} \/ blob'.val = blob.val
<1>1. CASE Migrate
  <2>1. Eligible /\ Migrating
    BY <1>1 DEF Migrate
  <2> QED
    BY <2>1 DEF Eligible
<1>2. CASE SaveChange
  <2>1. MayReplace /\ doing = "save"
    BY <1>2, SaveIs
  <2>2. PICK change \in {"strict", "relaxed", "out"} : SaveAs(Changed(Stored, change))
    BY <1>2, SaveIs
  <2>3. blob'.val = Changed(Stored, change)
    BY <2>2 DEF SaveAs
  <2> QED
    BY <2>1, <2>3
<1>3. CASE Fault
  <2>1. doing = "nothing" /\ faults' = faults + 1
    BY <1>3 DEF Fault
  <2>2. blob' \in older \cup {NoBlob} \/ blob' = [blob EXCEPT !.state = "junk"]
    BY <1>3 DEF Fault
  <2>3. [blob EXCEPT !.state = "junk"].val = blob.val
    BY Counters DEF Blobs
  <2> QED
    BY <2>1, <2>2, <2>3
<1>4. CASE \/ Ask("read") \/ Ask("save") \/ Settle \/ Read \/ UnlockAs("right") \/ UnlockAs("wrong")
           \/ StoreWritten \/ ClosePanel \/ Dismiss \/ UNCHANGED settingsVars
  BY <1>4 DEF Ask, Settle, Read, UnlockAs, StoreWritten, ClosePanel, Dismiss, settingsVars
<1> QED
  BY <1>1, <1>2, <1>3, <1>4 DEF SettingsNext

LEMMA RoutineStepHolds ==
    ASSUME SettingsIInv, [SettingsNext]_settingsVars
    PROVE  RoutineStep
<1> SUFFICES ASSUME doing = "save", Readable, blob'.val.out # blob.val.out
             PROVE  blob'.val.lock = blob.val.lock
  BY DEF RoutineStep
<1>1. PICK change \in {"strict", "relaxed", "out"} : blob'.val = Changed(Stored, change)
  BY WhoWrites DEF Migrating
<1>2. Stored = blob.val /\ blob.val \in Values
  BY Counters DEF Stored
<1> QED
  BY <1>1, <1>2, OneChange

LEMMA WrongKeyStepHolds ==
    ASSUME SettingsIInv, [SettingsNext]_settingsVars
    PROVE  WrongKeyStep
<1> SUFFICES ASSUME session = "wrong", ~TookTheLedger, blob.state = "sealed", blob.key = "right",
                    faults' = faults, blob' # blob
             PROVE  FALSE
  BY DEF WrongKeyStep
<1>1. faults' # faults + 1
  BY Counters
<1>2. MayReplace
  BY <1>1, WhoWrites
<1>3. Seen.state = "good"
  BY <1>2 DEF MayReplace, Readable
<1>4. marks.state = "good" /\ ledgerKey = "wrong"
  BY <1>3, Counters, SeenLedger
<1> QED
  BY <1>4 DEF TookTheLedger

LEMMA PlantedStepHolds ==
    ASSUME SettingsIInv, [SettingsNext]_settingsVars
    PROVE  PlantedStep
<1> SUFFICES ASSUME settled, session = "right", ledgerKey = "right", blob'.val.from = "planted",
                    blob.val.from # "planted", blob' \notin older
             PROVE  FALSE
  BY DEF PlantedStep
<1>1. marks.state = "good"
  BY DEF SettingsIInv, NumbersAreSaves
<1>2. IsSettled
  BY <1>1, Counters, SeenLedger DEF IsSettled
<1>3. NoBlob.val.from = "user"
  BY Presets DEF NoBlob
<1>4. PICK change \in {"strict", "relaxed", "out"} : blob'.val = Changed(Stored, change)
  BY <1>2, <1>3, WhoWrites
<1>5. Stored \in Values /\ Stored.from # "planted"
  BY Presets, Counters DEF Stored
<1> QED
  BY <1>4, <1>5, OneChange

\* Whatever storage does to the sealed settings (deleting, mangling or putting back an
\* older copy, losing the ledger) and wherever the panel closes, no fault relaxes what the
\* user chose, a routine save keeps the lock, a wrong key replaces nothing, and planted
\* plaintext is never taken over (preferences.ts:236, 296, 345, 491).
THEOREM SettingsStayStrict == SettingsSpec => SettingsHold
<1>1. SettingsInit => SettingsIInv
  BY StartOfSettings
<1>2. SettingsIInv /\ [SettingsNext]_settingsVars => SettingsIInv'
  BY SettingsNextKeeps
<1>3. SettingsIInv => SettingsTypeOK /\ FaultsNeverRelax /\ GenuineIsMigrated
  BY DEF SettingsIInv, SettingsTypes, GenuineIsMigrated
<1>4. SettingsIInv /\ [SettingsNext]_settingsVars => [RoutineStep]_settingsVars
  BY RoutineStepHolds
<1>5. SettingsIInv /\ [SettingsNext]_settingsVars => [WrongKeyStep]_settingsVars
  BY WrongKeyStepHolds
<1>6. SettingsIInv /\ [SettingsNext]_settingsVars => [PlantedStep]_settingsVars
  BY PlantedStepHolds
<1>7. SettingsSpec => []SettingsIInv
  BY <1>1, <1>2, PTL DEF SettingsSpec
<1>8. SettingsSpec => [](SettingsTypeOK /\ FaultsNeverRelax /\ GenuineIsMigrated)
  BY <1>3, <1>7, PTL
<1>9. SettingsSpec => [][RoutineStep]_settingsVars
  BY <1>4, <1>7, PTL DEF SettingsSpec
<1>10. SettingsSpec => [][WrongKeyStep]_settingsVars
  BY <1>5, <1>7, PTL DEF SettingsSpec
<1>11. SettingsSpec => [][PlantedStep]_settingsVars
  BY <1>6, <1>7, PTL DEF SettingsSpec
<1> QED
  BY <1>8, <1>9, <1>10, <1>11, PTL
  DEF SettingsHold, RoutineSavesKeepTheLock, WrongKeyReplacesNothing, PlantedNeverMigrates,
      RoutineStep, WrongKeyStep, PlantedStep

-----------------------------------------------------------------------------
(* Where the vault is: one vault, which every window finds, whichever step  *)
(* of a move, an onboarding or an erase the panel is closed at.             *)

\* Types, and the versions: a write that is under way still has its number to take.
MovePlaces == {"copy", "commit", "commit pin", "purge", "undo"}
WindowPlaces == {"closed", "look here", "look there", "orphaned", "elsewhere", "new", "minted",
                 "saving", "saved", "booted", "open", "writing", "erase"} \cup MovePlaces
Owners == MoveWindow \cup {Nobody, Before}
Versions == {Sealed(n) : n \in 1 .. MaxMoveOps + 1}
MoveSteps == 0 .. Len(StoreKey) + 1
Doings == [at : WindowPlaces, step : MoveSteps, from : Area, key : Store,
           pinned : Area \cup {Unset}, sawHere : Owners, met : BOOLEAN,
           sees : {"loading", "none", "ready", "orphaned", "elsewhere", "ambiguous"}]
MoveTypes ==
    /\ master \in [Area -> Owners]
    /\ stored \in [Area -> [Store -> Versions \cup {Absent, Remnant}]]
    /\ latest \in [Store -> Versions \cup {Absent}]
    /\ pin \in Area \cup {Unset} /\ boot \in Area \cup {Unset}
    /\ cached \in [MoveWindow -> Area \cup {Unset}] /\ stale \subseteq MoveWindow
    /\ win \in [MoveWindow -> Doings] /\ lockHeld \in MoveWindow \cup {Nobody}
    /\ moveOps \in 0 .. MaxMoveOps
InRange(d) == /\ d.at \in {"copy", "purge", "undo"} => d.step >= 1
              /\ d.at = "erase" => d.step \in 1 .. 2
StepsAreInRange == \A w \in MoveWindow : InRange(win[w])
Writers == {w \in MoveWindow : win[w].at = "writing"}
VersionsAreCounted == \A s \in Store : latest[s].ver + Cardinality(Writers) <= moveOps + 1

\* Who is about to store a new master protection holds the lock, and there is none.
SavingIsLocked == \A w \in MoveWindow : win[w].at = "saving" => lockHeld = w /\ NoVault

\* Nothing has happened that the code cannot exclude.
Straight == strayed \cap {"beside", "stale", "adopted", "erased"} = {}

\* What was last written is where the device looks for it.
Has(a, s) == latest[s] # Absent => stored[a][s] = latest[s]
VaultInv ==
    /\ pin # Unset => master[pin] # Nobody
    /\ NoVault => \A s \in Store : latest[s] = Absent
    /\ \A a \in Area, s \in Store :
          IF pin = Unset THEN master[a] # Nobody => Has(a, s) ELSE a = pin => Has(a, s)

\* There is a vault wherever a window is at work in one or has seen one; a new one is in
\* one area; and who found nothing here will find it there.
SeesAVault(d) ==
    \/ d.at \in {"open", "writing", "saved", "booted"} \cup MovePlaces
    \/ d.at \in {"look here", "look there"} /\ d.met
    \/ d.at = "look there" /\ d.sawHere # Nobody
NewIsAlone(d) == d.at \in {"saved", "booted"} =>
                     master[d.from] # Nobody /\ master[Other(d.from)] = Nobody
Missed(d) == d.at = "look there" /\ d.met /\ d.sawHere = Nobody
Seeing(d) == /\ Missed(d) => master[Other(d.from)] # Nobody
             /\ d.met => d.sees \notin {"none", "orphaned"}

\* The area that a move leaves keeps the vault until the pin is in the other one, which
\* has its protection from the first copy on, and the stores as far as they are copied.
MoveHolds(d) ==
    d.at \in MovePlaces =>
        /\ d.pinned = d.from /\ master[d.from] # Nobody
        /\ pin = IF d.at = "purge" THEN Other(d.from) ELSE d.from
        /\ d.at \in {"commit", "commit pin", "purge"} \/ (d.at = "copy" /\ d.step > 1) =>
              master[Other(d.from)] # Nobody
CopiesAreMade(d) ==
    \A i \in 1 .. Len(StoreKey) :
        d.at \in {"commit", "commit pin"} \/ (d.at = "copy" /\ i + 1 < d.step) =>
            Has(Other(d.from), StoreKey[i])
WindowInv(d) ==
    /\ SeesAVault(d) => ~NoVault
    /\ NewIsAlone(d) /\ Seeing(d) /\ MoveHolds(d) /\ CopiesAreMade(d)

\* Beside a window that moves the vault no other one moves it, sets it up or writes to
\* it, and who misses the vault does so before the first copy or after it is undone.
KeepsOff(d, e) ==
    d.at \in MovePlaces =>
        /\ e.at \notin MovePlaces \cup {"saved", "booted", "writing"}
        /\ Missed(e) => /\ d.from = Other(e.from)
                        /\ d.at = "undo" \/ (d.at = "copy" /\ d.step = 1)

\* The stores of an area go before its master protection.
Purged(d) == IF d.at = "purge" THEN d.from ELSE Other(d.from)
PurgedInOrder(d) ==
    \A i \in 1 .. Len(StoreKey) :
        d.at \in {"purge", "undo"} /\ i < d.step => stored[Purged(d)][StoreKey[i]].kind # "array"
Bracketed == \A a \in Area : (\E s \in Store : stored[a][s].kind = "array") => master[a] # Nobody

StraightInv ==
    /\ VaultInv
    /\ \A w \in MoveWindow : WindowInv(win[w])
    /\ \A u, w \in MoveWindow : u # w => KeepsOff(win[u], win[w])
    /\ "unpurged" \notin strayed => Bracketed /\ \A w \in MoveWindow : PurgedInOrder(win[w])
MoveCore == MoveTypes /\ StepsAreInRange /\ VersionsAreCounted /\ SavingIsLocked /\ OneVault
MoveIInv == MoveCore /\ (Straight => StraightInv)

-----------------------------------------------------------------------------
LEMMA Areas ==
    /\ \A a \in Area : Other(a) \in Area /\ Other(a) # a /\ Other(Other(a)) = a
    /\ \A a, b \in Area : b = a \/ b = Other(a)
    /\ Unset \notin Area
  BY DEF Area, Other, Unset

LEMMA Arrays ==
    /\ \A n : Sealed(n).kind = "array" /\ Sealed(n).ver = n /\ Sealed(n) # Absent
              /\ Sealed(n) # Remnant
    /\ Absent.ver = 0 /\ Absent.kind = "absent" /\ Remnant.kind = "remnant"
    /\ Absent # Remnant
  BY DEF Sealed, Absent, Remnant

LEMMA Orders ==
    /\ Len(StoreKey) \in Nat /\ Len(StoreKey) >= 1
    /\ \A i \in 1 .. Len(StoreKey) : StoreKey[i] \in Store /\ StoreKey[i] # Master
    /\ \A s \in Store : \E i \in 1 .. Len(StoreKey) : s = StoreKey[i]
    /\ Len(CopyOrder) = Len(StoreKey) + 1 /\ CopyOrder[1] = Master
    /\ \A i \in 1 .. Len(StoreKey) : CopyOrder[i + 1] = StoreKey[i]
    /\ Len(PurgeOrder) = Len(StoreKey) + 1 /\ PurgeOrder[Len(StoreKey) + 1] = Master
    /\ \A i \in 1 .. Len(StoreKey) : PurgeOrder[i] = StoreKey[i]
<1> USE MoveAssumption
<1>1. Len(StoreKey) \in Nat /\ Len(StoreKey) >= 1
  OBVIOUS
<1>2. \A i \in 1 .. Len(StoreKey) : StoreKey[i] \in Store /\ StoreKey[i] # Master
  BY DEF Store
<1>3. \A s \in Store : \E i \in 1 .. Len(StoreKey) : s = StoreKey[i]
  BY DEF Store
<1>4. <<Master>> \in Seq(Store \cup {Master}) /\ StoreKey \in Seq(Store \cup {Master})
      /\ Len(<<Master>>) = 1 /\ <<Master>>[1] = Master
  OBVIOUS
<1>5. /\ Len(CopyOrder) = Len(StoreKey) + 1 /\ CopyOrder[1] = Master
      /\ \A i \in 1 .. Len(StoreKey) : CopyOrder[i + 1] = StoreKey[i]
  BY <1>1, <1>4 DEF CopyOrder
<1>6. /\ Len(PurgeOrder) = Len(StoreKey) + 1 /\ PurgeOrder[Len(StoreKey) + 1] = Master
      /\ \A i \in 1 .. Len(StoreKey) : PurgeOrder[i] = StoreKey[i]
  BY <1>1, <1>4 DEF PurgeOrder
<1> QED
  BY <1>1, <1>2, <1>3, <1>5, <1>6

\* Where the masters and the stores are does not change: nor does what depends on them.
LEMMA SameVault ==
    ASSUME UNCHANGED <<master, stored, latest, pin>>
    PROVE  /\ VaultInv => VaultInv'
           /\ NoVault' <=> NoVault
           /\ Bracketed => Bracketed'
           /\ \A d : (WindowInv(d) => WindowInv(d)') /\ (PurgedInOrder(d) => PurgedInOrder(d)')
<1>1. NoVault' <=> NoVault
  BY DEF NoVault
<1>2. VaultInv => VaultInv'
  BY <1>1 DEF VaultInv, Has
<1>3. Bracketed => Bracketed'
  BY DEF Bracketed
<1>4. ASSUME NEW d, WindowInv(d) PROVE WindowInv(d)'
  BY <1>1, <1>4 DEF WindowInv, NewIsAlone, Seeing, MoveHolds, CopiesAreMade, Has
<1>5. ASSUME NEW d, PurgedInOrder(d) PROVE PurgedInOrder(d)'
  BY <1>5 DEF PurgedInOrder
<1> QED
  BY <1>1, <1>2, <1>3, <1>4, <1>5

\* Straightness is never regained.
LEMMA StraightBefore ==
    ASSUME strayed \subseteq strayed'
    PROVE  (Straight' => Straight) /\ ("unpurged" \notin strayed' => "unpurged" \notin strayed)
  BY DEF Straight

\* One window goes on to d.
Steps(w, d) == d \in Doings /\ win' = [win EXCEPT ![w] = d]

LEMMA StepFacts ==
    ASSUME MoveTypes, NEW w \in MoveWindow, NEW d, Steps(w, d)
    PROVE  /\ win' \in [MoveWindow -> Doings] /\ win'[w] = d
           /\ \A u \in MoveWindow : u # w => win'[u] = win[u]
  BY DEF MoveTypes, Steps

\* What is to be shown of a step of one window that leaves the vault where it is.
LEMMA QuietStep ==
    ASSUME MoveIInv, NEW w \in MoveWindow, NEW d, Steps(w, d), strayed \subseteq strayed', Straight',
           UNCHANGED <<master, stored, latest, pin>>,
           WindowInv(d), "unpurged" \notin strayed' => PurgedInOrder(d),
           \A u \in MoveWindow : u # w => KeepsOff(win[u], d) /\ KeepsOff(d, win[u])
    PROVE  StraightInv'
<1>1. StraightInv
  BY StraightBefore DEF MoveIInv
<1>2. /\ win'[w] = d /\ \A u \in MoveWindow : u # w => win'[u] = win[u]
  BY StepFacts DEF MoveIInv, MoveCore
<1>3. VaultInv'
  BY <1>1, SameVault DEF StraightInv
<1>4. \A u \in MoveWindow : WindowInv(win[u])' 
  <2> SUFFICES ASSUME NEW u \in MoveWindow PROVE WindowInv(win[u])'
    OBVIOUS
  <2>1. PICK e : e = win'[u]
    OBVIOUS
  <2>2. WindowInv(e)
    BY <1>1, <1>2, <2>1 DEF StraightInv
  <2>3. WindowInv(e)'
    BY <2>2, SameVault
  <2> QED
    BY <2>1, <2>3 DEF WindowInv, SeesAVault, NewIsAlone, Seeing, Missed, MoveHolds, CopiesAreMade
<1>5. \A u, v \in MoveWindow : u # v => KeepsOff(win'[u], win'[v])
  BY <1>1, <1>2 DEF StraightInv
<1>6. ASSUME "unpurged" \notin strayed' PROVE Bracketed' /\ \A u \in MoveWindow : PurgedInOrder(win[u])'
  <2>1. Bracketed /\ \A u \in MoveWindow : PurgedInOrder(win[u])
    BY <1>1, <1>6, StraightBefore DEF StraightInv
  <2>2. ASSUME NEW u \in MoveWindow PROVE PurgedInOrder(win[u])'
    <3>1. PICK e : e = win'[u]
      OBVIOUS
    <3>2. PurgedInOrder(e)
      BY <1>2, <1>6, <2>1, <3>1
    <3>3. PurgedInOrder(e)'
      BY <3>2, SameVault
    <3> QED
      BY <3>1, <3>3 DEF PurgedInOrder
  <2> QED
    BY <2>1, <2>2, SameVault
<1>7. (\A u, v \in MoveWindow : u # v => KeepsOff(win[u], win[v]))'
  BY <1>5
<1> QED
  BY <1>3, <1>4, <1>6, <1>7 DEF StraightInv

\* The types and the counts, of a step of one window that leaves the stores alone.
LEMMA WritersCount ==
    ASSUME MoveIInv, NEW w \in MoveWindow, NEW d, Steps(w, d)
    PROVE  /\ Cardinality(Writers) \in Nat /\ Cardinality(Writers') \in Nat
           /\ Cardinality(Writers') <= Cardinality(Writers) + 1
           /\ d.at # "writing" \/ win[w].at = "writing" =>
                 Cardinality(Writers') <= Cardinality(Writers)
           /\ d.at # "writing" /\ win[w].at = "writing" =>
                 Cardinality(Writers') + 1 <= Cardinality(Writers)
<1>1. /\ win'[w] = d /\ \A u \in MoveWindow : u # w => win'[u] = win[u]
  BY StepFacts DEF MoveIInv, MoveCore
<1>2. IsFiniteSet(MoveWindow) /\ Writers \subseteq MoveWindow /\ Writers' \subseteq MoveWindow
  BY MoveAssumption DEF Writers
<1>3. IsFiniteSet(Writers) /\ IsFiniteSet(Writers')
  BY <1>2, FS_Subset
<1>4. Cardinality(Writers) \in Nat /\ Cardinality(Writers') \in Nat
  BY <1>3, FS_CardinalityType
<1>5. Writers' \subseteq Writers \cup {w} /\ (w \in Writers' <=> d.at = "writing")
      /\ (w \in Writers <=> win[w].at = "writing") /\ Writers \ {w} = Writers' \ {w}
  BY <1>1 DEF Writers
<1>6. CASE w \in Writers' /\ w \notin Writers
  <2>1. Writers' = Writers \cup {w}
    BY <1>5, <1>6
  <2>2. Cardinality(Writers') = Cardinality(Writers) + 1
    BY <1>3, <1>6, <2>1, FS_AddElement
  <2> QED
    BY <1>4, <1>5, <1>6, <2>2
<1>7. CASE w \notin Writers' /\ w \in Writers
  <2>1. Writers' = Writers \ {w}
    BY <1>5, <1>7
  <2>2. Cardinality(Writers') = Cardinality(Writers) - 1
    BY <1>3, <1>7, <2>1, FS_RemoveElement
  <2> QED
    BY <1>4, <1>5, <1>7, <2>2
<1>8. CASE w \in Writers' <=> w \in Writers
  <2>1. Writers' = Writers
    BY <1>5, <1>8
  <2> QED
    BY <1>4, <1>5, <1>8, <2>1
<1> QED
  BY <1>6, <1>7, <1>8

LEMMA VersionNumbers ==
    ASSUME MoveTypes, NEW s \in Store
    PROVE  latest[s].ver \in Nat /\ latest[s].ver <= MaxMoveOps + 1
<1>1. latest[s] \in Versions \/ latest[s] = Absent
  BY DEF MoveTypes
<1>2. CASE latest[s] = Absent
  BY <1>2, Arrays, MoveAssumption
<1>3. CASE latest[s] \in Versions
  <2>1. PICK n \in 1 .. MaxMoveOps + 1 : latest[s] = Sealed(n)
    BY <1>3 DEF Versions
  <2>2. latest[s].ver = n
    BY <2>1, Arrays
  <2> QED
    BY <2>1, <2>2, MoveAssumption
<1> QED
  BY <1>1, <1>2, <1>3

LEMMA CoreStays ==
    ASSUME MoveIInv, NEW w \in MoveWindow, NEW d, Steps(w, d),
           latest' \in [Store -> Versions \cup {Absent}],
           \A s \in Store : latest'[s] \in {latest[s], Absent},
           moveOps' \in moveOps .. MaxMoveOps, master' \in [Area -> Owners],
           stored' \in [Area -> [Store -> Versions \cup {Absent, Remnant}]], OneVault',
           NoVault => NoVault' \/ win[w].at = "saving",
           pin' \in Area \cup {Unset}, boot' \in Area \cup {Unset},
           cached' \in [MoveWindow -> Area \cup {Unset}], stale' \subseteq MoveWindow,
           lockHeld' \in MoveWindow \cup {Nobody},
           \A u \in MoveWindow : u # w /\ lockHeld = u => lockHeld' = u,
           InRange(d), d.at = "saving" => NoVault' /\ lockHeld' = w,
           d.at # "writing" \/ moveOps' = moveOps + 1
    PROVE  MoveCore'
<1>1. /\ win' \in [MoveWindow -> Doings] /\ win'[w] = d
      /\ \A u \in MoveWindow : u # w => win'[u] = win[u]
  BY StepFacts DEF MoveIInv, MoveCore
<1>2. moveOps \in 0 .. MaxMoveOps /\ MaxMoveOps \in Nat
  BY MoveAssumption DEF MoveIInv, MoveCore, MoveTypes
<1>3. MoveTypes'
  <2>1. moveOps' \in 0 .. MaxMoveOps
    BY <1>2
  <2> QED
    BY <1>1, <2>1 DEF MoveTypes
<1>4. StepsAreInRange'
  BY <1>1 DEF MoveIInv, MoveCore, StepsAreInRange, InRange
<1>5. VersionsAreCounted'
  <2> SUFFICES ASSUME NEW s \in Store PROVE latest'[s].ver + Cardinality(Writers') <= moveOps' + 1
    BY DEF VersionsAreCounted
  <2>1. latest[s].ver + Cardinality(Writers) <= moveOps + 1
    BY DEF MoveIInv, MoveCore, VersionsAreCounted
  <2>2. latest[s].ver \in Nat /\ latest'[s].ver \in Nat /\ latest'[s].ver <= latest[s].ver
    BY VersionNumbers, Arrays DEF MoveIInv, MoveCore
  <2>3. /\ Cardinality(Writers) \in Nat /\ Cardinality(Writers') \in Nat
        /\ Cardinality(Writers') <= Cardinality(Writers) + 1
        /\ d.at # "writing" => Cardinality(Writers') <= Cardinality(Writers)
    BY WritersCount
  <2>4. moveOps' \in Nat /\ moveOps' >= moveOps
    BY <1>2
  <2> QED
    BY <1>2, <2>1, <2>2, <2>3, <2>4
<1>6. SavingIsLocked'
  <2> SUFFICES ASSUME NEW u \in MoveWindow, win'[u].at = "saving" PROVE lockHeld' = u /\ NoVault'
    BY DEF SavingIsLocked
  <2>1. CASE u = w
    BY <1>1, <2>1
  <2>2. CASE u # w
    <3>1. lockHeld = u /\ NoVault
      BY <1>1, <2>2 DEF MoveIInv, MoveCore, SavingIsLocked
    <3>2. win[w].at # "saving"
      BY <2>2, <3>1 DEF MoveIInv, MoveCore, SavingIsLocked
    <3> QED
      BY <2>2, <3>1, <3>2
  <2> QED
    BY <2>1, <2>2
<1> QED
  BY <1>3, <1>4, <1>5, <1>6 DEF MoveCore

\* A step that leaves both stores and protections alone.
LEMMA CoreQuiet ==
    ASSUME MoveIInv, NEW w \in MoveWindow, NEW d, Steps(w, d),
           UNCHANGED <<master, stored, latest>>, moveOps' \in moveOps .. MaxMoveOps,
           pin' \in Area \cup {Unset}, boot' \in Area \cup {Unset},
           cached' \in [MoveWindow -> Area \cup {Unset}], stale' \subseteq MoveWindow,
           lockHeld' \in MoveWindow \cup {Nobody},
           \A u \in MoveWindow : u # w /\ lockHeld = u => lockHeld' = u,
           InRange(d), d.at = "saving" => NoVault /\ lockHeld' = w,
           d.at # "writing" \/ moveOps' = moveOps + 1
    PROVE  MoveCore'
<1>1. /\ master' \in [Area -> Owners]
      /\ stored' \in [Area -> [Store -> Versions \cup {Absent, Remnant}]]
  BY DEF MoveIInv, MoveCore, MoveTypes
<1>2. OneVault' /\ (NoVault => NoVault')
  BY DEF MoveIInv, MoveCore, OneVault, NoVault
<1>3. d.at = "saving" => NoVault'
  BY <1>2
<1>4. latest' \in [Store -> Versions \cup {Absent}] /\ \A s \in Store : latest'[s] = latest[s]
  BY DEF MoveIInv, MoveCore, MoveTypes
<1> QED
  BY <1>1, <1>2, <1>3, <1>4, CoreStays

\* A step that only forgets or hears where the vault is.
LEMMA WindowsStay ==
    ASSUME MoveIInv, UNCHANGED <<master, stored, pin, boot, win, lockHeld, latest, strayed, moveOps>>,
           cached' \in [MoveWindow -> Area \cup {Unset}], stale' \subseteq MoveWindow
    PROVE  MoveIInv'
<1>1. MoveTypes'
  BY DEF MoveIInv, MoveCore, MoveTypes
<1>2. /\ StepsAreInRange' /\ SavingIsLocked' /\ OneVault' /\ VersionsAreCounted'
  BY DEF MoveIInv, MoveCore, StepsAreInRange, SavingIsLocked, NoVault, OneVault, VersionsAreCounted,
         Writers, InRange
<1>3. Straight' <=> Straight
  BY DEF Straight
<1>4. ASSUME StraightInv PROVE StraightInv'
  <2>1. VaultInv' /\ (Bracketed => Bracketed')
    BY <1>4, SameVault DEF StraightInv
  <2>2. \A u \in MoveWindow : WindowInv(win[u])'
    BY <1>4 DEF StraightInv, WindowInv, SeesAVault, NewIsAlone, Seeing, Missed, MoveHolds, CopiesAreMade,
                NoVault, Has
  <2>3. (\A u, v \in MoveWindow : u # v => KeepsOff(win[u], win[v]))'
    BY <1>4 DEF StraightInv, KeepsOff, Missed
  <2>4. "unpurged" \notin strayed' =>
            Bracketed' /\ \A u \in MoveWindow : PurgedInOrder(win[u])'
    BY <1>4, <2>1 DEF StraightInv, PurgedInOrder, Purged
  <2> QED
    BY <2>1, <2>2, <2>3, <2>4 DEF StraightInv
<1> QED
  BY <1>1, <1>2, <1>3, <1>4 DEF MoveIInv, MoveCore

LEMMA Counting ==
    ASSUME MoveTypes
    PROVE  moveOps \in moveOps .. MaxMoveOps /\ moveOps \in Nat
           /\ (Count => moveOps' \in moveOps .. MaxMoveOps /\ moveOps' = moveOps + 1)
  BY MoveAssumption DEF MoveTypes, Count

LEMMA RouteIsAnArea ==
    ASSUME MoveTypes, NEW w \in MoveWindow
    PROVE  Route(w) \in Area
<1>1. cached[w] \in Area \cup {Unset} /\ pin \in Area \cup {Unset}
  BY DEF MoveTypes
<1> QED
  BY <1>1 DEF Route, Area

LEMMA PinTypes ==
    ASSUME MoveTypes, NEW w \in MoveWindow, NEW loc \in Area \cup {Unset}, Pin(w, loc)
    PROVE  /\ pin' = loc /\ cached' \in [MoveWindow -> Area \cup {Unset}] /\ stale' \subseteq MoveWindow
  BY DEF MoveTypes, Pin

LEMMA CachedTypes ==
    ASSUME MoveTypes, NEW w \in MoveWindow, NEW loc \in Area \cup {Unset}
    PROVE  [cached EXCEPT ![w] = loc] \in [MoveWindow -> Area \cup {Unset}]
  BY DEF MoveTypes

\* The step of a window that only changes where it is.
LEMMA GoIsAStep ==
    ASSUME MoveTypes, NEW w \in MoveWindow, NEW p \in WindowPlaces, Go(w, p)
    PROVE  \E d \in Doings :
              /\ Steps(w, d) /\ d.at = p /\ d.step = win[w].step /\ d.from = win[w].from
              /\ d.key = win[w].key /\ d.pinned = win[w].pinned /\ d.sawHere = win[w].sawHere
              /\ d.met = win[w].met /\ d.sees = win[w].sees
<1> DEFINE d == [win[w] EXCEPT !.at = p]
<1>1. win[w] \in Doings
  BY DEF MoveTypes
<1>2. d \in Doings /\ d.at = p /\ d.step = win[w].step /\ d.from = win[w].from
      /\ d.key = win[w].key /\ d.pinned = win[w].pinned /\ d.sawHere = win[w].sawHere
      /\ d.met = win[w].met /\ d.sees = win[w].sees
  BY <1>1 DEF Doings
<1>3. Steps(w, d)
  BY <1>2 DEF Steps, Go
<1> QED
  BY <1>2, <1>3

\* A place where a window neither holds nor moves anything.
IdlePlaces == {"closed", "look here", "orphaned", "elsewhere", "new", "minted", "saving", "erase"}

LEMMA IdleStep ==
    ASSUME MoveIInv, NEW w \in MoveWindow, NEW d, Steps(w, d), strayed \subseteq strayed', Straight',
           UNCHANGED <<master, stored, latest, pin>>, d.at \in IdlePlaces,
           d.at = "look here" /\ d.met => ~NoVault, d.met => d.sees \notin {"none", "orphaned"}
    PROVE  StraightInv'
<1>1. WindowInv(d)
  BY DEF WindowInv, IdlePlaces, SeesAVault, NewIsAlone, Seeing, Missed, MoveHolds, CopiesAreMade, MovePlaces
<1>2. PurgedInOrder(d)
  BY DEF PurgedInOrder, IdlePlaces
<1>3. ASSUME NEW u \in MoveWindow PROVE KeepsOff(win[u], d) /\ KeepsOff(d, win[u])
  BY DEF KeepsOff, IdlePlaces, MovePlaces, Missed
<1> QED
  BY <1>1, <1>2, <1>3, QuietStep

\* What is known of a window, and of another one beside it, as long as all is straight.
LEMMA StraightMeans ==
    ASSUME MoveIInv, strayed \subseteq strayed', Straight', NEW w \in MoveWindow
    PROVE  /\ WindowInv(win[w]) /\ VaultInv
           /\ win[w] \in Doings /\ InRange(win[w])
           /\ \A u \in MoveWindow : u # w => KeepsOff(win[u], win[w]) /\ KeepsOff(win[w], win[u])
           /\ "unpurged" \notin strayed' => Bracketed /\ PurgedInOrder(win[w])
  BY StraightBefore DEF MoveIInv, StraightInv, MoveCore, MoveTypes, StepsAreInRange

-----------------------------------------------------------------------------
LEMMA GoneTypes ==
    Gone \in Doings /\ Gone.at = "closed" /\ Gone.sees = "loading" /\ Gone.step = 0 /\ Gone.met = FALSE
<1>1. StoreKey[1] \in Store /\ 0 \in MoveSteps
  BY Orders DEF MoveSteps
<1>2. "local" \in Area /\ Unset \in Area \cup {Unset} /\ Nobody \in Owners /\ "closed" \in WindowPlaces
  BY DEF Area, Owners, WindowPlaces
<1> QED
  BY <1>1, <1>2 DEF Gone, Doings

LEMMA LookKeeps ==
    ASSUME MoveIInv, NEW w \in MoveWindow, Look(w)
    PROVE  MoveIInv'
<1>1. Route(w) \in Area /\ pin \in Area \cup {Unset}
  BY RouteIsAnArea DEF MoveIInv, MoveCore, MoveTypes
<1> PICK m \in BOOLEAN : m = ~NoVault
  OBVIOUS
<1> DEFINE d == [Gone EXCEPT !.at = "look here", !.from = Route(w), !.pinned = pin, !.met = m]
<1>2. Gone \in Doings /\ Gone.sees = "loading"
  BY GoneTypes
<1>3. d \in Doings /\ d.at = "look here" /\ d.met = m /\ d.sees = "loading"
  BY <1>1, <1>2 DEF Doings, WindowPlaces
<1>4. Steps(w, d)
  <2>1. win' = [win EXCEPT ![w] = d]
    BY DEF Look
  <2> QED
    BY <1>3, <2>1 DEF Steps
<1>5. d.at = "look here" /\ (d.met => ~NoVault) /\ d.sees = "loading"
  BY <1>3
<1>6. ASSUME Straight' PROVE StraightInv'
  BY <1>4, <1>5, <1>6, IdleStep DEF Look, IdlePlaces
<1>7. cached' \in [MoveWindow -> Area \cup {Unset}]
  BY <1>1, CachedTypes DEF Look, MoveIInv, MoveCore
<1>8. MoveCore'
  <2>1. InRange(d) /\ d.at # "saving" /\ d.at # "writing"
    BY <1>5 DEF InRange
  <2>2. boot' \in Area \cup {Unset} /\ pin' \in Area \cup {Unset} /\ stale' \subseteq MoveWindow
        /\ lockHeld' \in MoveWindow \cup {Nobody} 
    BY DEF Look, MoveIInv, MoveCore, MoveTypes
  <2>3. moveOps' \in moveOps .. MaxMoveOps
    BY Counting DEF Look, MoveIInv, MoveCore
  <2> QED
    BY <1>4, <1>7, <2>1, <2>2, <2>3, CoreQuiet DEF Look
<1> QED
  BY <1>6, <1>8 DEF MoveIInv

LEMMA LookHereKeeps ==
    ASSUME MoveIInv, NEW w \in MoveWindow, LookHere(w)
    PROVE  MoveIInv'
<1> DEFINE d == [win[w] EXCEPT !.at = "look there", !.sawHere = master[win[w].from]]
<1>1. win[w] \in Doings /\ win[w].from \in Area /\ master[win[w].from] \in Owners
  BY DEF MoveIInv, MoveCore, MoveTypes, Doings
<1>2. /\ d \in Doings /\ d.at = "look there" /\ d.sawHere = master[win[w].from]
      /\ d.from = win[w].from /\ d.met = win[w].met /\ d.sees = win[w].sees
  BY <1>1 DEF Doings, WindowPlaces
<1>3. Steps(w, d)
  BY <1>1, <1>2 DEF Steps, LookHere, MoveIInv, MoveCore, MoveTypes
<1>4. ASSUME Straight' PROVE StraightInv'
  <2>1. WindowInv(win[w]) /\ win[w].at = "look here"
    BY <1>4, StraightMeans DEF LookHere, At
  <2>2. SeesAVault(d) => ~NoVault
    BY <1>1, <1>2, <2>1 DEF WindowInv, SeesAVault, MovePlaces, NoVault
  <2>3. Seeing(d)
    <3>1. d.met => d.sees \notin {"none", "orphaned"}
      BY <1>2, <2>1 DEF WindowInv, Seeing
    <3>2. ASSUME Missed(d) PROVE master[Other(d.from)] # Nobody
      <4>1. ~NoVault /\ master[d.from] = Nobody
        BY <1>2, <2>1, <3>2 DEF Missed, WindowInv, SeesAVault
      <4> QED
        BY <1>1, <1>2, <4>1, Areas DEF NoVault
    <3> QED
      BY <3>1, <3>2 DEF Seeing
  <2>4. WindowInv(d) /\ PurgedInOrder(d)
    BY <1>2, <2>2, <2>3 DEF WindowInv, NewIsAlone, MoveHolds, CopiesAreMade, MovePlaces, PurgedInOrder
  <2>5. ASSUME NEW u \in MoveWindow, u # w PROVE KeepsOff(win[u], d) /\ KeepsOff(d, win[u])
    <3>1. KeepsOff(d, win[u])
      BY <1>2 DEF KeepsOff, MovePlaces
    <3>2. ASSUME win[u].at \in MovePlaces, Missed(d)
          PROVE  win[u].from = Other(d.from) /\
                 (win[u].at = "undo" \/ (win[u].at = "copy" /\ win[u].step = 1))
      <4>1. MoveHolds(win[u]) /\ win[u] \in Doings /\ InRange(win[u]) /\ win[u].from \in Area
        BY <1>4, StraightMeans DEF WindowInv, LookHere, Doings
      <4>2. master[d.from] = Nobody /\ d.from \in Area
        BY <1>1, <1>2, <3>2 DEF Missed
      <4>3. win[u].from = Other(d.from) /\ d.from = Other(win[u].from)
        BY <3>2, <4>1, <4>2, Areas DEF MoveHolds
      <4>4. win[u].at \notin {"commit", "commit pin", "purge"}
            /\ ~(win[u].at = "copy" /\ win[u].step > 1)
        BY <3>2, <4>1, <4>2, <4>3 DEF MoveHolds
      <4>5. win[u].step \in Nat
        BY <4>1, Orders DEF Doings, MoveSteps
      <4>6. win[u].at = "copy" => win[u].step = 1
        BY <4>1, <4>4, <4>5 DEF InRange
      <4> QED
        BY <3>2, <4>3, <4>4, <4>6 DEF MovePlaces
    <3> QED
      BY <1>2, <3>1, <3>2 DEF KeepsOff, MovePlaces
  <2> QED
    BY <1>3, <1>4, <2>4, <2>5, QuietStep DEF LookHere
<1>5. MoveCore'
  <2>1. InRange(d) /\ d.at # "saving" /\ d.at # "writing"
    BY <1>2 DEF InRange
  <2>2. /\ boot' \in Area \cup {Unset} /\ pin' \in Area \cup {Unset} /\ stale' \subseteq MoveWindow
        /\ lockHeld' \in MoveWindow \cup {Nobody} 
        /\ cached' \in [MoveWindow -> Area \cup {Unset}]
    BY DEF LookHere, MoveIInv, MoveCore, MoveTypes
  <2>3. moveOps' \in moveOps .. MaxMoveOps
    BY Counting DEF LookHere, MoveIInv, MoveCore
  <2> QED
    BY <1>3, <2>1, <2>2, <2>3, CoreQuiet DEF LookHere
<1> QED
  BY <1>4, <1>5 DEF MoveIInv

\* A step by which a window stops what it did, with no vault in its hands.
LEMMA IdleKeeps ==
    ASSUME MoveIInv, NEW w \in MoveWindow, NEW d, Steps(w, d), strayed \subseteq strayed',
           d.at \in IdlePlaces \ {"look here"}, d.at = "erase" => d.step = 1,
           d.met => win[w].met, d.sees = win[w].sees \/ d.sees = "loading",
           UNCHANGED <<master, stored, latest>>, Straight' => pin' = pin,
           moveOps' \in moveOps .. MaxMoveOps,
           pin' \in Area \cup {Unset}, boot' \in Area \cup {Unset},
           cached' \in [MoveWindow -> Area \cup {Unset}], stale' \subseteq MoveWindow,
           lockHeld' \in MoveWindow \cup {Nobody},
           \A u \in MoveWindow : u # w /\ lockHeld = u => lockHeld' = u,
           d.at = "saving" => NoVault /\ lockHeld' = w
    PROVE  MoveIInv'
<1>1. MoveCore'
  <2>1. d.at # "writing" /\ d.at \notin {"copy", "purge", "undo"}
    BY DEF IdlePlaces
  <2>2. d.at = "erase" => d.step \in 1 .. 2
    OBVIOUS
  <2>3. InRange(d)
    BY <2>1, <2>2 DEF InRange
  <2> QED
    BY <2>1, <2>3, CoreQuiet
<1>2. ASSUME Straight' PROVE StraightInv'
  <2>1. d.met => d.sees \notin {"none", "orphaned"}
    BY <1>2, StraightMeans DEF WindowInv, Seeing
  <2> QED
    BY <1>2, <2>1, IdleStep DEF IdlePlaces
<1> QED
  BY <1>1, <1>2 DEF MoveIInv

LEMMA LocationEventKeeps ==
    ASSUME MoveIInv, NEW w \in MoveWindow, LocationEvent(w)
    PROVE  MoveIInv'
<1>1. cached' \in [MoveWindow -> Area \cup {Unset}] /\ stale' \subseteq MoveWindow
  BY CachedTypes DEF LocationEvent, MoveIInv, MoveCore, MoveTypes
<1> QED
  BY <1>1, WindowsStay DEF LocationEvent

LEMMA AdoptKeeps ==
    ASSUME MoveIInv, NEW w \in MoveWindow, Adopt(w)
    PROVE  MoveIInv'
<1>1. MoveTypes /\ win[w] \in Doings /\ win[w].from \in Area
  BY DEF MoveIInv, MoveCore, MoveTypes, Doings
<1>2. PICK d \in Doings : Steps(w, d) /\ d.at = "closed" /\ d.met = win[w].met /\ d.sees = win[w].sees
  <2>1. Go(w, "closed") /\ "closed" \in WindowPlaces
    BY DEF Adopt, WindowPlaces
  <2> QED
    BY <1>1, <2>1, GoIsAStep
<1>3. PICK loc \in Area : boot' = loc /\ Pin(w, loc)
  BY <1>1, Areas DEF Adopt
<1>4. pin' \in Area \cup {Unset} /\ boot' \in Area \cup {Unset}
      /\ cached' \in [MoveWindow -> Area \cup {Unset}] /\ stale' \subseteq MoveWindow
  BY <1>1, <1>3, PinTypes
<1>5. ~Straight' /\ strayed \subseteq strayed'
  BY DEF Straight, Adopt
<1>6. lockHeld' \in MoveWindow \cup {Nobody} /\ moveOps' \in moveOps .. MaxMoveOps
  BY <1>1, Counting DEF Adopt, MoveTypes
<1> QED
  BY <1>2, <1>4, <1>5, <1>6, IdleKeeps DEF Adopt, IdlePlaces

LEMMA MintKeeps ==
    ASSUME MoveIInv, NEW w \in MoveWindow, Mint(w)
    PROVE  MoveIInv'
<1>1. MoveTypes /\ win[w] \in Doings
  BY DEF MoveIInv, MoveCore, MoveTypes
<1>2. PICK loc \in Area : win' = [win EXCEPT ![w].at = "minted", ![w].from = loc]
  BY DEF Mint
<1> DEFINE d == [win[w] EXCEPT !.at = "minted", !.from = loc]
<1>3. d \in Doings /\ d.at = "minted" /\ d.met = win[w].met /\ d.sees = win[w].sees
  BY <1>1 DEF Doings, WindowPlaces
<1>4. Steps(w, d)
  BY <1>1, <1>2, <1>3 DEF Steps, MoveTypes
<1>5. lockHeld' \in MoveWindow \cup {Nobody} /\ pin' \in Area \cup {Unset} /\ boot' \in Area \cup {Unset}
      /\ cached' \in [MoveWindow -> Area \cup {Unset}] /\ stale' \subseteq MoveWindow
  BY <1>1 DEF Mint, MoveTypes
<1>6. moveOps' \in moveOps .. MaxMoveOps
  BY <1>1, Counting DEF Mint
<1> QED
  BY <1>3, <1>4, <1>5, <1>6, IdleKeeps DEF Mint, IdlePlaces

LEMMA SaveCheckKeeps ==
    ASSUME MoveIInv, NEW w \in MoveWindow, SaveCheck(w)
    PROVE  MoveIInv'
<1>1. MoveTypes /\ win[w] \in Doings
  BY DEF MoveIInv, MoveCore, MoveTypes
<1>2. PICK p \in {"saving", "new"} : Go(w, p) /\ (p = "saving" => NoVault /\ lockHeld' = w)
                                     /\ (p = "new" => lockHeld' = lockHeld)
  BY DEF SaveCheck
<1>3. PICK d \in Doings : Steps(w, d) /\ d.at = p /\ d.met = win[w].met /\ d.sees = win[w].sees
  <2>1. Go(w, p) /\ p \in WindowPlaces
    BY <1>2 DEF WindowPlaces
  <2> QED
    BY <1>1, <2>1, GoIsAStep
<1>4. pin' \in Area \cup {Unset} /\ boot' \in Area \cup {Unset}
      /\ cached' \in [MoveWindow -> Area \cup {Unset}] /\ stale' \subseteq MoveWindow
  BY <1>1 DEF SaveCheck, MoveTypes
<1>5. moveOps' \in moveOps .. MaxMoveOps
  BY <1>1, Counting DEF SaveCheck
<1>6. lockHeld' \in MoveWindow \cup {Nobody} /\ \A u \in MoveWindow : u # w /\ lockHeld = u => lockHeld' = u
  BY <1>1, <1>2, MoveAssumption DEF SaveCheck, SaveLock, MoveTypes
<1> QED
  BY <1>2, <1>3, <1>4, <1>5, <1>6, IdleKeeps DEF SaveCheck, IdlePlaces

LEMMA StartEraseKeeps ==
    ASSUME MoveIInv, NEW w \in MoveWindow, StartErase(w)
    PROVE  MoveIInv'
<1>1. MoveTypes /\ win[w] \in Doings /\ 1 \in MoveSteps
  BY Orders DEF MoveIInv, MoveCore, MoveTypes, MoveSteps
<1> DEFINE d == [win[w] EXCEPT !.at = "erase", !.step = 1]
<1>3. d \in Doings /\ d.at = "erase" /\ d.met = win[w].met /\ d.sees = win[w].sees /\ d.step = 1
  BY <1>1 DEF Doings, WindowPlaces
<1>4. Steps(w, d)
  BY <1>1, <1>3 DEF Steps, StartErase, MoveTypes
<1>5. lockHeld' \in MoveWindow \cup {Nobody} /\ pin' \in Area \cup {Unset} /\ boot' \in Area \cup {Unset}
      /\ cached' \in [MoveWindow -> Area \cup {Unset}] /\ stale' \subseteq MoveWindow
  BY <1>1 DEF StartErase, MoveTypes
<1>6. moveOps' \in moveOps .. MaxMoveOps
  BY <1>1, Counting DEF StartErase
<1> QED
  BY <1>3, <1>4, <1>5, <1>6, IdleKeeps DEF StartErase, IdlePlaces

LEMMA CloseWindowKeeps ==
    ASSUME MoveIInv, NEW w \in MoveWindow, CloseWindow(w)
    PROVE  MoveIInv'
<1>1. MoveTypes
  BY DEF MoveIInv, MoveCore
<1>2. Gone \in Doings /\ Gone.at = "closed" /\ Gone.sees = "loading" /\ Gone.met = FALSE
  BY GoneTypes
<1>3. Steps(w, Gone)
  BY <1>2 DEF Steps, CloseWindow
<1>4. pin' \in Area \cup {Unset} /\ boot' \in Area \cup {Unset} /\ stale' \subseteq MoveWindow
      /\ lockHeld' \in MoveWindow \cup {Nobody}
      /\ \A u \in MoveWindow : u # w /\ lockHeld = u => lockHeld' = u
  BY <1>1 DEF CloseWindow, MoveTypes
<1>5. cached' \in [MoveWindow -> Area \cup {Unset}]
  BY <1>1, CachedTypes DEF CloseWindow
<1>6. moveOps' \in moveOps .. MaxMoveOps
  BY <1>1, Counting DEF CloseWindow
<1>7. strayed \subseteq strayed'
  BY DEF CloseWindow
<1> QED
  BY <1>2, <1>3, <1>4, <1>5, <1>6, <1>7, IdleKeeps DEF CloseWindow, IdlePlaces

\* A step of a window at work that leaves the vault where it is.
LEMMA QuietKeeps ==
    ASSUME MoveIInv, NEW w \in MoveWindow, NEW d, Steps(w, d), strayed \subseteq strayed',
           UNCHANGED <<master, stored, latest, pin>>, moveOps' \in moveOps .. MaxMoveOps,
           boot' \in Area \cup {Unset}, cached' \in [MoveWindow -> Area \cup {Unset}],
           stale' \subseteq MoveWindow, lockHeld' = lockHeld, InRange(d), d.at # "saving",
           d.at # "writing" \/ moveOps' = moveOps + 1,
           Straight' => /\ WindowInv(d)
                        /\ "unpurged" \notin strayed' => PurgedInOrder(d)
                        /\ \A u \in MoveWindow : u # w => KeepsOff(win[u], d) /\ KeepsOff(d, win[u])
    PROVE  MoveIInv'
<1>1. MoveCore'
  <2>1. lockHeld' \in MoveWindow \cup {Nobody} /\ pin' \in Area \cup {Unset}
    BY DEF MoveIInv, MoveCore, MoveTypes
  <2> QED
    BY <2>1, CoreQuiet
<1>2. ASSUME Straight' PROVE StraightInv'
  BY <1>2, QuietStep
<1> QED
  BY <1>1, <1>2 DEF MoveIInv

LEMMA RecordBootKeeps ==
    ASSUME MoveIInv, NEW w \in MoveWindow, RecordBoot(w)
    PROVE  MoveIInv'
<1>1. MoveTypes /\ win[w] \in Doings /\ win[w].at = "saved" /\ win[w].from \in Area
  BY DEF MoveIInv, MoveCore, MoveTypes, RecordBoot, At, Doings
<1>2. PICK d \in Doings : Steps(w, d) /\ d.at = "booted" /\ d.from = win[w].from
                          /\ d.met = win[w].met /\ d.sees = win[w].sees
  <2>1. Go(w, "booted") /\ "booted" \in WindowPlaces
    BY DEF RecordBoot, WindowPlaces
  <2> QED
    BY <1>1, <2>1, GoIsAStep
<1>3. ASSUME Straight'
      PROVE  /\ WindowInv(d) /\ PurgedInOrder(d)
             /\ \A u \in MoveWindow : u # w => KeepsOff(win[u], d) /\ KeepsOff(d, win[u])
  <2>1. /\ WindowInv(win[w])
        /\ \A u \in MoveWindow : u # w => KeepsOff(win[u], win[w])
    BY <1>3, StraightMeans DEF RecordBoot
  <2>2. WindowInv(d)
    BY <1>1, <1>2, <2>1 DEF WindowInv, SeesAVault, NewIsAlone, Seeing, Missed, MoveHolds, CopiesAreMade,
                            MovePlaces
  <2>3. PurgedInOrder(d)
    BY <1>2 DEF PurgedInOrder
  <2>4. \A u \in MoveWindow : u # w => KeepsOff(win[u], d) /\ KeepsOff(d, win[u])
    BY <1>1, <1>2, <2>1 DEF KeepsOff, MovePlaces, Missed
  <2> QED
    BY <2>2, <2>3, <2>4
<1>4. boot' \in Area \cup {Unset} /\ cached' \in [MoveWindow -> Area \cup {Unset}]
      /\ stale' \subseteq MoveWindow
  BY <1>1 DEF RecordBoot, MoveTypes
<1>5. moveOps' \in moveOps .. MaxMoveOps
  BY <1>1, Counting DEF RecordBoot
<1>6. InRange(d)
  BY <1>2 DEF InRange
<1> QED
  BY <1>2, <1>3, <1>4, <1>5, <1>6, QuietKeeps DEF RecordBoot

LEMMA NotBeside ==
    ASSUME NEW w \in MoveWindow, Straight', Beside(w) \subseteq strayed'
    PROVE  \A u \in MoveWindow : u # w => win[u].at \notin MovePlaces
<1>1. "beside" \notin strayed'
  BY DEF Straight
<1>2. ~(\E u \in MoveWindow \ {w} : Moving(u))
  BY <1>1 DEF Beside
<1> QED
  BY <1>2 DEF Moving, MovePlaces

LEMMA StartWriteKeeps ==
    ASSUME MoveIInv, NEW w \in MoveWindow, StartWrite(w)
    PROVE  MoveIInv'
<1>1. MoveTypes /\ win[w] \in Doings /\ win[w].at = "open" /\ Route(w) \in Area
  BY RouteIsAnArea DEF MoveIInv, MoveCore, MoveTypes, StartWrite, At
<1>2. PICK s \in Store : win' = [win EXCEPT ![w].at = "writing", ![w].from = Route(w), ![w].key = s]
  BY DEF StartWrite
<1> DEFINE d == [win[w] EXCEPT !.at = "writing", !.from = Route(w), !.key = s]
<1>3. d \in Doings /\ d.at = "writing" /\ d.from = Route(w) /\ d.met = win[w].met
      /\ d.sees = win[w].sees
  BY <1>1 DEF Doings, WindowPlaces
<1>4. Steps(w, d)
  BY <1>1, <1>2, <1>3 DEF Steps, MoveTypes
<1>5. strayed \subseteq strayed' /\ Beside(w) \subseteq strayed'
  BY DEF StartWrite
<1>6. ASSUME Straight'
      PROVE  /\ WindowInv(d) /\ PurgedInOrder(d)
             /\ \A u \in MoveWindow : u # w => KeepsOff(win[u], d) /\ KeepsOff(d, win[u])
  <2>1. WindowInv(win[w])
    BY <1>5, <1>6, StraightMeans
  <2>2. WindowInv(d)
    BY <1>1, <1>3, <2>1 DEF WindowInv, SeesAVault, NewIsAlone, Seeing, Missed, MoveHolds, CopiesAreMade,
                            MovePlaces
  <2>3. PurgedInOrder(d)
    BY <1>3 DEF PurgedInOrder
  <2>4. \A u \in MoveWindow : u # w => KeepsOff(win[u], d) /\ KeepsOff(d, win[u])
    BY <1>3, <1>5, <1>6, NotBeside DEF KeepsOff, MovePlaces
  <2> QED
    BY <2>2, <2>3, <2>4
<1>7. boot' \in Area \cup {Unset} /\ stale' \subseteq MoveWindow
  BY <1>1 DEF StartWrite, MoveTypes
<1>8. cached' \in [MoveWindow -> Area \cup {Unset}]
  BY <1>1, CachedTypes DEF StartWrite
<1>9. moveOps' \in moveOps .. MaxMoveOps /\ moveOps' = moveOps + 1
  BY <1>1, Counting DEF StartWrite
<1>10. InRange(d)
  BY <1>3 DEF InRange
<1> HIDE DEF d
<1>11. UNCHANGED <<master, stored, latest, pin>> /\ lockHeld' = lockHeld
  BY DEF StartWrite
<1> QED
  BY <1>3, <1>4, <1>5, <1>6, <1>7, <1>8, <1>9, <1>10, <1>11, QuietKeeps

LEMMA StartMoveKeeps ==
    ASSUME MoveIInv, NEW w \in MoveWindow, StartMove(w)
    PROVE  MoveIInv'
<1>1. MoveTypes /\ win[w] \in Doings /\ win[w].at = "open" /\ Route(w) \in Area /\ 1 \in MoveSteps
      /\ pin \in Area \cup {Unset}
  <2>1. MoveTypes /\ win[w] \in Doings /\ pin \in Area \cup {Unset}
    BY DEF MoveIInv, MoveCore, MoveTypes
  <2>2. win[w].at = "open"
    BY DEF StartMove, At
  <2>3. 1 \in MoveSteps
    BY Orders DEF MoveSteps
  <2> QED
    BY <2>1, <2>2, <2>3, RouteIsAnArea
<1> DEFINE d == [win[w] EXCEPT !.at = "copy", !.step = 1, !.from = Route(w), !.pinned = pin]
<1>2. d \in Doings /\ d.at = "copy" /\ d.step = 1 /\ d.from = Route(w) /\ d.pinned = pin
      /\ d.met = win[w].met /\ d.sees = win[w].sees
  BY <1>1 DEF Doings, WindowPlaces, MovePlaces
<1>3. Steps(w, d)
  BY <1>1, <1>2 DEF Steps, MoveTypes, StartMove
<1> HIDE DEF d
<1>4. strayed \subseteq strayed'
  BY DEF StartMove
<1>5. ASSUME Straight'
      PROVE  /\ WindowInv(d) /\ PurgedInOrder(d)
             /\ \A u \in MoveWindow : u # w => KeepsOff(win[u], d) /\ KeepsOff(d, win[u])
  <2>1. WindowInv(win[w]) /\ VaultInv
    BY <1>4, <1>5, StraightMeans
  <2>2. /\ \A u \in MoveWindow \ {w} : ~Moving(u) /\ win[u].at \notin {"saved", "booted", "look there", "writing"}
        /\ Route(w) = pin
    BY <1>5 DEF StartMove, Straight
  <2>3. master[pin] # Nobody /\ pin \in Area
    BY <1>1, <2>1, <2>2, Areas DEF VaultInv
  <2>4. MoveHolds(d)
    <3>1. d.pinned = d.from /\ master[d.from] # Nobody /\ pin = d.from
      BY <1>2, <2>2, <2>3
    <3>2. d.at \notin {"commit", "commit pin", "purge"} /\ ~(d.step > 1)
      BY <1>2
    <3> QED
      BY <3>1, <3>2 DEF MoveHolds
  <2>5. CopiesAreMade(d) /\ PurgedInOrder(d)
    BY <1>2, Orders DEF CopiesAreMade, PurgedInOrder
  <2>6. SeesAVault(d) => ~NoVault
    BY <1>1, <2>1 DEF WindowInv, SeesAVault
  <2>7. NewIsAlone(d) /\ Seeing(d)
    BY <1>2, <2>1 DEF WindowInv, NewIsAlone, Seeing, Missed
  <2>8. \A u \in MoveWindow : u # w => KeepsOff(win[u], d) /\ KeepsOff(d, win[u])
    BY <1>2, <2>2 DEF KeepsOff, MovePlaces, Moving, Missed
  <2> QED
    BY <2>4, <2>5, <2>6, <2>7, <2>8 DEF WindowInv
<1>6. boot' \in Area \cup {Unset} /\ stale' \subseteq MoveWindow
  BY <1>1 DEF StartMove, MoveTypes
<1>7. cached' \in [MoveWindow -> Area \cup {Unset}]
  BY <1>1, CachedTypes DEF StartMove
<1>8. moveOps' \in moveOps .. MaxMoveOps
  BY <1>1, Counting DEF StartMove
<1>9. InRange(d)
  BY <1>2 DEF InRange
<1>10. UNCHANGED <<master, stored, latest, pin>> /\ lockHeld' = lockHeld
  BY DEF StartMove
<1> QED
  BY <1>2, <1>3, <1>4, <1>5, <1>6, <1>7, <1>8, <1>9, <1>10, QuietKeeps

\* A window that gives up its move: the copies are to be undone.
LEMMA UndoStep ==
    ASSUME MoveTypes, NEW w \in MoveWindow, win' = [win EXCEPT ![w].at = "undo", ![w].step = 1]
    PROVE  \E d \in Doings : /\ Steps(w, d) /\ d.at = "undo" /\ d.step = 1 /\ d.from = win[w].from
                             /\ d.pinned = win[w].pinned /\ d.met = win[w].met
                             /\ d.sees = win[w].sees
<1> DEFINE d == [win[w] EXCEPT !.at = "undo", !.step = 1]
<1>1. win[w] \in Doings /\ 1 \in MoveSteps
  BY Orders DEF MoveTypes, MoveSteps
<1>2. d \in Doings /\ d.at = "undo" /\ d.step = 1 /\ d.from = win[w].from
      /\ d.pinned = win[w].pinned /\ d.met = win[w].met /\ d.sees = win[w].sees
  BY <1>1 DEF Doings, WindowPlaces, MovePlaces
<1>3. Steps(w, d)
  BY <1>1, <1>2 DEF Steps, MoveTypes
<1> QED
  BY <1>2, <1>3

Uncommitted(w) == win[w].at \in {"copy", "commit", "commit pin"}
LEMMA UndoKeeps ==
    ASSUME MoveIInv, NEW w \in MoveWindow, Uncommitted(w),
           win' = [win EXCEPT ![w].at = "undo", ![w].step = 1],
           UNCHANGED <<master, stored, pin, boot, cached, stale, lockHeld, latest, strayed, moveOps>>
    PROVE  MoveIInv'
<1>1. MoveTypes /\ win[w] \in Doings
  BY DEF MoveIInv, MoveCore, MoveTypes
<1>2. PICK d \in Doings : /\ Steps(w, d) /\ d.at = "undo" /\ d.step = 1 /\ d.from = win[w].from
                          /\ d.pinned = win[w].pinned /\ d.met = win[w].met /\ d.sees = win[w].sees
  BY <1>1, UndoStep
<1>3. ASSUME Straight'
      PROVE  /\ WindowInv(d) /\ PurgedInOrder(d)
             /\ \A u \in MoveWindow : u # w => KeepsOff(win[u], d) /\ KeepsOff(d, win[u])
  <2>1. /\ WindowInv(win[w])
        /\ \A u \in MoveWindow : u # w => KeepsOff(win[u], win[w]) /\ KeepsOff(win[w], win[u])
    BY <1>3, StraightMeans
  <2>2. MoveHolds(d)
    <3>1. win[w].pinned = win[w].from /\ master[win[w].from] # Nobody /\ pin = win[w].from
      BY <2>1 DEF WindowInv, MoveHolds, MovePlaces, Uncommitted
    <3> QED
      BY <1>2, <3>1 DEF MoveHolds
  <2>3. CopiesAreMade(d)
    BY <1>2 DEF CopiesAreMade
  <2>4. PurgedInOrder(d)
    BY <1>2, Orders DEF PurgedInOrder
  <2>5. SeesAVault(d) => ~NoVault
    BY <2>1 DEF WindowInv, SeesAVault, MovePlaces, Uncommitted
  <2>6. NewIsAlone(d) /\ Seeing(d)
    BY <1>2, <2>1 DEF WindowInv, NewIsAlone, Seeing, Missed, Uncommitted
  <2>7. \A u \in MoveWindow : u # w => KeepsOff(win[u], d) /\ KeepsOff(d, win[u])
    BY <1>2, <2>1 DEF KeepsOff, MovePlaces, Missed, Uncommitted
  <2> QED
    BY <2>2, <2>3, <2>4, <2>5, <2>6, <2>7 DEF WindowInv
<1>4. boot' \in Area \cup {Unset} /\ cached' \in [MoveWindow -> Area \cup {Unset}]
      /\ stale' \subseteq MoveWindow
  BY <1>1 DEF MoveTypes
<1>5. moveOps' \in moveOps .. MaxMoveOps
  BY <1>1, Counting
<1>6. InRange(d)
  BY <1>2 DEF InRange
<1> QED
  BY <1>2, <1>3, <1>4, <1>5, <1>6, QuietKeeps

LEMMA CommitKeeps ==
    ASSUME MoveIInv, NEW w \in MoveWindow, Commit(w)
    PROVE  MoveIInv'
<1>1. MoveTypes /\ win[w] \in Doings /\ win[w].at = "commit" /\ win[w].from \in Area
  BY DEF MoveIInv, MoveCore, MoveTypes, Commit, At, Doings
<1>2. CASE win' = [win EXCEPT ![w].at = "undo", ![w].step = 1] /\ UNCHANGED boot
  BY <1>1, <1>2, UndoKeeps DEF Commit, Uncommitted
<1>3. CASE boot' = Other(win[w].from) /\ Go(w, "commit pin")
  <2>1. PICK d \in Doings :
           /\ Steps(w, d) /\ d.at = "commit pin" /\ d.from = win[w].from
           /\ d.pinned = win[w].pinned /\ d.met = win[w].met /\ d.sees = win[w].sees
    <3>1. "commit pin" \in WindowPlaces
      BY DEF WindowPlaces, MovePlaces
    <3> QED
      BY <1>1, <1>3, <3>1, GoIsAStep
  <2>2. ASSUME Straight'
        PROVE  /\ WindowInv(d) /\ PurgedInOrder(d)
               /\ \A u \in MoveWindow : u # w => KeepsOff(win[u], d) /\ KeepsOff(d, win[u])
    <3>1. /\ WindowInv(win[w])
          /\ \A u \in MoveWindow : u # w => KeepsOff(win[u], win[w]) /\ KeepsOff(win[w], win[u])
      BY <2>2, StraightMeans DEF Commit
    <3>2. MoveHolds(d)
      <4>1. /\ win[w].pinned = win[w].from /\ master[win[w].from] # Nobody /\ pin = win[w].from
            /\ master[Other(win[w].from)] # Nobody
        BY <1>1, <3>1 DEF WindowInv, MoveHolds, MovePlaces
      <4> QED
        BY <2>1, <4>1 DEF MoveHolds
    <3>3. CopiesAreMade(d)
      BY <1>1, <2>1, <3>1 DEF CopiesAreMade, WindowInv
    <3>4. PurgedInOrder(d)
      BY <2>1 DEF PurgedInOrder
    <3>5. SeesAVault(d) => ~NoVault
      BY <1>1, <3>1 DEF WindowInv, SeesAVault, MovePlaces
    <3>6. NewIsAlone(d) /\ Seeing(d)
      BY <2>1, <3>1 DEF WindowInv, NewIsAlone, Seeing, Missed
    <3>7. \A u \in MoveWindow : u # w => KeepsOff(win[u], d) /\ KeepsOff(d, win[u])
      BY <1>1, <2>1, <3>1 DEF KeepsOff, MovePlaces, Missed
    <3> QED
      BY <3>2, <3>3, <3>4, <3>5, <3>6, <3>7 DEF WindowInv
  <2>3. boot' \in Area \cup {Unset}
    BY <1>1, <1>3, Areas
  <2>4. cached' \in [MoveWindow -> Area \cup {Unset}] /\ stale' \subseteq MoveWindow
    BY <1>1 DEF Commit, MoveTypes
  <2>5. moveOps' \in moveOps .. MaxMoveOps
    BY <1>1, Counting DEF Commit
  <2>6. InRange(d)
    BY <2>1 DEF InRange
  <2> QED
    BY <2>1, <2>2, <2>3, <2>4, <2>5, <2>6, QuietKeeps DEF Commit
<1> QED
  BY <1>2, <1>3 DEF Commit

-----------------------------------------------------------------------------
\* The device remembers another area, or one for the first time: one that has the vault
\* and what was last written to it, and no other window moves it.
LEMMA PinStep ==
    ASSUME MoveIInv, NEW w \in MoveWindow, NEW d, Steps(w, d), strayed \subseteq strayed', Straight',
           UNCHANGED <<master, stored, latest>>, NEW x \in Area, pin' = x,
           master[x] # Nobody, \A s \in Store : Has(x, s),
           \A u \in MoveWindow : u # w => win[u].at \notin MovePlaces /\ KeepsOff(d, win[u]),
           WindowInv(d)', PurgedInOrder(d)
    PROVE  StraightInv'
<1>1. StraightInv
  BY StraightBefore DEF MoveIInv
<1>2. /\ win'[w] = d /\ \A u \in MoveWindow : u # w => win'[u] = win[u]
  BY StepFacts DEF MoveIInv, MoveCore
<1>3. ~NoVault /\ ~NoVault'
  BY DEF NoVault
<1>4. VaultInv'
  BY <1>3, Areas DEF VaultInv, Has
<1>5. ASSUME NEW u \in MoveWindow PROVE WindowInv(win[u])'
  <2>1. PICK e : e = win'[u]
    OBVIOUS
  <2>2. WindowInv(e)'
    <3>1. CASE u = w
      BY <1>2, <2>1, <3>1
    <3>2. CASE u # w
      <4>1. WindowInv(e) /\ e.at \notin MovePlaces
        BY <1>1, <1>2, <2>1, <3>2 DEF StraightInv
      <4>2. NewIsAlone(e)' /\ Seeing(e)'
        BY <4>1 DEF WindowInv, NewIsAlone, Seeing, Missed
      <4>3. MoveHolds(e)' /\ CopiesAreMade(e)'
        BY <4>1 DEF MoveHolds, CopiesAreMade, MovePlaces
      <4> QED
        BY <1>3, <4>2, <4>3 DEF WindowInv
    <3> QED
      BY <3>1, <3>2
  <2> QED
    BY <2>1, <2>2 DEF WindowInv, SeesAVault, NewIsAlone, Seeing, Missed, MoveHolds, CopiesAreMade
<1>6. (\A u, v \in MoveWindow : u # v => KeepsOff(win[u], win[v]))'
  <2> SUFFICES ASSUME NEW u \in MoveWindow, NEW v \in MoveWindow, u # v
               PROVE  KeepsOff(win'[u], win'[v])
    BY DEF KeepsOff, Missed
  <2>1. CASE u = w
    BY <1>2, <2>1
  <2>2. CASE u # w
    BY <1>2, <2>2 DEF KeepsOff
  <2> QED
    BY <2>1, <2>2
<1>7. "unpurged" \notin strayed' => Bracketed' /\ \A u \in MoveWindow : PurgedInOrder(win[u])'
  <2>1. "unpurged" \notin strayed' => Bracketed'
    BY <1>1, StraightBefore DEF StraightInv, Bracketed
  <2>2. ASSUME NEW u \in MoveWindow PROVE PurgedInOrder(win'[u])
    <3>1. CASE u = w
      BY <1>2, <3>1
    <3>2. CASE u # w
      BY <1>2, <3>2 DEF PurgedInOrder, MovePlaces
    <3> QED
      BY <3>1, <3>2
  <2>3. ASSUME NEW u \in MoveWindow PROVE PurgedInOrder(win[u])'
    BY <2>2 DEF PurgedInOrder, Purged
  <2> QED
    BY <2>1, <2>3
<1> QED
  BY <1>4, <1>5, <1>6, <1>7 DEF StraightInv

\* ... and the rest of such a step.
LEMMA PinKeeps ==
    ASSUME MoveIInv, NEW w \in MoveWindow, NEW d, Steps(w, d), strayed \subseteq strayed',
           UNCHANGED <<master, stored, latest, lockHeld, moveOps, boot>>, NEW x \in Area, Pin(w, x),
           InRange(d), d.at \notin {"saving", "writing"},
           Straight' => /\ master[x] # Nobody /\ \A s \in Store : Has(x, s)
                        /\ \A u \in MoveWindow : u # w => win[u].at \notin MovePlaces /\ KeepsOff(d, win[u])
                        /\ WindowInv(d)' /\ PurgedInOrder(d)
    PROVE  MoveIInv'
<1>1. MoveTypes
  BY DEF MoveIInv, MoveCore
<1>2. pin' = x /\ cached' \in [MoveWindow -> Area \cup {Unset}] /\ stale' \subseteq MoveWindow
  BY <1>1, PinTypes
<1>3. boot' \in Area \cup {Unset} /\ lockHeld' \in MoveWindow \cup {Nobody}
      /\ pin' \in Area \cup {Unset}
  BY <1>1, <1>2 DEF MoveTypes
<1>4. moveOps' \in moveOps .. MaxMoveOps
  BY <1>1, Counting
<1>5. MoveCore'
  BY <1>2, <1>3, <1>4, CoreQuiet
<1>6. ASSUME Straight' PROVE StraightInv'
  BY <1>2, <1>6, PinStep
<1> QED
  BY <1>5, <1>6 DEF MoveIInv

\* The one area that has the protection has all that was last written.
LEMMA AloneHas ==
    ASSUME VaultInv, MoveTypes, NEW x \in Area, master[x] # Nobody, master[Other(x)] = Nobody
    PROVE  \A s \in Store : Has(x, s)
<1>1. pin = Unset \/ pin = x
  BY Areas DEF VaultInv, MoveTypes
<1> QED
  BY <1>1 DEF VaultInv

LEMMA RecordPinKeeps ==
    ASSUME MoveIInv, NEW w \in MoveWindow, RecordPin(w)
    PROVE  MoveIInv'
<1>1. MoveTypes /\ win[w] \in Doings /\ win[w].at = "booted" /\ win[w].from \in Area
  BY DEF MoveIInv, MoveCore, MoveTypes, RecordPin, At, Doings
<1>2. PICK d \in Doings : Steps(w, d) /\ d.at = "open" /\ d.from = win[w].from
                          /\ d.met = win[w].met /\ d.sees = win[w].sees
  <2>1. Go(w, "open") /\ "open" \in WindowPlaces
    BY DEF RecordPin, WindowPlaces
  <2> QED
    BY <1>1, <2>1, GoIsAStep
<1>3. PICK x \in Area : x = win[w].from
  BY <1>1
<1>4. strayed \subseteq strayed' /\ Beside(w) \subseteq strayed'
  BY DEF RecordPin
<1>5. ASSUME Straight'
      PROVE  /\ master[x] # Nobody /\ \A s \in Store : Has(x, s)
             /\ \A u \in MoveWindow : u # w => win[u].at \notin MovePlaces /\ KeepsOff(d, win[u])
             /\ WindowInv(d)' /\ PurgedInOrder(d)
  <2>1. WindowInv(win[w]) /\ VaultInv
    BY <1>4, <1>5, StraightMeans
  <2>2. master[x] # Nobody /\ master[Other(x)] = Nobody
    BY <1>1, <1>3, <2>1 DEF WindowInv, NewIsAlone
  <2>3. \A s \in Store : Has(x, s)
    BY <1>1, <2>1, <2>2, AloneHas
  <2>4. \A u \in MoveWindow : u # w => win[u].at \notin MovePlaces /\ KeepsOff(d, win[u])
    BY <1>2, <1>4, <1>5, NotBeside DEF KeepsOff, MovePlaces
  <2>5. ~NoVault'
    BY <2>2 DEF NoVault, RecordPin
  <2>6. Seeing(d)' /\ NewIsAlone(d)'
    BY <1>2, <2>1 DEF WindowInv, Seeing, NewIsAlone, Missed
  <2>7. MoveHolds(d)' /\ CopiesAreMade(d)' /\ PurgedInOrder(d)
    BY <1>2 DEF MoveHolds, CopiesAreMade, MovePlaces, PurgedInOrder
  <2> QED
    BY <2>2, <2>3, <2>4, <2>5, <2>6, <2>7 DEF WindowInv
<1>6. InRange(d)
  BY <1>2 DEF InRange
<1> QED
  BY <1>2, <1>3, <1>4, <1>5, <1>6, PinKeeps DEF RecordPin

\* The move is committed: the device looks in the other area.
Pinned(w) ==
    /\ At(w, "commit pin") /\ Pin(w, Other(win[w].from))
    /\ win' = [win EXCEPT ![w].at = "purge", ![w].step = 1]
    /\ UNCHANGED <<master, stored, boot, lockHeld, latest, strayed, moveOps>>
LEMMA PinnedKeeps ==
    ASSUME MoveIInv, NEW w \in MoveWindow, Pinned(w)
    PROVE  MoveIInv'
<1>1. MoveTypes /\ win[w] \in Doings /\ win[w].at = "commit pin" /\ win[w].from \in Area
  BY DEF MoveIInv, MoveCore, MoveTypes, Pinned, At, Doings
<1>2. 1 \in MoveSteps /\ "purge" \in WindowPlaces
  BY Orders DEF MoveSteps, WindowPlaces, MovePlaces
<1>3. PICK d : d = [win[w] EXCEPT !.at = "purge", !.step = 1]
  OBVIOUS
<1>4. d \in Doings /\ d.at = "purge" /\ d.step = 1 /\ d.from = win[w].from
      /\ d.pinned = win[w].pinned /\ d.met = win[w].met /\ d.sees = win[w].sees
  BY <1>1, <1>2, <1>3 DEF Doings
<1>5. Steps(w, d)
  BY <1>1, <1>3, <1>4 DEF Steps, Pinned, MoveTypes
<1>6. PICK x \in Area : x = Other(win[w].from)
  BY <1>1, Areas
<1>7. ASSUME Straight'
      PROVE  /\ master[x] # Nobody /\ \A s \in Store : Has(x, s)
             /\ \A u \in MoveWindow : u # w => win[u].at \notin MovePlaces /\ KeepsOff(d, win[u])
             /\ WindowInv(d)' /\ PurgedInOrder(d)
  <2>1. /\ WindowInv(win[w])
        /\ \A u \in MoveWindow : u # w => KeepsOff(win[w], win[u])
    BY <1>7, StraightMeans DEF Pinned
  <2>2. /\ master[x] # Nobody /\ master[win[w].from] # Nobody /\ win[w].pinned = win[w].from
    BY <1>1, <1>6, <2>1 DEF WindowInv, MoveHolds, MovePlaces
  <2>3. \A s \in Store : Has(x, s)
    BY <1>1, <1>6, <2>1, Orders DEF WindowInv, CopiesAreMade
  <2>4. \A u \in MoveWindow : u # w => win[u].at \notin MovePlaces /\ KeepsOff(d, win[u])
    BY <1>1, <1>4, <2>1 DEF KeepsOff, MovePlaces, Missed
  <2>5. ~NoVault'
    BY <2>2 DEF NoVault, Pinned
  <2>6. Seeing(d)' /\ NewIsAlone(d)'
    BY <1>4, <2>1 DEF WindowInv, Seeing, NewIsAlone, Missed
  <2>7. pin' = x /\ master' = master
    BY <1>6 DEF Pinned, Pin
  <2>8. MoveHolds(d)'
    BY <1>4, <1>6, <2>2, <2>7 DEF MoveHolds
  <2>9. CopiesAreMade(d)' /\ PurgedInOrder(d)
    BY <1>4, Orders DEF CopiesAreMade, PurgedInOrder
  <2> QED
    BY <2>2, <2>3, <2>4, <2>5, <2>6, <2>8, <2>9 DEF WindowInv
<1>8. InRange(d)
  BY <1>4 DEF InRange
<1>9. Pin(w, x)
  BY <1>6 DEF Pinned
<1> QED
  BY <1>4, <1>5, <1>7, <1>8, <1>9, PinKeeps DEF Pinned

LEMMA CommitPinKeeps ==
    ASSUME MoveIInv, NEW w \in MoveWindow, CommitPin(w)
    PROVE  MoveIInv'
<1>1. CASE /\ Pin(w, Other(win[w].from))
           /\ win' = [win EXCEPT ![w].at = "purge", ![w].step = 1]
  BY <1>1, PinnedKeeps DEF CommitPin, Pinned
<1>2. CASE /\ win' = [win EXCEPT ![w].at = "undo", ![w].step = 1]
           /\ UNCHANGED <<pin, cached, stale>>
  BY <1>2, UndoKeeps DEF CommitPin, At, Uncommitted
<1> QED
  BY <1>1, <1>2 DEF CommitPin

LEMMA LookThereKeeps ==
    ASSUME MoveIInv, NEW w \in MoveWindow, LookThere(w)
    PROVE  MoveIInv'
<1> DEFINE here == win[w].sawHere
           there == master[Other(win[w].from)]
<1>1. MoveTypes /\ win[w] \in Doings /\ win[w].at = "look there" /\ win[w].from \in Area
  BY DEF MoveIInv, MoveCore, MoveTypes, LookThere, At, Doings
<1>2. PICK v \in {"none", "ready", "orphaned", "elsewhere", "ambiguous"} :
         v = Verdict(here, there, win[w].pinned)
  BY DEF Verdict
<1>3. /\ v = "ready" => here # Nobody
      /\ v \in {"none", "orphaned"} => here = Nobody /\ there = Nobody
  BY <1>2 DEF Verdict
<1>4. PICK p \in {"new", "open", "orphaned", "elsewhere"} :
         p = CASE v = "none" -> "new" [] v = "ready" -> "open" [] v = "orphaned" -> "orphaned"
               [] OTHER -> "elsewhere"
  OBVIOUS
<1>5. p = "open" => v = "ready"
  BY <1>4
<1>6. PICK d : d = [win[w] EXCEPT !.at = p, !.sees = v]
  OBVIOUS
<1>7. d \in Doings /\ d.at = p /\ d.sees = v /\ d.from = win[w].from /\ d.met = win[w].met
  <2>1. p \in WindowPlaces
    BY DEF WindowPlaces
  <2> QED
    BY <1>1, <1>6, <2>1 DEF Doings
<1>8. Steps(w, d)
  <2>1. win' = [win EXCEPT ![w].at = p, ![w].sees = v]
    BY <1>2, <1>4 DEF LookThere
  <2> QED
    BY <1>1, <1>6, <1>7, <2>1 DEF Steps, MoveTypes
<1>9. strayed \subseteq strayed' /\ InRange(d)
  BY <1>7 DEF LookThere, InRange
<1>10. ASSUME Straight'
       PROVE  /\ SeesAVault(d) => ~NoVault
              /\ NewIsAlone(d) /\ Seeing(d) /\ d.at \notin MovePlaces
  <2>1. WindowInv(win[w])
    BY <1>9, <1>10, StraightMeans
  <2>2. here # Nobody => ~NoVault
    BY <1>1, <2>1 DEF WindowInv, SeesAVault
  <2>3. SeesAVault(d) => ~NoVault
    BY <1>3, <1>5, <1>7, <2>2 DEF SeesAVault, MovePlaces
  <2>4. d.met => d.sees \notin {"none", "orphaned"}
    BY <1>1, <1>3, <1>7, <2>1 DEF WindowInv, Seeing, Missed
  <2> QED
    BY <1>7, <2>3, <2>4 DEF Seeing, Missed, NewIsAlone, MovePlaces
<1>11. CASE v = "ready" /\ there = Nobody /\ win[w].pinned = Unset
  <2>1. PICK x \in Area : x = win[w].from
    BY <1>1
  <2>2. Pin(w, x) /\ strayed' = strayed \cup Beside(w)
    BY <1>2, <1>11, <2>1 DEF LookThere
  <2>3. ASSUME Straight'
        PROVE  /\ master[x] # Nobody /\ \A s \in Store : Has(x, s)
               /\ \A u \in MoveWindow : u # w => win[u].at \notin MovePlaces /\ KeepsOff(d, win[u])
               /\ WindowInv(d)' /\ PurgedInOrder(d)
    <3>1. WindowInv(win[w]) /\ VaultInv
      BY <1>9, <2>3, StraightMeans
    <3>2. ~NoVault
      BY <1>1, <1>3, <1>11, <3>1 DEF WindowInv, SeesAVault
    <3>3. master[x] # Nobody /\ master[Other(x)] = Nobody
      BY <1>11, <2>1, <3>2, Areas DEF NoVault
    <3>4. \A s \in Store : Has(x, s)
      BY <1>1, <3>1, <3>3, AloneHas
    <3>5. \A u \in MoveWindow : u # w => win[u].at \notin MovePlaces /\ KeepsOff(d, win[u])
      BY <1>10, <2>2, <2>3, NotBeside DEF KeepsOff
    <3>6. ~NoVault'
      BY <3>3 DEF NoVault, LookThere
    <3>7. Seeing(d)' /\ NewIsAlone(d)'
      BY <1>7, <1>10, <2>3 DEF Seeing, NewIsAlone, Missed
    <3>8. MoveHolds(d)' /\ CopiesAreMade(d)' /\ PurgedInOrder(d)
      BY <1>7 DEF MoveHolds, CopiesAreMade, MovePlaces, PurgedInOrder
    <3> QED
      BY <3>3, <3>4, <3>5, <3>6, <3>7, <3>8 DEF WindowInv
  <2> QED
    BY <1>7, <1>8, <1>9, <2>2, <2>3, PinKeeps DEF LookThere
<1>12. CASE ~(v = "ready" /\ there = Nobody /\ win[w].pinned = Unset)
  <2>1. UNCHANGED <<pin, cached, stale, strayed>>
    BY <1>2, <1>12 DEF LookThere
  <2>2. ASSUME Straight'
        PROVE  /\ WindowInv(d) /\ PurgedInOrder(d)
               /\ \A u \in MoveWindow : u # w => KeepsOff(win[u], d) /\ KeepsOff(d, win[u])
    <3>1. WindowInv(d) /\ PurgedInOrder(d)
      BY <1>7, <1>10, <2>2 DEF WindowInv, MoveHolds, CopiesAreMade, MovePlaces, PurgedInOrder
    <3>2. \A u \in MoveWindow : u # w => KeepsOff(win[u], d) /\ KeepsOff(d, win[u])
      BY <1>7 DEF KeepsOff, MovePlaces, Missed
    <3> QED
      BY <3>1, <3>2
  <2>3. boot' \in Area \cup {Unset} /\ cached' \in [MoveWindow -> Area \cup {Unset}]
        /\ stale' \subseteq MoveWindow
    BY <1>1, <2>1 DEF MoveTypes, LookThere
  <2>4. moveOps' \in moveOps .. MaxMoveOps
    BY <1>1, Counting DEF LookThere
  <2> QED
    BY <1>7, <1>8, <1>9, <2>1, <2>2, <2>3, <2>4, QuietKeeps DEF LookThere
<1> QED
  BY <1>11, <1>12

-----------------------------------------------------------------------------
\* A step on a device without a vault: nobody is at work in one.
LEMMA NoVaultStep ==
    ASSUME MoveIInv, NEW w \in MoveWindow, NEW d, Steps(w, d), strayed \subseteq strayed', Straight',
           NoVault, \A s \in Store : latest'[s] = Absent, pin' = Unset,
           d.at \notin MovePlaces, ~Missed(d), WindowInv(d)', "unpurged" \notin strayed' => Bracketed'
    PROVE  StraightInv'
<1>1. StraightInv
  BY StraightBefore DEF MoveIInv
<1>2. /\ win'[w] = d /\ \A u \in MoveWindow : u # w => win'[u] = win[u]
  BY StepFacts DEF MoveIInv, MoveCore
<1>3. VaultInv'
  <2>1. \A a \in Area, s \in Store : Has(a, s)'
    BY DEF Has
  <2> QED
    BY <2>1 DEF VaultInv
<1>4. ASSUME NEW u \in MoveWindow, u # w
      PROVE  ~SeesAVault(win[u]) /\ WindowInv(win[u])
  BY <1>1, <1>4 DEF StraightInv, WindowInv
<1>5. ASSUME NEW u \in MoveWindow
      PROVE  win'[u].at \notin MovePlaces /\ ~Missed(win'[u])
  <2>1. CASE u = w
    BY <1>2, <2>1
  <2>2. CASE u # w
    BY <1>2, <1>4, <2>2 DEF SeesAVault, Missed
  <2> QED
    BY <2>1, <2>2
<1>6. ASSUME NEW u \in MoveWindow PROVE WindowInv(win[u])'
  <2>1. PICK e : e = win'[u]
    OBVIOUS
  <2>2. WindowInv(e)'
    <3>1. CASE u = w
      BY <1>2, <2>1, <3>1
    <3>2. CASE u # w
      <4>1. ~SeesAVault(e) /\ WindowInv(e)
        BY <1>2, <1>4, <2>1, <3>2
      <4>2. ~SeesAVault(e)'
        BY <4>1 DEF SeesAVault
      <4>3. NewIsAlone(e)' /\ MoveHolds(e)' /\ CopiesAreMade(e)'
        BY <4>1 DEF SeesAVault, NewIsAlone, MoveHolds, CopiesAreMade, MovePlaces
      <4>4. Seeing(e)'
        BY <4>1 DEF WindowInv, SeesAVault, Seeing, Missed
      <4> QED
        BY <4>2, <4>3, <4>4 DEF WindowInv
    <3> QED
      BY <3>1, <3>2
  <2> QED
    BY <2>1, <2>2 DEF WindowInv, SeesAVault, NewIsAlone, Seeing, Missed, MoveHolds, CopiesAreMade
<1>7. (\A u, v \in MoveWindow : u # v => KeepsOff(win[u], win[v]))'
  BY <1>5 DEF KeepsOff
<1>8. ASSUME NEW u \in MoveWindow PROVE PurgedInOrder(win[u])'
  BY <1>5 DEF PurgedInOrder, MovePlaces
<1> QED
  BY <1>3, <1>6, <1>7, <1>8 DEF StraightInv

LEMMA SaveWriteKeeps ==
    ASSUME MoveIInv, NEW w \in MoveWindow, SaveWrite(w)
    PROVE  MoveIInv'
<1>1. MoveTypes /\ win[w] \in Doings /\ win[w].at = "saving" /\ win[w].from \in Area
  BY DEF MoveIInv, MoveCore, MoveTypes, SaveWrite, At, Doings
<1>2. lockHeld = w /\ NoVault
  BY <1>1 DEF MoveIInv, MoveCore, SavingIsLocked
<1>3. PICK d \in Doings : Steps(w, d) /\ d.at = "saved" /\ d.from = win[w].from
                          /\ d.met = win[w].met /\ d.sees = win[w].sees
  <2>1. Go(w, "saved") /\ "saved" \in WindowPlaces
    BY DEF SaveWrite, WindowPlaces
  <2> QED
    BY <1>1, <2>1, GoIsAStep
<1>4. PICK x \in Area : x = win[w].from
  BY <1>1
<1>5. /\ master' \in [Area -> Owners] /\ master'[x] = w /\ w # Nobody
      /\ \A a \in Area : a # x => master'[a] = Nobody
  BY <1>1, <1>2, <1>4, MoveAssumption DEF SaveWrite, MoveTypes, Owners, NoVault
<1>6. MoveCore'
  <2>1. OneVault'
    BY <1>5 DEF OneVault
  <2>2. stored' \in [Area -> [Store -> Versions \cup {Absent, Remnant}]]
        /\ latest' \in [Store -> Versions \cup {Absent}]
    BY <1>1 DEF MoveTypes, SaveWrite
  <2>3. boot' \in Area \cup {Unset} /\ pin' \in Area \cup {Unset} /\ stale' \subseteq MoveWindow
        /\ cached' \in [MoveWindow -> Area \cup {Unset}]
    BY <1>1 DEF MoveTypes, SaveWrite
  <2>4. lockHeld' \in MoveWindow \cup {Nobody} /\ \A u \in MoveWindow : u # w => lockHeld # u
    BY <1>2 DEF SaveWrite
  <2>5. moveOps' \in moveOps .. MaxMoveOps
    BY <1>1, Counting DEF SaveWrite
  <2>6. InRange(d)
    BY <1>3 DEF InRange
  <2>7. \A s \in Store : latest'[s] \in {latest[s], Absent}
    BY DEF SaveWrite
  <2> QED
    BY <1>1, <1>3, <1>5, <2>1, <2>2, <2>3, <2>4, <2>5, <2>6, <2>7, CoreStays
<1>7. ASSUME Straight' PROVE StraightInv'
  <2>1. strayed \subseteq strayed'
    BY DEF SaveWrite
  <2>2. WindowInv(win[w]) /\ VaultInv /\ ("unpurged" \notin strayed' => Bracketed)
    BY <1>7, <2>1, StraightMeans
  <2>3. pin' = Unset /\ \A s \in Store : latest'[s] = Absent
    BY <1>1, <1>2, <2>2 DEF VaultInv, NoVault, SaveWrite, MoveTypes
  <2>4. ~NoVault' /\ NewIsAlone(d)'
    BY <1>3, <1>4, <1>5, Areas DEF NoVault, NewIsAlone
  <2>5. Seeing(d)' /\ ~Missed(d)
    BY <1>3, <2>2 DEF WindowInv, Seeing, Missed
  <2>6. MoveHolds(d)' /\ CopiesAreMade(d)' /\ d.at \notin MovePlaces
    BY <1>3 DEF MoveHolds, CopiesAreMade, MovePlaces
  <2>7. "unpurged" \notin strayed' => Bracketed'
    BY <1>2, <2>2 DEF Bracketed, NoVault, SaveWrite
  <2> QED
    BY <1>2, <1>3, <1>7, <2>1, <2>3, <2>4, <2>5, <2>6, <2>7, NoVaultStep DEF WindowInv
<1> QED
  BY <1>6, <1>7 DEF MoveIInv

LEMMA EraseKeeps ==
    ASSUME MoveIInv, NEW w \in MoveWindow, Erase(w)
    PROVE  MoveIInv'
<1> DEFINE a == EraseOrder[win[w].step]
<1>1. MoveTypes /\ win[w] \in Doings /\ win[w].at = "erase" /\ win[w].step \in 1 .. 2
  BY DEF MoveIInv, MoveCore, MoveTypes, Erase, At, StepsAreInRange, InRange
<1>2. EraseOrder[win[w].step] \in Area
  BY <1>1 DEF EraseOrder, Area
<1>3. PICK d \in Doings :
         /\ Steps(w, d) /\ d.at \in {"erase", "closed"} /\ d.met = win[w].met /\ d.sees = win[w].sees
         /\ d.at = "erase" => d.step = 2 /\ UNCHANGED <<pin, cached, stale>>
         /\ d.at = "closed" => Pin(w, Unset)
  <2>1. CASE win[w].step < 2
    <3>1. PICK d : d = [win[w] EXCEPT !.step = 2]
      OBVIOUS
    <3>2. 2 \in MoveSteps
      BY Orders DEF MoveSteps
    <3>3. d \in Doings /\ d.at = "erase" /\ d.step = 2 /\ d.met = win[w].met /\ d.sees = win[w].sees
      BY <1>1, <3>1, <3>2 DEF Doings
    <3>4. Steps(w, d) /\ UNCHANGED <<pin, cached, stale>>
      BY <2>1, <3>1, <3>3 DEF Steps, Erase
    <3> QED
      BY <3>3, <3>4
  <2>2. CASE ~(win[w].step < 2)
    <3>1. Go(w, "closed") /\ Pin(w, Unset) /\ "closed" \in WindowPlaces
      BY <2>2 DEF Erase, WindowPlaces
    <3>2. PICK d \in Doings : /\ Steps(w, d) /\ d.at = "closed" /\ d.met = win[w].met
                              /\ d.sees = win[w].sees
      BY <1>1, <3>1, GoIsAStep
    <3> QED
      BY <3>1, <3>2
  <2> QED
    BY <2>1, <2>2
<1>4. /\ master' = [master EXCEPT ![a] = Nobody]
      /\ stored' = [stored EXCEPT ![a] = [s \in Store |-> Absent]]
      /\ latest' = [s \in Store |-> Absent]
      /\ strayed' = IF NoVault THEN strayed ELSE strayed \cup {"erased"}
      /\ UNCHANGED <<boot, lockHeld, moveOps>>
  BY DEF Erase
<1> HIDE DEF a
<1>5. a \in Area
  BY <1>2 DEF a
<1>6. master' \in [Area -> Owners] /\ \A b \in Area : master'[b] \in {master[b], Nobody}
  BY <1>1, <1>4, <1>5 DEF MoveTypes, Owners
<1>7. /\ stored' \in [Area -> [Store -> Versions \cup {Absent, Remnant}]]
      /\ \A b \in Area, s \in Store : stored'[b][s] \in {stored[b][s], Absent}
  BY <1>1, <1>4, <1>5 DEF MoveTypes
<1>8. pin' \in {pin, Unset} /\ cached' \in [MoveWindow -> Area \cup {Unset}] /\ stale' \subseteq MoveWindow
  BY <1>1, <1>3, PinTypes DEF MoveTypes
<1>9. MoveCore'
  <2>1. OneVault' /\ (NoVault => NoVault')
    BY <1>6 DEF OneVault, NoVault, MoveIInv, MoveCore
  <2>2. latest' \in [Store -> Versions \cup {Absent}] /\ \A s \in Store : latest'[s] \in {latest[s], Absent}
    BY <1>4
  <2>3. boot' \in Area \cup {Unset} /\ pin' \in Area \cup {Unset} /\ lockHeld' \in MoveWindow \cup {Nobody}
    BY <1>1, <1>4, <1>8 DEF MoveTypes
  <2>4. moveOps' \in moveOps .. MaxMoveOps
    BY <1>1, <1>4, Counting
  <2>5. InRange(d) /\ d.at \notin {"saving", "writing"}
    BY <1>3 DEF InRange
  <2> QED
    BY <1>3, <1>4, <1>6, <1>7, <1>8, <2>1, <2>2, <2>3, <2>4, <2>5, CoreStays
<1>10. ASSUME Straight' PROVE StraightInv'
  <2>1. strayed \subseteq strayed' /\ NoVault
    BY <1>4, <1>10 DEF Straight
  <2>2. WindowInv(win[w]) /\ VaultInv /\ ("unpurged" \notin strayed' => Bracketed)
    BY <1>10, <2>1, StraightMeans
  <2>3. pin' = Unset /\ \A s \in Store : latest'[s] = Absent
    BY <1>1, <1>4, <1>8, <2>1, <2>2 DEF VaultInv, NoVault, MoveTypes
  <2>4. ~SeesAVault(d) /\ ~SeesAVault(d)' /\ NewIsAlone(d)'
    BY <1>3 DEF SeesAVault, NewIsAlone, MovePlaces
  <2>5. Seeing(d)' /\ ~Missed(d)
    BY <1>3, <2>2 DEF WindowInv, Seeing, Missed
  <2>6. MoveHolds(d)' /\ CopiesAreMade(d)' /\ d.at \notin MovePlaces
    BY <1>3 DEF MoveHolds, CopiesAreMade, MovePlaces
  <2>7. "unpurged" \notin strayed' => Bracketed'
    BY <1>7, <2>1, <2>2, Arrays DEF Bracketed, NoVault
  <2> QED
    BY <1>3, <1>10, <2>1, <2>3, <2>4, <2>5, <2>6, <2>7, NoVaultStep DEF WindowInv
<1> QED
  BY <1>9, <1>10 DEF MoveIInv

-----------------------------------------------------------------------------
\* A step of the one window that is at work in the vault's stores or protections.
LEMMA WorkStep ==
    ASSUME NEW w \in MoveWindow, NEW d, win'[w] = d, VaultInv', ~NoVault', WindowInv(d)',
           \A u \in MoveWindow : u # w => win'[u].at \notin MovePlaces /\ NewIsAlone(win[u])'
                                          /\ Seeing(win[u])' /\ KeepsOff(d, win'[u]),
           "unpurged" \notin strayed' => Bracketed' /\ PurgedInOrder(d)'
    PROVE  StraightInv'
<1>1. ASSUME NEW u \in MoveWindow PROVE WindowInv(win[u])'
  <2>1. CASE u = w
    BY <2>1 DEF WindowInv, SeesAVault, NewIsAlone, Seeing, Missed, MoveHolds, CopiesAreMade
  <2>2. CASE u # w
    <3>1. MoveHolds(win[u])' /\ CopiesAreMade(win[u])'
      BY <2>2 DEF MoveHolds, CopiesAreMade, MovePlaces
    <3> QED
      BY <2>2, <3>1 DEF WindowInv
  <2> QED
    BY <2>1, <2>2
<1>2. (\A u, v \in MoveWindow : u # v => KeepsOff(win[u], win[v]))'
  <2> SUFFICES ASSUME NEW u \in MoveWindow, NEW v \in MoveWindow, u # v
               PROVE  KeepsOff(win'[u], win'[v])
    BY DEF KeepsOff, Missed
  <2>1. CASE u = w
    BY <2>1
  <2>2. CASE u # w
    BY <2>2 DEF KeepsOff
  <2> QED
    BY <2>1, <2>2
<1>3. ASSUME NEW u \in MoveWindow, "unpurged" \notin strayed' PROVE PurgedInOrder(win[u])'
  <2>1. CASE u = w
    BY <1>3, <2>1 DEF PurgedInOrder, Purged
  <2>2. CASE u # w
    BY <2>2 DEF PurgedInOrder, MovePlaces
  <2> QED
    BY <2>1, <2>2
<1> QED
  BY <1>1, <1>2, <1>3 DEF StraightInv

LEMMA FinishWriteKeeps ==
    ASSUME MoveIInv, NEW w \in MoveWindow, FinishWrite(w)
    PROVE  MoveIInv'
<1>1. MoveTypes /\ win[w] \in Doings /\ win[w].at = "writing" /\ win[w].from \in Area
      /\ win[w].key \in Store
  BY DEF MoveIInv, MoveCore, MoveTypes, FinishWrite, At, Doings
<1>2. PICK d \in Doings : Steps(w, d) /\ d.at = "open" /\ d.from = win[w].from
                          /\ d.met = win[w].met /\ d.sees = win[w].sees
  <2>1. Go(w, "open") /\ "open" \in WindowPlaces
    BY DEF FinishWrite, WindowPlaces
  <2> QED
    BY <1>1, <2>1, GoIsAStep
<1>3. PICK x \in Area, s \in Store : x = win[w].from /\ s = win[w].key
  BY <1>1
<1>4. PICK n : n = latest[s].ver + 1
  OBVIOUS
<1>5. /\ stored' = [stored EXCEPT ![x][s] = Sealed(n)] /\ latest' = [latest EXCEPT ![s] = Sealed(n)]
      /\ strayed' = strayed \cup (IF x # pin THEN {"stale"} ELSE {})
      /\ UNCHANGED <<master, pin, boot, cached, stale, lockHeld, moveOps>>
  BY <1>3, <1>4 DEF FinishWrite
<1>6. /\ win' \in [MoveWindow -> Doings] /\ win'[w] = d
      /\ \A u \in MoveWindow : u # w => win'[u] = win[u]
  BY <1>1, <1>2, StepFacts
<1>7. /\ Cardinality(Writers) \in Nat /\ Cardinality(Writers') \in Nat
      /\ Cardinality(Writers') + 1 <= Cardinality(Writers)
  BY <1>1, <1>2, WritersCount
<1>8. moveOps \in Nat /\ moveOps \in 0 .. MaxMoveOps /\ MaxMoveOps \in Nat
  BY <1>1, MoveAssumption DEF MoveTypes
<1>9. n \in 1 .. MaxMoveOps + 1 /\ n + Cardinality(Writers') <= moveOps + 1
  <2>1. latest[s].ver \in Nat /\ latest[s].ver + Cardinality(Writers) <= moveOps + 1
    BY <1>1, VersionNumbers DEF MoveIInv, MoveCore, VersionsAreCounted
  <2> QED
    BY <1>4, <1>7, <1>8, <2>1
<1>10. Sealed(n) \in Versions
  BY <1>9 DEF Versions
<1>11. /\ stored' \in [Area -> [Store -> Versions \cup {Absent, Remnant}]]
       /\ \A a \in Area, r \in Store : stored'[a][r] = IF a = x /\ r = s THEN Sealed(n) ELSE stored[a][r]
  BY <1>1, <1>5, <1>10 DEF MoveTypes
<1>12. /\ latest' \in [Store -> Versions \cup {Absent}] /\ latest'[s] = Sealed(n)
       /\ \A r \in Store : r # s => latest'[r] = latest[r]
  BY <1>1, <1>5, <1>10 DEF MoveTypes
<1>13. MoveCore'
  <2>1. MoveTypes'
    BY <1>1, <1>5, <1>6, <1>11, <1>12 DEF MoveTypes
  <2>2. StepsAreInRange'
    BY <1>2, <1>6 DEF MoveIInv, MoveCore, StepsAreInRange, InRange
  <2>3. VersionsAreCounted'
    <3> SUFFICES ASSUME NEW r \in Store PROVE latest'[r].ver + Cardinality(Writers') <= moveOps + 1
      BY <1>5 DEF VersionsAreCounted
    <3>1. CASE r = s
      BY <1>9, <1>12, <3>1, Arrays
    <3>2. CASE r # s
      <4>1. latest'[r].ver = latest[r].ver
        BY <1>12, <3>2
      <4>2. latest[r].ver \in Nat /\ latest[r].ver + Cardinality(Writers) <= moveOps + 1
        BY <1>1, VersionNumbers DEF MoveIInv, MoveCore, VersionsAreCounted
      <4> QED
        BY <1>7, <1>8, <4>1, <4>2
    <3> QED
      BY <3>1, <3>2
  <2>4. SavingIsLocked' /\ OneVault'
    BY <1>2, <1>5, <1>6 DEF MoveIInv, MoveCore, SavingIsLocked, OneVault, NoVault
  <2> QED
    BY <2>1, <2>2, <2>3, <2>4 DEF MoveCore
<1>14. ASSUME Straight' PROVE StraightInv'
  <2>1. strayed \subseteq strayed' /\ x = pin
    BY <1>5, <1>14 DEF Straight
  <2>2. WindowInv(win[w]) /\ VaultInv /\ ("unpurged" \notin strayed' => Bracketed)
    BY <1>14, <2>1, StraightMeans
  <2>3. master[x] # Nobody /\ ~NoVault /\ ~NoVault'
    BY <1>3, <1>5, <2>1, <2>2, Areas DEF VaultInv, NoVault
  <2>4. VaultInv'
    <3>1. ASSUME NEW r \in Store PROVE Has(x, r)'
      BY <1>11, <1>12, <2>1, <2>2, Areas DEF VaultInv, Has
    <3> QED
      BY <1>5, <2>1, <2>3, <3>1, Areas DEF VaultInv
  <2>5. WindowInv(d)'
    <3>1. Seeing(d)' /\ NewIsAlone(d)'
      BY <1>2, <2>2 DEF WindowInv, Seeing, Missed, NewIsAlone
    <3>2. MoveHolds(d)' /\ CopiesAreMade(d)'
      BY <1>2 DEF MoveHolds, CopiesAreMade, MovePlaces
    <3> QED
      BY <2>3, <3>1, <3>2 DEF WindowInv
  <2>6. ASSUME NEW u \in MoveWindow, u # w
        PROVE  win'[u].at \notin MovePlaces /\ NewIsAlone(win[u])' /\ Seeing(win[u])'
               /\ KeepsOff(d, win'[u])
    <3>1. WindowInv(win[u]) /\ KeepsOff(win[u], win[w]) /\ win'[u] = win[u]
      BY <1>6, <1>14, <2>1, <2>6, StraightMeans
    <3> QED
      BY <1>1, <1>2, <1>5, <3>1 DEF WindowInv, NewIsAlone, Seeing, Missed, KeepsOff, MovePlaces
  <2>7. "unpurged" \notin strayed' => Bracketed' /\ PurgedInOrder(d)'
    BY <1>2, <1>5, <1>11, <2>2, <2>3 DEF Bracketed, PurgedInOrder
  <2> QED
    BY <1>6, <2>3, <2>4, <2>5, <2>6, <2>7, WorkStep
<1> QED
  BY <1>13, <1>14 DEF MoveIInv

LEMMA AdvancedStep ==
    ASSUME MoveTypes, NEW w \in MoveWindow, NEW order, Len(order) = Len(StoreKey) + 1,
           NEW after \in WindowPlaces
    PROVE  \E d \in Doings :
              /\ d = Advanced(w, order, after) /\ d.from = win[w].from /\ d.pinned = win[w].pinned
              /\ d.met = win[w].met /\ d.sees = win[w].sees
              /\ win[w].step = Len(StoreKey) + 1 => d.at = after /\ d.step = 1
              /\ win[w].step # Len(StoreKey) + 1 => d.at = win[w].at /\ d.step = win[w].step + 1
<1>1. win[w] \in Doings /\ 1 \in MoveSteps /\ win[w].step \in MoveSteps
  BY Orders DEF MoveTypes, MoveSteps, Doings
<1>2. CASE win[w].step = Len(StoreKey) + 1
  <2>1. PICK d : d = [win[w] EXCEPT !.at = after, !.step = 1]
    OBVIOUS
  <2>2. d = Advanced(w, order, after)
    BY <1>2, <2>1 DEF Advanced
  <2> QED
    BY <1>1, <1>2, <2>1, <2>2 DEF Doings
<1>3. CASE win[w].step # Len(StoreKey) + 1
  <2>1. PICK d : d = [win[w] EXCEPT !.step = @ + 1]
    OBVIOUS
  <2>2. d = Advanced(w, order, after)
    BY <1>3, <2>1 DEF Advanced
  <2>3. win[w].step + 1 \in MoveSteps
    BY <1>1, <1>3, Orders DEF MoveSteps
  <2> QED
    BY <1>1, <1>3, <2>1, <2>2, <2>3 DEF Doings
<1> QED
  BY <1>2, <1>3

\* One key of the area that is given up goes, or stays: after a move, or as it is undone.
LEMMA PurgeKeeps ==
    ASSUME MoveIInv, NEW w \in MoveWindow, win[w].at \in {"purge", "undo"},
           NextStep(w, PurgeOrder, "open"),
           \/ PurgeKey(PurgeOrder[win[w].step], Purged(win[w])) /\ UNCHANGED strayed
           \/ strayed' = strayed \cup {"unpurged"} /\ UNCHANGED <<master, stored>>,
           UNCHANGED <<boot, lockHeld, latest, moveOps>>, pin' \in Area \cup {Unset},
           Straight' => pin' = pin,
           cached' \in [MoveWindow -> Area \cup {Unset}], stale' \subseteq MoveWindow
    PROVE  MoveIInv'
<1>1. MoveTypes /\ win[w] \in Doings /\ win[w].from \in Area /\ win[w].step \in Nat
      /\ win[w].step >= 1 /\ win[w].step <= Len(StoreKey) + 1
  <2>1. MoveTypes /\ win[w] \in Doings /\ InRange(win[w])
    BY DEF MoveIInv, MoveCore, MoveTypes, StepsAreInRange
  <2>2. win[w].from \in Area /\ win[w].step \in MoveSteps
    BY <2>1 DEF Doings
  <2> QED
    BY <2>1, <2>2, Orders DEF MoveSteps, InRange
<1>2. PICK k : k = win[w].step
  OBVIOUS
<1>3. PICK x \in Area : x = Purged(win[w])
  BY <1>1, Areas DEF Purged
<1>4. PICK d \in Doings :
         /\ d = Advanced(w, PurgeOrder, "open") /\ d.from = win[w].from /\ d.pinned = win[w].pinned
         /\ d.met = win[w].met /\ d.sees = win[w].sees
         /\ k = Len(StoreKey) + 1 => d.at = "open" /\ d.step = 1
         /\ k # Len(StoreKey) + 1 => d.at = win[w].at /\ d.step = k + 1
  <2>1. "open" \in WindowPlaces /\ Len(PurgeOrder) = Len(StoreKey) + 1
    BY Orders DEF WindowPlaces
  <2> QED
    BY <1>1, <1>2, <2>1, AdvancedStep
<1>5. Steps(w, d)
  BY <1>4 DEF Steps, NextStep
<1>6. /\ win'[w] = d /\ \A u \in MoveWindow : u # w => win'[u] = win[u]
  BY <1>1, <1>5, StepFacts
<1>7. /\ strayed \subseteq strayed'
      /\ \/ UNCHANGED <<master, stored>> /\ "unpurged" \in strayed'
         \/ /\ k <= Len(StoreKey) /\ UNCHANGED master
            /\ stored' = [stored EXCEPT ![x][StoreKey[k]] = Absent]
         \/ /\ k = Len(StoreKey) + 1 /\ UNCHANGED stored
            /\ master' = [master EXCEPT ![x] = Nobody]
  <2>1. ASSUME PurgeKey(PurgeOrder[win[w].step], Purged(win[w])), UNCHANGED strayed
        PROVE  \/ /\ k <= Len(StoreKey) /\ UNCHANGED master
                  /\ stored' = [stored EXCEPT ![x][StoreKey[k]] = Absent]
               \/ /\ k = Len(StoreKey) + 1 /\ UNCHANGED stored
                  /\ master' = [master EXCEPT ![x] = Nobody]
    <3>1. CASE k = Len(StoreKey) + 1
      <4>1. PurgeOrder[k] = Master
        BY <3>1, Orders
      <4> QED
        BY <1>2, <1>3, <2>1, <3>1, <4>1 DEF PurgeKey
    <3>2. CASE k # Len(StoreKey) + 1
      <4>1. k \in 1 .. Len(StoreKey)
        BY <1>1, <1>2, <3>2, Orders
      <4>2. PurgeOrder[k] = StoreKey[k] /\ StoreKey[k] # Master
        BY <4>1, Orders
      <4> QED
        BY <1>2, <1>3, <2>1, <4>1, <4>2 DEF PurgeKey
    <3> QED
      BY <3>1, <3>2
  <2> QED
    BY <2>1
<1>8. k \in 1 .. Len(StoreKey) + 1 /\ (k # Len(StoreKey) + 1 => k \in 1 .. Len(StoreKey) /\ StoreKey[k] \in Store)
  BY <1>1, <1>2, Orders
<1>9. /\ master' \in [Area -> Owners] /\ \A b \in Area : master'[b] \in {master[b], Nobody}
      /\ master'[Other(x)] = master[Other(x)]
      /\ master' # master => k = Len(StoreKey) + 1
  BY <1>1, <1>3, <1>7, Areas DEF MoveTypes, Owners
<1>10. /\ stored' \in [Area -> [Store -> Versions \cup {Absent, Remnant}]]
       /\ \A b \in Area, s \in Store : stored'[b][s] \in {stored[b][s], Absent}
       /\ stored'[Other(x)] = stored[Other(x)]
  <2>1. CASE UNCHANGED stored
    BY <1>1, <2>1 DEF MoveTypes
  <2>2. CASE k <= Len(StoreKey) /\ stored' = [stored EXCEPT ![x][StoreKey[k]] = Absent]
    <3>1. StoreKey[k] \in Store
      BY <1>8, <2>2, Orders
    <3> QED
      BY <1>1, <1>3, <2>2, <3>1, Areas DEF MoveTypes
  <2> QED
    BY <1>7, <2>1, <2>2
<1>11. MoveCore'
  <2>1. OneVault' /\ (NoVault => NoVault')
    BY <1>9 DEF OneVault, NoVault, MoveIInv, MoveCore
  <2>2. latest' \in [Store -> Versions \cup {Absent}] /\ \A s \in Store : latest'[s] \in {latest[s], Absent}
    BY <1>1 DEF MoveTypes
  <2>3. boot' \in Area \cup {Unset} /\ lockHeld' \in MoveWindow \cup {Nobody}
    BY <1>1 DEF MoveTypes
  <2>4. moveOps' \in moveOps .. MaxMoveOps
    BY <1>1, Counting
  <2>5. InRange(d) /\ d.at \notin {"saving", "writing"}
    <3>1. d.at \in {"open", "purge", "undo"}
      BY <1>4
    <3>2. d.step >= 1
      BY <1>1, <1>2, <1>4
    <3> QED
      BY <3>1, <3>2 DEF InRange
  <2> QED
    BY <1>5, <1>9, <1>10, <2>1, <2>2, <2>3, <2>4, <2>5, CoreStays
<1>12. ASSUME Straight' PROVE StraightInv'
  <2>1. /\ WindowInv(win[w]) /\ VaultInv
        /\ "unpurged" \notin strayed' => Bracketed /\ PurgedInOrder(win[w])
        /\ \A u \in MoveWindow : u # w => KeepsOff(win[w], win[u])
    BY <1>7, <1>12, StraightMeans
  <2>2. /\ pin = Other(x) /\ pin \in Area /\ master[pin] # Nobody /\ master[win[w].from] # Nobody
        /\ win[w].pinned = win[w].from
        /\ win[w].at = "purge" => pin = Other(win[w].from) /\ x = win[w].from
        /\ win[w].at = "undo" => pin = win[w].from /\ x = Other(win[w].from)
    BY <1>1, <1>3, <2>1, Areas DEF WindowInv, MoveHolds, Purged, MovePlaces
  <2>3. pin' = pin /\ master'[pin] = master[pin] /\ stored'[pin] = stored[pin] /\ ~NoVault'
    BY <1>9, <1>10, <1>12, <2>2 DEF NoVault
  <2>4. VaultInv'
    <3>1. \A s \in Store : Has(pin, s)'
      BY <2>1, <2>2, <2>3, Areas DEF VaultInv, Has
    <3> QED
      BY <2>2, <2>3, <3>1, Areas DEF VaultInv
  <2>5. WindowInv(d)'
    <3>1. Seeing(d)' /\ NewIsAlone(d)' /\ CopiesAreMade(d)'
      BY <1>4, <2>1 DEF WindowInv, Seeing, Missed, NewIsAlone, CopiesAreMade
    <3>2. CASE k = Len(StoreKey) + 1
      BY <1>4, <2>3, <3>1, <3>2 DEF WindowInv, MoveHolds, MovePlaces
    <3>3. CASE k # Len(StoreKey) + 1
      <4>1. master' = master /\ d.at = win[w].at
        BY <1>4, <1>9, <3>3
      <4>2. d.pinned = d.from /\ master'[d.from] # Nobody
        BY <1>4, <2>2, <4>1
      <4>3. pin' = (IF d.at = "purge" THEN Other(d.from) ELSE d.from)
        BY <1>4, <2>2, <2>3, <4>1
      <4>4. d.at = "purge" => master'[Other(d.from)] # Nobody
        BY <1>4, <2>2, <4>1
      <4>5. MoveHolds(d)'
        BY <4>1, <4>2, <4>3, <4>4 DEF MoveHolds
      <4> QED
        BY <2>3, <3>1, <4>5 DEF WindowInv
    <3> QED
      BY <3>2, <3>3
  <2>6. ASSUME NEW u \in MoveWindow, u # w
        PROVE  win'[u].at \notin MovePlaces /\ NewIsAlone(win[u])' /\ Seeing(win[u])'
               /\ KeepsOff(d, win'[u])
    <3>1. WindowInv(win[u]) /\ KeepsOff(win[w], win[u]) /\ win'[u] = win[u] /\ win[u] \in Doings
      BY <1>6, <1>7, <1>12, <2>6, StraightMeans
    <3>2. win[u].at \notin MovePlaces \cup {"saved", "booted", "writing"}
      BY <3>1 DEF KeepsOff, MovePlaces
    <3>3. Missed(win[u]) => win[w].at = "undo" /\ win[w].from = Other(win[u].from)
      BY <3>1 DEF KeepsOff, MovePlaces
    <3>4. NewIsAlone(win[u])'
      BY <3>1, <3>2 DEF NewIsAlone
    <3>5. Seeing(win[u])'
      BY <2>2, <2>3, <3>1, <3>3 DEF WindowInv, Seeing, Missed
    <3>6. KeepsOff(d, win'[u])
      BY <1>4, <3>1, <3>2, <3>3 DEF KeepsOff, MovePlaces
    <3> QED
      BY <3>1, <3>2, <3>4, <3>5, <3>6
  <2>7. ASSUME "unpurged" \notin strayed' PROVE Bracketed' /\ PurgedInOrder(d)'
    <3>1. Bracketed /\ PurgedInOrder(win[w])
      BY <2>1, <2>7
    <3>2. CASE k = Len(StoreKey) + 1
      <4>1. stored' = stored /\ master' = [master EXCEPT ![x] = Nobody]
        BY <1>1, <1>2, <1>7, <2>7, <3>2
      <4>2. \A s \in Store : stored[x][s].kind # "array"
        <5>1. \A i \in 1 .. Len(StoreKey) : stored[x][StoreKey[i]].kind # "array"
          BY <1>2, <1>3, <3>1, <3>2, Orders DEF PurgedInOrder
        <5> QED
          BY <5>1, Orders
      <4>3. Bracketed'
        BY <1>1, <1>3, <3>1, <4>1, <4>2 DEF Bracketed, MoveTypes
      <4> QED
        BY <1>4, <3>2, <4>3 DEF PurgedInOrder
    <3>3. CASE k # Len(StoreKey) + 1
      <4>1. master' = master /\ stored' = [stored EXCEPT ![x][StoreKey[k]] = Absent]
        BY <1>7, <2>7, <3>3
      <4>2. Bracketed'
        BY <1>10, <3>1, <4>1, Arrays DEF Bracketed
      <4>3. stored'[x][StoreKey[k]] = Absent
        BY <1>1, <1>3, <1>8, <3>3, <4>1 DEF MoveTypes
      <4>4. Purged(d) = x /\ d.step = k + 1
        BY <1>3, <1>4, <3>3 DEF Purged
      <4>5. ASSUME NEW i \in 1 .. Len(StoreKey), i < d.step, d.at \in {"purge", "undo"}
            PROVE  stored'[x][StoreKey[i]].kind # "array"
        <5>1. CASE i = k
          BY <4>3, <5>1, Arrays
        <5>2. CASE i # k
          <6>1. i < win[w].step
            BY <1>1, <1>2, <4>4, <4>5, <5>2, Orders
          <6>2. stored[x][StoreKey[i]].kind # "array"
            BY <1>3, <3>1, <4>5, <6>1 DEF PurgedInOrder
          <6> QED
            BY <1>3, <1>10, <6>2, Orders, Arrays
        <5> QED
          BY <5>1, <5>2
      <4>6. PurgedInOrder(d)'
        BY <4>4, <4>5 DEF PurgedInOrder, Purged
      <4> QED
        BY <4>2, <4>6
    <3> QED
      BY <3>2, <3>3
  <2> QED
    BY <1>6, <2>3, <2>4, <2>5, <2>6, <2>7, WorkStep
<1> QED
  BY <1>11, <1>12 DEF MoveIInv

LEMMA PurgeStepKeeps ==
    ASSUME MoveIInv, NEW w \in MoveWindow, Purge(w)
    PROVE  MoveIInv'
<1>1. win[w].at = "purge" /\ Purged(win[w]) = win[w].from
  BY DEF Purge, At, Purged
<1>2. pin' \in Area \cup {Unset} /\ cached' \in [MoveWindow -> Area \cup {Unset}]
      /\ stale' \subseteq MoveWindow
  BY DEF MoveIInv, MoveCore, MoveTypes, Purge
<1> QED
  BY <1>1, <1>2, PurgeKeeps DEF Purge

LEMMA UndoStepKeeps ==
    ASSUME MoveIInv, NEW w \in MoveWindow, Undo(w)
    PROVE  MoveIInv'
<1>1. MoveTypes /\ win[w] \in Doings /\ win[w].from \in Area /\ win[w].pinned \in Area \cup {Unset}
  BY DEF MoveIInv, MoveCore, MoveTypes, Doings
<1>2. win[w].at = "undo" /\ Purged(win[w]) = UndoneIn(w)
  BY DEF Undo, At, Purged, UndoneIn
<1>3. PICK y \in Area : y = IF win[w].pinned = Unset THEN win[w].from ELSE win[w].pinned
  BY <1>1
<1>4. \/ Pin(w, y)
      \/ cached' = [cached EXCEPT ![w] = Unset] /\ UNCHANGED <<pin, stale>>
      \/ UNCHANGED <<pin, cached, stale>>
  BY <1>3 DEF Undo, PinBack
<1>5. pin' \in {y, pin} /\ pin' \in Area \cup {Unset} /\ stale' \subseteq MoveWindow
      /\ cached' \in [MoveWindow -> Area \cup {Unset}]
  <2>1. CASE Pin(w, y)
    BY <1>1, <2>1, PinTypes
  <2>2. CASE UNCHANGED <<pin, cached, stale>>
    BY <1>1, <2>2 DEF MoveTypes
  <2>3. CASE cached' = [cached EXCEPT ![w] = Unset] /\ UNCHANGED <<pin, stale>>
    BY <1>1, <2>3 DEF MoveTypes
  <2> QED
    BY <1>4, <2>1, <2>2, <2>3
<1>6. Straight' => pin' = pin
  <2> SUFFICES ASSUME Straight' PROVE pin' = pin
    OBVIOUS
  <2>1. strayed \subseteq strayed'
    BY DEF Undo
  <2>2. win[w].pinned = win[w].from /\ pin = win[w].from
    BY <1>2, <2>1, StraightMeans DEF WindowInv, MoveHolds, MovePlaces
  <2> QED
    BY <1>1, <1>3, <1>5, <2>2
<1> QED
  BY <1>2, <1>5, <1>6, PurgeKeeps DEF Undo

\* The master protection is copied first, and who has read the destination has missed it.
LEMMA CopyMasterKeeps ==
    ASSUME MoveIInv, NEW w \in MoveWindow, win[w].at = "copy", win[w].step = 1,
           CopyKey(Master, win[w].from, Other(win[w].from)),
           win' = [u \in MoveWindow |->
                     IF u = w THEN Advanced(w, CopyOrder, "commit")
                     ELSE IF ReadTooEarly(u, w) THEN [win[u] EXCEPT !.met = FALSE]
                     ELSE win[u]],
           UNCHANGED <<pin, boot, cached, stale, lockHeld, latest, strayed, moveOps>>
    PROVE  MoveIInv'
<1>1. MoveTypes /\ win[w] \in Doings /\ win[w].from \in Area
  BY DEF MoveIInv, MoveCore, MoveTypes, Doings
<1>2. PICK x \in Area : x = Other(win[w].from)
  BY <1>1, Areas
<1>3. PICK d \in Doings :
         /\ d = Advanced(w, CopyOrder, "commit") /\ d.from = win[w].from /\ d.pinned = win[w].pinned
         /\ d.met = win[w].met /\ d.sees = win[w].sees /\ d.at = "copy" /\ d.step = 2
  <2>1. "commit" \in WindowPlaces /\ Len(CopyOrder) = Len(StoreKey) + 1 /\ Len(StoreKey) + 1 # 1
    BY Orders DEF WindowPlaces, MovePlaces
  <2> QED
    BY <1>1, <2>1, AdvancedStep
<1>4. win'[w] = d
  BY <1>3
<1>5. ASSUME NEW u \in MoveWindow, u # w
      PROVE  /\ win'[u] \in Doings /\ win'[u].at = win[u].at /\ win'[u].step = win[u].step
             /\ win'[u].from = win[u].from /\ win'[u].sees = win[u].sees
             /\ win'[u].sawHere = win[u].sawHere
             /\ win'[u].met => win[u].met /\ ~ReadTooEarly(u, w)
  <2>1. win[u] \in Doings
    BY <1>1 DEF MoveTypes
  <2>2. CASE ReadTooEarly(u, w)
    <3>1. PICK e : e = [win[u] EXCEPT !.met = FALSE]
      OBVIOUS
    <3>2. win'[u] = e
      BY <1>5, <2>2, <3>1
    <3>3. e \in Doings /\ e.at = win[u].at /\ e.step = win[u].step /\ e.from = win[u].from
          /\ e.sees = win[u].sees /\ e.sawHere = win[u].sawHere
      BY <2>1, <3>1 DEF Doings
    <3>4. ~e.met
      BY <2>1, <3>1 DEF Doings
    <3> QED
      BY <3>2, <3>3, <3>4
  <2>3. CASE ~ReadTooEarly(u, w)
    <3>1. win'[u] = win[u]
      BY <1>5, <2>3
    <3> QED
      BY <2>1, <2>3, <3>1
  <2> QED
    BY <2>2, <2>3
<1>6. win' \in [MoveWindow -> Doings]
  <2>1. \A u \in MoveWindow : win'[u] \in Doings
    BY <1>3, <1>4, <1>5
  <2> QED
    BY <2>1
<1>7. /\ UNCHANGED stored
      /\ master' = [master EXCEPT ![x] = IF master[win[w].from] = Nobody THEN @ ELSE master[win[w].from]]
  BY <1>2 DEF CopyKey
<1>8. /\ master' \in [Area -> Owners]
      /\ \A a \in Area : a # x => master'[a] = master[a]
      /\ master'[x] = IF master[win[w].from] = Nobody THEN master[x] ELSE master[win[w].from]
  BY <1>1, <1>2, <1>7 DEF MoveTypes
<1>9. MoveCore'
  <2>1. MoveTypes'
    BY <1>1, <1>6, <1>7, <1>8 DEF MoveTypes
  <2>2. StepsAreInRange'
    BY <1>3, <1>4, <1>5 DEF MoveIInv, MoveCore, StepsAreInRange, InRange
  <2>3. VersionsAreCounted'
    <3>1. Writers' = Writers
      BY <1>3, <1>4, <1>5 DEF Writers
    <3> QED
      BY <3>1 DEF MoveIInv, MoveCore, VersionsAreCounted
  <2>4. NoVault => NoVault'
    BY <1>1, <1>2, <1>8 DEF NoVault
  <2>5. SavingIsLocked'
    BY <1>3, <1>4, <1>5, <2>4 DEF MoveIInv, MoveCore, SavingIsLocked
  <2>6. OneVault'
    BY <1>1, <1>2, <1>8, Areas DEF MoveIInv, MoveCore, OneVault
  <2> QED
    BY <2>1, <2>2, <2>3, <2>5, <2>6 DEF MoveCore
<1>10. ASSUME Straight' PROVE StraightInv'
  <2>1. /\ WindowInv(win[w]) /\ VaultInv
        /\ "unpurged" \notin strayed' => Bracketed
    BY <1>10, StraightMeans
  <2>2. /\ pin = win[w].from /\ win[w].pinned = win[w].from /\ master[win[w].from] # Nobody
    BY <2>1 DEF WindowInv, MoveHolds, MovePlaces
  <2>3. master'[x] # Nobody /\ master'[win[w].from] # Nobody /\ ~NoVault'
    BY <1>1, <1>2, <1>8, <2>2, Areas DEF NoVault
  <2>4. VaultInv'
    <3>1. \A s \in Store : Has(pin, s)'
      BY <1>1, <1>7, <2>1, <2>2, Areas DEF VaultInv, Has
    <3> QED
      BY <1>1, <2>2, <2>3, <3>1, Areas DEF VaultInv
  <2>5. WindowInv(d)'
    <3>1. Seeing(d)' /\ NewIsAlone(d)'
      BY <1>3, <2>1 DEF WindowInv, Seeing, Missed, NewIsAlone
    <3>2. CopiesAreMade(d)'
      <4>1. \A i \in 1 .. Len(StoreKey) : ~(i + 1 < d.step)
        BY <1>3, Orders
      <4> QED
        BY <1>3, <4>1 DEF CopiesAreMade
    <3>3. d.at # "purge" /\ d.pinned = d.from /\ pin' = d.from /\ master'[d.from] # Nobody
          /\ master'[Other(d.from)] # Nobody
      BY <1>2, <1>3, <2>2, <2>3
    <3>4. MoveHolds(d)'
      BY <3>3 DEF MoveHolds
    <3> QED
      BY <2>3, <3>1, <3>2, <3>4 DEF WindowInv
  <2>6. ASSUME NEW u \in MoveWindow, u # w
        PROVE  win'[u].at \notin MovePlaces /\ NewIsAlone(win[u])' /\ Seeing(win[u])'
               /\ KeepsOff(d, win'[u])
    <3>1. WindowInv(win[u]) /\ KeepsOff(win[w], win[u])
      BY <1>10, <2>6, StraightMeans
    <3>2. win'[u].at \notin MovePlaces \cup {"saved", "booted", "writing"}
      BY <1>5, <2>6, <3>1 DEF KeepsOff, MovePlaces
    <3>3. ~Missed(win'[u])
      <4> SUFFICES ASSUME Missed(win'[u]) PROVE FALSE
        OBVIOUS
      <4>1. Missed(win[u]) /\ ~ReadTooEarly(u, w) /\ win[u] \in Doings
        BY <1>1, <1>5, <2>6 DEF Missed, MoveTypes
      <4>2. win[w].from = Other(win[u].from) /\ win[u].from \in Area
        BY <3>1, <4>1 DEF KeepsOff, MovePlaces, Doings
      <4>3. win[u].from = Other(win[w].from)
        BY <4>2, Areas
      <4> QED
        BY <4>1, <4>3 DEF Missed, ReadTooEarly, At
    <3>4. NewIsAlone(win[u])'
      BY <3>2 DEF NewIsAlone
    <3>5. Seeing(win[u])'
      BY <1>5, <2>6, <3>1, <3>3 DEF WindowInv, Seeing, Missed
    <3>6. KeepsOff(d, win'[u])
      BY <3>2, <3>3 DEF KeepsOff
    <3> QED
      BY <3>2, <3>4, <3>5, <3>6
  <2>7. "unpurged" \notin strayed' => Bracketed' /\ PurgedInOrder(d)'
    BY <1>2, <1>3, <1>7, <1>8, <2>1, <2>3 DEF Bracketed, PurgedInOrder
  <2> QED
    BY <1>4, <2>3, <2>4, <2>5, <2>6, <2>7, WorkStep
<1> QED
  BY <1>9, <1>10 DEF MoveIInv

LEMMA Indices ==
    ASSUME NEW n \in Nat, NEW j \in 1 .. n, NEW i \in 1 .. n
    PROVE  (i + 1 < j + 2 => i \in 1 .. j) /\ (i \in 1 .. j /\ i # j => i + 1 < j + 1)
  OBVIOUS

\* A store is copied: the destination then has what was last written to it.
LEMMA CopyStoreKeeps ==
    ASSUME MoveIInv, NEW w \in MoveWindow, win[w].at = "copy", NEW j \in 1 .. Len(StoreKey),
           win[w].step = j + 1, CopyKey(StoreKey[j], win[w].from, Other(win[w].from)),
           win' = [win EXCEPT ![w] = Advanced(w, CopyOrder, "commit")],
           UNCHANGED <<pin, boot, cached, stale, lockHeld, latest, strayed, moveOps>>
    PROVE  MoveIInv'
<1>1. MoveTypes /\ win[w] \in Doings /\ win[w].from \in Area
  BY DEF MoveIInv, MoveCore, MoveTypes, Doings
<1>2. PICK x \in Area, y \in Area, s \in Store :
         y = win[w].from /\ x = Other(y) /\ y = Other(x) /\ y # x /\ s = StoreKey[j] /\ s # Master
  BY <1>1, Areas, Orders
<1>3. j \in Nat /\ j >= 1 /\ j <= Len(StoreKey) /\ Len(StoreKey) \in Nat
  BY Orders
<1>4. PICK d \in Doings :
         /\ d = Advanced(w, CopyOrder, "commit") /\ d.from = y /\ d.pinned = win[w].pinned
         /\ d.met = win[w].met /\ d.sees = win[w].sees
         /\ \/ j = Len(StoreKey) /\ d.at = "commit" /\ d.step = 1
            \/ j # Len(StoreKey) /\ d.at = "copy" /\ d.step = j + 2
  <2>1. "commit" \in WindowPlaces /\ Len(CopyOrder) = Len(StoreKey) + 1
    BY Orders DEF WindowPlaces, MovePlaces
  <2>2. PICK d \in Doings :
         /\ d = Advanced(w, CopyOrder, "commit") /\ d.from = win[w].from /\ d.pinned = win[w].pinned
         /\ d.met = win[w].met /\ d.sees = win[w].sees
         /\ win[w].step = Len(StoreKey) + 1 => d.at = "commit" /\ d.step = 1
         /\ win[w].step # Len(StoreKey) + 1 => d.at = win[w].at /\ d.step = win[w].step + 1
    BY <1>1, <2>1, AdvancedStep
  <2>3. CASE j = Len(StoreKey)
    BY <1>2, <2>2, <2>3
  <2>4. CASE j # Len(StoreKey)
    <3>1. win[w].step # Len(StoreKey) + 1 /\ win[w].step + 1 = j + 2
      BY <1>3, <2>4
    <3> QED
      BY <1>2, <2>2, <2>4, <3>1
  <2> QED
    BY <2>3, <2>4
<1>5. Steps(w, d)
  BY <1>4 DEF Steps
<1>6. win'[w] = d /\ \A u \in MoveWindow : u # w => win'[u] = win[u]
  BY <1>1, <1>5, StepFacts
<1>7. /\ UNCHANGED master
      /\ stored' = [stored EXCEPT ![x][s] = IF stored[y][s] = Absent THEN @ ELSE stored[y][s]]
  BY <1>2 DEF CopyKey
<1>8. /\ stored' \in [Area -> [Store -> Versions \cup {Absent, Remnant}]]
      /\ stored'[y] = stored[y] /\ \A r \in Store : r # s => stored'[x][r] = stored[x][r]
      /\ stored'[x][s] = IF stored[y][s] = Absent THEN stored[x][s] ELSE stored[y][s]
  <2>1. PICK c : c = IF stored[y][s] = Absent THEN stored[x][s] ELSE stored[y][s]
    OBVIOUS
  <2>2. c \in Versions \cup {Absent, Remnant}
    BY <1>1, <2>1 DEF MoveTypes
  <2>3. stored' = [stored EXCEPT ![x][s] = c]
    BY <1>7, <2>1
  <2>4. stored \in [Area -> [Store -> Versions \cup {Absent, Remnant}]]
    BY <1>1 DEF MoveTypes
  <2>5. stored' \in [Area -> [Store -> Versions \cup {Absent, Remnant}]]
    BY <2>2, <2>3, <2>4
  <2>6. stored'[y] = stored[y] /\ stored'[x][s] = c
        /\ \A r \in Store : r # s => stored'[x][r] = stored[x][r]
    BY <1>2, <2>3, <2>4
  <2> QED
    BY <2>1, <2>5, <2>6
<1>9. MoveCore'
  <2>1. OneVault' /\ (NoVault => NoVault')
    BY <1>7 DEF OneVault, NoVault, MoveIInv, MoveCore
  <2>2. /\ latest' \in [Store -> Versions \cup {Absent}] /\ master' \in [Area -> Owners]
        /\ \A r \in Store : latest'[r] \in {latest[r], Absent}
    BY <1>1, <1>7 DEF MoveTypes
  <2>3. boot' \in Area \cup {Unset} /\ pin' \in Area \cup {Unset} /\ stale' \subseteq MoveWindow
        /\ lockHeld' \in MoveWindow \cup {Nobody} /\ cached' \in [MoveWindow -> Area \cup {Unset}]
    BY <1>1 DEF MoveTypes
  <2>4. moveOps' \in moveOps .. MaxMoveOps
    BY <1>1, Counting
  <2>5. InRange(d) /\ d.at \notin {"saving", "writing"}
    <3>1. d.at \in {"copy", "commit"}
      BY <1>4
    <3>2. d.step >= 1
      BY <1>3, <1>4
    <3> QED
      BY <3>1, <3>2 DEF InRange
  <2> QED
    BY <1>5, <1>8, <2>1, <2>2, <2>3, <2>4, <2>5, CoreStays
<1>10. ASSUME Straight' PROVE StraightInv'
  <2>1. /\ WindowInv(win[w]) /\ VaultInv
        /\ "unpurged" \notin strayed' => Bracketed
    BY <1>10, StraightMeans
  <2>2. /\ pin = y /\ win[w].pinned = y /\ master[y] # Nobody
    BY <1>2, <2>1 DEF WindowInv, MoveHolds, MovePlaces
  <2>3. master[x] # Nobody
    <3>1. win[w].step > 1
      BY <1>3
    <3> QED
      BY <1>2, <2>1, <3>1 DEF WindowInv, MoveHolds, MovePlaces
  <2>4. ~NoVault'
    BY <1>7, <2>2 DEF NoVault
  <2>5. y # Unset /\ \A r \in Store : Has(y, r)
    BY <2>1, <2>2, Areas DEF VaultInv
  <2>6. VaultInv'
    <3>1. \A r \in Store : Has(y, r)'
      BY <1>8, <2>5 DEF Has
    <3> QED
      BY <1>7, <2>2, <2>4, <2>5, <3>1 DEF VaultInv
  <2>7. Has(x, s)'
    <3>1. latest[s] # Absent => stored[y][s] = latest[s]
      BY <2>5 DEF Has
    <3> QED
      BY <1>8, <3>1 DEF Has
  <2>8. CopiesAreMade(d)'
    <3> SUFFICES ASSUME NEW i \in 1 .. Len(StoreKey),
                        d.at \in {"commit", "commit pin"} \/ (d.at = "copy" /\ i + 1 < d.step)
                 PROVE  Has(x, StoreKey[i])'
      BY <1>2, <1>4 DEF CopiesAreMade, Has
    <3>1. i \in 1 .. j
      <4>1. CASE j = Len(StoreKey)
        BY <4>1
      <4>2. CASE j # Len(StoreKey)
        BY <1>3, <1>4, <4>2, Indices
      <4> QED
        BY <4>1, <4>2
    <3>2. CASE StoreKey[i] = s
      BY <2>7, <3>2 DEF Has
    <3>3. CASE StoreKey[i] # s
      <4>1. i # j
        BY <1>2, <3>3
      <4>2. i + 1 < win[w].step
        BY <1>3, <3>1, <4>1, Indices
      <4>3. Has(x, StoreKey[i])
        BY <1>2, <2>1, <4>2 DEF WindowInv, CopiesAreMade
      <4> QED
        BY <1>8, <3>3, <4>3, Orders DEF Has
    <3> QED
      BY <3>2, <3>3
  <2>9. WindowInv(d)'
    <3>1. Seeing(d)' /\ NewIsAlone(d)'
      BY <1>4, <2>1 DEF WindowInv, Seeing, Missed, NewIsAlone
    <3>2. d.at # "purge" /\ d.pinned = d.from /\ pin' = d.from /\ master'[d.from] # Nobody
          /\ master'[Other(d.from)] # Nobody
      BY <1>2, <1>4, <1>7, <2>2, <2>3
    <3>3. MoveHolds(d)'
      BY <3>2 DEF MoveHolds
    <3> QED
      BY <2>4, <2>8, <3>1, <3>3 DEF WindowInv
  <2>10. ASSUME NEW u \in MoveWindow, u # w
         PROVE  win'[u].at \notin MovePlaces /\ NewIsAlone(win[u])' /\ Seeing(win[u])'
                /\ KeepsOff(d, win'[u])
    <3>1. WindowInv(win[u]) /\ KeepsOff(win[w], win[u]) /\ win'[u] = win[u]
      BY <1>6, <1>10, <2>10, StraightMeans
    <3>2. win[w].step # 1
      BY <1>3
    <3>3. win[u].at \notin MovePlaces \cup {"saved", "booted", "writing"} /\ ~Missed(win[u])
      BY <3>1, <3>2 DEF KeepsOff, MovePlaces
    <3> QED
      BY <1>7, <3>1, <3>3 DEF WindowInv, NewIsAlone, Seeing, Missed, KeepsOff
  <2>11. "unpurged" \notin strayed' => Bracketed' /\ PurgedInOrder(d)'
    <3>1. PurgedInOrder(d)'
      BY <1>4 DEF PurgedInOrder
    <3>2. \A a \in Area : a # x => stored'[a] = stored[a]
      BY <1>2, <1>8, Areas
    <3>3. "unpurged" \notin strayed' => Bracketed'
      BY <1>7, <2>1, <2>3, <3>2 DEF Bracketed
    <3> QED
      BY <3>1, <3>3
  <2> QED
    BY <1>6, <2>4, <2>6, <2>9, <2>10, <2>11, WorkStep
<1> QED
  BY <1>9, <1>10 DEF MoveIInv

LEMMA CopyKeeps ==
    ASSUME MoveIInv, NEW w \in MoveWindow, Copy(w)
    PROVE  MoveIInv'
<1>1. MoveTypes /\ win[w] \in Doings /\ win[w].at = "copy" /\ InRange(win[w])
  BY DEF MoveIInv, MoveCore, MoveTypes, StepsAreInRange, Copy, At
<1>2. win[w].step \in Nat /\ win[w].step >= 1 /\ win[w].step <= Len(StoreKey) + 1
  BY <1>1, Orders DEF Doings, MoveSteps, InRange
<1>3. UNCHANGED <<pin, boot, cached, stale, lockHeld, latest, strayed, moveOps>>
  BY DEF Copy
<1>4. CASE win' = [win EXCEPT ![w] = RefusedCopy(w)] /\ UNCHANGED <<master, stored>>
  <2>1. win' = [win EXCEPT ![w].at = "undo", ![w].step = 1]
    BY <1>1, <1>4 DEF RefusedCopy, MoveTypes
  <2> QED
    BY <1>1, <1>3, <1>4, <2>1, UndoKeeps DEF Uncommitted
<1>5. CASE /\ CopyKey(CopyOrder[win[w].step], win[w].from, Other(win[w].from))
           /\ win' = [u \in MoveWindow |->
                       IF u = w THEN Advanced(w, CopyOrder, "commit")
                       ELSE IF ReadTooEarly(u, w) THEN [win[u] EXCEPT !.met = FALSE]
                       ELSE win[u]]
  <2>1. CASE win[w].step = 1
    BY <1>1, <1>3, <1>5, <2>1, Orders, CopyMasterKeeps
  <2>2. CASE win[w].step # 1
    <3>1. PICK j \in 1 .. Len(StoreKey) : win[w].step = j + 1
      <4>1. win[w].step - 1 \in 1 .. Len(StoreKey) /\ win[w].step = (win[w].step - 1) + 1
        BY <1>2, <2>2, Orders
      <4> QED
        BY <4>1
    <3>2. CopyOrder[win[w].step] = StoreKey[j]
      BY <3>1, Orders
    <3>3. win' = [win EXCEPT ![w] = Advanced(w, CopyOrder, "commit")]
      BY <1>1, <1>5, <2>2 DEF ReadTooEarly, MoveTypes
    <3> QED
      BY <1>1, <1>3, <1>5, <3>1, <3>2, <3>3, CopyStoreKeeps
  <2> QED
    BY <2>1, <2>2
<1> QED
  BY <1>4, <1>5 DEF Copy

LEMMA MoveInitially == MoveInit => MoveIInv
<1> SUFFICES ASSUME MoveInit PROVE MoveIInv
  OBVIOUS
<1>1. PICK old \in {Absent, Remnant, Sealed(1)} :
         /\ stored = [a \in Area |-> [s \in Store |->
                        IF a = "local" /\ s = StoreKey[1] THEN old ELSE Absent]]
         /\ master = [a \in Area |-> IF a = "local" /\ old = Sealed(1) THEN Before ELSE Nobody]
         /\ latest = [s \in Store |-> IF s = StoreKey[1] /\ old = Sealed(1) THEN old ELSE Absent]
         /\ pin \in IF old = Sealed(1) THEN {Unset, "local"} ELSE {Unset}
         /\ boot = IF old = Sealed(1) THEN "local" ELSE Unset
  BY DEF MoveInit
<1>2. /\ cached = [w \in MoveWindow |-> Unset] /\ stale = {} /\ win = [w \in MoveWindow |-> Gone]
      /\ lockHeld = Nobody /\ strayed = {} /\ moveOps = 0
  BY DEF MoveInit
<1>3. "local" \in Area /\ "sync" \in Area /\ Before # Nobody /\ "local" # Unset
  BY DEF Area, Before, Nobody, Unset
<1>4. Sealed(1) \in Versions
  BY MoveAssumption DEF Versions
<1>5. \A w \in MoveWindow : win[w] = Gone
  BY <1>2
<1>6. MoveTypes
  <2>1. master \in [Area -> Owners]
    BY <1>1 DEF Owners
  <2>2. stored \in [Area -> [Store -> Versions \cup {Absent, Remnant}]]
    BY <1>1, <1>4
  <2>3. latest \in [Store -> Versions \cup {Absent}]
    BY <1>1, <1>4
  <2>4. pin \in Area \cup {Unset} /\ boot \in Area \cup {Unset}
    BY <1>1, <1>3
  <2>5. win \in [MoveWindow -> Doings]
    BY <1>2, GoneTypes
  <2>6. moveOps \in 0 .. MaxMoveOps
    BY <1>2, MoveAssumption
  <2> QED
    BY <1>2, <2>1, <2>2, <2>3, <2>4, <2>5, <2>6 DEF MoveTypes
<1>7. StepsAreInRange /\ SavingIsLocked
  BY <1>5, GoneTypes DEF StepsAreInRange, InRange, SavingIsLocked
<1>8. VersionsAreCounted
  <2> SUFFICES ASSUME NEW s \in Store PROVE latest[s].ver + Cardinality(Writers) <= moveOps + 1
    BY DEF VersionsAreCounted
  <2>1. Writers = {}
    BY <1>5, GoneTypes DEF Writers
  <2>2. Cardinality(Writers) = 0
    BY <2>1, FS_EmptySet
  <2>3. latest[s] = Absent \/ latest[s] = Sealed(1)
    BY <1>1
  <2>4. latest[s].ver = 0 \/ latest[s].ver = 1
    BY <2>3, Arrays
  <2> QED
    BY <1>2, <2>2, <2>4
<1>9. OneVault
  BY <1>1 DEF OneVault
<1>10. VaultInv
  <2>1. CASE old = Sealed(1)
    <3>1. /\ master["local"] = Before /\ pin \in {Unset, "local"}
          /\ \A a \in Area : master[a] # Nobody => a = "local"
      BY <1>1, <1>3, <2>1
    <3>2. \A s \in Store : Has("local", s)
      BY <1>1, <1>3, <2>1 DEF Has
    <3> QED
      BY <1>3, <3>1, <3>2 DEF VaultInv, NoVault
  <2>2. CASE old # Sealed(1)
    <3>1. pin = Unset /\ \A s \in Store : latest[s] = Absent
      BY <1>1, <2>2
    <3> QED
      BY <3>1 DEF VaultInv, Has
  <2> QED
    BY <2>1, <2>2
<1>11. ASSUME NEW w \in MoveWindow
       PROVE  WindowInv(win[w]) /\ PurgedInOrder(win[w]) /\ win[w].at = "closed"
  BY <1>5, GoneTypes DEF WindowInv, SeesAVault, NewIsAlone, Seeing, Missed, MoveHolds, CopiesAreMade,
                         MovePlaces, PurgedInOrder
<1>12. \A u, w \in MoveWindow : u # w => KeepsOff(win[u], win[w])
  BY <1>11 DEF KeepsOff, MovePlaces
<1>13. Bracketed
  <2> SUFFICES ASSUME NEW a \in Area, NEW s \in Store, stored[a][s].kind = "array"
               PROVE  master[a] # Nobody
    BY DEF Bracketed
  <2>1. stored[a][s] # Absent /\ stored[a][s] # Remnant
    BY Arrays
  <2>2. a = "local" /\ old = Sealed(1)
    BY <1>1, <2>1
  <2> QED
    BY <1>1, <1>3, <2>2
<1> QED
  BY <1>6, <1>7, <1>8, <1>9, <1>10, <1>11, <1>12, <1>13 DEF MoveIInv, MoveCore, StraightInv

LEMMA MoveKeeps == MoveIInv /\ [MoveNext]_moveVars => MoveIInv'
<1> SUFFICES ASSUME MoveIInv, [MoveNext]_moveVars PROVE MoveIInv'
  OBVIOUS
<1>1. CASE UNCHANGED moveVars
  BY <1>1, WindowsStay DEF moveVars, MoveIInv, MoveCore, MoveTypes
<1>2. CASE MoveNext
  <2>1. PICK w \in MoveWindow :
           \/ LocationEvent(w) \/ Look(w) \/ LookHere(w) \/ LookThere(w) \/ Adopt(w)
           \/ Mint(w) \/ SaveCheck(w) \/ SaveWrite(w) \/ RecordBoot(w) \/ RecordPin(w)
           \/ StartWrite(w) \/ FinishWrite(w)
           \/ StartMove(w) \/ Copy(w) \/ Commit(w) \/ CommitPin(w) \/ Purge(w) \/ Undo(w)
           \/ StartErase(w) \/ Erase(w)
           \/ CloseWindow(w)
    BY <1>2 DEF MoveNext
  <2> QED
    BY <2>1, LocationEventKeeps, LookKeeps, LookHereKeeps, LookThereKeeps, AdoptKeeps, MintKeeps,
       SaveCheckKeeps, SaveWriteKeeps, RecordBootKeeps, RecordPinKeeps, StartWriteKeeps,
       FinishWriteKeeps, StartMoveKeeps, CopyKeeps, CommitKeeps, CommitPinKeeps, PurgeStepKeeps,
       UndoStepKeeps, StartEraseKeeps, EraseKeeps, CloseWindowKeeps
<1> QED
  BY <1>1, <1>2

\* Where a vault is remembered there is one: so a step that leaves it remembered keeps it.
LEMMA ProtectionStays ==
    ASSUME MoveIInv, MoveIInv', [MoveNext]_moveVars, ~NoVault, Straight'
    PROVE  ~NoVault'
<1>1. CASE UNCHANGED master
  BY <1>1 DEF NoVault
<1>2. CASE pin' # Unset
  BY <1>2, Areas DEF MoveIInv, MoveCore, MoveTypes, StraightInv, VaultInv, NoVault
<1>3. ASSUME NEW w \in MoveWindow, SaveWrite(w) PROVE FALSE
  BY <1>3 DEF SaveWrite, At, MoveIInv, MoveCore, SavingIsLocked
<1>4. ASSUME NEW w \in MoveWindow, Erase(w) PROVE FALSE
  BY <1>4 DEF Erase, Straight
<1>5. ASSUME NEW w \in MoveWindow, Copy(w) \/ Purge(w) \/ Undo(w) PROVE pin' # Unset
  <2>1. strayed \subseteq strayed' /\ win[w].at \in MovePlaces
    BY <1>5 DEF Copy, Purge, Undo, At, MovePlaces
  <2>2. MoveHolds(win[w]) /\ win[w].from \in Area
    BY <2>1, StraightMeans DEF WindowInv, Doings
  <2>3. pin \in Area /\ win[w].pinned \in Area
    BY <2>1, <2>2, Areas DEF MoveHolds
  <2>4. pin' \in Area
    BY <1>5, <2>2, <2>3, Areas DEF Copy, Purge, Undo, PinBack, Pin
  <2> QED
    BY <2>4, Areas
<1>6. CASE UNCHANGED moveVars
  BY <1>1, <1>6 DEF moveVars
<1>7. CASE MoveNext
  <2>1. PICK w \in MoveWindow :
           UNCHANGED master \/ SaveWrite(w) \/ Erase(w) \/ Copy(w) \/ Purge(w) \/ Undo(w)
    BY <1>7 DEF MoveNext, LocationEvent, Look, LookHere, LookThere, Adopt, Mint, SaveCheck, RecordBoot,
                RecordPin, StartWrite, FinishWrite, StartMove, Commit, CommitPin, StartErase, CloseWindow
  <2> QED
    BY <1>1, <1>2, <1>3, <1>4, <1>5, <2>1
<1> QED
  BY <1>6, <1>7

LEMMA MoveHolding ==
    MoveIInv => MoveTypeOK /\ OneVault /\ VaultIsSeen /\ StoresAreBracketed /\ NothingIsStranded
<1> SUFFICES ASSUME MoveIInv
             PROVE  MoveTypeOK /\ OneVault /\ VaultIsSeen /\ StoresAreBracketed /\ NothingIsStranded
  OBVIOUS
<1>1. MoveTypes /\ OneVault
  BY DEF MoveIInv, MoveCore
<1>2. MoveTypeOK
  <2>1. \A w \in MoveWindow : win[w].step \in 0 .. Len(CopyOrder)
    BY <1>1, Orders DEF MoveTypes, Doings, MoveSteps
  <2>2. \A a \in Area, s \in Store : stored[a][s] \in {Absent, Remnant} \cup Versions
    BY <1>1 DEF MoveTypes
  <2>3. master \in [Area -> MoveWindow \cup {Nobody, Before}]
    BY <1>1 DEF MoveTypes, Owners
  <2> QED
    BY <1>1, <2>1, <2>2, <2>3 DEF MoveTypeOK, MoveTypes, Versions
<1>3. VaultIsSeen
  BY DEF VaultIsSeen, MoveIInv, Straight, StraightInv, WindowInv, Seeing
<1>4. StoresAreBracketed
  <2> SUFFICES ASSUME strayed \cap {"unpurged", "beside", "stale", "adopted", "erased"} = {}
               PROVE  Bracketed
    BY DEF StoresAreBracketed, Bracketed
  <2>1. Straight /\ "unpurged" \notin strayed
    BY DEF Straight
  <2> QED
    BY <2>1 DEF MoveIInv, StraightInv
<1>5. NothingIsStranded
  <2> SUFFICES ASSUME pin # Unset, Straight PROVE \A s \in Store : Has(pin, s)
    BY DEF NothingIsStranded, Straight, Has
  <2>1. VaultInv /\ pin \in Area
    BY <1>1 DEF MoveIInv, StraightInv, MoveTypes
  <2> QED
    BY <2>1 DEF VaultInv
<1> QED
  BY <1>1, <1>2, <1>3, <1>4, <1>5

\* Whatever step a move, an onboarding or an erase is cut off at: there is one vault, every
\* window finds it, its stores lie where the device looks, and its protection stays
\* (vault-state.ts:146-230, master-protection.ts:89).
THEOREM VaultStaysKept == MoveSpec => TheVaultIsKept
<1>1. MoveInit => MoveIInv
  BY MoveInitially
<1>2. MoveIInv /\ [MoveNext]_moveVars => MoveIInv'
  BY MoveKeeps
<1>3. MoveIInv => MoveTypeOK /\ OneVault /\ VaultIsSeen /\ StoresAreBracketed /\ NothingIsStranded
  BY MoveHolding
<1>4. MoveIInv /\ MoveIInv' /\ [MoveNext]_moveVars =>
         [(~NoVault /\ strayed' \cap {"erased", "adopted", "beside", "stale"} = {})
             => ~NoVault']_moveVars
  <2> SUFFICES ASSUME MoveIInv, MoveIInv', [MoveNext]_moveVars, ~NoVault,
                      strayed' \cap {"erased", "adopted", "beside", "stale"} = {}
               PROVE  ~NoVault'
    OBVIOUS
  <2>1. Straight'
    BY DEF Straight
  <2> QED
    BY <2>1, ProtectionStays
<1> QED
  BY <1>1, <1>2, <1>3, <1>4, PTL DEF MoveSpec, TheVaultIsKept, ProtectionSurvives

-----------------------------------------------------------------------------
(* The history.  Numbers ascend in every manifest, so an append begins a    *)
(* segment of its own or adds to the head; unless two windows were in it at *)
(* once, the manifest that is being worked on is the stored one.            *)

HistPlaces == {"rest", "captured", "append", "prune", "record", "undo", "adopt", "store",
               "list keys", "sweep"}
HistTask == [at : HistPlaces, man : Seq(Refs), entry : 0 .. MaxEntries, head : SegNo,
             isNew : BOOLEAN, found : SUBSET (1 .. MaxEntries), all : SUBSET (1 .. MaxEntries),
             changed : BOOLEAN, keys : SUBSET SegNo]
Ascends(man) == \A i, j \in 1 .. Len(man) : i < j => man[i].n < man[j].n
AtWork(d) == d.at \notin {"rest", "captured", "list keys"}
Writes(d) == d.at \in {"captured", "append"}

HistTypes ==
    /\ segment \in [SegNo -> SUBSET (1 .. MaxEntries)] /\ manifest \in Seq(Refs)
    /\ entries \in 0 .. MaxEntries /\ capturing \in BOOLEAN /\ unlimited \in BOOLEAN
    /\ live \subseteq HistWindow /\ hist \in [HistWindow -> HistTask]
    /\ \A w \in HistWindow : Writes(hist[w]) => hist[w].entry # 0
ManifestsAscend == Ascends(manifest) /\ \A w \in HistWindow : Ascends(hist[w].man)
OneAtWork == ~raced => \A u, w \in HistWindow : AtWork(hist[u]) /\ AtWork(hist[w]) => u = w
AppendsAreCurrent == ~raced => \A w \in HistWindow : hist[w].at = "append" => hist[w].man = manifest
HeadIsLast ==
    \A w \in HistWindow : hist[w].at = "prune" =>
        hist[w].man # <<>> /\ HeadOf(hist[w].man).n = hist[w].head
WipersStopCapturing ==
    /\ wiped => ~capturing
    /\ \A w \in HistWindow : hist[w].at \in {"list keys", "sweep"} => ~capturing
SweepsSeeAll ==
    ~raced => \A w \in HistWindow : hist[w].at = "sweep" =>
        /\ \A u \in HistWindow : ~Writes(hist[u])
        /\ \A n \in SegNo : segment[n] # {} => n \in hist[w].keys
WipedStaysEmpty ==
    wiped /\ ~raced =>
        /\ \A u \in HistWindow : ~Writes(hist[u])
        /\ \A n \in SegNo : segment[n] = {}
HistIInv ==
    /\ HistTypes /\ ManifestsAscend /\ OneAtWork /\ AppendsAreCurrent /\ HeadIsLast
    /\ WipersStopCapturing /\ SweepsSeeAll /\ WipedStaysEmpty /\ ListingsAreComplete

LEMMA Smallest == ASSUME NEW S, S \subseteq Nat, S # {} PROVE \E i \in S : \A j \in S : i <= j
<1>1. \E i \in S : \A j \in S : ~(<<j, i>> \in OpToRel(<, Nat))
  BY NatLessThanWellFounded, WFMin
<1>2. PICK i \in S : \A j \in S : ~(j < i)
  BY <1>1 DEF OpToRel
<1> QED
  BY <1>2

\* What is sorted by number: all of it, ascending.
LEMMA SortedByNumber ==
  ASSUME NEW refs, refs \subseteq Refs, IsFiniteSet(refs),
         \A r, q \in refs : r.n = q.n => r = q
  PROVE  /\ InOrder(refs) \in Seq(Refs) /\ Ascends(InOrder(refs))
         /\ Numbers(InOrder(refs)) = {r.n : r \in refs}
<1> DEFINE N == Cardinality(refs)
           Below(r) == {q \in refs : q.n < r.n}
           rank(r) == Cardinality(Below(r))
           s == InOrder(refs)
<1>1. N \in Nat /\ \A r \in refs : r.n \in Nat
  BY FS_CardinalityType, HistAssumption DEF Refs, SegNo
<1>2. ASSUME NEW r \in refs PROVE rank(r) \in 0 .. N - 1
  <2>1. IsFiniteSet(refs \ {r}) /\ Cardinality(refs \ {r}) = N - 1
    BY FS_RemoveElement
  <2>2. Below(r) \subseteq refs \ {r}
    BY <1>1
  <2>3. IsFiniteSet(Below(r)) /\ rank(r) <= N - 1
    BY <2>1, <2>2, FS_Subset
  <2>4. rank(r) \in Nat
    BY <2>3, FS_CardinalityType
  <2> QED
    BY <1>1, <2>3, <2>4
<1>3. ASSUME NEW r \in refs, NEW q \in refs, r.n < q.n PROVE rank(r) < rank(q)
  <2>1. IsFiniteSet(Below(q))
    BY FS_Subset
  <2>2. r \in Below(q) /\ Below(r) \subseteq Below(q) \ {r}
    BY <1>1, <1>3
  <2>3. IsFiniteSet(Below(q) \ {r}) /\ Cardinality(Below(q) \ {r}) = rank(q) - 1
    BY <2>1, <2>2, FS_RemoveElement
  <2>4. rank(r) <= rank(q) - 1
    BY <2>2, <2>3, FS_Subset
  <2>5. rank(r) \in 0 .. N - 1 /\ rank(q) \in 0 .. N - 1
    BY <1>2
  <2> QED
    BY <1>1, <2>4, <2>5
<1> DEFINE f == [r \in refs |-> rank(r) + 1]
<1>4. \A r, q \in refs : rank(r) = rank(q) => r = q
  <2> SUFFICES ASSUME NEW r \in refs, NEW q \in refs, rank(r) = rank(q) PROVE r = q
    OBVIOUS
  <2>1. rank(r) \in Nat /\ rank(q) \in Nat
    BY <1>1, <1>2
  <2>2. ~(r.n < q.n) /\ ~(q.n < r.n)
    BY <1>3, <2>1
  <2> QED
    BY <1>1, <2>2
<1>5. f \in Surjection(refs, 1 .. N)
  <2> HIDE DEF rank
  <2>1. f \in [refs -> 1 .. N]
    BY <1>1, <1>2
  <2>2. \A r, q \in refs : f[r] = f[q] => r = q
    <3>1. \A r \in refs : rank(r) \in Nat
      BY <1>1, <1>2
    <3> QED
      BY <1>4, <3>1
  <2>3. f \in Injection(refs, 1 .. N)
    BY <2>1, <2>2 DEF Injection, IsInjective
  <2>4. IsFiniteSet(1 .. N) /\ Cardinality(1 .. N) = N
    BY <1>1, FS_Interval
  <2> QED
    BY <2>3, <2>4, FS_Injection
<1>6. ASSUME NEW k \in 1 .. N PROVE \E r \in refs : rank(r) = k - 1
  <2> HIDE DEF rank
  <2>1. PICK r \in refs : f[r] = k
    BY <1>5 DEF Surjection
  <2>2. rank(r) \in Nat
    BY <1>1, <1>2
  <2>3. rank(r) + 1 = k
    BY <2>1
  <2>4. rank(r) = k - 1
    BY <1>1, <2>2, <2>3
  <2> QED
    BY <2>4
<1>7. s = [k \in 1 .. N |-> CHOOSE r \in refs : rank(r) = k - 1]
  BY DEF InOrder
<1>8. \A k \in 1 .. N : s[k] \in refs /\ rank(s[k]) = k - 1
  <2> HIDE DEF rank, s
  <2> QED
    BY <1>6, <1>7
<1> HIDE DEF rank, s
<1>9. s \in [1 .. N -> Refs] /\ Len(s) = N /\ s \in Seq(Refs)
  <2>1. s \in [1 .. N -> Refs]
    BY <1>7, <1>8
  <2> QED
    BY <1>1, <2>1
<1>10. Ascends(s)
  <2> SUFFICES ASSUME NEW i \in 1 .. N, NEW j \in 1 .. N, i < j PROVE s[i].n < s[j].n
    BY <1>9 DEF Ascends
  <2>1. s[i] \in refs /\ s[j] \in refs /\ rank(s[i]) = i - 1 /\ rank(s[j]) = j - 1
    BY <1>8
  <2>2. ~(s[j].n < s[i].n)
    BY <1>1, <1>3, <2>1
  <2>3. s[i] # s[j]
    BY <1>1, <2>1
  <2>4. s[i].n \in Nat /\ s[j].n \in Nat /\ s[i].n # s[j].n
    BY <1>1, <2>1, <2>3
  <2> QED
    BY <2>2, <2>4
<1>11. \A r \in refs : \E k \in 1 .. N : s[k] = r
  <2> SUFFICES ASSUME NEW r \in refs PROVE \E k \in 1 .. N : s[k] = r
    OBVIOUS
  <2>1. rank(r) + 1 \in 1 .. N /\ rank(r) \in Nat
    BY <1>1, <1>2
  <2>2. s[rank(r) + 1] \in refs /\ rank(s[rank(r) + 1]) = rank(r)
    BY <1>8, <2>1
  <2> QED
    BY <1>4, <2>1, <2>2
<1>12. Numbers(s) = {r.n : r \in refs}
  BY <1>8, <1>9, <1>11 DEF Numbers
<1> QED
  BY <1>9, <1>10, <1>12 DEF s

\* What pruning leaves: the last ones, the head among them.
LEMMA PruningKeepsTheHead ==
  ASSUME NEW man \in Seq(Refs), Ascends(man)
  PROVE  LET remains == PrunedMan(man) IN
         /\ remains \in Seq(Refs) /\ Ascends(remains) /\ Numbers(remains) \subseteq Numbers(man)
         /\ man # <<>> => remains # <<>> /\ HeadOf(remains) = HeadOf(man)
         /\ Len(remains) > 1 => Total(remains) <= BudgetFor(unlimited)
<1>1. CASE man = <<>>
  <2>1. PrunedMan(man) = <<>>
    BY <1>1 DEF PrunedMan
  <2>2. Ascends(<<>>) /\ Numbers(<<>>) = {}
    BY DEF Ascends, Numbers
  <2>3. <<>> \in Seq(Refs) /\ Len(<<>>) = 0
    OBVIOUS
  <2>4. ~(Len(<<>>) > 1)
    BY <2>3
  <2> QED
    BY <1>1, <2>1, <2>2, <2>3, <2>4, Zenon
<1>2. CASE man # <<>>
  <2> DEFINE fits(k) == Total(SubSeq(man, k, Len(man))) <= BudgetFor(unlimited)
             Starts == {k \in 1 .. Len(man) : fits(k) \/ k = Len(man)}
             first == CHOOSE k \in 1 .. Len(man) : /\ fits(k) \/ k = Len(man)
                                                   /\ \A j \in 1 .. k - 1 : ~fits(j)
             remains == SubSeq(man, first, Len(man))
  <2>1. PrunedMan(man) = remains
    BY <1>2 DEF PrunedMan
  <2>2. Len(man) \in Nat \ {0}
    BY <1>2
  <2> HIDE DEF fits
  <2>3. PICK k \in Starts : \A j \in Starts : k <= j
    <3>1. Starts \subseteq Nat /\ Len(man) \in Starts
      BY <2>2
    <3> QED
      BY <3>1, Smallest
  <2>4. k \in 1 .. Len(man) /\ (fits(k) \/ k = Len(man)) /\ \A j \in 1 .. k - 1 : ~fits(j)
    <3> SUFFICES ASSUME NEW j \in 1 .. k - 1, fits(j) PROVE FALSE
      BY <2>3
    <3>1. j \in 1 .. Len(man) /\ ~(k <= j)
      BY <2>2, <2>3
    <3> QED
      BY <2>3, <3>1
  <2>5. first \in 1 .. Len(man) /\ (fits(first) \/ first = Len(man))
    <3> HIDE DEF first
    <3> QED
      BY <2>4 DEF first
  <2> HIDE DEF first
  <2>6. /\ remains \in Seq(Refs) /\ Len(remains) = Len(man) - first + 1
        /\ \A i \in 1 .. Len(remains) : remains[i] = man[first + i - 1] /\ first + i - 1 \in 1 .. Len(man)
    BY <2>2, <2>5
  <2>7. Ascends(remains)
    <3> SUFFICES ASSUME NEW i \in 1 .. Len(remains), NEW j \in 1 .. Len(remains), i < j
                 PROVE  remains[i].n < remains[j].n
      BY DEF Ascends
    <3>1. first + i - 1 < first + j - 1
      BY <2>2, <2>5, <2>6
    <3> QED
      BY <2>6, <3>1 DEF Ascends
  <2>8. Numbers(remains) \subseteq Numbers(man)
    BY <2>6 DEF Numbers
  <2>9. remains # <<>> /\ remains[Len(remains)] = man[Len(man)]
    <3> HIDE DEF remains
    <3>1. Len(remains) \in 1 .. Len(remains) /\ first + Len(remains) - 1 = Len(man)
      BY <2>2, <2>5, <2>6
    <3>2. remains[Len(remains)] = man[first + Len(remains) - 1]
      BY <2>6, <3>1
    <3>3. remains # <<>>
      BY <3>1
    <3> QED
      BY <3>1, <3>2, <3>3
  <2>10. Len(remains) > 1 => Total(remains) <= BudgetFor(unlimited)
    <3>1. Len(remains) > 1 => first # Len(man)
      BY <2>2, <2>5, <2>6
    <3> QED
      BY <2>5, <3>1 DEF fits
  <2> QED
    BY <2>1, <2>6, <2>7, <2>8, <2>9, <2>10 DEF HeadOf
<1> QED
  BY <1>1, <1>2

LEMMA InitHistory == ASSUME HistInit PROVE HistIInv
<1>1. <<>> \in Seq(Refs) /\ Len(<<>>) = 0 /\ 0 \in 0 .. MaxEntries /\ 0 \in SegNo
  BY HistAssumption DEF SegNo
<1>2. Resting \in HistTask
  BY <1>1 DEF Resting, HistTask, HistPlaces
<1>3. HistTypes
  BY <1>1, <1>2 DEF HistInit, HistTypes, Writes, Resting, None
<1>4. ManifestsAscend
  BY <1>1 DEF HistInit, ManifestsAscend, Ascends, Resting
<1>5. \A w \in HistWindow : hist[w].at = "rest"
  BY DEF HistInit, Resting
<1>6. ~wiped
  BY DEF HistInit
<1> QED
  BY <1>3, <1>4, <1>5, <1>6 DEF HistIInv, OneAtWork, AppendsAreCurrent, HeadIsLast, AtWork,
     WipersStopCapturing, SweepsSeeAll, WipedStaysEmpty, ListingsAreComplete, Task

\* A step of one window's task, and what it must not do to the others.
StepTypes(w) ==
    /\ hist' \in [HistWindow -> HistTask] /\ \A u \in HistWindow \ {w} : hist'[u] = hist[u]
    /\ segment' \in [SegNo -> SUBSET (1 .. MaxEntries)] /\ manifest' \in Seq(Refs)
    /\ entries' \in 0 .. MaxEntries /\ capturing' \in BOOLEAN
    /\ Writes(hist'[w]) => hist'[w].entry # 0
    /\ UNCHANGED <<unlimited, live>>
StepAscends(w) ==
    /\ Ascends(manifest') /\ Ascends(hist'[w].man)
    /\ hist'[w].at = "prune" => hist'[w].man # <<>> /\ HeadOf(hist'[w].man).n = hist'[w].head
StepIsAlone(w) ==
    /\ raced => raced'
    /\ AtWork(hist'[w]) /\ ~AtWork(hist[w]) /\ ~raced' => \A u \in HistWindow \ {w} : ~AtWork(hist[u])
    /\ ~raced' /\ hist'[w].at = "append" => hist'[w].man = manifest'
    /\ manifest' = manifest \/ AtWork(hist[w])
StepWipes(w) ==
    /\ capturing' => capturing
    /\ wiped' => wiped \/ hist[w].at = "sweep"
    /\ hist'[w].at \in {"list keys", "sweep"} => ~capturing'
    /\ Writes(hist'[w]) => Writes(hist[w]) \/ capturing
    /\ (\A n \in SegNo : segment'[n] \subseteq segment[n]) \/ Writes(hist[w])
    /\ ~raced' /\ hist'[w].at = "sweep" =>
          /\ \A u \in HistWindow : ~Writes(hist[u])
          /\ \A n \in SegNo : segment'[n] # {} => n \in hist'[w].keys
    /\ ~raced' /\ wiped' /\ ~wiped =>
          /\ ~Writes(hist'[w])
          /\ \A n \in SegNo : segment'[n] = {}
StepLists(w) == ~raced' /\ hist'[w].at = "store" /\ w \in live => hist'[w].all \subseteq hist'[w].found
HistStep(w) == StepTypes(w) /\ StepAscends(w) /\ StepIsAlone(w) /\ StepWipes(w) /\ StepLists(w)

LEMMA HistoryStep == ASSUME HistIInv, NEW w \in HistWindow, HistStep(w) PROVE HistIInv'
<1>1. \A u \in HistWindow \ {w} : hist'[u] = hist[u]
  BY DEF HistStep, StepTypes
<1>2. raced => raced'
  BY DEF HistStep, StepIsAlone
<1>3. HistTypes'
  BY <1>1 DEF HistStep, StepTypes, HistIInv, HistTypes
<1>4. ManifestsAscend'
  BY <1>1 DEF HistStep, StepAscends, HistIInv, ManifestsAscend
<1>5. OneAtWork'
  <2> SUFFICES ASSUME ~raced', NEW u \in HistWindow, NEW v \in HistWindow,
                      AtWork(hist'[u]), AtWork(hist'[v])
               PROVE  u = v
    BY DEF OneAtWork
  <2>1. ~raced /\ \A x, y \in HistWindow : AtWork(hist[x]) /\ AtWork(hist[y]) => x = y
    BY <1>2 DEF HistIInv, OneAtWork
  <2>2. CASE AtWork(hist'[w]) /\ ~AtWork(hist[w])
    <3>1. \A x \in HistWindow \ {w} : ~AtWork(hist[x])
      BY <2>2 DEF HistStep, StepIsAlone
    <3> QED
      BY <1>1, <3>1
  <2>3. CASE ~(AtWork(hist'[w]) /\ ~AtWork(hist[w]))
    <3>1. \A x \in HistWindow : AtWork(hist'[x]) => AtWork(hist[x])
      BY <1>1, <2>3
    <3> QED
      BY <2>1, <3>1
  <2> QED
    BY <2>2, <2>3
<1>6. AppendsAreCurrent'
  <2> SUFFICES ASSUME ~raced', NEW u \in HistWindow, hist'[u].at = "append"
               PROVE  hist'[u].man = manifest'
    BY DEF AppendsAreCurrent
  <2>1. CASE u = w
    BY <2>1 DEF HistStep, StepIsAlone
  <2>2. CASE u # w
    <3>1. hist'[u] = hist[u] /\ AtWork(hist[u])
      BY <1>1, <2>2 DEF AtWork
    <3>2. ~AtWork(hist[w])
      BY <1>2, <2>2, <3>1 DEF HistIInv, OneAtWork
    <3>3. manifest' = manifest
      BY <3>2 DEF HistStep, StepIsAlone
    <3> QED
      BY <1>2, <3>1, <3>3 DEF HistIInv, AppendsAreCurrent
  <2> QED
    BY <2>1, <2>2
<1>7. HeadIsLast'
  <2> SUFFICES ASSUME NEW u \in HistWindow, hist'[u].at = "prune"
               PROVE  hist'[u].man # <<>> /\ HeadOf(hist'[u].man).n = hist'[u].head
    BY DEF HeadIsLast, HeadOf
  <2>1. CASE u = w
    BY <2>1 DEF HistStep, StepAscends
  <2>2. CASE u # w
    BY <1>1, <2>2 DEF HistIInv, HeadIsLast
  <2> QED
    BY <2>1, <2>2
<1>8. WipersStopCapturing'
  <2>1. wiped' => ~capturing'
    BY DEF HistStep, StepWipes, HistIInv, WipersStopCapturing
  <2>2. ASSUME NEW u \in HistWindow, hist'[u].at \in {"list keys", "sweep"} PROVE ~capturing'
    BY <1>1, <2>2 DEF HistStep, StepWipes, HistIInv, WipersStopCapturing
  <2> QED
    BY <2>1, <2>2 DEF WipersStopCapturing
<1>9. SweepsSeeAll'
  <2> SUFFICES ASSUME ~raced', NEW u \in HistWindow, hist'[u].at = "sweep"
               PROVE  /\ \A v \in HistWindow : ~Writes(hist'[v])
                      /\ \A n \in SegNo : segment'[n] # {} => n \in hist'[u].keys
    BY DEF SweepsSeeAll
  <2>1. ~capturing' /\ ~raced
    BY <1>2, <1>8 DEF WipersStopCapturing
  <2>2. CASE u = w
    <3>1. /\ \A v \in HistWindow : ~Writes(hist[v])
          /\ \A n \in SegNo : segment'[n] # {} => n \in hist'[w].keys
      BY <2>2 DEF HistStep, StepWipes
    <3>2. ~Writes(hist'[w])
      BY <2>2 DEF Writes
    <3> QED
      BY <1>1, <2>2, <3>1, <3>2
  <2>3. CASE u # w
    <3>1. hist'[u] = hist[u]
      BY <1>1, <2>3
    <3>2. /\ \A v \in HistWindow : ~Writes(hist[v])
          /\ \A n \in SegNo : segment[n] # {} => n \in hist[u].keys
      BY <2>1, <3>1 DEF HistIInv, SweepsSeeAll
    <3>3. ~capturing
      BY <3>1 DEF HistIInv, WipersStopCapturing
    <3>4. ~Writes(hist'[w]) /\ \A n \in SegNo : segment'[n] \subseteq segment[n]
      BY <3>2, <3>3 DEF HistStep, StepWipes
    <3> QED
      BY <1>1, <3>1, <3>2, <3>4
  <2> QED
    BY <2>2, <2>3
<1>10. WipedStaysEmpty'
  <2> SUFFICES ASSUME wiped', ~raced'
               PROVE  /\ \A v \in HistWindow : ~Writes(hist'[v])
                      /\ \A n \in SegNo : segment'[n] = {}
    BY DEF WipedStaysEmpty
  <2>1. CASE wiped
    <3>1. /\ \A v \in HistWindow : ~Writes(hist[v])
          /\ \A n \in SegNo : segment[n] = {}
      BY <1>2, <2>1 DEF HistIInv, WipedStaysEmpty
    <3>2. ~capturing
      BY <2>1 DEF HistIInv, WipersStopCapturing
    <3>3. ~Writes(hist'[w]) /\ \A n \in SegNo : segment'[n] \subseteq segment[n]
      BY <3>1, <3>2 DEF HistStep, StepWipes
    <3> QED
      BY <1>1, <3>1, <3>3
  <2>2. CASE ~wiped
    <3>1. ~Writes(hist'[w]) /\ \A n \in SegNo : segment'[n] = {}
      BY <2>2 DEF HistStep, StepWipes
    <3>2. hist[w].at = "sweep"
      BY <2>2 DEF HistStep, StepWipes
    <3>3. \A v \in HistWindow : ~Writes(hist[v])
      BY <1>2, <3>2 DEF HistIInv, SweepsSeeAll
    <3> QED
      BY <1>1, <3>1, <3>3
  <2> QED
    BY <2>1, <2>2
<1>11. ListingsAreComplete'
  <2> SUFFICES ASSUME NEW u \in HistWindow, hist'[u].at = "store", u \in live', ~raced'
               PROVE  hist'[u].all \subseteq hist'[u].found
    BY DEF ListingsAreComplete, Task, Lives
  <2>1. live' = live
    BY DEF HistStep, StepTypes
  <2>2. CASE u = w
    BY <2>1, <2>2 DEF HistStep, StepLists
  <2>3. CASE u # w
    BY <1>1, <1>2, <2>1, <2>3 DEF HistIInv, ListingsAreComplete, Task, Lives
  <2> QED
    BY <2>2, <2>3
<1> QED
  BY <1>3, <1>4, <1>5, <1>6, <1>7, <1>8, <1>9, <1>10, <1>11 DEF HistIInv

LEMMA TaskStep ==
  ASSUME HistIInv, NEW w \in HistWindow, NEW t \in HistTask, hist' = [hist EXCEPT ![w] = t]
  PROVE  /\ hist' \in [HistWindow -> HistTask] /\ hist'[w] = t
         /\ \A u \in HistWindow \ {w} : hist'[u] = hist[u]
  BY DEF HistIInv, HistTypes

LEMMA RestingFacts ==
  /\ Resting \in HistTask /\ Resting.man = <<>> /\ Resting.at = "rest" /\ Ascends(<<>>)
  /\ ~AtWork(Resting) /\ ~Writes(Resting)
<1>1. <<>> \in Seq(Refs) /\ Len(<<>>) = 0 /\ 0 \in 0 .. MaxEntries /\ 0 \in SegNo
  BY HistAssumption DEF SegNo
<1> QED
  BY <1>1 DEF Resting, HistTask, HistPlaces, Ascends, AtWork, Writes

LEMMA HistFacts ==
  ASSUME HistIInv, NEW w \in HistWindow
  PROVE  /\ hist[w] \in HistTask /\ hist[w].man \in Seq(Refs) /\ Ascends(hist[w].man)
         /\ manifest \in Seq(Refs) /\ Ascends(manifest)
         /\ segment \in [SegNo -> SUBSET (1 .. MaxEntries)]
         /\ entries \in 0 .. MaxEntries /\ capturing \in BOOLEAN
  BY DEF HistIInv, HistTypes, ManifestsAscend, HistTask

\* A task ends: it rests, whatever it leaves behind.
LEMMA EndKeeps ==
  ASSUME HistIInv, NEW w \in HistWindow, hist' = [hist EXCEPT ![w] = Resting],
         \A n \in SegNo : segment'[n] \subseteq segment[n],
         segment' \in [SegNo -> SUBSET (1 .. MaxEntries)],
         manifest' \in Seq(Refs), Ascends(manifest'), manifest' = manifest \/ AtWork(hist[w]),
         wiped' => wiped \/ (hist[w].at = "sweep" /\ (~raced' => \A n \in SegNo : segment'[n] = {})),
         raced => raced', UNCHANGED <<capturing, unlimited, live, entries>>
  PROVE  HistIInv'
<1>1. /\ hist' \in [HistWindow -> HistTask] /\ hist'[w] = Resting
      /\ \A u \in HistWindow \ {w} : hist'[u] = hist[u]
  BY TaskStep, RestingFacts
<1>2. StepTypes(w)
  BY <1>1, RestingFacts, HistFacts DEF StepTypes
<1>3. StepAscends(w) /\ StepIsAlone(w) /\ StepLists(w)
  BY <1>1, RestingFacts DEF StepAscends, StepIsAlone, StepLists
<1>4. ~Writes(hist'[w]) /\ hist'[w].at = "rest"
  BY <1>1, RestingFacts
<1>5. StepWipes(w)
  BY <1>4 DEF StepWipes
<1> QED
  BY <1>2, <1>3, <1>5, HistoryStep DEF HistStep

LEMMA RemovedFacts ==
  ASSUME HistIInv, NEW ns
  PROVE  /\ Removed(ns) \in [SegNo -> SUBSET (1 .. MaxEntries)]
         /\ \A n \in SegNo : Removed(ns)[n] = IF n \in ns THEN {} ELSE segment[n]
  BY DEF HistIInv, HistTypes, Removed, None

LEMMA RecordKeeps == ASSUME HistIInv, NEW w \in HistWindow, Record(w) PROVE HistIInv'
<1> DEFINE t == [Resting EXCEPT !.at = "captured", !.entry = entries']
<1>1. /\ hist' = [hist EXCEPT ![w] = t] /\ capturing /\ entries' = entries + 1 /\ entries < MaxEntries
      /\ UNCHANGED <<segment, manifest, capturing, unlimited, live, raced, wiped>>
  BY DEF Record
<1>2. entries' \in 1 .. MaxEntries
  BY <1>1, HistFacts, HistAssumption
<1>3. t \in HistTask /\ t.at = "captured" /\ t.entry = entries' /\ t.man = <<>>
  <2>1. entries' \in 0 .. MaxEntries
    BY <1>2
  <2>2. \A e \in 0 .. MaxEntries : LET d == [Resting EXCEPT !.at = "captured", !.entry = e]
                                   IN  d \in HistTask /\ d.at = "captured" /\ d.entry = e /\ d.man = <<>>
    BY RestingFacts DEF HistTask, HistPlaces
  <2> QED
    BY <2>1, <2>2
<1> HIDE DEF t
<1>4. /\ hist' \in [HistWindow -> HistTask] /\ hist'[w] = t
      /\ \A u \in HistWindow \ {w} : hist'[u] = hist[u]
  BY <1>1, <1>3, TaskStep
<1>5. StepTypes(w)
  <2>1. entries' \in 0 .. MaxEntries /\ entries' # 0
    BY <1>2
  <2> QED
    BY <1>1, <1>3, <1>4, <2>1, HistFacts DEF StepTypes
<1>6. StepAscends(w) /\ StepIsAlone(w) /\ StepLists(w)
  BY <1>1, <1>3, <1>4, HistFacts, RestingFacts DEF StepAscends, StepIsAlone, StepLists, AtWork
<1>7. StepWipes(w)
  BY <1>1, <1>3, <1>4 DEF StepWipes
<1> QED
  BY <1>5, <1>6, <1>7, HistoryStep DEF HistStep

LEMMA OthersAreOut ==
  ASSUME HistIInv, NEW w \in HistWindow, ~Races(w)
  PROVE  \A u \in HistWindow \ {w} : ~AtWork(hist[u])
  BY DEF Races, AtWork

LEMMA BeginAppendKeeps == ASSUME HistIInv, NEW w \in HistWindow, BeginAppend(w) PROVE HistIInv'
<1> DEFINE t == [hist[w] EXCEPT !.at = "append", !.man = manifest]
<1>1. CASE Lives(w)
  <2>1. /\ hist' = [hist EXCEPT ![w] = t] /\ hist[w].at = "captured" /\ raced' = (raced \/ Races(w))
        /\ UNCHANGED <<segment, manifest, capturing, unlimited, live, entries, wiped>>
    BY <1>1 DEF BeginAppend, Task
  <2>2. t \in HistTask /\ t.at = "append" /\ t.entry = hist[w].entry /\ t.man = manifest
    BY HistFacts DEF HistTask, HistPlaces
  <2> HIDE DEF t
  <2>3. /\ hist' \in [HistWindow -> HistTask] /\ hist'[w] = t
        /\ \A u \in HistWindow \ {w} : hist'[u] = hist[u]
    BY <2>1, <2>2, TaskStep
  <2>4. Writes(hist[w]) /\ hist[w].entry # 0
    BY <2>1 DEF HistIInv, HistTypes, Writes
  <2>5. StepTypes(w)
    BY <2>1, <2>2, <2>3, <2>4, HistFacts DEF StepTypes
  <2>6. StepAscends(w) /\ StepLists(w)
    BY <2>1, <2>2, <2>3, HistFacts DEF StepAscends, StepLists
  <2>7. StepIsAlone(w)
    BY <2>1, <2>2, <2>3, OthersAreOut DEF StepIsAlone
  <2>8. StepWipes(w)
    BY <2>1, <2>2, <2>3, <2>4 DEF StepWipes
  <2> QED
    BY <2>5, <2>6, <2>7, <2>8, HistoryStep DEF HistStep
<1>2. CASE ~Lives(w)
  <2>1. /\ hist' = [hist EXCEPT ![w] = Resting] /\ (raced => raced')
        /\ UNCHANGED <<segment, manifest, capturing, unlimited, live, entries, wiped>>
    BY <1>2 DEF BeginAppend
  <2>2. wiped' = wiped
    BY <2>1
  <2> QED
    BY <2>1, HistFacts, EndKeeps
<1> QED
  BY <1>1, <1>2

\* What an append puts where.
LEMMA AppendedFacts ==
  ASSUME HistIInv, NEW w \in HistWindow, AppendEntry(w), Lives(w)
  PROVE  \E n \in SegNo, content \in SUBSET (1 .. MaxEntries), isNew \in BOOLEAN, man \in Seq(Refs) :
           /\ segment' = [segment EXCEPT ![n] = content]
           /\ hist' = [hist EXCEPT ![w] = [hist[w] EXCEPT !.at = "prune", !.head = n,
                                                          !.isNew = isNew, !.man = man]]
           /\ Ascends(man) /\ man # <<>> /\ HeadOf(man).n = n
           /\ segment[n] \subseteq content \/ n \notin Numbers(hist[w].man)
<1> DEFINE man == hist[w].man
           entry == hist[w].entry
           hasHead == man # <<>> /\ HeadOf(man).bytes \in 1 .. PerSegment
           grown == ReadSegment(w, HeadOf(man).n) \cup {entry}
           intoHead == hasHead /\ (Size(grown) = 1 \/ Size(grown) <= PerSegment)
           n == IF intoHead THEN HeadOf(man).n ELSE NextNumber(man)
           content == IF intoHead THEN grown ELSE {entry}
           ref == [n |-> n, bytes |-> Size(content)]
           after == IF intoHead THEN [man EXCEPT ![Len(man)] = ref] ELSE Append(man, ref)
<1>1. /\ n \in SegNo /\ segment' = [segment EXCEPT ![n] = content]
      /\ hist' = [hist EXCEPT ![w] = [hist[w] EXCEPT !.at = "prune", !.head = n,
                                        !.isNew = ~intoHead, !.man = after]]
      /\ hist[w].at = "append"
  BY DEF AppendEntry, Task
<1>2. man \in Seq(Refs) /\ Ascends(man) /\ entry \in 1 .. MaxEntries
  <2>1. entry \in 0 .. MaxEntries /\ entry # 0
    BY <1>1 DEF HistIInv, HistTypes, HistTask, Writes
  <2> QED
    BY <2>1, HistFacts
<1> HIDE DEF hasHead, entry
<1>3. Len(man) \in Nat /\ (man # <<>> => Len(man) \in 1 .. Len(man) /\ HeadOf(man) \in Refs)
  BY <1>2 DEF HeadOf
<1>4. intoHead => man # <<>> /\ n = HeadOf(man).n
  BY DEF hasHead
<1>5. content \in SUBSET (1 .. MaxEntries)
  <2>1. intoHead => ReadSegment(w, HeadOf(man).n) = segment[n] /\ segment[n] \subseteq 1 .. MaxEntries
    BY <1>1, <1>4, HistFacts DEF ReadSegment
  <2> QED
    BY <1>2, <2>1
<1>6. Size(content) \in 0 .. MaxEntries
  <2> HIDE DEF content
  <2>1. IsFiniteSet(1 .. MaxEntries) /\ Cardinality(1 .. MaxEntries) = MaxEntries
    BY HistAssumption, FS_Interval
  <2>2. IsFiniteSet(content) /\ Cardinality(content) <= MaxEntries
    BY <1>5, <2>1, FS_Subset
  <2>3. Cardinality(content) \in Nat
    BY <2>2, FS_CardinalityType
  <2> QED
    BY <2>2, <2>3, HistAssumption DEF Size
<1>7. intoHead \in BOOLEAN
  BY DEF hasHead
<1> HIDE DEF content
<1>8. ref \in Refs /\ ref.n = n
  BY <1>1, <1>6 DEF Refs
<1>9. ~intoHead => n = NextNumber(man)
  OBVIOUS
<1> HIDE DEF intoHead, n, ref
<1>10. after \in Seq(Refs) /\ after # <<>> /\ HeadOf(after) = ref /\ Ascends(after)
  <2>1. CASE intoHead
    <3>1. after = [man EXCEPT ![Len(man)] = ref] /\ Len(after) = Len(man) /\ after \in Seq(Refs)
      BY <1>2, <1>3, <1>4, <1>8, <2>1
    <3>2. \A i \in 1 .. Len(man) : after[i] = IF i = Len(man) THEN ref ELSE man[i]
      BY <1>2, <3>1
    <3>3. \A i \in 1 .. Len(man) : after[i].n = man[i].n
      BY <1>4, <1>8, <2>1, <3>2 DEF HeadOf
    <3>4. Ascends(after)
      BY <1>2, <3>1, <3>3 DEF Ascends
    <3>5. Len(man) \in 1 .. Len(man)
      BY <1>3, <1>4, <2>1
    <3>6. after # <<>> /\ HeadOf(after) = ref
      BY <3>1, <3>2, <3>5 DEF HeadOf
    <3> QED
      BY <3>1, <3>4, <3>6
  <2>2. CASE ~intoHead
    <3>1. after = Append(man, ref) /\ after \in Seq(Refs) /\ Len(after) = Len(man) + 1
      BY <1>2, <1>8, <2>2
    <3>2. after[Len(after)] = ref /\ \A i \in 1 .. Len(man) : after[i] = man[i]
      BY <1>2, <1>8, <3>1
    <3>3. \A i \in 1 .. Len(man) : man[i].n < n
      <4> SUFFICES ASSUME NEW i \in 1 .. Len(man) PROVE man[i].n < n
        OBVIOUS
      <4>1. man # <<>> /\ n = man[Len(man)].n + 1 /\ man[Len(man)] \in Refs /\ man[i] \in Refs
        BY <1>2, <1>3, <1>9, <2>2 DEF NextNumber, HeadOf
      <4>2. man[Len(man)].n \in Nat /\ man[i].n \in Nat
        BY <4>1, HistAssumption DEF Refs, SegNo
      <4>3. i < Len(man) => man[i].n < man[Len(man)].n
        BY <1>2, <1>3, <4>1 DEF Ascends
      <4>4. i = Len(man) \/ i < Len(man)
        BY <1>3
      <4> QED
        BY <4>1, <4>2, <4>3, <4>4
    <3>4. Ascends(after)
      <4> SUFFICES ASSUME NEW i \in 1 .. Len(after), NEW j \in 1 .. Len(after), i < j
                   PROVE  after[i].n < after[j].n
        BY DEF Ascends
      <4>1. i \in 1 .. Len(man) /\ (j \in 1 .. Len(man) \/ j = Len(after))
        BY <1>3, <3>1
      <4>2. CASE j \in 1 .. Len(man)
        BY <1>2, <3>2, <4>1, <4>2 DEF Ascends
      <4>3. CASE j = Len(after)
        BY <1>8, <3>2, <3>3, <4>1, <4>3
      <4> QED
        BY <4>1, <4>2, <4>3
    <3>5. after # <<>> /\ HeadOf(after) = ref
      BY <1>3, <3>1, <3>2 DEF HeadOf
    <3> QED
      BY <3>1, <3>4, <3>5
  <2> QED
    BY <2>1, <2>2
<1>11. segment[n] \subseteq content \/ n \notin Numbers(man)
  <2>1. CASE intoHead
    <3>1. content = ReadSegment(w, n) \cup {entry}
      BY <1>4, <2>1 DEF content, n
    <3> QED
      BY <3>1 DEF ReadSegment
  <2>2. CASE ~intoHead
    <3>1. \A i \in 1 .. Len(man) : man[i].n # n
      <4> SUFFICES ASSUME NEW i \in 1 .. Len(man) PROVE man[i].n # n
        OBVIOUS
      <4>1. man # <<>> /\ n = man[Len(man)].n + 1 /\ man[Len(man)] \in Refs /\ man[i] \in Refs
        BY <1>2, <1>3, <1>9, <2>2 DEF NextNumber, HeadOf
      <4>2. man[Len(man)].n \in Nat /\ man[i].n \in Nat
        BY <4>1, HistAssumption DEF Refs, SegNo
      <4>3. i < Len(man) => man[i].n < man[Len(man)].n
        BY <1>2, <1>3, <4>1 DEF Ascends
      <4>4. i = Len(man) \/ i < Len(man)
        BY <1>3
      <4> QED
        BY <4>1, <4>2, <4>3, <4>4
    <3> QED
      BY <3>1 DEF Numbers
  <2> QED
    BY <2>1, <2>2
<1> HIDE DEF after
<1> QED
  BY <1>1, <1>5, <1>7, <1>8, <1>10, <1>11

LEMMA AppendEntryKeeps == ASSUME HistIInv, NEW w \in HistWindow, AppendEntry(w) PROVE HistIInv'
<1>1. /\ hist[w].at = "append"
      /\ UNCHANGED <<manifest, capturing, unlimited, live, entries, raced, wiped>>
  BY DEF AppendEntry, Task
<1>2. CASE Lives(w)
  <2>1. PICK n \in SegNo, content \in SUBSET (1 .. MaxEntries), isNew \in BOOLEAN, man \in Seq(Refs) :
          /\ segment' = [segment EXCEPT ![n] = content]
          /\ hist' = [hist EXCEPT ![w] = [hist[w] EXCEPT !.at = "prune", !.head = n,
                                                         !.isNew = isNew, !.man = man]]
          /\ Ascends(man) /\ man # <<>> /\ HeadOf(man).n = n
          /\ segment[n] \subseteq content \/ n \notin Numbers(hist[w].man)
    BY <1>2, AppendedFacts
  <2> DEFINE t == [hist[w] EXCEPT !.at = "prune", !.head = n, !.isNew = isNew, !.man = man]
  <2>2. t \in HistTask /\ t.at = "prune" /\ t.head = n /\ t.man = man
    BY HistFacts DEF HistTask, HistPlaces
  <2>3. hist' = [hist EXCEPT ![w] = t]
    BY <2>1
  <2> HIDE DEF t
  <2>4. /\ hist' \in [HistWindow -> HistTask] /\ hist'[w] = t
        /\ \A u \in HistWindow \ {w} : hist'[u] = hist[u]
    BY <2>2, <2>3, TaskStep
  <2>5. AtWork(hist[w]) /\ Writes(hist[w]) /\ ~Writes(hist'[w])
    BY <1>1, <2>2, <2>4 DEF AtWork, Writes
  <2>6. segment' \in [SegNo -> SUBSET (1 .. MaxEntries)]
    BY <2>1, HistFacts
  <2>7. StepTypes(w)
    BY <1>1, <2>4, <2>5, <2>6, HistFacts DEF StepTypes
  <2>8. StepAscends(w)
    BY <1>1, <2>1, <2>2, <2>4, HistFacts DEF StepAscends
  <2>9. StepIsAlone(w) /\ StepLists(w)
    BY <1>1, <2>2, <2>4, <2>5 DEF StepIsAlone, StepLists
  <2>10. StepWipes(w)
    BY <1>1, <2>2, <2>4, <2>5 DEF StepWipes
  <2> QED
    BY <2>7, <2>8, <2>9, <2>10, HistoryStep DEF HistStep
<1>3. CASE ~Lives(w)
  <2>1. hist' = [hist EXCEPT ![w] = Resting] /\ segment' = segment
    BY <1>3 DEF AppendEntry
  <2> QED
    BY <1>1, <2>1, HistFacts, EndKeeps
<1> QED
  BY <1>2, <1>3

LEMMA PruneAppendKeeps == ASSUME HistIInv, NEW w \in HistWindow, PruneAppend(w) PROVE HistIInv'
<1> DEFINE remains == PrunedMan(hist[w].man)
           t == [hist[w] EXCEPT !.at = "record", !.man = remains]
<1>1. /\ hist[w].at = "prune" /\ hist' = [hist EXCEPT ![w] = t]
      /\ segment' = Removed(Numbers(hist[w].man) \ Numbers(remains))
      /\ UNCHANGED <<manifest, capturing, unlimited, live, entries, raced, wiped>>
  BY DEF PruneAppend, Task
<1>2. remains \in Seq(Refs) /\ Ascends(remains)
  BY HistFacts, PruningKeepsTheHead
<1> HIDE DEF remains
<1>3. t \in HistTask /\ t.at = "record" /\ t.man = remains
  BY <1>2, HistFacts DEF HistTask, HistPlaces
<1> HIDE DEF t
<1>4. /\ hist' \in [HistWindow -> HistTask] /\ hist'[w] = t
      /\ \A u \in HistWindow \ {w} : hist'[u] = hist[u]
  BY <1>1, <1>3, TaskStep
<1>5. /\ segment' \in [SegNo -> SUBSET (1 .. MaxEntries)]
      /\ \A n \in SegNo : segment'[n] \subseteq segment[n]
  BY <1>1, RemovedFacts
<1>6. AtWork(hist[w]) /\ ~Writes(hist'[w])
  BY <1>1, <1>3, <1>4 DEF AtWork, Writes
<1>7. StepTypes(w)
  BY <1>1, <1>4, <1>5, <1>6, HistFacts DEF StepTypes
<1>8. StepAscends(w) /\ StepIsAlone(w) /\ StepLists(w)
  BY <1>1, <1>2, <1>3, <1>4, <1>6, HistFacts DEF StepAscends, StepIsAlone, StepLists
<1>9. StepWipes(w)
  BY <1>1, <1>3, <1>4, <1>5, <1>6 DEF StepWipes
<1> QED
  BY <1>7, <1>8, <1>9, HistoryStep DEF HistStep

LEMMA RecordSegmentKeeps == ASSUME HistIInv, NEW w \in HistWindow, RecordSegment(w) PROVE HistIInv'
<1>1. /\ hist[w].at = "record" /\ AtWork(hist[w])
      /\ UNCHANGED <<segment, capturing, unlimited, live, entries, raced, wiped>>
  BY DEF RecordSegment, Task, AtWork
<1>2. manifest' \in {manifest, hist[w].man}
  BY DEF RecordSegment
<1>3. manifest' \in Seq(Refs) /\ Ascends(manifest')
  BY <1>2, HistFacts DEF Ascends
<1>4. CASE hist' = [hist EXCEPT ![w] = Resting]
  BY <1>1, <1>3, <1>4, HistFacts, EndKeeps
<1>5. CASE hist' # [hist EXCEPT ![w] = Resting]
  <2> DEFINE t == [hist[w] EXCEPT !.at = "undo"]
  <2>1. hist' = [hist EXCEPT ![w] = t] /\ manifest' = manifest
    BY <1>5 DEF RecordSegment
  <2>2. t \in HistTask /\ t.at = "undo" /\ t.man = hist[w].man
    BY HistFacts DEF HistTask, HistPlaces
  <2> HIDE DEF t
  <2>3. /\ hist' \in [HistWindow -> HistTask] /\ hist'[w] = t
        /\ \A u \in HistWindow \ {w} : hist'[u] = hist[u]
    BY <2>1, <2>2, TaskStep
  <2>4. ~Writes(hist'[w])
    BY <2>2, <2>3 DEF Writes
  <2>5. StepTypes(w)
    BY <1>1, <2>1, <2>3, <2>4, HistFacts DEF StepTypes
  <2>6. StepAscends(w) /\ StepIsAlone(w) /\ StepLists(w)
    BY <1>1, <2>1, <2>2, <2>3, HistFacts DEF StepAscends, StepIsAlone, StepLists
  <2>7. StepWipes(w)
    BY <1>1, <2>2, <2>3, <2>4 DEF StepWipes
  <2> QED
    BY <2>5, <2>6, <2>7, HistoryStep DEF HistStep
<1> QED
  BY <1>4, <1>5

LEMMA UndoAppendKeeps == ASSUME HistIInv, NEW w \in HistWindow, UndoAppend(w) PROVE HistIInv'
<1>1. /\ hist' = [hist EXCEPT ![w] = Resting] /\ segment' \in {Removed({hist[w].head}), segment}
      /\ UNCHANGED <<manifest, capturing, unlimited, live, entries, raced, wiped>>
  BY DEF UndoAppend
<1>2. /\ segment' \in [SegNo -> SUBSET (1 .. MaxEntries)]
      /\ \A n \in SegNo : segment'[n] \subseteq segment[n]
  BY <1>1, RemovedFacts, HistFacts
<1> QED
  BY <1>1, <1>2, HistFacts, EndKeeps

LEMMA BeginLoadKeeps == ASSUME HistIInv, NEW w \in HistWindow, BeginLoad(w) PROVE HistIInv'
<1> DEFINE t == [Resting EXCEPT !.at = "adopt", !.man = manifest, !.all = StoredEntries]
<1>1. /\ hist' = [hist EXCEPT ![w] = t] /\ raced' = (raced \/ Races(w))
      /\ UNCHANGED <<segment, manifest, capturing, unlimited, live, entries, wiped>>
  BY DEF BeginLoad
<1>2. StoredEntries \subseteq 1 .. MaxEntries
  BY HistFacts DEF StoredEntries
<1>3. t \in HistTask /\ t.at = "adopt" /\ t.man = manifest
  BY <1>2, RestingFacts, HistFacts DEF HistTask, HistPlaces
<1> HIDE DEF t
<1>4. /\ hist' \in [HistWindow -> HistTask] /\ hist'[w] = t
      /\ \A u \in HistWindow \ {w} : hist'[u] = hist[u]
  BY <1>1, <1>3, TaskStep
<1>5. ~Writes(hist'[w])
  BY <1>3, <1>4 DEF Writes
<1>6. StepTypes(w)
  BY <1>1, <1>4, <1>5, HistFacts DEF StepTypes
<1>7. StepAscends(w) /\ StepLists(w)
  BY <1>1, <1>3, <1>4, HistFacts DEF StepAscends, StepLists
<1>8. StepIsAlone(w)
  BY <1>1, <1>3, <1>4, OthersAreOut DEF StepIsAlone
<1>9. StepWipes(w)
  BY <1>1, <1>3, <1>4, <1>5 DEF StepWipes
<1> QED
  BY <1>6, <1>7, <1>8, <1>9, HistoryStep DEF HistStep

\* What a listing finds and leaves: while its window lives, all that is stored.
LEMMA AdoptedFacts ==
  ASSUME HistIInv, NEW w \in HistWindow, AdoptAndRead(w)
  PROVE  \E man \in Seq(Refs), found, all \in SUBSET (1 .. MaxEntries), changed \in BOOLEAN :
           /\ hist' = [hist EXCEPT ![w] = [hist[w] EXCEPT !.at = "store", !.man = man,
                                             !.changed = changed, !.all = all, !.found = found]]
           /\ Ascends(man) /\ (Lives(w) => all \subseteq found)
           /\ segment' \in [SegNo -> SUBSET (1 .. MaxEntries)]
           /\ \A n \in SegNo : segment'[n] \subseteq segment[n]
<1> DEFINE man == hist[w].man
           refs == Range(man) \cup StrayRefs(w, man)
           sorted == InOrder(refs)
           remains == PrunedMan(sorted)
           read == ResizedMan(w, remains)
           changed == sorted # man \/ remains # sorted \/ read # remains
           all == hist[w].all \cap UNION {segment'[n] : n \in SegNo}
           found == UNION {ReadSegment(w, n) : n \in Numbers(remains)}
<1>1. /\ segment' = Removed(Numbers(sorted) \ Numbers(remains))
      /\ hist' = [hist EXCEPT ![w] = [hist[w] EXCEPT !.at = "store", !.man = read,
                                        !.changed = changed, !.all = all, !.found = found]]
  BY DEF AdoptAndRead
<1>2. man \in Seq(Refs) /\ Ascends(man) /\ hist[w].all \subseteq 1 .. MaxEntries
      /\ segment \in [SegNo -> SUBSET (1 .. MaxEntries)]
  BY HistFacts DEF HistTask
<1>3. \A es \in SUBSET (1 .. MaxEntries) : Size(es) \in 0 .. MaxEntries
  <2> SUFFICES ASSUME NEW es \in SUBSET (1 .. MaxEntries) PROVE Size(es) \in 0 .. MaxEntries
    OBVIOUS
  <2>1. IsFiniteSet(1 .. MaxEntries) /\ Cardinality(1 .. MaxEntries) = MaxEntries
    BY HistAssumption, FS_Interval
  <2>2. IsFiniteSet(es) /\ Cardinality(es) <= MaxEntries
    BY <2>1, FS_Subset
  <2>3. Cardinality(es) \in Nat
    BY <2>2, FS_CardinalityType
  <2> QED
    BY <2>2, <2>3, HistAssumption DEF Size
<1>4. /\ StrayRefs(w, man) \subseteq Refs
      /\ {r.n : r \in StrayRefs(w, man)} = Strays(w, man)
      /\ \A r \in StrayRefs(w, man) : r.n \in Strays(w, man)
  <2>1. \A n \in Strays(w, man) : n \in SegNo /\ Size(segment[n]) \in 0 .. MaxEntries
    BY <1>2, <1>3 DEF Strays
  <2>2. StrayRefs(w, man) \subseteq Refs
    BY <2>1 DEF StrayRefs, Refs
  <2>3. \A r \in StrayRefs(w, man) : r.n \in Strays(w, man)
    BY DEF StrayRefs
  <2>4. ASSUME NEW n \in Strays(w, man) PROVE \E r \in StrayRefs(w, man) : r.n = n
    <3> DEFINE r == [n |-> n, bytes |-> Size(segment[n])]
    <3>1. r \in StrayRefs(w, man)
      BY DEF StrayRefs
    <3>2. r.n = n
      OBVIOUS
    <3> QED
      BY <3>1, <3>2
  <2> QED
    BY <2>2, <2>3, <2>4
<1>5. Range(man) = {man[i] : i \in 1 .. Len(man)} /\ Numbers(man) = {r.n : r \in Range(man)}
  BY <1>2 DEF Range, Numbers
<1>6. refs \subseteq Refs
  BY <1>2, <1>4, <1>5
<1>7. IsFiniteSet(refs)
  <2>1. IsFiniteSet(SegNo)
    BY HistAssumption, FS_Interval DEF SegNo
  <2>2. IsFiniteSet(0 .. MaxEntries)
    BY HistAssumption, FS_Interval
  <2>3. IsFiniteSet(SegNo \X (0 .. MaxEntries))
    BY <2>1, <2>2, FS_Product
  <2> DEFINE f == [p \in SegNo \X (0 .. MaxEntries) |-> [n |-> p[1], bytes |-> p[2]]]
  <2>4. f \in Surjection(SegNo \X (0 .. MaxEntries), Refs)
    <3>1. f \in [SegNo \X (0 .. MaxEntries) -> Refs]
      BY DEF Refs
    <3>2. \A r \in Refs : <<r.n, r.bytes>> \in SegNo \X (0 .. MaxEntries) /\ f[<<r.n, r.bytes>>] = r
      BY DEF Refs
    <3> QED
      BY <3>1, <3>2 DEF Surjection
  <2>5. IsFiniteSet(Refs)
    BY <2>3, <2>4, FS_Surjection
  <2> QED
    BY <1>6, <2>5, FS_Subset
<1>8. \A r, q \in refs : r.n = q.n => r = q
  <2> SUFFICES ASSUME NEW r \in refs, NEW q \in refs, r.n = q.n PROVE r = q
    OBVIOUS
  <2>1. CASE r \in Range(man) /\ q \in Range(man)
    <3>1. PICK i \in 1 .. Len(man) : r = man[i]
      BY <1>5, <2>1
    <3>2. PICK j \in 1 .. Len(man) : q = man[j]
      BY <1>5, <2>1
    <3>3. man[i].n \in Nat /\ man[j].n \in Nat
      BY <1>6, <3>1, <3>2, HistAssumption DEF Refs, SegNo
    <3>4. ~(i < j) /\ ~(j < i)
      BY <1>2, <3>1, <3>2, <3>3 DEF Ascends
    <3>5. i = j
      BY <3>4
    <3> QED
      BY <3>1, <3>2, <3>5
  <2>2. CASE r \in StrayRefs(w, man) /\ q \in StrayRefs(w, man)
    BY <2>2 DEF StrayRefs
  <2>3. CASE r \in Range(man) /\ q \in StrayRefs(w, man)
    BY <1>4, <1>5, <2>3 DEF Strays
  <2>4. CASE r \in StrayRefs(w, man) /\ q \in Range(man)
    BY <1>4, <1>5, <2>4 DEF Strays
  <2> QED
    BY <2>1, <2>2, <2>3, <2>4
<1>9. sorted \in Seq(Refs) /\ Ascends(sorted) /\ Numbers(sorted) = {r.n : r \in refs}
  BY <1>6, <1>7, <1>8, SortedByNumber
<1>10. Numbers(sorted) = Numbers(man) \cup Strays(w, man)
  <2>1. {r.n : r \in refs} = {r.n : r \in Range(man)} \cup {r.n : r \in StrayRefs(w, man)}
    OBVIOUS
  <2> HIDE DEF refs
  <2> QED
    BY <1>4, <1>5, <1>9, <2>1
<1> HIDE DEF sorted, refs
<1>11. remains \in Seq(Refs) /\ Ascends(remains)
  BY <1>9, PruningKeepsTheHead
<1> HIDE DEF remains
<1>12. read \in Seq(Refs) /\ Ascends(read)
  <2>1. read = [i \in 1 .. Len(remains) |-> Resized(w, remains[i])] /\ Len(remains) \in Nat
    BY <1>11 DEF ResizedMan
  <2>2. \A r \in Refs : Resized(w, r) \in Refs /\ Resized(w, r).n = r.n
    <3> SUFFICES ASSUME NEW r \in Refs PROVE Resized(w, r) \in Refs /\ Resized(w, r).n = r.n
      OBVIOUS
    <3>1. ReadSegment(w, r.n) \in SUBSET (1 .. MaxEntries) /\ r.n \in SegNo
      BY <1>2 DEF ReadSegment, Refs
    <3>2. Size(ReadSegment(w, r.n)) \in 0 .. MaxEntries
      BY <1>3, <3>1
    <3>3. [n |-> r.n, bytes |-> Size(ReadSegment(w, r.n))] \in Refs
      BY <3>1, <3>2 DEF Refs
    <3> QED
      BY <3>3 DEF Resized
  <2>3. \A i \in 1 .. Len(remains) : remains[i] \in Refs
    BY <1>11
  <2>4. \A i \in 1 .. Len(remains) : read[i] \in Refs /\ read[i].n = remains[i].n
    BY <2>1, <2>2, <2>3
  <2> HIDE DEF read
  <2>5. read \in Seq(Refs) /\ Len(read) = Len(remains)
    BY <2>1, <2>4
  <2> QED
    BY <1>11, <2>4, <2>5 DEF Ascends
<1>13. /\ segment' \in [SegNo -> SUBSET (1 .. MaxEntries)]
       /\ \A n \in SegNo : segment'[n] = IF n \in Numbers(sorted) \ Numbers(remains) THEN {} ELSE segment[n]
  BY <1>1, RemovedFacts
<1>14. Lives(w) => all \subseteq found
  <2> SUFFICES ASSUME Lives(w), NEW e \in all PROVE e \in found
    OBVIOUS
  <2>1. PICK n \in SegNo : e \in segment'[n]
    OBVIOUS
  <2>2. e \in segment[n] /\ n \notin Numbers(sorted) \ Numbers(remains)
    BY <1>13, <2>1
  <2>3. n \in Numbers(man) \cup Strays(w, man)
    BY <2>2 DEF Strays, ReadSegment
  <2>4. n \in Numbers(remains) /\ e \in ReadSegment(w, n)
    BY <1>10, <2>2, <2>3 DEF ReadSegment
  <2> QED
    BY <2>4
<1>15. all \in SUBSET (1 .. MaxEntries)
  BY <1>2
<1>16. found \in SUBSET (1 .. MaxEntries)
  <2> SUFFICES ASSUME NEW n \in Numbers(remains) PROVE ReadSegment(w, n) \subseteq 1 .. MaxEntries
    OBVIOUS
  <2>1. PICK i \in 1 .. Len(remains) : n = remains[i].n
    BY DEF Numbers
  <2>2. remains[i] \in Refs
    BY <1>11
  <2>3. n \in SegNo
    BY <2>1, <2>2 DEF Refs
  <2> QED
    BY <1>2, <2>3 DEF ReadSegment
<1>17. changed \in BOOLEAN
  OBVIOUS
<1>18. \A n \in SegNo : segment'[n] \subseteq segment[n]
  BY <1>13
<1> HIDE DEF read, changed, all, found
<1> QED
  BY <1>1, <1>12, <1>13, <1>14, <1>15, <1>16, <1>17, <1>18

LEMMA AdoptAndReadKeeps == ASSUME HistIInv, NEW w \in HistWindow, AdoptAndRead(w) PROVE HistIInv'
<1>1. /\ hist[w].at = "adopt"
      /\ UNCHANGED <<manifest, capturing, unlimited, live, entries, raced, wiped>>
  BY DEF AdoptAndRead, Task
<1>2. PICK man \in Seq(Refs), found, all \in SUBSET (1 .. MaxEntries), changed \in BOOLEAN :
           /\ hist' = [hist EXCEPT ![w] = [hist[w] EXCEPT !.at = "store", !.man = man,
                                             !.changed = changed, !.all = all, !.found = found]]
           /\ Ascends(man) /\ (Lives(w) => all \subseteq found)
           /\ segment' \in [SegNo -> SUBSET (1 .. MaxEntries)]
           /\ \A n \in SegNo : segment'[n] \subseteq segment[n]
  BY AdoptedFacts
<1> DEFINE t == [hist[w] EXCEPT !.at = "store", !.man = man, !.changed = changed, !.all = all,
                                !.found = found]
<1>3. t \in HistTask /\ t.at = "store" /\ t.man = man /\ t.all = all /\ t.found = found
  BY HistFacts DEF HistTask, HistPlaces
<1>4. hist' = [hist EXCEPT ![w] = t]
  BY <1>2
<1> HIDE DEF t
<1>5. /\ hist' \in [HistWindow -> HistTask] /\ hist'[w] = t
      /\ \A u \in HistWindow \ {w} : hist'[u] = hist[u]
  BY <1>3, <1>4, TaskStep
<1>6. AtWork(hist[w]) /\ ~Writes(hist'[w])
  BY <1>1, <1>3, <1>5 DEF AtWork, Writes
<1>7. StepTypes(w)
  BY <1>1, <1>2, <1>5, <1>6, HistFacts DEF StepTypes
<1>8. StepAscends(w) /\ StepIsAlone(w)
  BY <1>1, <1>2, <1>3, <1>5, <1>6, HistFacts DEF StepAscends, StepIsAlone
<1>9. StepLists(w)
  BY <1>2, <1>3, <1>5 DEF StepLists, Lives
<1>10. StepWipes(w)
  BY <1>1, <1>2, <1>3, <1>5, <1>6 DEF StepWipes
<1> QED
  BY <1>7, <1>8, <1>9, <1>10, HistoryStep DEF HistStep

LEMMA EndLoadKeeps == ASSUME HistIInv, NEW w \in HistWindow, EndLoad(w) PROVE HistIInv'
<1>1. /\ hist' = [hist EXCEPT ![w] = Resting] /\ hist[w].at = "store"
      /\ manifest' \in {manifest, hist[w].man}
      /\ UNCHANGED <<segment, capturing, unlimited, live, entries, raced, wiped>>
  BY DEF EndLoad, Task
<1>2. manifest' \in Seq(Refs) /\ Ascends(manifest')
  BY <1>1, HistFacts DEF Ascends
<1>3. AtWork(hist[w])
  BY <1>1 DEF AtWork
<1> QED
  BY <1>1, <1>2, <1>3, HistFacts, EndKeeps

LEMMA EnterNeverCacheKeeps == ASSUME HistIInv, NEW w \in HistWindow, EnterNeverCache(w) PROVE HistIInv'
<1> DEFINE t == [Resting EXCEPT !.at = "list keys"]
<1>1. /\ hist' = [hist EXCEPT ![w] = t] /\ capturing' = FALSE
      /\ UNCHANGED <<segment, manifest, unlimited, live, entries, raced, wiped>>
  BY DEF EnterNeverCache
<1>2. t \in HistTask /\ t.at = "list keys" /\ t.man = <<>>
  BY RestingFacts DEF HistTask, HistPlaces
<1> HIDE DEF t
<1>3. /\ hist' \in [HistWindow -> HistTask] /\ hist'[w] = t
      /\ \A u \in HistWindow \ {w} : hist'[u] = hist[u]
  BY <1>1, <1>2, TaskStep
<1>4. ~AtWork(hist'[w]) /\ ~Writes(hist'[w])
  BY <1>2, <1>3 DEF AtWork, Writes
<1>5. StepTypes(w)
  BY <1>1, <1>3, <1>4, HistFacts DEF StepTypes
<1>6. StepAscends(w) /\ StepIsAlone(w) /\ StepLists(w)
  BY <1>1, <1>2, <1>3, <1>4, HistFacts, RestingFacts DEF StepAscends, StepIsAlone, StepLists
<1>7. StepWipes(w)
  BY <1>1, <1>2, <1>3, <1>4 DEF StepWipes
<1> QED
  BY <1>5, <1>6, <1>7, HistoryStep DEF HistStep

LEMMA ListKeysKeeps == ASSUME HistIInv, NEW w \in HistWindow, ListKeys(w) PROVE HistIInv'
<1> DEFINE keys == {n \in SegNo : segment[n] # None}
           t == [hist[w] EXCEPT !.at = "sweep", !.keys = keys]
<1>1. /\ hist[w].at = "list keys" /\ hist' = [hist EXCEPT ![w] = t]
      /\ (raced \/ Races(w) \/ \E u \in HistWindow : hist[u].at = "captured") => raced'
      /\ UNCHANGED <<segment, manifest, capturing, unlimited, live, entries, wiped>>
  BY DEF ListKeys, Task
<1>2. t \in HistTask /\ t.at = "sweep" /\ t.man = hist[w].man /\ t.keys = keys
  <2>1. keys \in SUBSET SegNo
    OBVIOUS
  <2> HIDE DEF keys
  <2> QED
    BY <2>1, HistFacts DEF HistTask, HistPlaces
<1> HIDE DEF t
<1>3. /\ hist' \in [HistWindow -> HistTask] /\ hist'[w] = t
      /\ \A u \in HistWindow \ {w} : hist'[u] = hist[u]
  BY <1>1, <1>2, TaskStep
<1>4. ~Writes(hist'[w]) /\ ~capturing
  BY <1>1, <1>2, <1>3 DEF Writes, HistIInv, WipersStopCapturing
<1>5. ~raced' => \A u \in HistWindow \ {w} : ~AtWork(hist[u])
  BY <1>1, OthersAreOut
<1>6. ~raced' => \A u \in HistWindow : ~Writes(hist[u])
  BY <1>1, <1>5 DEF AtWork, Writes
<1>7. \A n \in SegNo : segment'[n] # {} => n \in hist'[w].keys
  BY <1>1, <1>2, <1>3 DEF None
<1>8. StepTypes(w)
  BY <1>1, <1>3, <1>4, HistFacts DEF StepTypes
<1>9. StepAscends(w) /\ StepIsAlone(w) /\ StepLists(w)
  BY <1>1, <1>2, <1>3, <1>5, HistFacts DEF StepAscends, StepIsAlone, StepLists
<1>10. StepWipes(w)
  BY <1>1, <1>4, <1>6, <1>7 DEF StepWipes
<1> QED
  BY <1>8, <1>9, <1>10, HistoryStep DEF HistStep

LEMMA SweepHistoryKeeps == ASSUME HistIInv, NEW w \in HistWindow, Sweep(w) PROVE HistIInv'
<1>1. /\ hist[w].at = "sweep" /\ hist' = [hist EXCEPT ![w] = Resting]
      /\ segment' = Removed(hist[w].keys) /\ manifest' = <<>>
      /\ UNCHANGED <<capturing, unlimited, live, entries, raced>>
  BY DEF Sweep, Task, SweptKeys
<1>2. /\ segment' \in [SegNo -> SUBSET (1 .. MaxEntries)]
      /\ \A n \in SegNo : segment'[n] = IF n \in hist[w].keys THEN {} ELSE segment[n]
  BY <1>1, RemovedFacts
<1>3. ~raced => \A n \in SegNo : segment'[n] = {}
  BY <1>1, <1>2 DEF HistIInv, SweepsSeeAll
<1>4. \A n \in SegNo : segment'[n] \subseteq segment[n]
  BY <1>2
<1>5. manifest' \in Seq(Refs) /\ Ascends(manifest')
  BY <1>1, RestingFacts
<1>6. AtWork(hist[w])
  BY <1>1 DEF AtWork
<1> QED
  BY <1>1, <1>2, <1>3, <1>4, <1>5, <1>6, EndKeeps

LEMMA CloseHistWindowKeeps == ASSUME HistIInv, NEW w \in HistWindow, CloseHistWindow(w) PROVE HistIInv'
<1>1. /\ hist' = [hist EXCEPT ![w] = Resting]
      /\ UNCHANGED <<segment, manifest, capturing, unlimited, live, entries, raced, wiped>>
  BY DEF CloseHistWindow
<1> QED
  BY <1>1, HistFacts, EndKeeps

\* The session of a window comes or goes; one that is in a task races.
LEMMA FlipSessionKeeps == ASSUME HistIInv, NEW w \in HistWindow, FlipSession(w) PROVE HistIInv'
<1>1. /\ live' = IF w \in live THEN live \ {w} ELSE live \cup {w}
      /\ (raced => raced') /\ (~raced' => hist[w].at = "rest")
      /\ UNCHANGED <<segment, manifest, capturing, unlimited, hist, entries, wiped>>
  BY DEF FlipSession, Lives, Task
<1>2. HistTypes' /\ ManifestsAscend'
  BY <1>1 DEF HistIInv, HistTypes, ManifestsAscend
<1>3. OneAtWork' /\ AppendsAreCurrent' /\ SweepsSeeAll' /\ WipedStaysEmpty'
  BY <1>1 DEF HistIInv, OneAtWork, AppendsAreCurrent, SweepsSeeAll, WipedStaysEmpty
<1>4. HeadIsLast' /\ WipersStopCapturing'
  BY <1>1 DEF HistIInv, HeadIsLast, WipersStopCapturing, HeadOf
<1>5. ListingsAreComplete'
  <2> SUFFICES ASSUME NEW u \in HistWindow, hist[u].at = "store", u \in live', ~raced'
               PROVE  hist[u].all \subseteq hist[u].found
    BY <1>1 DEF ListingsAreComplete, Task, Lives
  <2>1. u # w /\ u \in live /\ ~raced
    BY <1>1
  <2> QED
    BY <2>1 DEF HistIInv, ListingsAreComplete, Task, Lives
<1> QED
  BY <1>2, <1>3, <1>4, <1>5 DEF HistIInv

LEMMA HistoryStays ==
  ASSUME HistIInv, unlimited' \in BOOLEAN,
         UNCHANGED <<segment, manifest, capturing, live, hist, entries, raced, wiped>>
  PROVE  HistIInv'
<1>1. HistTypes' /\ ManifestsAscend'
  BY DEF HistIInv, HistTypes, ManifestsAscend
<1>2. OneAtWork' /\ AppendsAreCurrent' /\ SweepsSeeAll' /\ WipedStaysEmpty'
  BY DEF HistIInv, OneAtWork, AppendsAreCurrent, SweepsSeeAll, WipedStaysEmpty
<1>3. HeadIsLast' /\ WipersStopCapturing' /\ ListingsAreComplete'
  BY DEF HistIInv, HeadIsLast, WipersStopCapturing, HeadOf, ListingsAreComplete, Task, Lives
<1> QED
  BY <1>1, <1>2, <1>3 DEF HistIInv

LEMMA HistoryKeeps == HistIInv /\ [HistNext]_histVars => HistIInv'
<1> SUFFICES ASSUME HistIInv, [HistNext]_histVars PROVE HistIInv'
  OBVIOUS
<1>1. CASE RevokePermission
  BY <1>1, HistoryStays DEF RevokePermission
<1>2. CASE UNCHANGED histVars
  <2>1. unlimited' \in BOOLEAN
    BY <1>2 DEF histVars, HistIInv, HistTypes
  <2> QED
    BY <1>2, <2>1, HistoryStays DEF histVars
<1>3. CASE HistNext /\ ~RevokePermission
  BY <1>3, RecordKeeps, BeginAppendKeeps, AppendEntryKeeps, PruneAppendKeeps, RecordSegmentKeeps,
     UndoAppendKeeps, BeginLoadKeeps, AdoptAndReadKeeps, EndLoadKeeps, EnterNeverCacheKeeps,
     ListKeysKeeps, SweepHistoryKeeps, CloseHistWindowKeeps, FlipSessionKeeps DEF HistNext
<1> QED
  BY <1>1, <1>2, <1>3 DEF HistNext

\* No append replaces what the manifest lists.
LEMMA AppendsKeep ==
  ASSUME HistIInv, NEW w \in HistWindow, AppendEntry(w), ~raced
  PROVE  UNION {segment[n] : n \in Numbers(manifest)} \subseteq StoredEntries'
<1>1. hist[w].man = manifest
  BY DEF AppendEntry, Task, HistIInv, AppendsAreCurrent
<1>2. Numbers(manifest) \subseteq SegNo
  <2> SUFFICES ASSUME NEW i \in 1 .. Len(manifest) PROVE manifest[i].n \in SegNo
    BY DEF Numbers
  <2>1. manifest[i] \in Refs
    BY HistFacts
  <2> QED
    BY <2>1 DEF Refs
<1>3. \A n \in Numbers(manifest) : segment[n] \subseteq segment'[n]
  <2>1. CASE Lives(w)
    <3>1. PICK n \in SegNo, content \in SUBSET (1 .. MaxEntries), isNew \in BOOLEAN, man \in Seq(Refs) :
            /\ segment' = [segment EXCEPT ![n] = content]
            /\ hist' = [hist EXCEPT ![w] = [hist[w] EXCEPT !.at = "prune", !.head = n,
                                                           !.isNew = isNew, !.man = man]]
            /\ Ascends(man) /\ man # <<>> /\ HeadOf(man).n = n
            /\ segment[n] \subseteq content \/ n \notin Numbers(hist[w].man)
      BY <2>1, AppendedFacts
    <3> QED
      BY <1>1, <1>2, <3>1, HistFacts
  <2>2. CASE ~Lives(w)
    BY <2>2 DEF AppendEntry
  <2> QED
    BY <2>1, <2>2
<1> QED
  BY <1>2, <1>3 DEF StoredEntries

LEMMA PrunesFit ==
  ASSUME HistIInv, NEW w \in HistWindow, PruneAppend(w)
  PROVE  LET remains == hist'[w].man IN
         /\ Len(remains) > 1 => Total(remains) <= BudgetFor(unlimited)
         /\ hist[w].head \in Numbers(remains)
<1> DEFINE remains == PrunedMan(hist[w].man)
           t == [hist[w] EXCEPT !.at = "record", !.man = remains]
<1>1. hist[w].at = "prune" /\ hist' = [hist EXCEPT ![w] = t]
  BY DEF PruneAppend, Task
<1>2. /\ remains \in Seq(Refs) /\ (hist[w].man # <<>> => remains # <<>> /\ HeadOf(remains) = HeadOf(hist[w].man))
      /\ Len(remains) > 1 => Total(remains) <= BudgetFor(unlimited)
  BY HistFacts, PruningKeepsTheHead
<1> HIDE DEF remains
<1>3. hist'[w].man = remains
  <2>1. hist'[w] = t
    BY <1>1 DEF HistIInv, HistTypes
  <2> QED
    BY <2>1, HistFacts DEF HistTask
<1>4. remains # <<>> /\ HeadOf(remains).n = hist[w].head
  BY <1>1, <1>2 DEF HistIInv, HeadIsLast
<1>5. Len(remains) \in 1 .. Len(remains)
  BY <1>2, <1>4
<1>6. hist[w].head \in Numbers(remains)
  BY <1>4, <1>5 DEF Numbers, HeadOf
<1> QED
  BY <1>2, <1>3, <1>6

LEMMA HistoryHolds == HistIInv => HistTypeOK /\ ListingsAreComplete /\ WipesAreComplete
<1> SUFFICES ASSUME HistIInv PROVE HistTypeOK /\ ListingsAreComplete /\ WipesAreComplete
  OBVIOUS
<1>1. \A i \in 1 .. Len(manifest) : manifest[i] \in Refs
  BY DEF HistIInv, HistTypes
<1>2. \A w \in HistWindow : \A i \in 1 .. Len(hist[w].man) : hist[w].man[i] \in Refs
  <2> TAKE w \in HistWindow
  <2>1. hist[w].man \in Seq(Refs)
    BY HistFacts
  <2> QED
    BY <2>1
<1>3. HistTypeOK
  BY <1>1, <1>2 DEF HistIInv, HistTypes, HistTypeOK
<1>4. WipesAreComplete
  BY DEF HistIInv, WipedStaysEmpty, WipesAreComplete, StoredEntries
<1> QED
  BY <1>3, <1>4 DEF HistIInv

(* For any windows, any number of entries and any permissions, with windows *)
(* that close, sessions that drop and wipes anywhere: unless two windows    *)
(* were in the history at once, a listing shows all that was stored, an     *)
(* append replaces nothing that is listed and a wipe leaves nothing;        *)
(* pruning fits the budget and spares the head in any case.                 *)
THEOREM HistoryStaysWhole == HistSpec => HistoryIsWhole
<1> DEFINE Keeps == \A w \in HistWindow : AppendEntry(w) /\ ~raced =>
                       UNION {segment[n] : n \in Numbers(manifest)} \subseteq StoredEntries'
           Fits == \A w \in HistWindow : PruneAppend(w) =>
                      LET remains == hist'[w].man IN
                      /\ Len(remains) > 1 => Total(remains) <= BudgetFor(unlimited)
                      /\ hist[w].head \in Numbers(remains)
<1>1. HistInit => HistIInv
  BY InitHistory
<1>2. HistIInv => Keeps /\ Fits
  BY AppendsKeep, PrunesFit
<1>3. HistIInv /\ [HistNext]_histVars => [Keeps]_histVars /\ [Fits]_histVars
  BY <1>2
<1> QED
  BY <1>1, <1>3, HistoryKeeps, HistoryHolds, PTL
     DEF HistSpec, HistoryIsWhole, AppendsKeepTheRest, BudgetIsKept
=============================================================================
