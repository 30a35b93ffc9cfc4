--------------------------- MODULE KeySessionProofs ---------------------------
(***************************************************************************)
(* The key session's invariants hold for any number of keys, calls, locks  *)
(* and handles.  SessionInv is inductive: one lemma per group of actions,  *)
(* one step per action, and under it the conjuncts the action disturbs.    *)
(***************************************************************************)
EXTENDS KeySession, TLAPS

\* Kinds' "none" belongs to the empty entry alone: an entry of the map has a
\* handle of at least 1, the empty entry has handle 0.
LEMMA EntryHasHandle == NoEntry \notin Entry
BY DEF NoEntry, Entry, Handles

\* The initial state satisfies the invariant.
LEMMA InitInv == Init => SessionInv
<1> SUFFICES ASSUME Init PROVE SessionInv
  OBVIOUS
<1> USE BoundsAssumption DEF Init
<1>1. TypeOK
  <2>1. 0 \in Generations /\ nextHandle \in 1 .. MaxHandle /\ 0 \in HandleOrNone
    BY DEF Generations, HandleOrNone
  <2>2. Idle \in Flight
    BY <2>1 DEF Idle, Flight, Phases
  <2>3. NoBatch \in Batch
    BY <2>1 DEF NoBatch, Batch, BatchPhases
  <2> QED
    BY <2>1, <2>2, <2>3 DEF TypeOK
<1>2. FlightShape /\ HandlesAreFresh /\ CallsOwn /\ OneOwner
  BY DEF FlightShape, HandlesAreFresh, CallsOwn, OneOwner, Holding, Idle, NoEntry
<1>3. LocksAreInThePast /\ NoUnlockSurvivesALock /\ MapOwns /\ MapIsLive
  BY DEF LocksAreInThePast, NoUnlockSurvivesALock, MapOwns, MapIsLive, InMap
<1> QED
  BY <1>1, <1>2, <1>3 DEF SessionInv

\* A step is quiet when WASM, the map, the generation and the queued drops stay
\* as they are and no call holds a handle that it did not hold before.
Quiet ==
  /\ UNCHANGED <<wasmVars, handles, since, generation, dropping, lockedAt>>
  /\ \A d \in Calls : Holding(d)' =>
       /\ Holding(d)
       /\ flights'[d].key = flights[d].key /\ flights'[d].handle = flights[d].handle

\* A quiet, well-typed step preserves the invariant.
LEMMA QuietStep ==
  ASSUME SessionInv, TypeOK', FlightShape', Quiet
  PROVE  SessionInv'
<1> USE DEF SessionInv, Quiet, wasmVars
<1>1. LocksAreInThePast' /\ NoUnlockSurvivesALock'
  BY DEF LocksAreInThePast, NoUnlockSurvivesALock, InMap
<1>2. MapOwns' /\ MapIsLive'
  BY DEF MapOwns, MapIsLive, InMap
<1>3. HandlesAreFresh'
  BY DEF HandlesAreFresh
<1>4. CallsOwn'
  BY DEF CallsOwn
<1>5. OneOwner'
  BY DEF OneOwner
<1> QED
  BY <1>1, <1>2, <1>3, <1>4, <1>5

\* What every one of the proofs below knows about a flight.
LEMMA FlightFields ==
  ASSUME TypeOK, NEW c \in Calls
  PROVE  /\ flights[c] \in Flight
         /\ flights[c].startedAt \in Generations /\ flights[c].opened \in Generations
         /\ flights[c].handle \in HandleOrNone /\ flights[c].phase \in Phases
         /\ flights[c].key \in Keys \cup {NoKey}
BY DEF TypeOK, Flight

\* A new flight that holds no handle yet, or one that ends.
LEMMA FlightChange ==
  ASSUME SessionInv, NEW c \in Calls, NEW f \in Flight,
         flights' = [flights EXCEPT ![c] = f],
         f.phase # "idle" => f.key \in Keys,
         f.phase \in {"resealing", "opened", "saving"} =>
           /\ Holding(c) /\ f.key = flights[c].key /\ f.handle = flights[c].handle
  PROVE  /\ flights' \in [Calls -> Flight] /\ FlightShape'
         /\ \A d \in Calls : Holding(d)' =>
              /\ Holding(d)
              /\ flights'[d].key = flights[d].key
              /\ flights'[d].handle = flights[d].handle
<1>1. flights \in [Calls -> Flight]
  BY DEF SessionInv, TypeOK
<1>2. flights'[c] = f /\ \A d \in Calls \ {c} : flights'[d] = flights[d]
  BY <1>1
<1> QED
  BY <1>1, <1>2 DEF SessionInv, FlightShape, Holding

LEMMA IdleIsAFlight == Idle \in Flight
BY BoundsAssumption DEF Idle, Flight, Phases, Generations, HandleOrNone

\* Calls starting: the flight has no handle yet.
LEMMA BeginInv ==
  ASSUME SessionInv, NEW c \in Calls, NEW k \in Keys,
         UnlockWithPassword(c, k) \/ BatchNext(c, k)
  PROVE  SessionInv'
<1> DEFINE f == [phase |-> "opening", key |-> k, startedAt |-> generation,
                 handle |-> 0, opened |-> generation]
<1> USE BoundsAssumption DEF SessionInv
<1>1. f \in Flight
  BY DEF TypeOK, Flight, Phases, HandleOrNone
<1>2. flights' = [flights EXCEPT ![c] = f]
  BY DEF UnlockWithPassword, BatchNext, BatchTurn, Begin
<1>3. flights' \in [Calls -> Flight] /\ FlightShape' /\ \A d \in Calls : Holding(d)' =>
        /\ Holding(d)
        /\ flights'[d].key = flights[d].key /\ flights'[d].handle = flights[d].handle
  BY <1>1, <1>2, FlightChange
<1>4. batches' \in [Calls -> Batch]
  BY DEF TypeOK, UnlockWithPassword, BatchNext, BatchTurn, Batch
<1>5. UNCHANGED <<wasmVars, mapVars, generation, dropping, timerVars, use, histVars>>
  BY DEF UnlockWithPassword, BatchNext, BatchTurn
<1>6. TypeOK'
  BY <1>3, <1>4, <1>5 DEF TypeOK, wasmVars, mapVars, timerVars, histVars
<1> QED
  BY <1>3, <1>5, <1>6, QuietStep DEF Quiet, mapVars, histVars

\* Calls ending.
LEMMA EndInv ==
  ASSUME SessionInv, NEW c \in Calls,
         OpenFails(c) \/ Recorded(c) \/ RecordFails(c) \/ AddKeyFails(c)
  PROVE  SessionInv'
<1> USE BoundsAssumption DEF SessionInv
<1>1. flights' = [flights EXCEPT ![c] = Idle]
  BY DEF OpenFails, Recorded, RecordFails, AddKeyFails
<1>2. flights' \in [Calls -> Flight] /\ FlightShape' /\ \A d \in Calls : Holding(d)' =>
        /\ Holding(d)
        /\ flights'[d].key = flights[d].key /\ flights'[d].handle = flights[d].handle
  <2>1. Idle.phase = "idle" /\ Idle.phase \notin {"resealing", "opened", "saving"}
    BY DEF Idle
  <2>2. Idle \in Flight
    BY IdleIsAFlight
  <2> QED
    BY <1>1, <2>1, <2>2, FlightChange
<1>3. UNCHANGED <<wasmVars, mapVars, generation, batches, dropping, use, autoLock, lockedAt>>
  BY DEF OpenFails, Recorded, RecordFails, AddKeyFails, timerVars, histVars
<1>4. timerArmed' \in BOOLEAN
  BY DEF TypeOK, OpenFails, Recorded, RecordFails, AddKeyFails, OnActivity, timerVars
<1>5. abandoned' \subseteq (Kinds \X Handles)
  <2>1. CASE AddKeyFails(c)
    <3>1. flights[c].phase = "saving"
      BY <2>1 DEF AddKeyFails
    <3>2. flights[c].key \in Keys /\ flights[c].handle \in Handles
      BY <3>1 DEF FlightShape, Holding
    <3>3. KindOf[flights[c].key] \in Kinds
      BY <3>2, KindsAssumption
    <3> QED
      BY <2>1, <3>2, <3>3 DEF AddKeyFails, TypeOK
  <2>2. CASE ~AddKeyFails(c)
    BY <2>2 DEF OpenFails, Recorded, RecordFails, histVars, TypeOK
  <2> QED
    BY <2>1, <2>2
<1>6. TypeOK'
  BY <1>2, <1>3, <1>4, <1>5 DEF TypeOK, wasmVars, mapVars
<1> QED
  BY <1>2, <1>3, <1>6, QuietStep DEF Quiet, mapVars

\* Calls moving on with the handle they hold.
LEMMA GoOnInv ==
  ASSUME SessionInv, NEW c \in Calls, Resealed(c) \/ CacheKeyHandle(c)
  PROVE  SessionInv'
<1> USE BoundsAssumption DEF SessionInv
<1>1. Holding(c) /\ flights[c].phase # "idle"
  BY DEF Resealed, CacheKeyHandle, Holding
<1>2. PICK g \in Generations :
        flights' = [flights EXCEPT ![c] = [flights[c] EXCEPT !.phase = "opened",
                                                             !.startedAt = g]]
  <2>1. CASE Resealed(c)
    <3>1. flights[c].startedAt \in Generations /\ flights[c] \in Flight
      BY FlightFields
    <3>2. [flights[c] EXCEPT !.phase = "opened", !.startedAt = flights[c].startedAt]
          = [flights[c] EXCEPT !.phase = "opened"]
      BY <3>1 DEF Flight
    <3> QED
      BY <2>1, <3>1, <3>2 DEF Resealed
  <2>2. CASE CacheKeyHandle(c)
    BY <2>2 DEF CacheKeyHandle, TypeOK
  <2> QED
    BY <2>1, <2>2
<1> DEFINE f == [flights[c] EXCEPT !.phase = "opened", !.startedAt = g]
<1>3. /\ f \in Flight /\ f.key = flights[c].key /\ f.handle = flights[c].handle
      /\ f.phase = "opened"
  BY FlightFields DEF Flight, Phases
<1>4. f.key \in Keys
  <2>1. flights[c].key \in Keys
    BY <1>1 DEF FlightShape, Holding
  <2> HIDE DEF f
  <2> QED
    BY <1>3, <2>1
<1>5. flights' \in [Calls -> Flight] /\ FlightShape' /\ \A d \in Calls : Holding(d)' =>
        /\ Holding(d)
        /\ flights'[d].key = flights[d].key /\ flights'[d].handle = flights[d].handle
  <2> HIDE DEF f
  <2> QED
    BY <1>1, <1>2, <1>3, <1>4, FlightChange DEF f
<1>6. UNCHANGED <<wasmVars, mapVars, generation, batches, dropping, timerVars, use, histVars>>
  BY DEF Resealed, CacheKeyHandle
<1>7. TypeOK'
  BY <1>5, <1>6 DEF TypeOK, wasmVars, mapVars, timerVars, histVars
<1> QED
  BY <1>5, <1>6, <1>7, QuietStep DEF Quiet, mapVars, histVars

\* Steps that leave every flight alone and touch no handle.
LEMMA NoFlightInv ==
  ASSUME SessionInv, UNCHANGED <<wasmVars, mapVars, generation, flights, dropping, histVars>>,
         batches' \in [Calls -> Batch], autoLock' \in BOOLEAN, timerArmed' \in BOOLEAN,
         use' \in Use \cup {NoUse}
  PROVE  SessionInv'
<1> USE DEF SessionInv
<1>1. TypeOK'
  BY DEF TypeOK, wasmVars, mapVars, histVars
<1>2. FlightShape'
  BY DEF FlightShape, Holding
<1>3. Quiet
  BY DEF Quiet, mapVars, histVars, Holding
<1> QED
  BY <1>1, <1>2, <1>3, QuietStep

LEMMA BatchBookkeepingInv ==
  ASSUME SessionInv, NEW c \in Calls, NEW eligible \in SUBSET Keys,
         BeginBatch(c) \/ Loaded(c, eligible) \/ BatchEnds(c)
  PROVE  SessionInv'
<1> USE BoundsAssumption DEF SessionInv
<1>1. batches' \in [Calls -> Batch]
  <2>1. NoBatch \in Batch /\ [phase |-> "loading", startedAt |-> generation, todo |-> {}] \in Batch
    BY DEF NoBatch, Batch, BatchPhases, TypeOK, Generations
  <2>2. CASE BeginBatch(c)
    BY <2>1, <2>2 DEF BeginBatch, TypeOK
  <2>3. CASE Loaded(c, eligible)
    <3>1. [batches[c] EXCEPT !.phase = "running", !.todo = eligible] \in Batch
      BY DEF TypeOK, Batch, BatchPhases
    <3> QED
      BY <2>3, <3>1 DEF Loaded, TypeOK
  <2>4. CASE BatchEnds(c)
    BY <2>1, <2>4 DEF BatchEnds, TypeOK
  <2> QED
    BY <2>2, <2>3, <2>4
<1>2. UNCHANGED <<wasmVars, mapVars, generation, flights, dropping, timerVars, use, histVars>>
  BY DEF BeginBatch, Loaded, BatchEnds
<1> QED
  BY <1>1, <1>2, NoFlightInv DEF TypeOK, timerVars

LEMMA IdleStepsInv ==
  ASSUME SessionInv,
         \/ \E k \in Keys : GetHandle(k)
         \/ UseHandle
         \/ \E on \in BOOLEAN : SetAutoLock(on)
         \/ UNCHANGED vars
  PROVE  SessionInv'
<1> USE DEF SessionInv
<1>1. CASE \E k \in Keys : GetHandle(k)
  <2>1. PICK k \in Keys : GetHandle(k)
    BY <1>1
  <2>2. handles[k] \in Entry
    BY <2>1 DEF GetHandle, InMap, TypeOK
  <2>3. use' \in Use
    BY <2>1, <2>2 DEF GetHandle, Use, Entry
  <2> QED
    BY <2>1, <2>3, NoFlightInv DEF GetHandle, OnActivity, TypeOK
<1>2. CASE UseHandle
  BY <1>2, NoFlightInv DEF UseHandle, TypeOK, timerVars
<1>3. CASE \E on \in BOOLEAN : SetAutoLock(on)
  BY <1>3, NoFlightInv DEF SetAutoLock, TypeOK, histVars
<1>4. CASE UNCHANGED vars
  BY <1>4, NoFlightInv DEF vars, TypeOK, wasmVars, mapVars, histVars
<1> QED
  BY <1>1, <1>2, <1>3, <1>4

\* A new ceremony starts and the waiting ones end.
LEMMA PasskeyInv ==
  ASSUME SessionInv, NEW c \in Calls, NEW k \in Keys, UnlockWithPasskey(c, k)
  PROVE  SessionInv'
<1> DEFINE f == [phase |-> "opening", key |-> k, startedAt |-> generation,
                 handle |-> 0, opened |-> generation]
<1> USE BoundsAssumption DEF SessionInv
<1>1. f \in Flight /\ Idle \in Flight
  BY IdleIsAFlight DEF TypeOK, Flight, Phases, HandleOrNone
<1>2. flights' \in [Calls -> Flight]
  BY <1>1 DEF UnlockWithPasskey, TypeOK
<1>3. \A d \in Calls : flights'[d] \in {f, Idle, flights[d]}
  BY DEF UnlockWithPasskey
<1>4. f.phase = "opening" /\ f.key \in Keys /\ Idle.phase = "idle"
  BY DEF Idle
<1>5. FlightShape' /\ \A d \in Calls : Holding(d)' => Holding(d) /\ flights'[d] = flights[d]
  <2> HIDE DEF f
  <2> QED
    BY <1>3, <1>4 DEF FlightShape, Holding
<1>6. UNCHANGED <<wasmVars, mapVars, generation, batches, dropping, timerVars, use, histVars>>
  BY DEF UnlockWithPasskey
<1>7. TypeOK'
  BY <1>2, <1>6 DEF TypeOK, wasmVars, mapVars, timerVars, histVars
<1> QED
  BY <1>5, <1>6, <1>7, QuietStep DEF Quiet, mapVars, histVars

\* WASM opens a handle and one call holds it: its number is fresh.
LEMMA OpenedInv ==
  ASSUME SessionInv, NEW c \in Calls, NEW g \in Flight, g.key \in Keys,
         g.phase \in {"resealing", "opened", "saving"}, g.handle = nextHandle,
         Insert(g.key), flights' = [flights EXCEPT ![c] = g],
         UNCHANGED <<mapVars, generation, batches, dropping, timerVars, use, histVars>>
  PROVE  SessionInv'
<1> USE BoundsAssumption, NoKeyAssumption, KindsAssumption DEF SessionInv, mapVars, histVars
<1>1. /\ nextHandle \in Handles /\ nextHandle' = nextHandle + 1
      /\ nextHandle \in Nat /\ nextHandle' \in 1 .. MaxHandle
  BY DEF Insert, CanInsert, Handles, TypeOK
<1>2. /\ flights'[c] = g /\ flights' \in [Calls -> Flight]
      /\ \A d \in Calls \ {c} : flights'[d] = flights[d]
  BY DEF TypeOK
<1>3. KindOf[g.key] \in Kinds /\ stores' = [stores EXCEPT ![KindOf[g.key]][nextHandle] = g.key]
  BY DEF Insert
<1>4. /\ stores' \in [Kinds -> [Handles -> Keys \cup {NoKey}]]
      /\ stores'[KindOf[g.key]][nextHandle] = g.key
      /\ \A kind \in Kinds, h \in Handles : h # nextHandle => stores'[kind][h] = stores[kind][h]
  BY <1>1, <1>3 DEF TypeOK
<1>5. TypeOK'
  BY <1>1, <1>2, <1>4 DEF TypeOK, timerVars
<1>6. FlightShape'
  BY <1>1, <1>2 DEF FlightShape, Holding
<1>7. LocksAreInThePast' /\ NoUnlockSurvivesALock' /\ MapOwns'
  BY DEF LocksAreInThePast, NoUnlockSurvivesALock, MapOwns, InMap
<1>8. HandlesAreFresh'
  <2>1. \A d \in Calls : Holding(d) => flights[d].handle \in Nat
    BY FlightFields DEF HandleOrNone
  <2>2. \A k \in Keys : handles[k].handle \in Nat
    BY DEF TypeOK, Entry, NoEntry, Handles
  <2>3. \A e \in dropping : e[2] \in Nat
    BY DEF TypeOK, Handles
  <2> QED
    BY <1>1, <1>2, <2>1, <2>2, <2>3 DEF HandlesAreFresh, Holding
<1>9. MapIsLive'
  <2>1. \A k \in Keys : InMap(k) => /\ handles[k].kind \in Kinds /\ handles[k].handle \in Handles
                                    /\ handles[k].handle # nextHandle
    BY <1>1 DEF TypeOK, InMap, Entry, HandlesAreFresh
  <2> QED
    BY <1>4, <2>1 DEF MapIsLive, InMap
<1>10. CallsOwn'
  <2>1. SUFFICES ASSUME NEW d \in Calls, Holding(d)'
                 PROVE  /\ stores'[KindOf[flights'[d].key]][flights'[d].handle] = flights'[d].key
                        /\ <<KindOf[flights'[d].key], flights'[d].handle>> \notin dropping'
    BY DEF CallsOwn
  <2>2. CASE d = c
    <3>1. <<KindOf[g.key], nextHandle>> \notin dropping
      <4>1. <<KindOf[g.key], nextHandle>> \in dropping => nextHandle < nextHandle
        BY DEF HandlesAreFresh
      <4> QED
        BY <1>1, <4>1
    <3>2. flights'[d] = g /\ dropping' = dropping
      BY <1>2, <2>2
    <3>3. stores'[KindOf[g.key]][g.handle] = g.key /\ <<KindOf[g.key], g.handle>> \notin dropping
      BY <1>4, <3>1
    <3> QED
      BY <3>2, <3>3
  <2>3. CASE d # c
    <3>1. flights'[d] = flights[d] /\ Holding(d)
      BY <1>2, <2>1, <2>3 DEF Holding
    <3>2. flights[d].handle \in Handles /\ flights[d].handle < nextHandle /\ flights[d].key \in Keys
      BY <3>1 DEF FlightShape, HandlesAreFresh, Holding
    <3>3. flights[d].handle # nextHandle /\ KindOf[flights[d].key] \in Kinds
      BY <1>1, <3>2 DEF Handles
    <3>4. stores'[KindOf[flights[d].key]][flights[d].handle]
          = stores[KindOf[flights[d].key]][flights[d].handle]
      BY <1>4, <3>2, <3>3
    <3> QED
      BY <3>1, <3>4 DEF CallsOwn
  <2> QED
    BY <2>2, <2>3
<1>11. OneOwner'
  BY <1>1, <1>2 DEF OneOwner, HandlesAreFresh, Holding
<1> QED
  BY <1>5, <1>6, <1>7, <1>8, <1>9, <1>10, <1>11

\* open() succeeds, or key generation protects and opens a new key.
LEMMA OpenInv ==
  ASSUME SessionInv, NEW c \in Calls, Open(c) \/ \E k \in Keys : Generate(c, k)
  PROVE  SessionInv'
<1> USE BoundsAssumption DEF SessionInv
<1>1. nextHandle \in HandleOrNone
  <2>1. nextHandle < MaxHandle
    BY DEF Open, Generate, Insert, CanInsert
  <2> QED
    BY <2>1 DEF TypeOK, HandleOrNone
<1>2. CASE Open(c)
  <2>1. PICK next \in {"opened", "resealing"} :
          flights' = [flights EXCEPT ![c] = [flights[c] EXCEPT !.phase = next, !.handle = nextHandle]]
    BY <1>2 DEF Open, TypeOK, Flight
  <2> DEFINE g == [flights[c] EXCEPT !.phase = next, !.handle = nextHandle]
  <2>2. flights[c] \in Flight /\ flights[c].key \in Keys
    BY <1>2, FlightFields DEF Open, FlightShape
  <2>3. g \in Flight /\ g.phase = next /\ g.handle = nextHandle /\ g.key = flights[c].key
    BY <1>1, <2>2 DEF Flight, Phases
  <2>4. /\ Insert(flights[c].key)
        /\ UNCHANGED <<mapVars, generation, batches, dropping, timerVars, use, histVars>>
    BY <1>2 DEF Open
  <2> HIDE DEF g
  <2>5. g.key \in Keys /\ g.phase \in {"resealing", "opened", "saving"} /\ Insert(g.key)
    BY <2>2, <2>3, <2>4
  <2>6. flights' = [flights EXCEPT ![c] = g]
    BY <2>1 DEF g
  <2> QED
    BY <2>3, <2>4, <2>5, <2>6, OpenedInv
<1>3. CASE \E k \in Keys : Generate(c, k)
  <2>1. PICK k \in Keys : Generate(c, k)
    BY <1>3
  <2> DEFINE g == [phase |-> "saving", key |-> k, startedAt |-> generation,
                   handle |-> nextHandle, opened |-> generation]
  <2>2. /\ g \in Flight /\ g.phase \in {"resealing", "opened", "saving"}
        /\ g.handle = nextHandle /\ g.key = k
    BY <1>1 DEF Flight, Phases, TypeOK
  <2>3. Insert(k) /\ flights' = [flights EXCEPT ![c] = g]
        /\ UNCHANGED <<mapVars, generation, batches, dropping, timerVars, use, histVars>>
    BY <2>1 DEF Generate, Begin
  <2> HIDE DEF g
  <2>4. g.key \in Keys /\ Insert(g.key)
    BY <2>2, <2>3
  <2> QED
    BY <2>2, <2>3, <2>4, OpenedInv
<1> QED
  BY <1>2, <1>3

\* Two entries of the map are the same handle only if they are the same entry.
LEMMA EntriesDiffer ==
  ASSUME SessionInv, NEW j \in Keys, NEW k \in Keys, InMap(j), InMap(k),
         handles[j].kind = handles[k].kind, handles[j].handle = handles[k].handle
  PROVE  j = k
BY DEF SessionInv, MapIsLive

LEMMA EntryFields ==
  ASSUME TypeOK, NEW k \in Keys, InMap(k)
  PROVE  handles[k] \in Entry /\ handles[k].kind \in Kinds /\ handles[k].handle \in Handles
BY DEF TypeOK, InMap, Entry

\* A lock of the keys in K empties their slots and queues a drop of each entry.
LEMMA LockedInv ==
  ASSUME SessionInv, NEW K \in SUBSET Keys,
         generation < MaxLocks, generation' = generation + 1,
         dropping' = dropping \cup {<<handles[k].kind, handles[k].handle>> : k \in {j \in K : InMap(j)}},
         handles' = [k \in Keys |-> IF k \in K THEN NoEntry ELSE handles[k]],
         since' = [k \in Keys |-> IF k \in K THEN 0 ELSE since[k]],
         openedAt' = [k \in Keys |-> IF k \in K THEN 0 ELSE openedAt[k]],
         lockedAt' = [k \in Keys |-> IF k \in K THEN generation + 1 ELSE lockedAt[k]],
         autoLock' \in BOOLEAN, timerArmed' \in BOOLEAN,
         UNCHANGED <<wasmVars, flights, batches, use, abandoned>>
  PROVE  SessionInv'
<1> USE BoundsAssumption DEF SessionInv, wasmVars
<1>1. /\ generation \in Nat /\ generation' \in Generations /\ 0 \in Generations
      /\ \A k \in Keys : since[k] \in Nat /\ lockedAt[k] \in Nat
  BY DEF TypeOK, Generations
<1>2. dropping' \subseteq (Kinds \X Handles)
  BY EntryFields DEF TypeOK
<1>3. handles' \in [Keys -> Entry \cup {NoEntry}]
  BY DEF TypeOK
<1>4. /\ since' \in [Keys -> Generations] /\ openedAt' \in [Keys -> Generations]
      /\ lockedAt' \in [Keys -> Generations]
  BY <1>1 DEF TypeOK
<1>5. TypeOK'
  BY <1>1, <1>2, <1>3, <1>4 DEF TypeOK
<1>6. FlightShape'
  BY DEF FlightShape, Holding
<1>7. \A k \in Keys : InMap(k)' => k \notin K /\ InMap(k) /\ handles'[k] = handles[k]
  BY DEF InMap
<1>8. LocksAreInThePast' /\ NoUnlockSurvivesALock'
  BY <1>1, <1>7 DEF LocksAreInThePast, NoUnlockSurvivesALock
<1>9. HandlesAreFresh'
  <2>1. \A e \in dropping' : e[2] < nextHandle
    BY DEF HandlesAreFresh
  <2>2. \A k \in Keys : handles'[k].handle < nextHandle
    BY DEF HandlesAreFresh, NoEntry, TypeOK
  <2> QED
    BY <2>1, <2>2 DEF HandlesAreFresh, Holding
<1>10. MapOwns'
  BY <1>7 DEF MapOwns
<1>11. MapIsLive'
  BY <1>7, EntriesDiffer DEF MapIsLive
<1>12. CallsOwn'
  BY DEF CallsOwn, OneOwner, Holding
<1>13. OneOwner'
  <2>1. \A c \in Calls : Holding(c) => flights[c].handle # 0
    BY DEF FlightShape, Handles, Holding
  <2> QED
    BY <2>1 DEF OneOwner, Holding, NoEntry
<1> QED
  BY <1>5, <1>6, <1>8, <1>9, <1>10, <1>11, <1>12, <1>13

LEMMA LocksInv ==
  ASSUME SessionInv, LockAll \/ TimerFires \/ \E k \in Keys : Lock(k)
  PROVE  SessionInv'
<1>1. CASE LockAll \/ TimerFires
  <2>1. dropping' = dropping \cup {<<handles[k].kind, handles[k].handle>> : k \in {j \in Keys : InMap(j)}}
    BY <1>1 DEF LockAll, TimerFires, DropEverything, Release, UnlockedKeys
  <2>2. autoLock' \in BOOLEAN /\ timerArmed' \in BOOLEAN
    BY <1>1 DEF LockAll, TimerFires, timerVars, SessionInv, TypeOK
  <2> QED
    BY <1>1, <2>1, <2>2, LockedInv DEF LockAll, TimerFires, DropEverything
<1>2. CASE \E k \in Keys : Lock(k)
  <2>1. PICK k \in Keys : Lock(k)
    BY <1>2
  <2>2. dropping' = dropping \cup {<<handles[j].kind, handles[j].handle>> : j \in {i \in {k} : InMap(i)}}
    BY <2>1 DEF Lock, Release, InMap
  <2>3. /\ handles' = [j \in Keys |-> IF j \in {k} THEN NoEntry ELSE handles[j]]
        /\ since' = [j \in Keys |-> IF j \in {k} THEN 0 ELSE since[j]]
        /\ openedAt' = [j \in Keys |-> IF j \in {k} THEN 0 ELSE openedAt[j]]
        /\ lockedAt' = [j \in Keys |-> IF j \in {k} THEN generation + 1 ELSE lockedAt[j]]
    BY <2>1 DEF Lock, SessionInv, TypeOK
  <2>4. autoLock' \in BOOLEAN /\ timerArmed' \in BOOLEAN
    BY <2>1 DEF Lock, timerVars, SessionInv, TypeOK
  <2> HIDE DEF Lock
  <2>5. /\ generation < MaxLocks /\ generation' = generation + 1
        /\ UNCHANGED <<wasmVars, flights, batches, use, abandoned>>
    BY <2>1 DEF Lock
  <2> QED
    BY <2>2, <2>3, <2>4, <2>5, LockedInv
<1> QED
  BY <1>1, <1>2

\* A lock overtook the unlock: the handle the call held is queued for a drop.
LEMMA CancelInv ==
  ASSUME SessionInv, NEW c \in Calls, Cancel(c)
  PROVE  SessionInv'
<1> DEFINE pair == <<KindOf[flights[c].key], flights[c].handle>>
<1> USE BoundsAssumption, KindsAssumption DEF SessionInv, wasmVars, mapVars, histVars
<1>1. Holding(c) /\ flights[c].key \in Keys /\ flights[c].handle \in Handles
  BY DEF Cancel, FlightShape, Holding
<1>2. pair \in Kinds \X Handles /\ pair[2] = flights[c].handle
  BY <1>1
<1>3. dropping' = dropping \cup {pair}
  BY DEF Cancel, Release
<1>4. /\ flights' = [flights EXCEPT ![c] = Idle]
      /\ UNCHANGED <<wasmVars, mapVars, generation, batches, timerVars, use, histVars>>
  BY DEF Cancel
<1>5. flights' \in [Calls -> Flight] /\ FlightShape' /\ \A d \in Calls : Holding(d)' =>
        /\ Holding(d)
        /\ flights'[d].key = flights[d].key /\ flights'[d].handle = flights[d].handle
  BY <1>4, IdleIsAFlight, FlightChange DEF Idle
<1>6. \A d \in Calls : Holding(d)' => d # c
  BY <1>4 DEF Holding, Idle, TypeOK
<1>7. TypeOK'
  BY <1>2, <1>3, <1>4, <1>5 DEF TypeOK, timerVars
<1>8. LocksAreInThePast' /\ NoUnlockSurvivesALock' /\ MapOwns'
  BY <1>4 DEF LocksAreInThePast, NoUnlockSurvivesALock, MapOwns, InMap
<1>9. HandlesAreFresh'
  BY <1>1, <1>2, <1>3, <1>4, <1>5 DEF HandlesAreFresh
<1>10. MapIsLive'
  BY <1>1, <1>3, <1>4 DEF MapIsLive, InMap, OneOwner
<1>11. CallsOwn'
  BY <1>1, <1>3, <1>4, <1>5, <1>6 DEF CallsOwn, OneOwner
<1>12. OneOwner'
  BY <1>4, <1>5 DEF OneOwner
<1> QED
  BY <1>5, <1>7, <1>8, <1>9, <1>10, <1>11, <1>12

\* The handle goes from the call to the map; the entry it replaces is dropped.
LEMMA StoreInv ==
  ASSUME SessionInv, NEW c \in Calls, Store(c)
  PROVE  SessionInv'
<1> DEFINE k == flights[c].key
           h == flights[c].handle
           old == <<handles[k].kind, handles[k].handle>>
<1> USE BoundsAssumption, KindsAssumption DEF SessionInv, wasmVars, histVars
<1>1. Holding(c) /\ k \in Keys /\ h \in Handles /\ KindOf[k] \in Kinds
  BY DEF Store, StoreEntry, FlightShape, Holding
<1>2. flights[c] \in Flight /\ flights[c].startedAt \in Generations /\ flights[c].opened \in Generations
  BY FlightFields
<1>3. InMap(k) => handles[k] \in Entry /\ handles[k].handle # h
  BY <1>1, EntryFields DEF OneOwner
<1>4. dropping' = IF InMap(k) THEN dropping \cup {old} ELSE dropping
  <2>1. Replaced(k, h) = IF InMap(k) THEN {handles[k]} ELSE {}
    BY <1>3 DEF Replaced, InMap
  <2> QED
    BY <2>1 DEF Store, StoreEntry, Release
<1>5. /\ handles' = [handles EXCEPT ![k] = [handle |-> h, kind |-> KindOf[k]]]
      /\ since' = [since EXCEPT ![k] = flights[c].startedAt]
      /\ openedAt' = [openedAt EXCEPT ![k] = flights[c].opened]
      /\ flights[c].startedAt = generation
      /\ UNCHANGED <<wasmVars, generation, batches, timerVars, use, histVars>>
  BY DEF Store, StoreEntry
<1> DEFINE g == [flights[c] EXCEPT !.phase = "recording"]
<1>6. g \in Flight /\ g.phase = "recording" /\ g.key = k
  BY <1>2 DEF Flight, Phases
<1>7. flights' = [flights EXCEPT ![c] = g]
  BY DEF Store, StoreEntry
<1> HIDE DEF g
<1>8. flights' \in [Calls -> Flight] /\ FlightShape' /\ \A d \in Calls : Holding(d)' =>
        /\ Holding(d)
        /\ flights'[d].key = flights[d].key /\ flights'[d].handle = flights[d].handle
  BY <1>1, <1>6, <1>7, FlightChange
<1>9. \A d \in Calls : Holding(d)' => d # c
  BY <1>6, <1>7 DEF Holding, TypeOK
<1>10. [handle |-> h, kind |-> KindOf[k]] \in Entry
  BY <1>1 DEF Entry
<1>11. /\ handles' \in [Keys -> Entry \cup {NoEntry}]
       /\ handles'[k] = [handle |-> h, kind |-> KindOf[k]]
       /\ handles'[k].handle = h /\ handles'[k].kind = KindOf[k]
       /\ \A j \in Keys \ {k} : handles'[j] = handles[j]
  BY <1>1, <1>5, <1>10 DEF TypeOK
<1>12. old[2] < nextHandle /\ (InMap(k) => old \in Kinds \X Handles)
  BY <1>1, EntryFields DEF HandlesAreFresh
<1>13. TypeOK'
  <2>1. dropping' \subseteq (Kinds \X Handles)
    BY <1>4, <1>12 DEF TypeOK
  <2>2. since' \in [Keys -> Generations] /\ openedAt' \in [Keys -> Generations]
    BY <1>1, <1>2, <1>5 DEF TypeOK
  <2> QED
    BY <1>5, <1>8, <1>11, <2>1, <2>2 DEF TypeOK, timerVars
<1>14. LocksAreInThePast'
  BY <1>5 DEF LocksAreInThePast
<1>15. NoUnlockSurvivesALock'
  <2>1. since'[k] = generation /\ lockedAt'[k] <= generation
    BY <1>1, <1>5 DEF LocksAreInThePast, TypeOK
  <2>2. generation \in Nat /\ lockedAt'[k] \in Nat
    BY <1>1, <1>5 DEF TypeOK, Generations
  <2>3. \A j \in Keys \ {k} : since'[j] = since[j] /\ lockedAt'[j] = lockedAt[j]
    BY <1>5 DEF TypeOK
  <2> QED
    BY <1>11, <2>1, <2>2, <2>3 DEF NoUnlockSurvivesALock, InMap
<1>16. HandlesAreFresh'
  <2>1. \A j \in Keys : handles'[j].handle < nextHandle
    BY <1>1, <1>11 DEF HandlesAreFresh
  <2>2. \A d \in dropping' : d[2] < nextHandle
    BY <1>4, <1>12 DEF HandlesAreFresh
  <2>3. \A d \in Calls : Holding(d)' => flights'[d].handle < nextHandle
    BY <1>8 DEF HandlesAreFresh
  <2> QED
    BY <1>5, <2>1, <2>2, <2>3 DEF HandlesAreFresh
<1>17. MapOwns'
  BY <1>11 DEF MapOwns, InMap
<1>18. MapIsLive'
  <2>1. /\ stores[KindOf[k]][h] = k /\ <<KindOf[k], h>> \notin dropping
        /\ InMap(k) => <<KindOf[k], h>> # old
    BY <1>1, <1>3 DEF CallsOwn
  <2>2. \A j \in Keys \ {k} : InMap(j) /\ InMap(k) => <<handles[j].kind, handles[j].handle>> # old
    BY <1>1, EntriesDiffer
  <2>3. \A j \in Keys \ {k} : InMap(j) => <<handles[j].kind, handles[j].handle>> \notin dropping'
    BY <1>4, <2>2 DEF MapIsLive
  <2>4. <<KindOf[k], h>> \notin dropping'
    BY <1>4, <2>1
  <2> QED
    BY <1>1, <1>5, <1>11, <2>1, <2>3, <2>4 DEF MapIsLive, InMap
<1>19. CallsOwn'
  <2>1. \A d \in Calls : Holding(d)' => <<KindOf[flights[d].key], flights[d].handle>> # old
    BY <1>1, <1>8 DEF OneOwner
  <2> QED
    BY <1>4, <1>5, <1>8, <2>1 DEF CallsOwn
<1>20. OneOwner'
  BY <1>1, <1>8, <1>9, <1>11 DEF OneOwner
<1> QED
  BY <1>8, <1>13, <1>14, <1>15, <1>16, <1>17, <1>18, <1>19, <1>20

\* WASM executes a queued drop: nobody owned that handle any more.
LEMMA DropKeyInv ==
  ASSUME SessionInv, NEW kind \in Kinds, NEW h \in Handles, DropKey(kind, h)
  PROVE  SessionInv'
<1> USE BoundsAssumption DEF SessionInv, wasmVars, mapVars, histVars
<1>1. /\ <<kind, h>> \in dropping /\ dropping' = dropping \ {<<kind, h>>}
      /\ stores' = [stores EXCEPT ![kind][h] = NoKey]
      /\ UNCHANGED <<nextHandle, mapVars, generation, flights, batches, timerVars, use, histVars>>
  BY DEF DropKey, DropFrom
<1>2. /\ stores' \in [Kinds -> [Handles -> Keys \cup {NoKey}]]
      /\ \A e \in Kinds, i \in Handles : <<e, i>> # <<kind, h>> => stores'[e][i] = stores[e][i]
  BY <1>1 DEF TypeOK
<1>3. TypeOK'
  BY <1>1, <1>2 DEF TypeOK, timerVars
<1>4. FlightShape' /\ LocksAreInThePast' /\ NoUnlockSurvivesALock' /\ MapOwns' /\ OneOwner'
  BY <1>1 DEF FlightShape, LocksAreInThePast, NoUnlockSurvivesALock, MapOwns, OneOwner, InMap, Holding
<1>5. HandlesAreFresh'
  BY <1>1 DEF HandlesAreFresh, Holding
<1>6. MapIsLive'
  <2>1. \A k \in Keys : InMap(k) =>
          stores'[handles[k].kind][handles[k].handle] = stores[handles[k].kind][handles[k].handle]
    BY <1>1, <1>2, EntryFields DEF MapIsLive
  <2> QED
    BY <1>1, <2>1 DEF MapIsLive, InMap
<1>7. CallsOwn'
  <2>1. \A d \in Calls : Holding(d) => flights[d].handle \in Handles /\ KindOf[flights[d].key] \in Kinds
    BY KindsAssumption DEF FlightShape, Holding
  <2>2. \A d \in Calls : Holding(d) =>
          stores'[KindOf[flights[d].key]][flights[d].handle] = stores[KindOf[flights[d].key]][flights[d].handle]
    BY <1>1, <1>2, <2>1 DEF CallsOwn
  <2> QED
    BY <1>1, <2>2 DEF CallsOwn, Holding
<1> QED
  BY <1>3, <1>4, <1>5, <1>6, <1>7

\* Every step preserves the invariant.
LEMMA NextInv == SessionInv /\ [Next]_vars => SessionInv'
<1> SUFFICES ASSUME SessionInv, [Next]_vars PROVE SessionInv'
  OBVIOUS
<1>1. CASE \E c \in Calls : CallStep(c)
  <2>1. PICK c \in Calls : CallStep(c)
    BY <1>1
  <2>2. CASE \E k \in Keys : UnlockWithPassword(c, k) \/ BatchNext(c, k)
    BY <2>2, BeginInv
  <2>3. CASE \E k \in Keys : UnlockWithPasskey(c, k)
    BY <2>3, PasskeyInv
  <2>4. CASE Open(c) \/ \E k \in Keys : Generate(c, k)
    BY <2>4, OpenInv
  <2>5. CASE OpenFails(c) \/ Recorded(c) \/ RecordFails(c) \/ AddKeyFails(c)
    BY <2>5, EndInv
  <2>6. CASE Resealed(c) \/ CacheKeyHandle(c)
    BY <2>6, GoOnInv
  <2>7. CASE Cancel(c)
    BY <2>7, CancelInv
  <2>8. CASE Store(c)
    BY <2>8, StoreInv
  <2>9. CASE BeginBatch(c) \/ BatchEnds(c) \/ \E eligible \in SUBSET Keys : Loaded(c, eligible)
    <3>1. {} \in SUBSET Keys
      OBVIOUS
    <3> QED
      BY <2>9, <3>1, BatchBookkeepingInv
  <2> QED
    BY <2>1, <2>2, <2>3, <2>4, <2>5, <2>6, <2>7, <2>8, <2>9 DEF CallStep
<1>2. CASE \E k \in Keys : GetHandle(k)
  BY <1>2, IdleStepsInv
<1>3. CASE UseHandle \/ UNCHANGED vars
  BY <1>3, IdleStepsInv
<1>4. CASE \E on \in BOOLEAN : SetAutoLock(on)
  BY <1>4, IdleStepsInv
<1>5. CASE LockAll \/ TimerFires \/ \E k \in Keys : Lock(k)
  BY <1>5, LocksInv
<1>6. CASE \E kind \in Kinds, h \in Handles : DropKey(kind, h)
  BY <1>6, DropKeyInv
<1> QED
  BY <1>1, <1>2, <1>3, <1>4, <1>5, <1>6 DEF Next

\* SessionInv holds in every state of every behaviour.
THEOREM SessionInvariant == Spec => []SessionInv
<1>1. Init => SessionInv
  BY InitInv
<1>2. SessionInv /\ [Next]_vars => SessionInv'
  BY NextInv
<1> QED
  BY <1>1, <1>2, PTL DEF Spec

\* Every variable of the session and of WASM keeps its type; in particular the
\* handle counter never passes its maximum.
THEOREM TypeCorrect == Spec => []TypeOK
<1>1. SessionInv => TypeOK
  BY DEF SessionInv
<1> QED
  BY <1>1, SessionInvariant, PTL

\* No unlock survives a lock (useKeySession.ts:122), whatever the keys, the
\* calls in flight and the number of locks.
THEOREM LocksWin == Spec => []NoUnlockSurvivesALock
<1>1. SessionInv => NoUnlockSurvivesALock
  BY DEF SessionInv
<1> QED
  BY <1>1, SessionInvariant, PTL

\* The map never points at a dropped, a dying or another key's handle.
THEOREM MapStaysLive == Spec => []MapIsLive
<1>1. SessionInv => MapIsLive
  BY DEF SessionInv
<1> QED
  BY <1>1, SessionInvariant, PTL
-----------------------------------------------------------------------------
(* What becomes of a handle, for any number of keys, calls, locks and       *)
(* handles: none is lost, and a stale one reaches no other key.  Both rest  *)
(* on SessionInv, which says who owns a handle.                             *)

\* A step loses no handle if each entry and each call that gives one up leaves
\* it to the map, to the queued drops or to the abandoned ones.
LEMMA StaysReferenced ==
  ASSUME SessionInv, NoLostHandle,
         stores' = stores, dropping \subseteq dropping', abandoned \subseteq abandoned',
         \A k \in Keys : InMap(k) =>
           handles'[k] = handles[k] \/ <<handles[k].kind, handles[k].handle>> \in dropping',
         \A c \in Calls : Holding(c) =>
           \/ /\ Holding(c)'
              /\ flights'[c].key = flights[c].key /\ flights'[c].handle = flights[c].handle
           \/ \E k \in Keys :
                handles'[k] = [handle |-> flights[c].handle, kind |-> KindOf[flights[c].key]]
           \/ <<KindOf[flights[c].key], flights[c].handle>> \in dropping' \cup abandoned'
  PROVE  NoLostHandle'
<1> SUFFICES ASSUME NEW kind \in Kinds, NEW h \in Handles, stores[kind][h] # NoKey
             PROVE  Referenced(kind, h)' \/ <<kind, h>> \in abandoned'
  BY DEF NoLostHandle
<1>1. Referenced(kind, h) \/ <<kind, h>> \in abandoned
  BY DEF NoLostHandle
<1>2. CASE <<kind, h>> \in dropping \cup abandoned
  BY <1>2 DEF Referenced
<1>3. ASSUME NEW k \in Keys, handles[k] = [handle |-> h, kind |-> kind]
      PROVE  Referenced(kind, h)'
  <2>1. InMap(k) /\ handles[k].kind = kind /\ handles[k].handle = h
    BY <1>3 DEF InMap, NoEntry, Handles
  <2> QED
    BY <1>3, <2>1 DEF Referenced
<1>4. ASSUME NEW c \in Calls, Holding(c), flights[c].handle = h, KindOf[flights[c].key] = kind
      PROVE  Referenced(kind, h)' \/ <<kind, h>> \in abandoned'
  <2>1. CASE Holding(c)' /\ flights'[c].key = flights[c].key /\ flights'[c].handle = flights[c].handle
    BY <1>4, <2>1 DEF Referenced, Holding
  <2>2. CASE \E k \in Keys : handles'[k] = [handle |-> h, kind |-> kind]
    BY <2>2 DEF Referenced
  <2>3. CASE <<kind, h>> \in dropping' \cup abandoned'
    BY <2>3 DEF Referenced
  <2> QED
    BY <1>4, <2>1, <2>2, <2>3
<1> QED
  BY <1>1, <1>2, <1>3, <1>4 DEF Referenced, Holding

\* A call opens a key: the new handle is the call's.
LEMMA OpenKeepsTrack ==
  ASSUME SessionInv, NoLostHandle, NEW c \in Calls, Open(c) \/ \E k \in Keys : Generate(c, k)
  PROVE  NoLostHandle'
<1>1. PICK k \in Keys :
        /\ stores' = [stores EXCEPT ![KindOf[k]][nextHandle] = k]
        /\ ~Holding(c)
        /\ flights'[c].phase \in {"resealing", "opened", "saving"}
        /\ flights'[c].key = k /\ flights'[c].handle = nextHandle
        /\ \A d \in Calls \ {c} : flights'[d] = flights[d]
        /\ UNCHANGED <<handles, dropping, abandoned>>
  <2>1. CASE Open(c)
    <3>1. flights[c].key \in Keys /\ flights \in [Calls -> Flight]
      BY <2>1 DEF Open, SessionInv, FlightShape, TypeOK
    <3>2. PICK next \in {"opened", "resealing"} :
            flights' = [flights EXCEPT ![c].phase = next, ![c].handle = nextHandle]
      BY <2>1 DEF Open
    <3>3. flights'[c].phase = next /\ flights'[c].key = flights[c].key
          /\ flights'[c].handle = nextHandle /\ \A d \in Calls \ {c} : flights'[d] = flights[d]
      BY <3>1, <3>2 DEF Flight
    <3> QED
      BY <2>1, <3>1, <3>3 DEF Open, Insert, Holding, mapVars, histVars
  <2>2. CASE \E k \in Keys : Generate(c, k)
    <3>1. flights \in [Calls -> Flight]
      BY DEF SessionInv, TypeOK
    <3>2. PICK k \in Keys : Generate(c, k)
      BY <2>2
    <3>3. /\ flights'[c].phase = "saving" /\ flights'[c].key = k
          /\ flights'[c].handle = nextHandle /\ \A d \in Calls \ {c} : flights'[d] = flights[d]
      BY <3>1, <3>2 DEF Generate, Begin
    <3> QED
      BY <3>2, <3>3 DEF Generate, Insert, Holding, mapVars, histVars
  <2> QED
    BY <2>1, <2>2
<1> SUFFICES ASSUME NEW kind \in Kinds, NEW h \in Handles, stores'[kind][h] # NoKey
             PROVE  Referenced(kind, h)' \/ <<kind, h>> \in abandoned'
  BY DEF NoLostHandle
<1>2. CASE kind = KindOf[k] /\ h = nextHandle
  BY <1>1, <1>2 DEF Referenced
<1>3. CASE ~(kind = KindOf[k] /\ h = nextHandle)
  <2>1. stores[kind][h] # NoKey
    BY <1>1, <1>3 DEF SessionInv, TypeOK
  <2>2. Referenced(kind, h) \/ <<kind, h>> \in abandoned
    BY <2>1 DEF NoLostHandle
  <2> QED
    BY <1>1, <2>2 DEF Referenced, Holding
<1> QED
  BY <1>2, <1>3

\* WASM wipes the handle it drops.
LEMMA DropKeepsTrack ==
  ASSUME SessionInv, NoLostHandle, NEW kind \in Kinds, NEW h \in Handles, DropKey(kind, h)
  PROVE  NoLostHandle'
<1>1. /\ dropping' = dropping \ {<<kind, h>>}
      /\ stores' = [stores EXCEPT ![kind][h] = NoKey]
      /\ UNCHANGED <<handles, flights, abandoned>>
  BY DEF DropKey, DropFrom, mapVars, histVars
<1> SUFFICES ASSUME NEW e \in Kinds, NEW i \in Handles, stores'[e][i] # NoKey
             PROVE  Referenced(e, i)' \/ <<e, i>> \in abandoned'
  BY DEF NoLostHandle
<1>2. <<e, i>> # <<kind, h>> /\ stores[e][i] # NoKey
  BY <1>1 DEF SessionInv, TypeOK
<1>3. Referenced(e, i) \/ <<e, i>> \in abandoned
  BY <1>2 DEF NoLostHandle
<1> QED
  BY <1>1, <1>2, <1>3 DEF Referenced

\* The handle goes from the call to the map, the replaced entry to the drops.
LEMMA StoreKeepsTrack ==
  ASSUME SessionInv, NoLostHandle, NEW c \in Calls, Store(c)
  PROVE  NoLostHandle'
<1> DEFINE k == flights[c].key
           h == flights[c].handle
<1>1. Holding(c) /\ k \in Keys
  BY DEF Store, StoreEntry, Holding, SessionInv, FlightShape
<1>2. InMap(k) => handles[k] \in Replaced(k, h)
  BY <1>1 DEF Replaced, InMap, SessionInv, OneOwner
<1>3. /\ dropping \subseteq dropping'
      /\ InMap(k) => <<handles[k].kind, handles[k].handle>> \in dropping'
  BY <1>2 DEF Store, StoreEntry, Release
<1>4. /\ handles'[k] = [handle |-> h, kind |-> KindOf[k]]
      /\ \A j \in Keys \ {k} : handles'[j] = handles[j]
      /\ \A d \in Calls \ {c} : flights'[d] = flights[d]
      /\ UNCHANGED <<stores, abandoned>>
  BY <1>1 DEF Store, StoreEntry, SessionInv, TypeOK, wasmVars, histVars
<1> QED
  BY <1>1, <1>3, <1>4, StaysReferenced DEF Holding

\* An unlock overtaken by a lock leaves its handle to the drops.
LEMMA CancelKeepsTrack ==
  ASSUME SessionInv, NoLostHandle, NEW c \in Calls, Cancel(c)
  PROVE  NoLostHandle'
<1>1. /\ dropping' = dropping \cup {<<KindOf[flights[c].key], flights[c].handle>>}
      /\ \A d \in Calls \ {c} : flights'[d] = flights[d]
      /\ UNCHANGED <<stores, handles, abandoned>>
  BY DEF Cancel, Release, SessionInv, TypeOK, wasmVars, mapVars, histVars
<1> QED
  BY <1>1, StaysReferenced DEF Holding

\* A lock leaves each entry it takes out to the drops.
LEMMA LocksKeepTrack ==
  ASSUME SessionInv, NoLostHandle, LockAll \/ TimerFires \/ \E k \in Keys : Lock(k)
  PROVE  NoLostHandle'
<1>1. /\ dropping \subseteq dropping'
      /\ \A k \in Keys : InMap(k) =>
           handles'[k] = handles[k] \/ <<handles[k].kind, handles[k].handle>> \in dropping'
      /\ UNCHANGED <<stores, flights, abandoned>>
  <2>1. CASE LockAll \/ TimerFires
    BY <2>1 DEF LockAll, TimerFires, DropEverything, Release, UnlockedKeys, wasmVars
  <2>2. CASE \E k \in Keys : Lock(k)
    BY <2>2 DEF Lock, Release, InMap, SessionInv, TypeOK, wasmVars
  <2> QED
    BY <2>1, <2>2
<1> QED
  BY <1>1, StaysReferenced DEF Holding

\* Steps of a call that move no handle, or abandon the one they hold.
LEMMA CallKeepsTrack ==
  ASSUME SessionInv, NoLostHandle, NEW c \in Calls,
         \/ \E k \in Keys : \/ UnlockWithPassword(c, k) \/ BatchNext(c, k)
                            \/ UnlockWithPasskey(c, k)
         \/ OpenFails(c) \/ Recorded(c) \/ RecordFails(c) \/ AddKeyFails(c)
         \/ Resealed(c) \/ CacheKeyHandle(c)
         \/ BeginBatch(c) \/ BatchEnds(c)
         \/ \E eligible \in SUBSET Keys : Loaded(c, eligible)
  PROVE  NoLostHandle'
<1> USE DEF SessionInv, TypeOK, wasmVars, mapVars, histVars
<1>1. flights \in [Calls -> Flight]
  OBVIOUS
<1>2. UNCHANGED <<stores, handles, dropping>> /\ abandoned \subseteq abandoned'
  BY DEF UnlockWithPassword, BatchNext, BatchTurn, UnlockWithPasskey, OpenFails, Recorded,
         RecordFails, AddKeyFails, Resealed, CacheKeyHandle, BeginBatch, BatchEnds, Loaded
<1>3. \A d \in Calls : Holding(d) =>
        \/ /\ Holding(d)'
           /\ flights'[d].key = flights[d].key /\ flights'[d].handle = flights[d].handle
        \/ <<KindOf[flights[d].key], flights[d].handle>> \in abandoned'
  <2>1. CASE \E k \in Keys : UnlockWithPassword(c, k) \/ BatchNext(c, k)
    <3>1. flights[c].phase = "idle"
      BY <2>1 DEF UnlockWithPassword, Busy, BatchNext, BatchTurn
    <3>2. \A d \in Calls \ {c} : flights'[d] = flights[d]
      BY <2>1, <1>1 DEF UnlockWithPassword, BatchNext, BatchTurn, Begin
    <3> QED
      BY <3>1, <3>2 DEF Holding
  <2>2. CASE \E k \in Keys : UnlockWithPasskey(c, k)
    BY <2>2 DEF UnlockWithPasskey, Holding
  <2>3. CASE OpenFails(c) \/ Recorded(c) \/ RecordFails(c)
    BY <2>3, <1>1 DEF OpenFails, Recorded, RecordFails, Holding
  <2>4. CASE AddKeyFails(c)
    BY <2>4, <1>1 DEF AddKeyFails, Holding
  <2>5. CASE Resealed(c)
    BY <2>5, <1>1 DEF Resealed, Holding, Flight
  <2>6. CASE CacheKeyHandle(c)
    BY <2>6, <1>1 DEF CacheKeyHandle, Holding, Flight
  <2>7. CASE BeginBatch(c) \/ BatchEnds(c) \/ \E eligible \in SUBSET Keys : Loaded(c, eligible)
    BY <2>7 DEF BeginBatch, BatchEnds, Loaded, Holding
  <2> QED
    BY <2>1, <2>2, <2>3, <2>4, <2>5, <2>6, <2>7
<1> QED
  BY <1>2, <1>3, StaysReferenced

\* Every step keeps track of every live handle.
LEMMA NextKeepsTrack == SessionInv /\ NoLostHandle /\ [Next]_vars => NoLostHandle'
<1> SUFFICES ASSUME SessionInv, NoLostHandle, [Next]_vars PROVE NoLostHandle'
  OBVIOUS
<1>1. CASE \E c \in Calls : CallStep(c)
  <2>1. PICK c \in Calls : CallStep(c)
    BY <1>1
  <2>2. CASE Open(c) \/ \E k \in Keys : Generate(c, k)
    BY <2>2, OpenKeepsTrack
  <2>3. CASE Cancel(c)
    BY <2>3, CancelKeepsTrack
  <2>4. CASE Store(c)
    BY <2>4, StoreKeepsTrack
  <2> QED
    BY <2>1, <2>2, <2>3, <2>4, CallKeepsTrack DEF CallStep
<1>2. CASE LockAll \/ TimerFires \/ \E k \in Keys : Lock(k)
  BY <1>2, LocksKeepTrack
<1>3. CASE \E kind \in Kinds, h \in Handles : DropKey(kind, h)
  BY <1>3, DropKeepsTrack
<1>4. CASE \/ \E k \in Keys : GetHandle(k)
           \/ UseHandle \/ \E on \in BOOLEAN : SetAutoLock(on) \/ UNCHANGED vars
  <2>1. UNCHANGED <<stores, handles, dropping, flights, abandoned>>
    BY <1>4 DEF GetHandle, UseHandle, SetAutoLock, vars, wasmVars, mapVars, histVars
  <2> QED
    BY <2>1, StaysReferenced DEF Holding
<1> QED
  BY <1>1, <1>2, <1>3, <1>4 DEF Next

\* Every secret in WASM is in the map, with the call that opened it or queued
\* for a drop, except what a failed addKey abandoned (useKeySession.ts:128).
THEOREM NothingLost == Spec => []NoLostHandle
<1>1. Init => SessionInv /\ NoLostHandle
  <2>1. Init => NoLostHandle
    BY DEF Init, NoLostHandle
  <2> QED
    BY <2>1, InitInv
<1>2. SessionInv /\ NoLostHandle /\ [Next]_vars => (SessionInv /\ NoLostHandle)'
  BY NextInv, NextKeepsTrack
<1>3. SessionInv /\ NoLostHandle => NoLostHandle
  OBVIOUS
<1> QED
  BY <1>1, <1>2, <1>3, PTL DEF Spec

\* A handle taken for an operation was given out already.
UseIsOld == use # NoUse => /\ use.kind \in Kinds /\ use.handle \in Handles
                           /\ use.handle < nextHandle

\* Handle numbers are not reused, so an operation's handle keeps its meaning.
LEMMA NextKeepsUseHarmless ==
  SessionInv /\ UseIsOld /\ StaleHandleIsHarmless /\ [Next]_vars
    => UseIsOld' /\ StaleHandleIsHarmless'
<1> SUFFICES ASSUME SessionInv, UseIsOld, StaleHandleIsHarmless, [Next]_vars
             PROVE  UseIsOld' /\ StaleHandleIsHarmless'
  OBVIOUS
<1> USE BoundsAssumption
<1>1. CASE \E k \in Keys : GetHandle(k)
  <2>1. PICK k \in Keys : GetHandle(k)
    BY <1>1
  <2>2. handles[k] \in Entry /\ stores[handles[k].kind][handles[k].handle] = k
        /\ handles[k].handle < nextHandle
    BY <2>1, EntryFields DEF GetHandle, SessionInv, MapIsLive, HandlesAreFresh
  <2>3. use'.kind = handles[k].kind /\ use'.handle = handles[k].handle /\ use'.key = k
        /\ UNCHANGED <<stores, nextHandle>>
    BY <2>1 DEF GetHandle, wasmVars
  <2> QED
    BY <2>2, <2>3 DEF UseIsOld, StaleHandleIsHarmless, Entry
<1>2. CASE UseHandle
  BY <1>2 DEF UseHandle, UseIsOld, StaleHandleIsHarmless
<1>3. CASE \E kind \in Kinds, h \in Handles : DropKey(kind, h)
  <2>1. PICK kind \in Kinds, h \in Handles : DropKey(kind, h)
    BY <1>3
  <2>2. stores' = [stores EXCEPT ![kind][h] = NoKey] /\ UNCHANGED <<use, nextHandle>>
    BY <2>1 DEF DropKey, DropFrom
  <2> QED
    BY <2>2 DEF UseIsOld, StaleHandleIsHarmless, SessionInv, TypeOK
<1>4. CASE \E c \in Calls : Open(c) \/ \E k \in Keys : Generate(c, k)
  <2>1. PICK k : /\ stores' = [stores EXCEPT ![KindOf[k]][nextHandle] = k]
                 /\ nextHandle' = nextHandle + 1 /\ use' = use
    BY <1>4 DEF Open, Generate, Insert
  <2> QED
    BY <2>1 DEF UseIsOld, StaleHandleIsHarmless, SessionInv, TypeOK, Handles
<1>5. CASE UNCHANGED <<stores, nextHandle, use>>
  BY <1>5 DEF UseIsOld, StaleHandleIsHarmless
<1>6. ASSUME NEW c \in Calls, CallStep(c), ~(Open(c) \/ \E k \in Keys : Generate(c, k))
      PROVE  UNCHANGED <<stores, nextHandle, use>>
  BY <1>6 DEF CallStep, UnlockWithPassword, BatchNext, BatchTurn, UnlockWithPasskey, OpenFails,
       Recorded, RecordFails, AddKeyFails, Resealed, CacheKeyHandle, BeginBatch, BatchEnds,
       Loaded, Cancel, Store, StoreEntry, wasmVars
<1>7. CASE \/ LockAll \/ TimerFires \/ \E k \in Keys : Lock(k)
           \/ \E on \in BOOLEAN : SetAutoLock(on) \/ UNCHANGED vars
  <2>1. UNCHANGED <<stores, nextHandle, use>>
    BY <1>7 DEF LockAll, TimerFires, DropEverything, Lock, SetAutoLock, vars, wasmVars
  <2> QED
    BY <1>5, <2>1
<1> QED
  BY <1>1, <1>2, <1>3, <1>4, <1>5, <1>6, <1>7 DEF Next

\* An operation that took its handle before a lock finds its own key or none,
\* however many keys were opened since (key_store.rs:30).
THEOREM StaleHandlesAreHarmless == Spec => []StaleHandleIsHarmless
<1>1. Init => SessionInv /\ UseIsOld /\ StaleHandleIsHarmless
  <2>1. Init => UseIsOld /\ StaleHandleIsHarmless
    BY DEF Init, UseIsOld, StaleHandleIsHarmless
  <2> QED
    BY <2>1, InitInv
<1>2. SessionInv /\ UseIsOld /\ StaleHandleIsHarmless /\ [Next]_vars
        => (SessionInv /\ UseIsOld /\ StaleHandleIsHarmless)'
  BY NextInv, NextKeepsUseHarmless
<1>3. SessionInv /\ UseIsOld /\ StaleHandleIsHarmless => StaleHandleIsHarmless
  OBVIOUS
<1> QED
  BY <1>1, <1>2, <1>3, PTL DEF Spec

---------------------------------------------------------------------------
(* The key session implements KeyAccess, for any number of keys, calls,    *)
(* locks and handles: a step of the session is an ask, a narrowing, an     *)
(* answer or a lock, or it changes nothing that KeyAccess knows of.        *)

\* What the steps of a call rest on: which calls have a loop around their
\* flights or a handle before they ask, that the loop's flight is no longer
\* to do, and that nothing began after the last lock.
CallShape ==
  \A c \in Calls :
    /\ batches[c].phase # "idle" => Via[c] = "batch"
    /\ flights[c].phase = "saving" => Via[c] = "generate"
    /\ Via[c] = "batch" /\ flights[c].phase # "idle" =>
         batches[c].phase = "running" /\ flights[c].key \notin batches[c].todo
    /\ flights[c].startedAt <= generation /\ batches[c].startedAt <= generation

AskedBy(c) == FlightAsks(c) \cup BatchAsks(c)
OnlyCallChanges(c) ==
  /\ \A d \in Calls \ {c} : flights'[d] = flights[d] /\ batches'[d] = batches[d]
  /\ UNCHANGED <<handles, generation>>

\* What the abstract variables become when one call moves.
LEMMA OneCall ==
  ASSUME NEW c \in Calls, OnlyCallChanges(c)
  PROVE  /\ Asked' = [Asked EXCEPT ![c] = AskedBy(c)']
         /\ \A d \in Calls \ {c} : d \in BusyCalls' <=> d \in BusyCalls
         /\ UnlockedKeys' = UnlockedKeys
<1>1. \A d \in Calls \ {c} : AskedBy(d)' = AskedBy(d)
  BY DEF OnlyCallChanges, AskedBy, FlightAsks, BatchAsks
<1>2. Asked' = [d \in Calls |-> AskedBy(d)'] /\ Asked = [d \in Calls |-> AskedBy(d)]
  BY DEF Asked, AskedBy
<1>3. \A d \in Calls \ {c} : d \in BusyCalls' <=> d \in BusyCalls
  BY DEF OnlyCallChanges, BusyCalls
<1>4. UnlockedKeys' = UnlockedKeys
  BY DEF OnlyCallChanges, UnlockedKeys, InMap
<1> HIDE DEF AskedBy
<1> QED
  BY <1>1, <1>2, <1>3, <1>4

LEMMA AskStep ==
  ASSUME NEW c \in Calls, OnlyCallChanges(c), c \notin BusyCalls, c \in BusyCalls'
  PROVE  Access!Next
<1>1. /\ Asked' = [Asked EXCEPT ![c] = AskedBy(c)'] /\ UnlockedKeys' = UnlockedKeys
      /\ \A d \in Calls \ {c} : d \in BusyCalls' <=> d \in BusyCalls
  BY OneCall
<1>2. BusyCalls' \subseteq BusyCalls \cup {c}
  BY <1>1 DEF BusyCalls
<1>3. AskedBy(c)' \in SUBSET Keys /\ Asked \in [Calls -> SUBSET Keys]
  BY DEF AskedBy, Asked, FlightAsks, BatchAsks
<1> HIDE DEF AskedBy, Asked, BusyCalls, UnlockedKeys
<1>4. Access!Ask(c, AskedBy(c)')
  BY <1>1, <1>2, <1>3 DEF Access!Ask
<1> QED
  BY <1>3, <1>4 DEF Access!Next

LEMMA NarrowStep ==
  ASSUME NEW c \in Calls, OnlyCallChanges(c), AskedBy(c)' \subseteq AskedBy(c),
         \/ c \in BusyCalls' <=> c \in BusyCalls
         \/ AskedBy(c)' = {} /\ c \notin BusyCalls'
  PROVE  Access!Next
<1>1. /\ Asked' = [Asked EXCEPT ![c] = AskedBy(c)'] /\ UnlockedKeys' = UnlockedKeys
      /\ \A d \in Calls \ {c} : d \in BusyCalls' <=> d \in BusyCalls
  BY OneCall
<1>2. BusyCalls \subseteq Calls /\ BusyCalls' \subseteq Calls
  BY DEF BusyCalls
<1>3. AskedBy(c)' \in SUBSET Keys /\ Asked[c] = AskedBy(c)
  BY DEF AskedBy, Asked, FlightAsks, BatchAsks
<1> HIDE DEF AskedBy, Asked, BusyCalls, UnlockedKeys
<1>4. \/ BusyCalls' = BusyCalls
      \/ AskedBy(c)' = {} /\ BusyCalls' = BusyCalls \ {c}
  BY <1>1, <1>2
<1>5. Access!Narrow(c, AskedBy(c)')
  BY <1>1, <1>3, <1>4 DEF Access!Narrow
<1> QED
  BY <1>3, <1>5 DEF Access!Next

-----------------------------------------------------------------------------
(* The calls' shape is kept *)

LEMMA InitShape == Init => CallShape
BY DEF Init, CallShape, Idle, NoBatch

\* A step that starts, moves or ends the flight and the batch of one call.
LEMMA ShapeOfOne ==
  ASSUME SessionInv, CallShape, NEW c \in Calls, generation' = generation,
         \A d \in Calls \ {c} : flights'[d] = flights[d] /\ batches'[d] = batches[d],
         batches'[c].phase # "idle" => Via[c] = "batch",
         flights'[c].phase = "saving" => Via[c] = "generate",
         Via[c] = "batch" /\ flights'[c].phase # "idle" =>
           batches'[c].phase = "running" /\ flights'[c].key \notin batches'[c].todo,
         flights'[c].startedAt <= generation, batches'[c].startedAt <= generation
  PROVE  CallShape'
BY DEF CallShape

-----------------------------------------------------------------------------
(* One lemma per group of actions: the shape is kept, the step is abstract *)

LEMMA BeginRefines ==
  ASSUME SessionInv, CallShape, NEW c \in Calls,
         \/ \E k \in Keys : UnlockWithPassword(c, k)
         \/ CacheKeyHandle(c)
         \/ BeginBatch(c)
  PROVE  CallShape' /\ Access!Next
<1> USE BoundsAssumption
<1>1. /\ flights \in [Calls -> Flight] /\ batches \in [Calls -> Batch]
      /\ generation \in Nat
  BY DEF SessionInv, TypeOK, Generations
<1>2. flights[c].startedAt \in Nat /\ batches[c].startedAt \in Nat
  BY <1>1 DEF Flight, Batch, Generations
<1>3. CASE \E k \in Keys : UnlockWithPassword(c, k)
  <2>1. PICK k \in Keys : UnlockWithPassword(c, k)
    BY <1>3
  <2>2. flights[c].phase = "idle" /\ Via[c] = "password"
    BY <2>1 DEF UnlockWithPassword, Busy
  <2>3. /\ flights' = [flights EXCEPT ![c] =
             [phase |-> "opening", key |-> k, startedAt |-> generation,
              handle |-> 0, opened |-> generation]]
        /\ UNCHANGED <<handles, batches, generation>>
    BY <2>1 DEF UnlockWithPassword, Begin, mapVars
  <2>4. flights'[c].phase = "opening" /\ flights'[c].startedAt = generation
    BY <1>1, <2>3
  <2>5. OnlyCallChanges(c)
    BY <1>1, <2>3 DEF OnlyCallChanges
  <2>6. CallShape'
    BY <1>1, <1>2, <2>2, <2>3, <2>4, <2>5, ShapeOfOne DEF CallShape, OnlyCallChanges
  <2>7. c \notin BusyCalls /\ c \in BusyCalls'
    BY <2>2, <2>4 DEF BusyCalls, CallShape
  <2> QED
    BY <2>5, <2>6, <2>7, AskStep
<1>4. CASE CacheKeyHandle(c)
  <2>1. /\ flights[c].phase = "saving"
        /\ flights'[c].phase = "opened" /\ flights'[c].startedAt = generation
        /\ OnlyCallChanges(c) /\ batches' = batches
    BY <1>1, <1>4 DEF CacheKeyHandle, OnlyCallChanges, Flight, mapVars
  <2>2. CallShape'
    BY <1>1, <1>2, <2>1, ShapeOfOne DEF CallShape, OnlyCallChanges
  <2>3. c \notin BusyCalls /\ c \in BusyCalls'
    BY <2>1 DEF BusyCalls, CallShape
  <2> QED
    BY <2>1, <2>2, <2>3, AskStep
<1>5. CASE BeginBatch(c)
  <2>1. /\ Via[c] = "batch" /\ batches[c].phase = "idle"
        /\ batches'[c].phase = "loading" /\ batches'[c].startedAt = generation
        /\ OnlyCallChanges(c) /\ flights' = flights
    BY <1>1, <1>5 DEF BeginBatch, OnlyCallChanges, mapVars
  <2>2. flights[c].phase = "idle"
    BY <2>1 DEF CallShape
  <2>3. CallShape'
    BY <1>1, <1>2, <2>1, <2>2, ShapeOfOne DEF CallShape, OnlyCallChanges
  <2>4. c \notin BusyCalls /\ c \in BusyCalls'
    BY <2>1, <2>2 DEF BusyCalls
  <2> QED
    BY <2>1, <2>3, <2>4, AskStep
<1> QED
  BY <1>3, <1>4, <1>5

\* A new ceremony withdraws the ones it aborts.
LEMMA PasskeyRefines ==
  ASSUME SessionInv, CallShape, NEW c \in Calls, NEW k \in Keys, UnlockWithPasskey(c, k)
  PROVE  CallShape' /\ Access!Next
<1> USE BoundsAssumption
<1> DEFINE new == [phase |-> "opening", key |-> k, startedAt |-> generation,
                   handle |-> 0, opened |-> generation]
<1>1. /\ generation \in Nat /\ flights[c].phase = "idle" /\ Via[c] = "passkey"
      /\ flights'[c] = new
      /\ \A d \in Calls \ {c} :
           \/ flights'[d] = flights[d]
           \/ Via[d] = "passkey" /\ flights[d].phase = "opening" /\ flights'[d] = Idle
      /\ UNCHANGED <<handles, batches, generation>>
  BY DEF UnlockWithPasskey, SessionInv, TypeOK, Generations, mapVars
<1>2. Idle.phase = "idle" /\ Idle.startedAt = 0
  BY DEF Idle
<1>3. CallShape'
  BY <1>1, <1>2 DEF CallShape
<1>4. \A d \in Calls : Via[d] = "passkey" => batches[d].phase = "idle"
  BY DEF CallShape
<1>5. \A d \in Calls \ {c} : AskedBy(d)' \in {{}, AskedBy(d)}
  <2>1. SUFFICES ASSUME NEW d \in Calls \ {c} PROVE AskedBy(d)' \in {{}, AskedBy(d)}
    OBVIOUS
  <2>2. CASE flights'[d] = flights[d]
    BY <1>1, <2>2 DEF AskedBy, FlightAsks, BatchAsks
  <2>3. CASE Via[d] = "passkey" /\ flights'[d] = Idle
    BY <1>1, <1>2, <1>4, <2>3 DEF AskedBy, FlightAsks, BatchAsks
  <2> QED
    BY <1>1, <2>2, <2>3
<1>6. /\ c \notin BusyCalls /\ c \in BusyCalls' /\ BusyCalls' \subseteq BusyCalls \cup {c}
  BY <1>1, <1>2, <1>4 DEF BusyCalls
<1>7. UnlockedKeys' = UnlockedKeys
  BY <1>1 DEF UnlockedKeys, InMap
<1>8. /\ Asked' = [d \in Calls |-> AskedBy(d)'] /\ Asked = [d \in Calls |-> AskedBy(d)]
      /\ \A d \in Calls : AskedBy(d)' \in SUBSET Keys
  BY DEF Asked, AskedBy, FlightAsks, BatchAsks
<1> HIDE DEF AskedBy, Asked, BusyCalls, UnlockedKeys
<1>9. Access!Ask(c, AskedBy(c)')
  BY <1>5, <1>6, <1>7, <1>8 DEF Access!Ask
<1> QED
  BY <1>3, <1>8, <1>9 DEF Access!Next

\* A flight that goes on without a result, or ends.
LEMMA FlightRefines ==
  ASSUME SessionInv, CallShape, NEW c \in Calls,
         \/ Open(c) \/ OpenFails(c) \/ Resealed(c) \/ Cancel(c)
         \/ Recorded(c) \/ RecordFails(c) \/ AddKeyFails(c)
         \/ \E k \in Keys : Generate(c, k)
  PROVE  CallShape' /\ Access!Next
<1> USE BoundsAssumption
<1>1. /\ flights \in [Calls -> Flight] /\ batches \in [Calls -> Batch] /\ generation \in Nat
  BY DEF SessionInv, TypeOK, Generations
<1>2. flights[c].startedAt \in Nat /\ batches[c].startedAt \in Nat
  BY <1>1 DEF Flight, Batch, Generations
<1>3. UNCHANGED <<handles, generation, batches>>
  BY DEF Open, OpenFails, Resealed, Cancel, Recorded, RecordFails, AddKeyFails, Generate, mapVars
<1>4. CASE Open(c) \/ Resealed(c)
  <2>1. /\ flights[c].phase \in {"opening", "resealing"}
        /\ flights'[c].phase \in {"resealing", "opened"}
        /\ flights'[c].key = flights[c].key /\ flights'[c].startedAt = flights[c].startedAt
        /\ \A d \in Calls \ {c} : flights'[d] = flights[d]
    <3>1. CASE Open(c)
      <4>1. PICK next \in {"opened", "resealing"} :
              flights' = [flights EXCEPT ![c].phase = next, ![c].handle = nextHandle]
        BY <3>1 DEF Open
      <4>2. flights[c].phase = "opening"
        BY <3>1 DEF Open
      <4>3. /\ flights'[c].phase = next /\ flights'[c].key = flights[c].key
            /\ flights'[c].startedAt = flights[c].startedAt
            /\ \A d \in Calls \ {c} : flights'[d] = flights[d]
        BY <1>1, <4>1 DEF Flight
      <4> QED
        BY <4>2, <4>3
    <3>2. CASE Resealed(c)
      BY <1>1, <3>2 DEF Resealed, Flight
    <3> QED
      BY <1>4, <3>1, <3>2
  <2>2. CallShape'
    BY <1>1, <1>2, <1>3, <2>1, ShapeOfOne DEF CallShape
  <2>3. OnlyCallChanges(c)
    BY <1>3, <2>1 DEF OnlyCallChanges
  <2>4. AskedBy(c)' = AskedBy(c) /\ (c \in BusyCalls' <=> c \in BusyCalls)
    BY <1>3, <2>1 DEF AskedBy, FlightAsks, BatchAsks, BusyCalls
  <2> QED
    BY <2>2, <2>3, <2>4, NarrowStep
<1>5. CASE \E k \in Keys : Generate(c, k)
  <2>1. /\ Via[c] = "generate" /\ flights[c].phase = "idle" /\ flights'[c].phase = "saving"
        /\ flights'[c].startedAt = generation
        /\ \A d \in Calls \ {c} : flights'[d] = flights[d]
    BY <1>1, <1>5 DEF Generate, Begin
  <2>2. CallShape'
    BY <1>1, <1>2, <1>3, <2>1, ShapeOfOne DEF CallShape
  <2>3. OnlyCallChanges(c)
    BY <1>3, <2>1 DEF OnlyCallChanges
  <2>4. AskedBy(c)' = AskedBy(c) /\ (c \in BusyCalls' <=> c \in BusyCalls)
    BY <1>3, <2>1 DEF AskedBy, FlightAsks, BatchAsks, BusyCalls
  <2> QED
    BY <2>2, <2>3, <2>4, NarrowStep
<1>6. CASE OpenFails(c) \/ Cancel(c) \/ Recorded(c) \/ RecordFails(c) \/ AddKeyFails(c)
  <2>1. /\ flights'[c].phase = "idle" /\ flights'[c].startedAt = 0
        /\ \A d \in Calls \ {c} : flights'[d] = flights[d]
    BY <1>1, <1>6 DEF OpenFails, Cancel, Recorded, RecordFails, AddKeyFails, Idle
  <2>2. CallShape'
    BY <1>1, <1>2, <1>3, <2>1, ShapeOfOne DEF CallShape
  <2>3. OnlyCallChanges(c)
    BY <1>3, <2>1 DEF OnlyCallChanges
  <2>4. AskedBy(c)' = BatchAsks(c)
    BY <1>3, <2>1 DEF AskedBy, FlightAsks, BatchAsks
  <2>5. CASE batches[c].phase = "idle"
    <3>1. BatchAsks(c) = {} /\ c \notin BusyCalls'
      BY <1>3, <2>1, <2>5 DEF BatchAsks, BusyCalls
    <3> QED
      BY <2>2, <2>3, <2>4, <3>1, NarrowStep
  <2>6. CASE batches[c].phase # "idle"
    <3>1. c \in BusyCalls /\ c \in BusyCalls'
      BY <1>3, <2>6 DEF BusyCalls
    <3> QED
      BY <2>2, <2>3, <2>4, <3>1, NarrowStep DEF AskedBy
  <2> QED
    BY <2>5, <2>6
<1> QED
  BY <1>4, <1>5, <1>6

\* The loop of a batch.
LEMMA BatchRefines ==
  ASSUME SessionInv, CallShape, NEW c \in Calls,
         \/ \E eligible \in SUBSET Keys : Loaded(c, eligible)
         \/ \E k \in Keys : BatchNext(c, k)
         \/ BatchEnds(c)
  PROVE  CallShape' /\ Access!Next
<1> USE BoundsAssumption
<1>1. /\ flights \in [Calls -> Flight] /\ batches \in [Calls -> Batch] /\ generation \in Nat
  BY DEF SessionInv, TypeOK, Generations
<1>2. flights[c].startedAt \in Nat /\ batches[c].startedAt \in Nat
  BY <1>1 DEF Flight, Batch, Generations
<1>3. CASE \E eligible \in SUBSET Keys : Loaded(c, eligible)
  <2>1. PICK eligible \in SUBSET Keys : Loaded(c, eligible)
    BY <1>3
  <2>2. /\ batches[c].phase = "loading" /\ batches'[c].phase = "running"
        /\ batches'[c].startedAt = batches[c].startedAt /\ batches'[c].todo = eligible
        /\ flights' = flights /\ OnlyCallChanges(c)
    BY <1>1, <2>1 DEF Loaded, OnlyCallChanges, Batch, mapVars
  <2>3. flights[c].phase = "idle"
    BY <2>2 DEF CallShape
  <2>4. CallShape'
    BY <1>1, <1>2, <2>2, <2>3, ShapeOfOne DEF CallShape, OnlyCallChanges
  <2>5. AskedBy(c)' \subseteq AskedBy(c) /\ c \in BusyCalls /\ c \in BusyCalls'
    BY <2>2, <2>3 DEF AskedBy, FlightAsks, BatchAsks, BusyCalls, OnlyCallChanges
  <2> QED
    BY <2>2, <2>4, <2>5, NarrowStep
<1>4. CASE \E k \in Keys : BatchNext(c, k)
  <2>1. PICK k \in Keys : BatchNext(c, k)
    BY <1>4
  <2>2. /\ batches[c].phase = "running" /\ flights[c].phase = "idle" /\ k \in batches[c].todo
        /\ batches[c].startedAt = generation
        /\ batches'[c].phase = "running" /\ batches'[c].startedAt = generation
        /\ batches'[c].todo = batches[c].todo \ {k}
        /\ flights'[c].phase = "opening" /\ flights'[c].key = k
        /\ flights'[c].startedAt = generation
        /\ OnlyCallChanges(c)
    BY <1>1, <2>1 DEF BatchNext, BatchTurn, Begin, OnlyCallChanges, Batch, mapVars
  <2>3. CallShape'
    BY <1>1, <1>2, <2>2, ShapeOfOne DEF CallShape, OnlyCallChanges
  <2>4. AskedBy(c)' = AskedBy(c) /\ c \in BusyCalls /\ c \in BusyCalls'
    BY <2>2 DEF AskedBy, FlightAsks, BatchAsks, BusyCalls, OnlyCallChanges
  <2> QED
    BY <2>2, <2>3, <2>4, NarrowStep
<1>5. CASE BatchEnds(c)
  <2>1. /\ batches[c].phase = "running" /\ flights[c].phase = "idle"
        /\ batches[c].todo = {} \/ generation # batches[c].startedAt
        /\ batches'[c].phase = "idle" /\ batches'[c].startedAt = 0
        /\ flights' = flights /\ OnlyCallChanges(c)
    BY <1>1, <1>5 DEF BatchEnds, NoBatch, OnlyCallChanges, mapVars
  <2>2. CallShape'
    BY <1>1, <1>2, <2>1, ShapeOfOne DEF CallShape, OnlyCallChanges
  <2>3. AskedBy(c)' = {} /\ c \notin BusyCalls'
    BY <2>1 DEF AskedBy, FlightAsks, BatchAsks, BusyCalls, OnlyCallChanges
  <2> QED
    BY <2>1, <2>2, <2>3, NarrowStep
<1> QED
  BY <1>3, <1>4, <1>5

\* The answer to a request.
LEMMA StoreRefines ==
  ASSUME SessionInv, CallShape, NEW c \in Calls, Store(c)
  PROVE  CallShape' /\ Access!Next
<1> USE BoundsAssumption
<1> DEFINE k == flights[c].key
<1>1. /\ flights \in [Calls -> Flight] /\ batches \in [Calls -> Batch] /\ generation \in Nat
      /\ k \in Keys /\ flights[c].handle # 0
  BY DEF SessionInv, TypeOK, Generations, FlightShape, Holding, Store, StoreEntry, Handles
<1>2. flights[c].startedAt \in Nat /\ batches[c].startedAt \in Nat
  BY <1>1 DEF Flight, Batch, Generations
<1>3. /\ flights[c].phase = "opened" /\ flights[c].startedAt = generation
      /\ flights'[c].phase = "recording" /\ flights'[c].key = k
      /\ flights'[c].startedAt = generation
      /\ \A d \in Calls \ {c} : flights'[d] = flights[d]
      /\ UNCHANGED <<generation, batches>>
  BY <1>1 DEF Store, StoreEntry, Flight
<1>4. CallShape'
  BY <1>1, <1>2, <1>3, ShapeOfOne DEF CallShape
<1>5. UnlockedKeys' = UnlockedKeys \cup {k}
  <2>1. /\ handles'[k] # NoEntry /\ \A j \in Keys \ {k} : handles'[j] = handles[j]
    BY <1>1 DEF Store, StoreEntry, SessionInv, TypeOK, NoEntry
  <2> QED
    BY <1>1, <2>1 DEF UnlockedKeys, InMap
<1>6. k \notin BatchAsks(c)
  BY <1>1, <1>3 DEF BatchAsks, CallShape
<1>7. AskedBy(c) = BatchAsks(c) \cup {k} /\ AskedBy(c)' = BatchAsks(c)
  BY <1>1, <1>3 DEF AskedBy, FlightAsks, BatchAsks
<1>8. \A d \in Calls \ {c} : AskedBy(d)' = AskedBy(d)
  BY <1>3 DEF AskedBy, FlightAsks, BatchAsks
<1>9. BusyCalls' = BusyCalls
  BY <1>3 DEF BusyCalls
<1>10. Asked' = [d \in Calls |-> AskedBy(d)'] /\ Asked = [d \in Calls |-> AskedBy(d)]
  BY DEF Asked, AskedBy
<1> HIDE DEF AskedBy, Asked, BusyCalls, UnlockedKeys, BatchAsks, k
<1>11. Access!Answer(c, k)
  BY <1>5, <1>6, <1>7, <1>8, <1>9, <1>10 DEF Access!Answer
<1> QED
  BY <1>1, <1>4, <1>11 DEF Access!Next

\* A lock withdraws every request, because each began in an earlier generation.
LEMMA LocksRefine ==
  ASSUME SessionInv, CallShape, LockAll \/ TimerFires \/ \E k \in Keys : Lock(k)
  PROVE  CallShape' /\ Access!Next
<1> USE BoundsAssumption
<1>1. /\ generation \in Nat
      /\ \A c \in Calls : flights[c].startedAt \in Nat /\ batches[c].startedAt \in Nat
  BY DEF SessionInv, TypeOK, Flight, Batch, Generations
<1>2. generation' = generation + 1 /\ UNCHANGED <<flights, batches>>
  BY DEF LockAll, TimerFires, DropEverything, Lock
<1>3. CallShape'
  BY <1>1, <1>2 DEF CallShape
<1>4. Asked' = Access!NothingAsked
  BY <1>1, <1>2 DEF Asked, FlightAsks, BatchAsks, CallShape, Access!NothingAsked
<1>5. BusyCalls' = BusyCalls
  BY <1>2 DEF BusyCalls
<1>6. PICK K \in SUBSET Keys : UnlockedKeys' = UnlockedKeys \ K
  <2>1. CASE LockAll \/ TimerFires
    <3>1. UnlockedKeys' = UnlockedKeys \ Keys
      BY <2>1 DEF LockAll, TimerFires, DropEverything, UnlockedKeys, InMap
    <3> QED
      BY <3>1
  <2>2. CASE \E k \in Keys : Lock(k)
    <3>1. PICK k \in Keys : Lock(k)
      BY <2>2
    <3>2. UnlockedKeys' = UnlockedKeys \ {k}
      BY <3>1 DEF Lock, UnlockedKeys, InMap, SessionInv, TypeOK
    <3> QED
      BY <3>2
  <2> QED
    BY <2>1, <2>2
<1>7. Access!LockKeys(K)
  BY <1>4, <1>5, <1>6 DEF Access!LockKeys
<1> QED
  BY <1>3, <1>7 DEF Access!Next

\* Every step of the session is one of KeyAccess, or none of its business.
LEMMA NextRefines ==
  ASSUME SessionInv, CallShape, [Next]_vars
  PROVE  CallShape' /\ [Access!Next]_(Access!vars)
<1>1. CASE \E c \in Calls : CallStep(c)
  <2>1. PICK c \in Calls : CallStep(c)
    BY <1>1
  <2>2. CASE (\E k \in Keys : UnlockWithPassword(c, k)) \/ CacheKeyHandle(c) \/ BeginBatch(c)
    BY <2>2, BeginRefines
  <2>3. CASE \E k \in Keys : UnlockWithPasskey(c, k)
    BY <2>3, PasskeyRefines
  <2>4. CASE \/ Open(c) \/ OpenFails(c) \/ Resealed(c) \/ Cancel(c)
             \/ Recorded(c) \/ RecordFails(c) \/ AddKeyFails(c)
             \/ \E k \in Keys : Generate(c, k)
    BY <2>4, FlightRefines
  <2>5. CASE \/ \E eligible \in SUBSET Keys : Loaded(c, eligible)
             \/ \E k \in Keys : BatchNext(c, k)
             \/ BatchEnds(c)
    BY <2>5, BatchRefines
  <2>6. CASE Store(c)
    BY <2>6, StoreRefines
  <2> QED
    BY <2>1, <2>2, <2>3, <2>4, <2>5, <2>6 DEF CallStep
<1>2. CASE LockAll \/ TimerFires \/ \E k \in Keys : Lock(k)
  BY <1>2, LocksRefine
<1>3. CASE UNCHANGED <<flights, batches, handles, generation>>
  BY <1>3 DEF CallShape, Access!vars, Asked, FlightAsks, BatchAsks, BusyCalls, UnlockedKeys, InMap
<1>4. ASSUME \/ \E k \in Keys : GetHandle(k)
             \/ UseHandle \/ (\E on \in BOOLEAN : SetAutoLock(on)) \/ UNCHANGED vars
             \/ \E kind \in Kinds, h \in Handles : DropKey(kind, h)
      PROVE  UNCHANGED <<flights, batches, handles, generation>>
  BY <1>4 DEF GetHandle, UseHandle, SetAutoLock, vars, DropKey, DropFrom, mapVars
<1> QED
  BY <1>1, <1>2, <1>3, <1>4 DEF Next

\* The session implements KeyAccess: keys become usable only as the answer to
\* a request made since the last lock of any key (useKeySession.ts:72-97).
THEOREM SessionImplementsKeyAccess == Spec => ImplementsKeyAccess
<1>1. Init => SessionInv /\ CallShape /\ Access!Init
  <2>1. Init => Access!Init
    BY DEF Init, Access!Init, Access!NothingAsked, UnlockedKeys, InMap, Asked, FlightAsks,
           BatchAsks, BusyCalls, Idle, NoBatch
  <2> QED
    BY <2>1, InitInv, InitShape
<1>2. SessionInv /\ CallShape /\ [Next]_vars
        => (SessionInv /\ CallShape)' /\ [Access!Next]_(Access!vars)
  BY NextInv, NextRefines
<1> QED
  BY <1>1, <1>2, PTL DEF Spec, ImplementsKeyAccess, Access!Spec
=============================================================================
