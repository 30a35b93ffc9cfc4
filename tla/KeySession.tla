------------------------------ MODULE KeySession ------------------------------
(***************************************************************************)
(* The panel's session of unlocked private keys: the JavaScript map of     *)
(* key id -> handle (src/hooks/useKeySession.ts), the two handle stores    *)
(* inside the WASM module that the handles point into                      *)
(* (gpg-wasm/src/protected.rs, key_store.rs), every asynchronous call that *)
(* puts a handle in the map, and every lock that takes handles out.        *)
(*                                                                         *)
(* JavaScript runs one callback at a time, so an action is the code from   *)
(* one await to the next; a call that is waiting is a "flight".            *)
(***************************************************************************)
EXTENDS Naturals, FiniteSets

CONSTANTS
  Keys,        \* key ids in the keyring
  Kinds,       \* the engines with a handle store each: "pgp", "ssh"
  KindOf,      \* storedKeyKind(blob): the engine of each key
  Calls,       \* concurrent asynchronous calls into the session
  Via,         \* what each call is: a member of Routes
  MaxHandle,   \* u32::MAX of the handle counter; the last value is never used
  MaxLocks     \* bound: number of locks explored

Routes == {"password", "passkey", "batch", "generate"}

ASSUME KindsAssumption == /\ KindOf \in [Keys -> Kinds]
                          /\ Via \in [Calls -> Routes]
ASSUME BoundsAssumption == /\ MaxHandle \in Nat \ {0}
                           /\ MaxLocks \in Nat
\* Handle 0 is no handle, so a key id must not be mistaken for an empty slot.
CONSTANT NoKey
ASSUME NoKeyAssumption == NoKey \notin Keys

VARIABLES
  stores,      \* WASM: kind -> handle -> key whose secret it holds, or NoKey
  nextHandle,  \* WASM: NEXT_HANDLE, shared by both stores
  handles,     \* JS: key -> the entry of the map, or NoEntry
  generation,  \* JS: bumped by every lock
  flights,     \* calls of unlock() (and of key generation) that are waiting
  batches,     \* the unlockMany() loop around a batch call's flights
  dropping,    \* dropHandle() calls issued and not yet executed by WASM
  autoLock,    \* the autoLockEnabled preference
  timerArmed,  \* an inactivity timeout is pending
  use,         \* an operation between getHandle() and its use in WASM
  since,       \* history: generation in which the storing unlock() began
  openedAt,    \* history: generation in which WASM opened the stored handle
  lockedAt,    \* history: generation made by the last lock covering the key
  abandoned    \* history: handles whose caller failed and forgot them

vars == <<stores, nextHandle, handles, generation, flights, batches, dropping,
          autoLock, timerArmed, use, since, openedAt, lockedAt, abandoned>>
wasmVars == <<stores, nextHandle>>
mapVars == <<handles, since, openedAt>>
histVars == <<lockedAt, abandoned>>
timerVars == <<autoLock, timerArmed>>

Generations == 0 .. MaxLocks
Handles == 1 .. (MaxHandle - 1)
HandleOrNone == 0 .. (MaxHandle - 1)

Entry == [handle : Handles, kind : Kinds]
NoEntry == [handle |-> 0, kind |-> "none"]

(***************************************************************************)
(* A flight: "opening" until open() settles, "resealing" while the new     *)
(* sealing is written, "opened" once open() has returned a handle,         *)
(* "recording" while updateLastUsed is awaited; "saving" is key generation *)
(* waiting for addKey with a handle already in WASM.                       *)
(***************************************************************************)
Phases == {"idle", "opening", "resealing", "opened", "recording", "saving"}
Flight == [phase : Phases, key : Keys \cup {NoKey}, startedAt : Generations,
           handle : HandleOrNone, opened : Generations]
Idle == [phase |-> "idle", key |-> NoKey, startedAt |-> 0, handle |-> 0,
         opened |-> 0]

BatchPhases == {"idle", "loading", "running"}
Batch == [phase : BatchPhases, startedAt : Generations, todo : SUBSET Keys]
NoBatch == [phase |-> "idle", startedAt |-> 0, todo |-> {}]

NoUse == [key |-> NoKey, kind |-> "none", handle |-> 0]
Use == [key : Keys, kind : Kinds, handle : Handles]

TypeOK ==
  /\ stores \in [Kinds -> [Handles -> Keys \cup {NoKey}]]
  /\ nextHandle \in 1 .. MaxHandle
  /\ handles \in [Keys -> Entry \cup {NoEntry}]
  /\ generation \in Generations
  /\ flights \in [Calls -> Flight]
  /\ batches \in [Calls -> Batch]
  /\ dropping \subseteq (Kinds \X Handles)
  /\ autoLock \in BOOLEAN
  /\ timerArmed \in BOOLEAN
  /\ use \in Use \cup {NoUse}
  /\ since \in [Keys -> Generations]
  /\ openedAt \in [Keys -> Generations]
  /\ lockedAt \in [Keys -> Generations]
  /\ abandoned \subseteq (Kinds \X Handles)

-----------------------------------------------------------------------------
(* Helpers *)

InMap(k) == handles[k] # NoEntry
UnlockedKeys == {k \in Keys : InMap(k)}
Busy(route) == \E c \in Calls : Via[c] = route /\ flights[c].phase # "idle"

\* HandleStore::insert with next_handle(): current, then checked_add(1).
CanAlwaysInsert == TRUE  \* mutant: the overflow check forgotten
CanInsert == nextHandle < MaxHandle
InsertWithoutBump(k) ==  \* mutant: the counter is read and not advanced
  /\ CanInsert
  /\ stores' = [stores EXCEPT ![KindOf[k]][nextHandle] = k]
  /\ nextHandle' = nextHandle
Insert(k) ==
  /\ CanInsert
  /\ stores' = [stores EXCEPT ![KindOf[k]][nextHandle] = k]
  /\ nextHandle' = nextHandle + 1

\* dropHandle(entry), issued and not awaited.
Release(entries) == dropping' = dropping \cup {<<e.kind, e.handle>> : e \in entries}

\* resetLockTimer: clear, then set again only while auto-lock is enabled.
OnActivity == timerArmed' = autoLock

-----------------------------------------------------------------------------
(* unlock(): the only way into the map *)

Begin(c, k, phase, h, opened) ==
  flights' = [flights EXCEPT ![c] =
    [phase |-> phase, key |-> k, startedAt |-> generation, handle |-> h,
     opened |-> opened]]

\* unlockWithPassword: one at a time (the `unlocking` ref).
UnlockWithPassword(c, k) ==
  /\ Via[c] = "password" /\ ~Busy("password")
  /\ Begin(c, k, "opening", 0, generation)
  /\ UNCHANGED <<wasmVars, mapVars, generation, batches, dropping, timerVars,
                 use, histVars>>

\* unlockWithPasskey: a new ceremony aborts the previous one, whose open()
\* then rejects; a call already past its ceremony goes on.
UnlockWithPasskey(c, k) ==
  /\ Via[c] = "passkey" /\ flights[c].phase = "idle"
  /\ flights' = [d \in Calls |->
       IF d = c THEN [phase |-> "opening", key |-> k, startedAt |-> generation,
                      handle |-> 0, opened |-> generation]
       ELSE IF Via[d] = "passkey" /\ flights[d].phase = "opening" THEN Idle
       ELSE flights[d]]
  /\ UNCHANGED <<wasmVars, mapVars, generation, batches, dropping, timerVars,
                 use, histVars>>

\* open() succeeds: WASM decrypts the blob and stores the secret. A passkey
\* unlock may then re-seal the key under the master (openThenReseal).
Open(c) ==
  LET f == flights[c] IN
  /\ f.phase = "opening"
  /\ Insert(f.key)
  /\ \E next \in IF Via[c] = "passkey" THEN {"opened", "resealing"} ELSE {"opened"} :
       flights' = [flights EXCEPT ![c].phase = next, ![c].handle = nextHandle]
  /\ UNCHANGED <<mapVars, generation, batches, dropping, timerVars, use, histVars>>

\* The re-seal settles; a failed one is swallowed, so both outcomes are one.
Resealed(c) ==
  /\ flights[c].phase = "resealing"
  /\ flights' = [flights EXCEPT ![c].phase = "opened"]
  /\ UNCHANGED <<wasmVars, mapVars, generation, batches, dropping, timerVars,
                 use, histVars>>

\* open() rejects: wrong password, cancelled ceremony, AEAD failure, or the
\* handle counter is exhausted.
OpenFails(c) ==
  /\ flights[c].phase = "opening"
  /\ flights' = [flights EXCEPT ![c] = Idle]
  /\ UNCHANGED <<wasmVars, mapVars, generation, batches, dropping, timerVars,
                 use, histVars>>

\* INVARIANT 1 of the source: a lock since startedAt drops the handle.
Cancel(c) ==
  LET f == flights[c] IN
  /\ f.phase = "opened"
  /\ f.startedAt # generation
  /\ Release({[handle |-> f.handle, kind |-> KindOf[f.key]]})
  /\ flights' = [flights EXCEPT ![c] = Idle]
  /\ UNCHANGED <<wasmVars, mapVars, generation, batches, timerVars, use, histVars>>

\* INVARIANT 2 of the source: an entry that is replaced is dropped first,
\* unless it is the very handle being stored.
NothingReplaced(k, h) == {}  \* mutant: the overwritten entry is not dropped
Replaced(k, h) == {e \in {handles[k]} : e # NoEntry /\ e.handle # h}

StoreEntry(c, kind) ==
  LET f == flights[c] IN
  /\ f.phase = "opened"
  /\ Release(Replaced(f.key, f.handle))
  /\ handles' = [handles EXCEPT ![f.key] = [handle |-> f.handle, kind |-> kind]]
  /\ since' = [since EXCEPT ![f.key] = f.startedAt]
  /\ openedAt' = [openedAt EXCEPT ![f.key] = f.opened]
  /\ flights' = [flights EXCEPT ![c].phase = "recording"]
  /\ UNCHANGED <<wasmVars, generation, batches, timerVars, use, histVars>>

StoreUnchecked(c) == StoreEntry(c, KindOf[flights[c].key])  \* mutant: INVARIANT 1
StoreAsPgp(c) ==                 \* mutant: the engine is not recorded
  /\ flights[c].startedAt = generation
  /\ StoreEntry(c, "pgp")
Store(c) ==
  /\ flights[c].startedAt = generation
  /\ StoreEntry(c, KindOf[flights[c].key])

\* updateLastUsed resolves: unlock() re-arms the timer and returns true.
Recorded(c) ==
  /\ flights[c].phase = "recording"
  /\ OnActivity
  /\ flights' = [flights EXCEPT ![c] = Idle]
  /\ UNCHANGED <<wasmVars, mapVars, generation, batches, dropping, autoLock,
                 use, histVars>>

\* updateLastUsed rejects (a failed storage write): unlock() rejects too,
\* before onActivity, with the handle already in the map.
RecordFails(c) ==
  /\ flights[c].phase = "recording"
  /\ flights' = [flights EXCEPT ![c] = Idle]
  /\ UNCHANGED <<wasmVars, mapVars, generation, batches, dropping, timerVars,
                 use, histVars>>

-----------------------------------------------------------------------------
(* unlockMany(): several unlocks off one credential *)

BeginBatch(c) ==
  /\ Via[c] = "batch" /\ batches[c].phase = "idle"
  /\ batches' = [batches EXCEPT ![c] =
       [phase |-> "loading", startedAt |-> generation, todo |-> {}]]
  /\ UNCHANGED <<wasmVars, mapVars, generation, flights, dropping, timerVars,
                 use, histVars>>

\* The loader resolves to the keys sealed under the master.
Loaded(c, eligible) ==
  /\ batches[c].phase = "loading"
  /\ batches' = [batches EXCEPT ![c].phase = "running", ![c].todo = eligible]
  /\ UNCHANGED <<wasmVars, mapVars, generation, flights, dropping, timerVars,
                 use, histVars>>

\* The next turn of the loop: only while no lock has happened since the start.
BatchTurn(c, k) ==
  /\ batches[c].phase = "running" /\ flights[c].phase = "idle"
  /\ k \in batches[c].todo
  /\ batches' = [batches EXCEPT ![c].todo = @ \ {k}]
  /\ Begin(c, k, "opening", 0, generation)
  /\ UNCHANGED <<wasmVars, mapVars, generation, dropping, timerVars, use, histVars>>

BatchNextAnyway(c, k) == BatchTurn(c, k)  \* mutant: the loop ignores a lock
BatchNext(c, k) == generation = batches[c].startedAt /\ BatchTurn(c, k)

BatchEnds(c) ==
  /\ batches[c].phase = "running" /\ flights[c].phase = "idle"
  /\ batches[c].todo = {} \/ generation # batches[c].startedAt
  /\ batches' = [batches EXCEPT ![c] = NoBatch]
  /\ UNCHANGED <<wasmVars, mapVars, generation, flights, dropping, timerVars,
                 use, histVars>>

-----------------------------------------------------------------------------
(* Key generation with `cache`: the handle is opened by runProtect, before  *)
(* addKey is awaited and before the session hears of it.                    *)

Generate(c, k) ==
  /\ Via[c] = "generate" /\ flights[c].phase = "idle"
  /\ KindOf[k] = "pgp"
  /\ Insert(k)
  /\ Begin(c, k, "saving", nextHandle, generation)
  /\ UNCHANGED <<mapVars, generation, batches, dropping, timerVars, use, histVars>>

\* addKey resolves and the caller calls cacheKeyHandle, whose unlock() takes
\* its generation only now.
CacheKeyHandle(c) ==
  /\ flights[c].phase = "saving"
  /\ flights' = [flights EXCEPT ![c].phase = "opened",
                                ![c].startedAt = generation]
  /\ UNCHANGED <<wasmVars, mapVars, generation, batches, dropping, timerVars,
                 use, histVars>>

\* addKey rejects (a lock took the session away, or the write failed): the
\* caller shows the error and forgets the handle.
AddKeyFails(c) ==
  LET f == flights[c] IN
  /\ f.phase = "saving"
  /\ flights' = [flights EXCEPT ![c] = Idle]
  /\ abandoned' = abandoned \cup {<<KindOf[f.key], f.handle>>}
  /\ UNCHANGED <<wasmVars, mapVars, generation, batches, dropping, timerVars,
                 use, lockedAt>>

-----------------------------------------------------------------------------
(* Locks *)

\* lock(keyId): bumps the generation whether or not the key is unlocked.
Lock(k) ==
  /\ generation < MaxLocks
  /\ generation' = generation + 1
  /\ Release({handles[k]} \ {NoEntry})
  /\ handles' = [handles EXCEPT ![k] = NoEntry]
  /\ since' = [since EXCEPT ![k] = 0]
  /\ openedAt' = [openedAt EXCEPT ![k] = 0]
  /\ lockedAt' = [lockedAt EXCEPT ![k] = generation + 1]
  /\ UNCHANGED <<wasmVars, flights, batches, timerVars, use, abandoned>>

DropEverything ==
  /\ generation < MaxLocks
  /\ generation' = generation + 1
  /\ Release({handles[k] : k \in UnlockedKeys})
  /\ handles' = [k \in Keys |-> NoEntry]
  /\ since' = [k \in Keys |-> 0]
  /\ openedAt' = [k \in Keys |-> 0]
  /\ lockedAt' = [k \in Keys |-> generation + 1]

\* lockAll(): the master lock, the OS lock, tab-away and never-cache mode.
LockAll ==
  /\ DropEverything
  /\ UNCHANGED <<wasmVars, flights, batches, timerVars, use, abandoned>>

\* The inactivity timeout fires doLockAll.
TimerFires ==
  /\ timerArmed
  /\ DropEverything
  /\ timerArmed' = FALSE
  /\ UNCHANGED <<wasmVars, flights, batches, autoLock, use, abandoned>>

\* A changed preference re-arms (or clears) the timer while keys are unlocked.
SetAutoLock(on) ==
  /\ autoLock # on
  /\ autoLock' = on
  /\ timerArmed' = IF UnlockedKeys # {} THEN on ELSE timerArmed
  /\ UNCHANGED <<wasmVars, mapVars, generation, flights, batches, dropping,
                 use, histVars>>

-----------------------------------------------------------------------------
(* WASM executes a drop; an operation uses a handle *)

DropFrom(store, kind, h) ==
  /\ <<kind, h>> \in dropping
  /\ dropping' = dropping \ {<<kind, h>>}
  /\ stores' = [stores EXCEPT ![store][h] = NoKey]
  /\ UNCHANGED <<nextHandle, mapVars, generation, flights, batches, timerVars,
                 use, histVars>>
DropKeyAsPgp(kind, h) == DropFrom("pgp", kind, h)  \* mutant: not kind-aware
DropKey(kind, h) == DropFrom(kind, kind, h)

\* getHandle counts as activity; the operation awaits other things before it
\* passes the handle to WASM.
GetHandle(k) ==
  /\ InMap(k) /\ use = NoUse
  /\ use' = [key |-> k, kind |-> handles[k].kind, handle |-> handles[k].handle]
  /\ OnActivity
  /\ UNCHANGED <<wasmVars, mapVars, generation, flights, batches, dropping,
                 autoLock, histVars>>

\* HandleStore::with: finds the secret or reports that the key was locked.
UseHandle ==
  /\ use # NoUse
  /\ use' = NoUse
  /\ UNCHANGED <<wasmVars, mapVars, generation, flights, batches, dropping,
                 timerVars, histVars>>

-----------------------------------------------------------------------------
Init ==
  /\ stores = [kind \in Kinds |-> [h \in Handles |-> NoKey]]
  /\ nextHandle = 1
  /\ handles = [k \in Keys |-> NoEntry]
  /\ generation = 0
  /\ flights = [c \in Calls |-> Idle]
  /\ batches = [c \in Calls |-> NoBatch]
  /\ dropping = {}
  /\ autoLock \in BOOLEAN
  /\ timerArmed = FALSE
  /\ use = NoUse
  /\ since = [k \in Keys |-> 0]
  /\ openedAt = [k \in Keys |-> 0]
  /\ lockedAt = [k \in Keys |-> 0]
  /\ abandoned = {}

CallStep(c) ==
  \/ \E k \in Keys : \/ UnlockWithPassword(c, k)
                     \/ UnlockWithPasskey(c, k)
                     \/ BatchNext(c, k)
                     \/ Generate(c, k)
  \/ Open(c) \/ OpenFails(c) \/ Resealed(c)
  \/ Cancel(c) \/ Store(c)
  \/ Recorded(c) \/ RecordFails(c)
  \/ BeginBatch(c) \/ BatchEnds(c)
  \/ \E eligible \in SUBSET Keys : Loaded(c, eligible)
  \/ CacheKeyHandle(c) \/ AddKeyFails(c)

Next ==
  \/ \E c \in Calls : CallStep(c)
  \/ \E k \in Keys : Lock(k) \/ GetHandle(k)
  \/ LockAll \/ TimerFires
  \/ \E on \in BOOLEAN : SetAutoLock(on)
  \/ \E kind \in Kinds, h \in Handles : DropKey(kind, h)
  \/ UseHandle

\* Settled promises run (a continuation of an opened flight, a queued drop);
\* nothing makes a user unlock, a ceremony end or a storage write settle.
Fairness ==
  /\ \A c \in Calls : WF_vars(Cancel(c) \/ Store(c))
  /\ \A kind \in Kinds, h \in Handles : WF_vars(DropKey(kind, h))

Spec == Init /\ [][Next]_vars /\ Fairness

-----------------------------------------------------------------------------
(* Properties *)

\* Every unlocked key got there by an unlock() that began after the last lock
\* covering the key: "no unlock survives a lock" (useKeySession.ts:122).
NoUnlockSurvivesALock == \A k \in Keys : InMap(k) => since[k] >= lockedAt[k]

\* Every unlocked key's entry points at a live handle of that very key, in the
\* store of its engine, that no queued drop is about to remove.
MapIsLive ==
  \A k \in Keys : InMap(k) =>
    /\ stores[handles[k].kind][handles[k].handle] = k
    /\ <<handles[k].kind, handles[k].handle>> \notin dropping

Referenced(kind, h) ==
  \/ \E k \in Keys : handles[k] = [handle |-> h, kind |-> kind]
  \/ \E c \in Calls : /\ flights[c].phase \in {"resealing", "opened", "saving"}
                      /\ flights[c].handle = h /\ KindOf[flights[c].key] = kind
  \/ <<kind, h>> \in dropping

\* A secret in WASM memory is always reachable by someone who will drop it:
\* the map, the call that opened it, or a queued drop; the exception is the
\* handle of a key generation whose addKey failed (useKeySession.ts:128).
NoLostHandle ==
  \A kind \in Kinds, h \in Handles :
    stores[kind][h] # NoKey => Referenced(kind, h) \/ <<kind, h>> \in abandoned

\* A handle an operation took before a lock never addresses another key's
\* secret afterwards: it finds its own key or nothing (key_store.rs:30).
StaleHandleIsHarmless ==
  use # NoUse => stores[use.kind][use.handle] \in {use.key, NoKey}

InTheMap(kind, h) == \E k \in Keys : handles[k] = [handle |-> h, kind |-> kind]
HeldByAWaitingCall(kind, h) ==
  \E c \in Calls : /\ flights[c].phase \in {"resealing", "saving"}
                   /\ flights[c].handle = h /\ KindOf[flights[c].key] = kind

\* A secret in WASM that is neither in the map nor waited on by a call (it was
\* locked, replaced, or its unlock was overtaken by a lock) is wiped: locks
\* and cancelled unlocks remove keys from memory (SECURITY.md section 6).
LockedKeysAreWiped ==
  \A kind \in Kinds, h \in Handles :
    /\ stores[kind][h] # NoKey /\ ~InTheMap(kind, h)
    /\ ~HeldByAWaitingCall(kind, h) /\ <<kind, h>> \notin abandoned
    ~> (stores[kind][h] = NoKey \/ InTheMap(kind, h))

-----------------------------------------------------------------------------
(* The inductive invariant behind the safety properties *)

Holding(c) == flights[c].phase \in {"resealing", "opened", "saving"}

FlightShape ==
  \A c \in Calls : /\ flights[c].phase # "idle" => flights[c].key \in Keys
                   /\ Holding(c) => flights[c].handle \in Handles

LocksAreInThePast == \A k \in Keys : lockedAt[k] <= generation

\* Handles are given out in order and never again.
HandlesAreFresh ==
  /\ \A d \in dropping : d[2] < nextHandle
  /\ \A k \in Keys : handles[k].handle < nextHandle
  /\ \A c \in Calls : Holding(c) => flights[c].handle < nextHandle

\* Each live handle has one owner: an entry of the map or one call.
MapOwns ==
  \A k \in Keys : InMap(k) => handles[k].kind = KindOf[k]
CallsOwn ==
  \A c \in Calls : Holding(c) =>
    /\ stores[KindOf[flights[c].key]][flights[c].handle] = flights[c].key
    /\ <<KindOf[flights[c].key], flights[c].handle>> \notin dropping
OneOwner ==
  /\ \A c \in Calls, k \in Keys :
       Holding(c) => handles[k].handle # flights[c].handle
  /\ \A c, d \in Calls :
       c # d /\ Holding(c) /\ Holding(d) => flights[c].handle # flights[d].handle

SessionInv ==
  /\ TypeOK /\ FlightShape /\ LocksAreInThePast /\ NoUnlockSurvivesALock
  /\ HandlesAreFresh /\ MapOwns /\ MapIsLive /\ CallsOwn /\ OneOwner

-----------------------------------------------------------------------------
(* The session implements KeyAccess *)

\* A request stands while no lock has happened since its unlock() (or its
\* unlockMany()) began and its key has not been stored.
FlightAsks(c) ==
  {k \in Keys : /\ flights[c].key = k
                /\ flights[c].phase \in {"opening", "resealing", "opened"}
                /\ flights[c].startedAt = generation}
BatchAsks(c) ==
  {k \in Keys : /\ batches[c].startedAt = generation
                /\ \/ batches[c].phase = "loading"
                   \/ batches[c].phase = "running" /\ k \in batches[c].todo}
Asked == [c \in Calls |-> FlightAsks(c) \cup BatchAsks(c)]

\* Key generation asks for its key only when it calls cacheKeyHandle.
BusyCalls == {c \in Calls : \/ flights[c].phase \notin {"idle", "saving"}
                            \/ batches[c].phase # "idle"}

Access == INSTANCE KeyAccess WITH usable <- UnlockedKeys, asked <- Asked,
                                  busy <- BusyCalls

\* Keys become usable only as the answer to a request made since the last
\* lock of any key, each key of a request at most once.
ImplementsKeyAccess == Access!Spec

-----------------------------------------------------------------------------
(* What the source's comments say and the code does not do *)

\* "no unlock survives a lock": a key in the map was opened after the last
\* lock covering it (useKeySession.ts:122).
NoOpenedHandleSurvivesALock ==
  \A k \in Keys : InMap(k) => openedAt[k] >= lockedAt[k]

\* "the map is the only reference to a live handle", so that a lock can drop
\* every one of them (useKeySession.ts:128).
EveryLiveHandleIsReferenced ==
  \A kind \in Kinds, h \in Handles : stores[kind][h] # NoKey => Referenced(kind, h)
=============================================================================
