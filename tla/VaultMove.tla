------------------------------ MODULE VaultMove ------------------------------
(***************************************************************************)
(* Where the vault is (lib/storage/vault-state.ts, master-protection.ts,   *)
(* engine.ts): which of the two storage areas holds it, how a window finds *)
(* it, creates it, moves it, and erases what is left of one.               *)
(*                                                                         *)
(* The master protection and the sealed stores lie in either area.  A      *)
(* device remembers where its vault is (the pin); the synced bootstrap is  *)
(* the default for a device that remembers nothing; and every window caches*)
(* the answer until a storage event tells it otherwise.  A move copies,    *)
(* commits and purges one key at a time, and a window can close, or a call *)
(* fail, between any two steps.  A copy of one key, chunked or not, is one *)
(* step here (module Chunked has its parts).                               *)
(***************************************************************************)
EXTENDS Naturals, Sequences, FiniteSets

CONSTANTS MoveWindow,    \* windows of the panel on this device
          StoreKey,      \* VAULT_STORES, as a sequence
          MaxMoveOps     \* bound on onboardings, writes, moves, erases and closings

Area == {"local", "sync"}
Other(loc) == IF loc = "local" THEN "sync" ELSE "local"
Store == {StoreKey[i] : i \in 1 .. Len(StoreKey)}

VARIABLES master,     \* per area: who minted the master protection stored there
          stored,     \* per area and store: the sealed array there
          pin, boot,  \* STORAGE_DEVICE_LOCATION, and the bootstrap's storageLocation
          cached,     \* per window: cachedLocation
          stale,      \* windows with a storage event about the location to come
          win,        \* per window: what it is doing
          lockHeld,   \* the shared lock on the master protection
          latest,     \* per store: the newest write that was reported done (observer)
          strayed,    \* what has happened that the code cannot exclude (observer)
          moveOps

moveVars == <<master, stored, pin, boot, cached, stale, win, lockHeld, latest, strayed, moveOps>>

Nobody == "nobody"
Before == "before"     \* the vault was set up in an earlier session
Unset == "unset"
Absent == [kind |-> "absent", ver |-> 0]
Remnant == [kind |-> "remnant", ver |-> 0]   \* of a vault whose protection is gone
Sealed(n) == [kind |-> "array", ver |-> n]
Gone == [at |-> "closed", step |-> 0, from |-> "local", key |-> StoreKey[1],
         pinned |-> Unset, sawHere |-> Nobody, met |-> FALSE, sees |-> "loading"]

\* STORAGE_MASTER_PROTECTION and the stores, in the order of the two loops.
Master == "master"
CopyOrder == <<Master>> \o StoreKey
MasterFirst == <<Master>> \o StoreKey  \* mutant
PurgeOrder == StoreKey \o <<Master>>

ASSUME MoveAssumption ==
    /\ IsFiniteSet(MoveWindow) /\ Nobody \notin MoveWindow
    /\ StoreKey \in Seq(Store) /\ StoreKey # << >> /\ Master \notin Store
    /\ MaxMoveOps \in Nat

MoveTypeOK ==
    /\ master \in [Area -> MoveWindow \cup {Nobody, Before}]
    /\ \A a \in Area, s \in Store : stored[a][s] \in {Absent, Remnant} \cup
                                          {Sealed(n) : n \in 1 .. MaxMoveOps + 1}
    /\ pin \in Area \cup {Unset} /\ boot \in Area \cup {Unset}
    /\ cached \in [MoveWindow -> Area \cup {Unset}]
    /\ stale \subseteq MoveWindow
    /\ lockHeld \in MoveWindow \cup {Nobody}
    /\ \A w \in MoveWindow : win[w].step \in 0 .. Len(CopyOrder)

\* A fresh install, what is left of a vault, or a vault from before with one
\* array, on a device that remembers it or, after an update, does not.
MoveInit ==
    /\ \E old \in {Absent, Remnant, Sealed(1)} :
          LET isVault == old = Sealed(1) IN
          /\ stored = [a \in Area |-> [s \in Store |->
                         IF a = "local" /\ s = StoreKey[1] THEN old ELSE Absent]]
          /\ master = [a \in Area |-> IF a = "local" /\ isVault THEN Before ELSE Nobody]
          /\ latest = [s \in Store |-> IF s = StoreKey[1] /\ isVault THEN old ELSE Absent]
          /\ pin \in IF isVault THEN {Unset, "local"} ELSE {Unset}
          /\ boot = IF isVault THEN "local" ELSE Unset
    /\ cached = [w \in MoveWindow |-> Unset]
    /\ stale = {}
    /\ win = [w \in MoveWindow |-> Gone]
    /\ lockHeld = Nobody
    /\ strayed = {}
    /\ moveOps = 0

NoVault == \A a \in Area : master[a] = Nobody

\* resolveLocation: the cache, else the pin, else the bootstrap read strictly.
Route(w) == IF cached[w] # Unset THEN cached[w]
            ELSE IF pin # Unset THEN pin
            ELSE IF boot = "sync" THEN "sync" ELSE "local"

Count == moveOps < MaxMoveOps /\ moveOps' = moveOps + 1
At(w, place) == win[w].at = place
Go(w, place) == win' = [win EXCEPT ![w].at = place]

\* pinStorageLocation, and the event that reaches the other windows later.
Pin(w, loc) ==
    /\ pin' = loc
    /\ cached' = [cached EXCEPT ![w] = Unset]
    /\ stale' = {u \in MoveWindow : u # w /\ cached[u] # Unset}

LocationEvent(w) ==
    /\ w \in stale
    /\ stale' = stale \ {w}
    /\ cached' = [cached EXCEPT ![w] = Unset]
    /\ UNCHANGED <<master, stored, pin, boot, win, lockHeld, latest, strayed, moveOps>>

Moving(w) == win[w].at \in {"copy", "commit", "commit pin", "purge", "undo"}
\* Another window is moving the vault at this moment.
Beside(w) == IF \E u \in MoveWindow \ {w} : Moving(u) THEN {"beside"} ELSE {}

-----------------------------------------------------------------------------
(* Looking for the vault: resolveVaultState, over several reads.           *)

Look(w) ==
    /\ At(w, "closed") \/ At(w, "orphaned")
    /\ cached' = [cached EXCEPT ![w] = Route(w)]
    /\ win' = [win EXCEPT ![w] = [Gone EXCEPT !.at = "look here", !.from = Route(w),
                                               !.pinned = pin, !.met = ~NoVault]]
    /\ UNCHANGED <<master, stored, pin, boot, stale, lockHeld, latest, strayed, moveOps>>

LookHere(w) ==
    /\ At(w, "look here")
    /\ win' = [win EXCEPT ![w].at = "look there", ![w].sawHere = master[win[w].from]]
    /\ UNCHANGED <<master, stored, pin, boot, cached, stale, lockHeld, latest, strayed, moveOps>>

HoldsData == \E a \in Area, s \in Store : stored[a][s] # Absent

\* What the two reads and, without a master protection, the stores come to.
Verdict(here, there, pinned) ==
    IF here # Nobody /\ there # Nobody
    THEN IF pinned = Unset THEN "ambiguous" ELSE "ready"
    ELSE IF here # Nobody THEN "ready"
    ELSE IF there # Nobody THEN "elsewhere"
    ELSE IF HoldsData THEN "orphaned" ELSE "none"

LookThere(w) ==
    LET here == win[w].sawHere
        there == master[Other(win[w].from)]
        sees == Verdict(here, there, win[w].pinned)
    IN  /\ At(w, "look there")
        /\ win' = [win EXCEPT ![w].at = CASE sees = "none" -> "new"
                                          [] sees = "ready" -> "open"
                                          [] sees = "orphaned" -> "orphaned"
                                          [] OTHER -> "elsewhere",
                              ![w].sees = sees]
        /\ IF sees = "ready" /\ there = Nobody /\ win[w].pinned = Unset
           THEN Pin(w, win[w].from) /\ strayed' = strayed \cup Beside(w)
           ELSE UNCHANGED <<pin, cached, stale, strayed>>
        /\ UNCHANGED <<master, stored, boot, lockHeld, latest, moveOps>>

\* adoptVaultLocation: moves nothing; the window then looks again.  For an
\* ambiguous vault the user picks either area.
Adopt(w) ==
    /\ At(w, "elsewhere")
    /\ \E loc \in IF win[w].sees = "ambiguous" THEN Area ELSE {Other(win[w].from)} :
          boot' = loc /\ Pin(w, loc)
    /\ Go(w, "closed")
    /\ strayed' = strayed \cup {"adopted"}
    /\ UNCHANGED <<master, stored, lockHeld, latest, moveOps>>

-----------------------------------------------------------------------------
(* Creating a vault: onboarding, up to the recorded location.              *)

\* The check before anything is minted, then the ceremony or the KDF.
Mint(w) ==
    /\ At(w, "new") /\ NoVault /\ Count
    /\ \E loc \in Area : win' = [win EXCEPT ![w].at = "minted", ![w].from = loc]
    /\ UNCHANGED <<master, stored, pin, boot, cached, stale, lockHeld, latest, strayed>>

\* withSharedLock: windows exclude each other here, not only calls of a page.
SaveLock(w) == lockHeld = Nobody

\* saveMasterProtection: check and write under the shared lock.  A refusal
\* drops the session, and the form stays.
SaveCheck(w) ==
    /\ At(w, "minted") /\ SaveLock(w)
    /\ IF NoVault THEN Go(w, "saving") /\ lockHeld' = w
       ELSE Go(w, "new") /\ UNCHANGED lockHeld
    /\ UNCHANGED <<master, stored, pin, boot, cached, stale, latest, strayed, moveOps>>

SaveWrite(w) ==
    /\ At(w, "saving")
    /\ master' = [master EXCEPT ![win[w].from] = w]
    /\ lockHeld' = Nobody
    /\ Go(w, "saved")
    /\ UNCHANGED <<stored, pin, boot, cached, stale, latest, strayed, moveOps>>

\* savePreferences({storageLocation}): the bootstrap, then the pin.
RecordBoot(w) ==
    /\ At(w, "saved")
    /\ boot' = win[w].from
    /\ Go(w, "booted")
    /\ UNCHANGED <<master, stored, pin, cached, stale, lockHeld, latest, strayed, moveOps>>

RecordPin(w) ==
    /\ At(w, "booted")
    /\ Pin(w, win[w].from)
    /\ Go(w, "open")
    /\ strayed' = strayed \cup Beside(w)
    /\ UNCHANGED <<master, stored, boot, lockHeld, latest, moveOps>>

-----------------------------------------------------------------------------
(* Writing a store, with the location found before the write.              *)

StartWrite(w) ==
    /\ At(w, "open") /\ Count
    /\ cached' = [cached EXCEPT ![w] = Route(w)]
    /\ \E s \in Store : win' = [win EXCEPT ![w].at = "writing", ![w].from = Route(w),
                                           ![w].key = s]
    /\ strayed' = strayed \cup Beside(w)
    /\ UNCHANGED <<master, stored, pin, boot, stale, lockHeld, latest>>

FinishWrite(w) ==
    LET s == win[w].key
        new == Sealed(latest[s].ver + 1)
    IN  /\ At(w, "writing")
        /\ stored' = [stored EXCEPT ![win[w].from][s] = new]
        /\ latest' = [latest EXCEPT ![s] = new]
        /\ Go(w, "open")
        /\ strayed' = strayed \cup (IF win[w].from # pin THEN {"stale"} ELSE {})
        /\ UNCHANGED <<master, pin, boot, cached, stale, lockHeld, moveOps>>

-----------------------------------------------------------------------------
(* Moving it: moveVault.                                                   *)

StartMove(w) ==
    /\ At(w, "open") /\ Count
    /\ cached' = [cached EXCEPT ![w] = Route(w)]
    /\ win' = [win EXCEPT ![w].at = "copy", ![w].step = 1, ![w].from = Route(w),
                          ![w].pinned = pin]
    /\ strayed' = IF \E u \in MoveWindow \ {w} :
                         Moving(u) \/ win[u].at \in {"saved", "booted", "look there", "writing"}
                  THEN strayed \cup {"beside"}
                  ELSE IF Route(w) # pin THEN strayed \cup {"stale"} ELSE strayed
    /\ UNCHANGED <<master, stored, pin, boot, stale, lockHeld, latest>>

CopyKey(key, from, to) ==
    IF key = Master
    THEN master' = [master EXCEPT ![to] = IF master[from] = Nobody THEN @ ELSE master[from]]
         /\ UNCHANGED stored
    ELSE stored' = [stored EXCEPT ![to][key] = IF stored[from][key] = Absent THEN @
                                               ELSE stored[from][key]]
         /\ UNCHANGED master

PurgeKey(key, from) ==
    IF key = Master THEN master' = [master EXCEPT ![from] = Nobody] /\ UNCHANGED stored
    ELSE stored' = [stored EXCEPT ![from][key] = Absent] /\ UNCHANGED master

Advanced(w, order, after) ==
    IF win[w].step = Len(order) THEN [win[w] EXCEPT !.at = after, !.step = 1]
    ELSE [win[w] EXCEPT !.step = @ + 1]
NextStep(w, order, after) == win' = [win EXCEPT ![w] = Advanced(w, order, after)]

\* A window that has read the destination before the protection was copied to
\* it can find the other area empty too, if the whole rest of the move passes
\* before its second read: it has missed the vault (observer).
ReadTooEarly(u, w) == /\ win[w].step = 1 /\ At(u, "look there")
                      /\ win[u].from = Other(win[w].from)

\* A copy that the quota refuses undoes everything.
RefusedCopy(w) == [win[w] EXCEPT !.at = "undo", !.step = 1]

\* One copy.
Copy(w) ==
    /\ At(w, "copy")
    /\ \/ /\ CopyKey(CopyOrder[win[w].step], win[w].from, Other(win[w].from))
          /\ win' = [u \in MoveWindow |->
                       IF u = w THEN Advanced(w, CopyOrder, "commit")
                       ELSE IF ReadTooEarly(u, w) THEN [win[u] EXCEPT !.met = FALSE]
                       ELSE win[u]]
       \/ /\ win' = [win EXCEPT ![w] = RefusedCopy(w)]
          /\ UNCHANGED <<master, stored>>
    /\ UNCHANGED <<pin, boot, cached, stale, lockHeld, latest, strayed, moveOps>>

Commit(w) ==
    /\ At(w, "commit")
    /\ \/ boot' = Other(win[w].from) /\ Go(w, "commit pin")
       \/ win' = [win EXCEPT ![w].at = "undo", ![w].step = 1] /\ UNCHANGED boot
    /\ UNCHANGED <<master, stored, pin, cached, stale, lockHeld, latest, strayed, moveOps>>

\* The device record refused: the move is not committed and is undone, but the
\* bootstrap, written before it, keeps the new area.
CommitPin(w) ==
    /\ At(w, "commit pin")
    /\ \/ /\ Pin(w, Other(win[w].from))
          /\ win' = [win EXCEPT ![w].at = "purge", ![w].step = 1]
       \/ /\ win' = [win EXCEPT ![w].at = "undo", ![w].step = 1]
          /\ UNCHANGED <<pin, cached, stale>>
    /\ UNCHANGED <<master, stored, boot, lockHeld, latest, strayed, moveOps>>

\* Each purge is best effort: one that fails leaves its key where it was.
Purge(w) ==
    /\ At(w, "purge")
    /\ \/ PurgeKey(PurgeOrder[win[w].step], win[w].from) /\ UNCHANGED strayed
       \/ strayed' = strayed \cup {"unpurged"} /\ UNCHANGED <<master, stored>>
    /\ NextStep(w, PurgeOrder, "open")
    /\ UNCHANGED <<pin, boot, cached, stale, lockHeld, latest, moveOps>>

UndoneIn(w) == Other(win[w].from)

\* The pin returns to what it was, or its write fails: the cache is dropped anyway.
PinBack(w) ==
    \/ Pin(w, IF win[w].pinned = Unset THEN win[w].from ELSE win[w].pinned)
    \/ cached' = [cached EXCEPT ![w] = Unset] /\ UNCHANGED <<pin, stale>>

\* Before the commit: the copies go, and last the pin returns.
Undo(w) ==
    /\ At(w, "undo")
    /\ \/ PurgeKey(PurgeOrder[win[w].step], UndoneIn(w)) /\ UNCHANGED strayed
       \/ strayed' = strayed \cup {"unpurged"} /\ UNCHANGED <<master, stored>>
    /\ NextStep(w, PurgeOrder, "open")
    /\ IF win[w].step = Len(PurgeOrder) THEN PinBack(w) ELSE UNCHANGED <<pin, cached, stale>>
    /\ UNCHANGED <<boot, lockHeld, latest, moveOps>>

-----------------------------------------------------------------------------
(* Erasing what a vault left behind: eraseVault, after its confirmation.   *)

EraseOrder == <<"local", "sync">>

StartErase(w) ==
    /\ At(w, "orphaned") /\ Count
    /\ win' = [win EXCEPT ![w].at = "erase", ![w].step = 1]
    /\ UNCHANGED <<master, stored, pin, boot, cached, stale, lockHeld, latest, strayed>>

\* One area at a time, then the history, the ledger and the pin.
Erase(w) ==
    LET a == EraseOrder[win[w].step] IN
    /\ At(w, "erase")
    /\ stored' = [stored EXCEPT ![a] = [s \in Store |-> Absent]]
    /\ master' = [master EXCEPT ![a] = Nobody]
    /\ latest' = [s \in Store |-> Absent]
    /\ strayed' = IF NoVault THEN strayed ELSE strayed \cup {"erased"}
    /\ IF win[w].step < 2 THEN win' = [win EXCEPT ![w].step = 2]
                               /\ UNCHANGED <<pin, cached, stale>>
       ELSE Go(w, "closed") /\ Pin(w, Unset)
    /\ UNCHANGED <<boot, lockHeld, moveOps>>

\* The panel closes: whatever it was doing stops here.  A lock goes with it.
CloseWindow(w) ==
    /\ ~At(w, "closed") /\ Count
    /\ win' = [win EXCEPT ![w] = Gone]
    /\ cached' = [cached EXCEPT ![w] = Unset]
    /\ stale' = stale \ {w}
    /\ lockHeld' = IF lockHeld = w THEN Nobody ELSE lockHeld
    /\ strayed' = strayed \cup (IF Moving(w) THEN {"cut"} ELSE {})
    /\ UNCHANGED <<master, stored, pin, boot, latest>>

MoveNext ==
    \E w \in MoveWindow :
        \/ LocationEvent(w) \/ Look(w) \/ LookHere(w) \/ LookThere(w) \/ Adopt(w)
        \/ Mint(w) \/ SaveCheck(w) \/ SaveWrite(w) \/ RecordBoot(w) \/ RecordPin(w)
        \/ StartWrite(w) \/ FinishWrite(w)
        \/ StartMove(w) \/ Copy(w) \/ Commit(w) \/ CommitPin(w) \/ Purge(w) \/ Undo(w)
        \/ StartErase(w) \/ Erase(w)
        \/ CloseWindow(w)

MoveSpec == MoveInit /\ [][MoveNext]_moveVars

-----------------------------------------------------------------------------
\* At most one vault is ever set up, however two windows onboard
\* (master-protection.ts:89): two stored protections are copies of each other.
OneVault ==
    \A a, b \in Area : master[a] # Nobody /\ master[b] # Nobody => master[a] = master[b]

\* Whatever a move is cut off at, or its copies are refused at, the master
\* protection is in some area once one was stored: only an erase takes it.  So
\* it is while one window moves the vault, out of the area that holds it.
ProtectionSurvives ==
    [][(~NoVault /\ strayed' \cap {"erased", "adopted", "beside", "stale"} = {})
          => ~NoVault']_moveVars

\* "A failure before the commit removes the copies and restores the location"
\* (vault-state.ts:147): it never removes the vault itself.
UndoSparesTheVault == [][(\E w \in MoveWindow : Undo(w)) /\ ~NoVault => ~NoVault']_moveVars

\* A window never takes a vault that exists for a fresh install or an orphan,
\* also when it looks in the middle of a move (the two reads are not atomic),
\* except when a move fits between the two.
VaultIsSeen ==
    strayed \cap {"beside", "stale", "adopted", "erased"} = {} =>
        \A w \in MoveWindow : win[w].met => win[w].sees \notin {"none", "orphaned"}

\* No area holds stores without a master protection (vault-state.ts:146), as
\* long as the purges work and no window writes to the area it left.
StoresAreBracketed ==
    strayed \cap {"unpurged", "beside", "stale", "adopted", "erased"} = {} =>
        \A a \in Area : (\E s \in Store : stored[a][s].kind = "array") => master[a] # Nobody

\* A store reads as what was last written to it, wherever the vault is, unless
\* a write ran beside a move or by a stale location.
NothingIsStranded ==
    (~NoVault /\ pin # Unset /\ master[pin] # Nobody
       /\ strayed \cap {"beside", "stale", "adopted", "erased"} = {}) =>
        \A s \in Store : latest[s] # Absent => stored[pin][s] = latest[s]

\* eraseVault is "offered only for an orphaned vault" (vault-state.ts:124).
EraseSparesVaults == [][\A w \in MoveWindow : Erase(w) => NoVault]_moveVars

(* What a move of the vault promises (vault-state.ts), whichever step it    *)
(* stops at: one vault, which every window can see; its stores lie on one   *)
(* side of the commit; nothing is left where nobody looks; and protection   *)
(* that was set up stays.                                                   *)
TheVaultIsKept ==
    /\ [](MoveTypeOK /\ OneVault /\ VaultIsSeen /\ StoresAreBracketed /\ NothingIsStranded)
    /\ ProtectionSurvives
=============================================================================
