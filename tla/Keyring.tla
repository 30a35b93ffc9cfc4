------------------------------ MODULE Keyring ------------------------------
(***************************************************************************)
(* The stores of protected keys (lib/storage/protected-store.ts) and the   *)
(* two stores built on it: the keyring (keyring.ts) and the CRX signing    *)
(* keys (crx/storage.ts).                                                  *)
(*                                                                         *)
(* Every mutation runs guard, load, change and save under the page's lock  *)
(* of the store; the session can be dropped or opened again between any    *)
(* two of those steps, and another window, with a lock and a session of    *)
(* its own, can run a mutation in between.                                 *)
(***************************************************************************)
EXTENDS Naturals, FiniteSets, Functions

CONSTANTS RingCall,   \* mutations under way, each of one page
          KeyId,      \* ids of the stored keys (fingerprints, extension ids)
          MaxFlips    \* bound on locks and unlocks of the vault

RingPage == {"p", "q"}
Free == "free"

ASSUME RingAssumption == Free \notin RingCall

VARIABLES store,   \* which of the two stores this is
          kept,    \* the sealed array: a function from ids to items
          open,    \* pages with a session
          ringHolder, \* per page: the call that holds the store's lock
          ring,    \* per call: what it does and how far it is
          flips

ringVars == <<store, kept, open, ringHolder, ring, flips>>

\* What a mutation can be.  "reseal" is an update the user is told of, a new
\* protection or a revocation certificate; "use" is the last-used time, which
\* no property reads; "normalize" rewrites the padding and never the items.
Updates == {"alias", "reseal", "use"}
Ops == {"put", "remove", "normalize"} \cup Updates
OpsOf(s) == IF s = "keyring" THEN Ops ELSE Ops \ {"reseal"}

Fresh == [alias |-> "", seal |-> "old"]
Items == [alias : {"", "named"}, seal : {"old", "new"}]
Rings == UNION {[ids -> Items] : ids \in SUBSET KeyId}

NoCallYet == [at |-> "idle", op |-> "put", id |-> "", page |-> "p", read |-> <<>>,
              lockedLoad |-> FALSE, dropped |-> FALSE, overtaken |-> FALSE, result |-> "none"]

RingTypeOK ==
    /\ store \in {"keyring", "crx"}
    /\ kept \in Rings
    /\ open \subseteq RingPage
    /\ ringHolder \in [RingPage -> RingCall \cup {Free}]
    /\ \A c \in RingCall : ring[c].read \in Rings /\ ring[c].op \in Ops

RingInit ==
    /\ store \in {"keyring", "crx"}
    /\ kept = [k \in KeyId |-> Fresh]
    /\ open \in {RingPage, {"q"}}
    /\ ringHolder = [p \in RingPage |-> Free]
    /\ ring = [c \in RingCall |-> NoCallYet]
    /\ flips = 0

-----------------------------------------------------------------------------
\* Which mutations check the session inside the lock, and which of those skip
\* instead of failing: in the keyring only the removal, of the CRX keys all.
Guarded(s, op) == IF s = "crx" THEN op # "normalize" ELSE op = "remove"
SkipsQuietly(s, op) == (s = "crx" /\ op = "use") \/ op = "normalize"

\* What an update that finds no item does: these two tell the user it is done.
ThrowsIfMissing(op) == op = "reseal"

Without(items, id) == Restrict(items, DOMAIN items \ {id})

\* What a mutation makes of the items it was given.
WithItem(items, id, item) == [k \in DOMAIN items \cup {id} |->
                                 IF k = id THEN item ELSE items[k]]
Change(op, id, items) ==
    CASE op = "put"       -> WithItem(items, id, [Fresh EXCEPT !.alias = "named"])
      [] op = "remove"    -> Without(items, id)
      [] op = "alias"     -> [items EXCEPT ![id].alias = IF @ = "" THEN "named" ELSE ""]
      [] op = "reseal"    -> [items EXCEPT ![id].seal = "new"]
      [] OTHER            -> items

Step(c, place) == ring' = [ring EXCEPT ![c].at = place]
EndCall(c, result) ==
    /\ ring' = [ring EXCEPT ![c] = [NoCallYet EXCEPT !.at = "ended", !.result = result]]
    /\ ringHolder' = [ringHolder EXCEPT ![ring[c].page] = Free]
HasSession(c) == ring[c].page \in open

CallRing(c) ==
    /\ ring[c].at = "idle"
    /\ \E op \in OpsOf(store), id \in KeyId, p \in RingPage :
          ring' = [ring EXCEPT ![c] = [NoCallYet EXCEPT !.at = "queued", !.op = op,
                                                         !.id = id, !.page = p]]
    /\ UNCHANGED <<store, kept, open, ringHolder, flips>>

\* withLock(storageKey), one chain per page; the guard runs inside it.
NoPageLock(p) == TRUE  \* mutant
PageIsFree(p) == ringHolder[p] = Free

Guard(c) ==
    /\ ring[c].at = "queued" /\ PageIsFree(ring[c].page)
    /\ IF Guarded(store, ring[c].op) /\ ~HasSession(c)
       THEN EndCall(c, IF SkipsQuietly(store, ring[c].op) THEN "skipped" ELSE "locked")
       ELSE /\ Step(c, "load")
            /\ ringHolder' = [ringHolder EXCEPT ![ring[c].page] = c]
    /\ UNCHANGED <<store, kept, open, flips>>

\* loadEncryptedArray: a locked vault loads as the empty array, and one that
\* locks before the blob is opened fails the call.  normalizePadding has read
\* nothing then and returns.
LoadCheck(c) ==
    /\ ring[c].at = "load"
    /\ IF HasSession(c) THEN Step(c, "read") /\ UNCHANGED ringHolder
       ELSE IF ring[c].op = "normalize" THEN EndCall(c, "skipped")
       ELSE /\ ring' = [ring EXCEPT ![c].at = "change", ![c].read = <<>>,
                                    ![c].lockedLoad = TRUE]
            /\ UNCHANGED ringHolder
    /\ UNCHANGED <<store, kept, open, flips>>

Load(c) ==
    /\ ring[c].at = "read"
    /\ IF HasSession(c)
       THEN /\ ring' = [ring EXCEPT ![c].at = "change", ![c].read = kept]
            /\ UNCHANGED ringHolder
       ELSE EndCall(c, "failed")
    /\ UNCHANGED <<store, kept, open, flips>>

\* The mutation itself, and the session saveEncryptedArray asks for.
Modify(c) ==
    LET missing == ring[c].op \in Updates /\ ring[c].id \notin DOMAIN ring[c].read IN
    /\ ring[c].at = "change"
    /\ IF missing
       THEN EndCall(c, IF ThrowsIfMissing(ring[c].op) THEN "missing" ELSE "done")
       ELSE IF ~HasSession(c) THEN EndCall(c, "failed")
       ELSE Step(c, "save") /\ UNCHANGED ringHolder
    /\ UNCHANGED <<store, kept, open, flips>>

\* Sealed and written; the calls of the other page have now read an old array.
Save(c) ==
    /\ ring[c].at = "save"
    /\ kept' = Change(ring[c].op, ring[c].id, ring[c].read)
    /\ ring' = [d \in RingCall |->
                  IF d = c THEN [NoCallYet EXCEPT !.at = "ended", !.result = "done"]
                  ELSE IF ring[d].page # ring[c].page /\ ring[d].at \in {"change", "save"}
                  THEN [ring[d] EXCEPT !.overtaken = TRUE]
                  ELSE ring[d]]
    /\ ringHolder' = [ringHolder EXCEPT ![ring[c].page] = Free]
    /\ UNCHANGED <<store, open, flips>>

\* The vault of a page locks or unlocks, at any moment of a mutation.
Flip(p) ==
    /\ flips < MaxFlips
    /\ flips' = flips + 1
    /\ open' = IF p \in open THEN open \ {p} ELSE open \cup {p}
    /\ ring' = [c \in RingCall |->
                  [ring[c] EXCEPT !.dropped = @ \/ (ring[c].page = p /\ p \in open
                                                      /\ ring[c].at = "load")]]
    /\ UNCHANGED <<store, kept, ringHolder>>

RingNext ==
    \/ \E c \in RingCall : \/ CallRing(c) \/ Guard(c) \/ LoadCheck(c)
                           \/ Load(c) \/ Modify(c) \/ Save(c)
    \/ \E p \in RingPage : Flip(p)

RingSpec == RingInit /\ [][RingNext]_ringVars

-----------------------------------------------------------------------------
RingWrites(c) == ring[c].at = "save" /\ ring'[c].at = "ended"

\* A mutation changes what is there when it writes, not what was there when it
\* read: no call of the page is lost, whichever fields they touch
\* (protected-store.ts:6, keyring.ts:167).  A call of another window can be.
WritesChangeWhatIsThere ==
    [][\A c \in RingCall :
          RingWrites(c) /\ ~ring[c].overtaken /\ ~ring[c].lockedLoad
             => kept' = Change(ring[c].op, ring[c].id, kept)]_ringVars

\* A locked load never wipes the keys (keyring.ts:142, protected-store.ts:26):
\* a key leaves the store only by its own removal.  The two gaps are a vault
\* that is unlocked between the locked load and the save of a call without a
\* guard, and one that locks and unlocks within a guarded call.
LockedLoadWipesNothing ==
    [][\A c \in RingCall, k \in KeyId :
          RingWrites(c) /\ k \in DOMAIN kept \ DOMAIN kept' =>
             \/ ring[c].op = "remove" /\ ring[c].id = k
             \/ ring[c].overtaken
             \/ ring[c].lockedLoad /\ (ring[c].dropped \/ (store = "keyring"
                                                     /\ ring[c].op = "put"))]_ringVars

\* A change of protection or a revocation certificate that is reported as saved
\* was saved: a key deleted meanwhile is an error (keyring.ts:169, 201).
ReportedMeansSaved ==
    [][\A c \in RingCall :
          ring[c].op = "reseal" /\ ring[c].result = "none" /\ ring'[c].result = "done" =>
              /\ ring[c].id \in DOMAIN kept'
              /\ kept'[ring[c].id].seal = "new"]_ringVars

(* What the protected stores promise (protected-store.ts, keyring.ts):      *)
(* calls that interleave write only what each of them changed, a load       *)
(* behind a lock erases nothing, and a change that was reported is stored.  *)
KeysAreKept == []RingTypeOK /\ WritesChangeWhatIsThere /\ LockedLoadWipesNothing /\ ReportedMeansSaved
=============================================================================
