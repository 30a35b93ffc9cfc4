------------------------------ MODULE MCStorage ------------------------------
(***************************************************************************)
(* The parts of the storage layer, side by side.  They do not share state, *)
(* so a behaviour picks one of them in its first state and stays with it:  *)
(* one run explores all of them, none multiplied by another.               *)
(***************************************************************************)
EXTENDS PageLock, Chunked, VaultMove, Keyring, Settings, PrefsStore, History, TLC

VARIABLE part

StorageVars == <<part, lockVars, chunkVars, moveVars, ringVars, settingsVars, prefVars, histVars>>

\* One value to every count of pieces, and one whose last piece is full.
MCChunkedValue == {[tag |-> 1, n |-> 0, last |-> 0], [tag |-> 2, n |-> 1, last |-> 1],
                   [tag |-> 3, n |-> 2, last |-> 1], [tag |-> 4, n |-> 2, last |-> 2],
                   [tag |-> 5, n |-> 3, last |-> 1]}
MCStoreKey == <<"k">>

Part == {"lock", "chunks", "vault", "keys", "settings", "preferences", "history"}
On(p) == part = p /\ part' = p

\* The initial states of a part that is not picked: one of them is enough.
Still(p, others) == part # p => others

StorageInit ==
    /\ part \in Part
    /\ LockInit /\ ChunkInit /\ MoveInit /\ RingInit /\ SettingsInit /\ PrefsInit /\ HistInit
    /\ Still("vault", NoVault /\ ~HoldsData)
    /\ Still("keys", store = "crx" /\ open = RingPage)
    /\ Still("settings", legacy = "none")
    /\ Still("preferences", unlocked)
    /\ Still("history", unlimited)

StorageNext ==
    \/ /\ On("lock") /\ LockNext
       /\ UNCHANGED <<chunkVars, moveVars, ringVars, settingsVars, prefVars, histVars>>
    \/ /\ On("chunks") /\ ChunkNext
       /\ UNCHANGED <<lockVars, moveVars, ringVars, settingsVars, prefVars, histVars>>
    \/ /\ On("vault") /\ MoveNext
       /\ UNCHANGED <<lockVars, chunkVars, ringVars, settingsVars, prefVars, histVars>>
    \/ /\ On("keys") /\ RingNext
       /\ UNCHANGED <<lockVars, chunkVars, moveVars, settingsVars, prefVars, histVars>>
    \/ /\ On("settings") /\ SettingsNext
       /\ UNCHANGED <<lockVars, chunkVars, moveVars, ringVars, prefVars, histVars>>
    \/ /\ On("preferences") /\ PrefsNext
       /\ UNCHANGED <<lockVars, chunkVars, moveVars, ringVars, settingsVars, histVars>>
    \/ /\ On("history") /\ HistNext
       /\ UNCHANGED <<lockVars, chunkVars, moveVars, ringVars, settingsVars, prefVars>>

\* Only the page's lock has a liveness property; its fairness is that of PageLock.
StorageSpec == StorageInit /\ [][StorageNext]_StorageVars /\ LockFairness
=============================================================================
