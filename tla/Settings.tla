------------------------------ MODULE Settings ------------------------------
(***************************************************************************)
(* The sealed settings of one device (lib/storage/preferences.ts): how they*)
(* are read, saved, and once migrated from the plaintext object of an older*)
(* version, while the stored copy can be deleted, mangled or put back to an*)
(* older one, and the ledger that would tell can be lost.                  *)
(*                                                                         *)
(* Of the settings two fields are told apart: the auto-lock, which the     *)
(* strictest preset forces, and the output, which it leaves alone.  Every  *)
(* operation migrates first; between the two, and between the two halves   *)
(* of a migration, the panel can close.                                    *)
(***************************************************************************)
EXTENDS Integers, FiniteSets

CONSTANTS MaxSaves,   \* bound on saves of settings
          MaxFaults   \* bound on deletions, manglings, rollbacks and losses

ASSUME SettingsAssumption == MaxSaves \in Nat /\ MaxFaults \in Nat

L == INSTANCE Ledger WITH Ids <- {}, MaxGen <- MaxSaves + MaxFaults + 1

VARIABLES blob,       \* STORAGE_SETTINGS
          older,      \* earlier sealed copies of it, which can come back
          marks,      \* the ledger, as far as the settings go
          ledgerKey,  \* the key that ledger is sealed under
          settled,    \* the ledger's marker of the migration
          otherGen,   \* another local store carries a generation
          legacy,     \* the plaintext object of an older version
          session,    \* none, of the vault's key, or of another passkey's
          checked,    \* migrationSettled, the worker's cache
          doing,      \* the operation under way, after its migration
          runs,       \* what the panel runs on: the auto-lock of the last read
          choice,     \* the auto-lock the user last chose (observer)
          fate,       \* of the genuine legacy settings (observer)
          saves, faults

settingsVars == <<blob, older, marks, ledgerKey, settled, otherGen, legacy, session, checked,
                  doing, runs, choice, fate, saves, faults>>

Locks == {"strict", "relaxed"}
Default == [lock |-> "relaxed", out |-> 0, from |-> "user"]
Strictest == [Default EXCEPT !.lock = "strict"]
NoBlob == [state |-> "absent", gen |-> 0, key |-> "right", val |-> Default]
Values == [lock : Locks, out : 0 .. 1, from : {"user", "legacy", "planted"}]
Blobs == [state : {"absent", "sealed", "junk"}, gen : 0 .. MaxSaves + MaxFaults + 1,
          key : {"right", "wrong"}, val : Values]

SettingsTypeOK ==
    /\ blob \in Blobs /\ older \subseteq Blobs
    /\ marks \in L!Ledgers
    /\ legacy \in {"none", "genuine", "planted"}
    /\ session \in {"none", "right", "wrong"}
    /\ doing \in {"nothing", "migrate, then read", "migrate, then save", "settle, then read",
                  "settle, then save", "read", "save"}
    /\ runs \in Locks \cup {"unread"} /\ choice \in Locks

\* A new vault, with its ledger, or the first start of the version that seals.
SettingsInit ==
    /\ blob = NoBlob /\ older = {}
    /\ legacy \in {"none", "genuine"}
    /\ marks = IF legacy = "genuine" THEN L!AbsentLedger ELSE L!EmptyLedger
    /\ ledgerKey = "right" /\ settled = FALSE /\ otherGen = FALSE
    /\ session = "none" /\ checked = FALSE
    /\ doing = "nothing" /\ runs = "unread"
    /\ choice = IF legacy = "genuine" THEN "strict" ELSE "relaxed"
    /\ fate = legacy
    /\ saves = 0 /\ faults = 0

-----------------------------------------------------------------------------
Readable == blob.state = "sealed" /\ blob.key = session

\* The ledger as the session sees it: under another key it does not open.
Seen == IF ledgerKey = session \/ marks.state = "absent" THEN marks ELSE L!JunkLedger

\* localStoresCarryGenerations, over the other stores and, except for the
\* store being written, the settings.
CarryGenerations(skipSettings) ==
    (otherGen /\ session = "right") \/ (~skipSettings /\ Readable)

\* updateLedger on behalf of a caller that opened or sealed a store: it may
\* replace a ledger that is missing or does not open.
Proven(skipSettings) ==
    IF Seen.state = "good" THEN Seen
    ELSE L!Replacement(Seen.state, CarryGenerations(skipSettings))

\* noteAbsent: this device has seen settings, or cannot tell.
SeenBefore == \/ Seen.state = "good" /\ (Seen.mark # L!Unmarked \/ Seen.lost # "none")
              \/ Seen.state = "junk"
              \/ Seen.state = "absent" /\ CarryGenerations(TRUE)

\* Storing what becomes of the ledger: one that is replaced forgets the marker.
StoreLedger(l) == marks' = l /\ ledgerKey' = session
                  /\ settled' = (settled /\ Seen.state = "good")

\* saveSettings: a generation above the mark, then the blob, then the mark.
SaveAs(val) ==
    LET gen == L!ClaimGeneration(Seen, saves + 1) IN
    /\ blob' = [state |-> "sealed", gen |-> gen, key |-> session, val |-> val]
    /\ older' = IF blob.state = "sealed" THEN older \cup {blob} ELSE older
    /\ StoreLedger(L!RecordWrite(Proven(TRUE), gen))
    /\ saves' = saves + 1

Ask(what) ==
    /\ doing = "nothing" /\ session # "none"
    /\ what = "save" => runs # "unread" /\ saves < MaxSaves
    /\ doing' = IF checked THEN what
                ELSE IF what = "read" THEN "migrate, then read" ELSE "migrate, then save"
    /\ UNCHANGED <<blob, older, marks, ledgerKey, settled, otherGen, legacy, session, checked, runs,
                   choice, fate, saves, faults>>

-----------------------------------------------------------------------------
(* The migration, in two halves.                                           *)

IsSettled == settled /\ Seen.state = "good"

Eligible ==
    /\ ~IsSettled
    /\ blob.state = "absent"
    /\ ~otherGen

Migrating == doing \in {"migrate, then read", "migrate, then save"}

Migrate ==
    /\ Migrating
    /\ IF legacy # "none" /\ Eligible
       THEN /\ SaveAs([Strictest EXCEPT !.from = IF legacy = "genuine" THEN "legacy"
                                                 ELSE "planted"])
            /\ fate' = IF legacy = "genuine" THEN "migrated" ELSE fate
       ELSE UNCHANGED <<blob, older, marks, ledgerKey, settled, saves, fate>>
    /\ doing' = IF doing = "migrate, then read" THEN "settle, then read"
                ELSE "settle, then save"
    /\ UNCHANGED <<otherGen, legacy, session, checked, runs, choice, faults>>

\* The plaintext goes either way; the marker needs a ledger that opens.
Settle ==
    /\ doing \in {"settle, then read", "settle, then save"}
    /\ legacy' = "none"
    /\ fate' = IF fate = "genuine" THEN "dropped" ELSE fate
    /\ settled' = IF Seen.state = "good" THEN TRUE ELSE settled
    /\ checked' = (Seen.state = "good")
    /\ doing' = IF doing = "settle, then read" THEN "read" ELSE "save"
    /\ UNCHANGED <<blob, older, marks, ledgerKey, otherGen, session, runs, choice, saves, faults>>

-----------------------------------------------------------------------------
(* Reading and saving.                                                     *)

\* readSettings: what is stored, and whether it can be shown current.
Observed == L!ObserveGeneration(Proven(FALSE), blob.gen, TRUE)
HeldOrLost == Observed.lost # "none" \/ Observed.suspect # L!NotHeld
Stored == IF Readable THEN blob.val
          ELSE IF blob.state = "absent" /\ ~SeenBefore THEN Default ELSE Strictest

\* The strictest preset lies over what is stored until it is shown current.
Overlay == IF Readable /\ HeldOrLost THEN [Stored EXCEPT !.lock = "strict"] ELSE Stored
MergedOnto(stored) == Overlay  \* mutant
MergeOnto(stored) == stored

NoteRead == IF Readable THEN StoreLedger(Observed)
            ELSE UNCHANGED <<marks, ledgerKey, settled>>

Read ==
    /\ doing = "read"
    /\ NoteRead
    /\ runs' = Overlay.lock
    /\ doing' = "nothing"
    /\ UNCHANGED <<blob, older, otherGen, legacy, session, checked, choice, fate, saves, faults>>

\* A blob that will not open is replaced only by a session that opens the ledger.
MayReplace == blob.state = "absent" \/ Readable \/ Seen.state = "good"

\* savePreferences with one change: the user's, or a routine one of the output.
SaveChange ==
    /\ doing = "save"
    /\ doing' = "read"   \* the storage event of the save, or its failure
    /\ \/ /\ MayReplace
          /\ \E change \in {"strict", "relaxed", "out"} :
               LET on == MergeOnto(Stored)
                   val == IF change = "out" THEN [on EXCEPT !.out = 1 - @]
                          ELSE [on EXCEPT !.lock = change, !.from = "user"]
               IN  /\ SaveAs(val)
                   /\ runs' = IF change # "out" THEN change ELSE runs
                   /\ choice' = IF change # "out" /\ session = "right" THEN change
                                ELSE choice
       \/ /\ ~MayReplace
          /\ UNCHANGED <<blob, older, marks, ledgerKey, settled, saves, choice, runs>>
    /\ UNCHANGED <<otherGen, legacy, session, checked, fate, faults>>

-----------------------------------------------------------------------------
(* Unlocking, which migrates before any store is written; locking; and the *)
(* panel closing at any moment.                                            *)

UnlockAs(key) ==
    /\ session = "none" /\ doing = "nothing"
    /\ key = "wrong" => fate # "genuine"   \* not before the vault's own first session
    /\ session' = key
    /\ doing' = IF checked THEN "read" ELSE "migrate, then read"
    /\ UNCHANGED <<blob, older, marks, ledgerKey, settled, otherGen, legacy, checked, runs, choice,
                   fate, saves, faults>>

WritesWait == doing = "nothing"
StoreWritten ==
    /\ session = "right" /\ WritesWait /\ ~otherGen
    /\ otherGen' = TRUE
    /\ StoreLedger(Proven(FALSE))
    /\ UNCHANGED <<blob, older, legacy, session, checked, doing, runs, choice, fate,
                   saves, faults>>

ClosePanel ==
    /\ session # "none"
    /\ session' = "none" /\ checked' = FALSE /\ doing' = "nothing" /\ runs' = "unread"
    /\ UNCHANGED <<blob, older, marks, ledgerKey, settled, otherGen, legacy, choice, fate, saves, faults>>

\* The user dismisses the warning: the held copy is accepted.
Dismiss ==
    /\ session # "none" /\ doing = "nothing" /\ Seen.state = "good"
    /\ marks.lost # "none" \/ marks.suspect # L!NotHeld
    /\ marks' = L!Acknowledge(marks)
    /\ choice' = "relaxed"
    /\ doing' = "read"
    /\ UNCHANGED <<blob, older, ledgerKey, settled, otherGen, legacy, session, checked,
                   runs, fate, saves, faults>>

\* What can happen to the storage of a device, by a sync or a fault.  When
\* nothing that opens is left to tell there ever were settings, no choice is left.
NoTrace == /\ blob.state # "sealed" \/ blob.key = "wrong"
           /\ marks.state = "absent" /\ ~otherGen
Fault ==
    /\ faults < MaxFaults /\ doing = "nothing" /\ faults' = faults + 1
    /\ \/ blob' = NoBlob /\ UNCHANGED <<marks, settled, legacy>>
       \/ /\ blob.state = "sealed" /\ blob' = [blob EXCEPT !.state = "junk"]
          /\ UNCHANGED <<marks, settled, legacy>>
       \/ (\E old \in older : blob' = old) /\ UNCHANGED <<marks, settled, legacy>>
       \/ marks' = L!AbsentLedger /\ settled' = FALSE /\ UNCHANGED <<blob, legacy>>
       \/ marks' = L!JunkLedger /\ settled' = FALSE /\ UNCHANGED <<blob, legacy>>
       \/ /\ settled /\ legacy = "none"
          /\ legacy' = "planted" /\ UNCHANGED <<blob, marks, settled>>
    /\ runs' = "unread" /\ doing' = IF session = "none" THEN "nothing" ELSE "read"
    /\ UNCHANGED <<older, ledgerKey, otherGen, session, checked, fate, saves>>
    /\ choice' = IF NoTrace' THEN "relaxed" ELSE choice

SettingsNext ==
    \/ Ask("read") \/ Ask("save") \/ Migrate \/ Settle \/ Read \/ SaveChange
    \/ UnlockAs("right") \/ UnlockAs("wrong") \/ StoreWritten \/ ClosePanel
    \/ Dismiss \/ Fault

SettingsSpec == SettingsInit /\ [][SettingsNext]_settingsVars

-----------------------------------------------------------------------------
\* Deleting, mangling or rolling back the stored settings never relaxes what
\* the user chose (preferences.ts:236), until the user accepts it.
FaultsNeverRelax == choice = "strict" /\ session = "right" => runs # "relaxed"

\* The strict overlay of a doubtful copy is never made permanent by a routine
\* save of something else (preferences.ts:296).
RoutineSavesKeepTheLock ==
    [][doing = "save" /\ Readable /\ blob'.val.out # blob.val.out =>
          blob'.val.lock = blob.val.lock]_settingsVars

\* A session of another key never replaces settings that the vault's key opens
\* (preferences.ts:491), unless the ledger is its own by then: it wrote where the
\* settings were missing, and they came back.
TookTheLedger == ledgerKey = "wrong" /\ marks.state = "good"
WrongKeyReplacesNothing ==
    [][session = "wrong" /\ ~TookTheLedger /\ blob.state = "sealed" /\ blob.key = "right"
          /\ faults' = faults => blob' = blob]_settingsVars

\* A plaintext object that appears on a device that has settled the migration
\* never becomes the settings (preferences.ts:345), while the ledger lasts.
PlantedNeverMigrates ==
    [][settled /\ session = "right" /\ ledgerKey = "right" /\ blob'.val.from = "planted" =>
          blob.val.from = "planted" \/ blob' \in older]_settingsVars

\* Genuine settings of an older version are migrated, not dropped: no store is
\* written before the migration of an unlock has run (preferences.ts:361).
GenuineIsMigrated == fate = "dropped" => faults > 0 \/ session = "wrong"

(* What the settings promise (preferences.ts): whatever storage does, a     *)
(* fault never relaxes them; a wrong key replaces nothing; a save keeps the *)
(* lock settings; and of the settings from before the vault, genuine ones   *)
(* are taken over once, planted ones never.                                 *)
SettingsHold ==
    /\ [](SettingsTypeOK /\ FaultsNeverRelax /\ GenuineIsMigrated)
    /\ RoutineSavesKeepTheLock /\ WrongKeyReplacesNothing /\ PlantedNeverMigrates
=============================================================================
