----------------------------- MODULE PrefsStore -----------------------------
(***************************************************************************)
(* The panel's one copy of the preferences (lib/storage/preferences-store. *)
(* ts, hooks/usePreferences.ts): updates, shown at once or only when saved,*)
(* and re-reads, of every storage event and every unlock, that must not    *)
(* put an older value back.  Storage and the session change  between the    *)
(* steps of a re-read; the re-reads of a page, which run the same chain of *)
(* awaits, finish in the order they began.                                 *)
(***************************************************************************)
EXTENDS Naturals, Sequences, FiniteSets

CONSTANTS Update,      \* the user's changes; each writes a value of its own
          MaxTurns     \* bound on locks and unlocks, and on other windows' saves

\* An update's value is its own: no default, preset or stored value is one.
ASSUME UpdateAssumption ==
    /\ IsFiniteSet(Update)
    /\ Update \cap {"default", "strict", "stored", "other window", "unread"} = {}

VARIABLES snapshot, writeEpoch, writesInFlight, reloadDropped,   \* of the module
          saved,       \* what STORAGE_SETTINGS holds
          update,      \* per update: its field and how far it is
          reloads,     \* re-reads under way, oldest first
          events,      \* storage events to come
          unlocked, prefTurns

prefVars == <<snapshot, writeEpoch, writesInFlight, reloadDropped, saved, update,
              reloads, events, unlocked, prefTurns>>

\* "theme" stands for a setting shown at once, "unlock" for one the next unlock
\* acts on, which is shown only when saved.
Field == {"theme", "unlock"}
Defaults == [f \in Field |-> "default"]
Strict == [f \in Field |-> "strict"]
Value == Update \cup {"default", "strict", "stored", "other window"}
Prefs == [Field -> Value]
Unread == [f \in Field |-> "unread"]
Optimistic(f) == f = "theme"

PrefsTypeOK ==
    /\ snapshot \in Prefs /\ saved \in Prefs
    /\ writesInFlight \in 0 .. Cardinality(Update) /\ writesInFlight <= writeEpoch
    /\ reloadDropped \in BOOLEAN
    /\ \A i \in 1 .. Len(reloads) : reloads[i].read \in Prefs \cup {Unread}
    /\ unlocked \in BOOLEAN /\ events \in Nat

\* Before the first unlock, or with the settings read.
PrefsInit ==
    /\ unlocked \in BOOLEAN
    /\ saved = [f \in Field |-> "stored"]
    /\ snapshot = IF unlocked THEN saved ELSE Defaults
    /\ writeEpoch = 0 /\ writesInFlight = 0 /\ reloadDropped = FALSE
    /\ update = [u \in Update |-> [at |-> "idle", field |-> "theme", nth |-> 0]]
    /\ reloads = <<>> /\ events = 0
    /\ prefTurns = 0

-----------------------------------------------------------------------------
Starting == [epoch |-> writeEpoch, before |-> unlocked, read |-> Unread,
             real |-> FALSE, failed |-> FALSE]

\* The read half of reload: getPreferences gives defaults while locked, and a
\* read that fails gives the strictest preset.
ReadPrefs ==
    \E i \in 1 .. Len(reloads) :
        /\ reloads[i].read = Unread
        /\ \A j \in 1 .. i - 1 : reloads[j].read # Unread
        /\ \/ reloads' = [reloads EXCEPT ![i].read = IF unlocked THEN saved ELSE Defaults,
                                         ![i].real = unlocked]
           \/ reloads' = [reloads EXCEPT ![i].read = Strict, ![i].failed = TRUE]
        /\ UNCHANGED <<snapshot, writeEpoch, writesInFlight, reloadDropped, saved, update,
                       events, unlocked, prefTurns>>

\* Taken only with a session on both sides of the read: a lock in the middle
\* would pass the defaults for settings.
BothSides(r) == r.before /\ unlocked

\* And only when no write began, or is under way, since the read began.
Undisturbed(r) == r.epoch = writeEpoch /\ writesInFlight = 0

FinishReload ==
    /\ reloads # <<>> /\ Head(reloads).read # Unread
    /\ LET r == Head(reloads) IN
       IF Undisturbed(r)
       THEN /\ snapshot' = IF r.failed \/ BothSides(r) THEN r.read ELSE snapshot
            /\ UNCHANGED reloadDropped
       ELSE reloadDropped' = TRUE /\ UNCHANGED snapshot
    /\ reloads' = Tail(reloads)
    /\ UNCHANGED <<writeEpoch, writesInFlight, saved, update, events, unlocked, prefTurns>>

-----------------------------------------------------------------------------
(* update: commit at once or when saved; the save; what follows it.        *)

StartUpdate(u) ==
    /\ update[u].at = "idle" /\ unlocked
    /\ \E f \in Field :
          /\ update' = [update EXCEPT ![u] = [at |-> "saving", field |-> f,
                                                 nth |-> writeEpoch]]
          /\ snapshot' = IF Optimistic(f) THEN [snapshot EXCEPT ![f] = u] ELSE snapshot
    /\ writeEpoch' = writeEpoch + 1
    /\ writesInFlight' = writesInFlight + 1
    /\ UNCHANGED <<reloadDropped, saved, reloads, events, unlocked, prefTurns>>

\* savePreferences, which merges onto what is stored.  Without a session it
\* skips quietly; otherwise it lands or is rejected.  The saves of a page queue
\* on its lock, in the order of the calls.
StoreUpdate(u) ==
    /\ update[u].at = "saving"
    /\ \A v \in Update : update[v].at = "saving" => update[v].nth >= update[u].nth
    /\ \/ /\ unlocked
          /\ saved' = [saved EXCEPT ![update[u].field] = u]
          /\ events' = events + 1
          /\ update' = [update EXCEPT ![u].at = "stored"]
       \/ /\ ~unlocked
          /\ update' = [update EXCEPT ![u].at = "stored"]
          /\ UNCHANGED <<saved, events>>
       \/ /\ update' = [update EXCEPT ![u].at = "rejected"]
          /\ UNCHANGED <<saved, events>>
    /\ UNCHANGED <<snapshot, writeEpoch, writesInFlight, reloadDropped, reloads, unlocked,
                   prefTurns>>

NeverAgain == FALSE  \* mutant
ReloadAgain == writesInFlight = 1 /\ reloadDropped

FinishUpdate(u) ==
    /\ update[u].at = "stored"
    /\ update' = [update EXCEPT ![u].at = "done", ![u].nth = 0]
    /\ writesInFlight' = writesInFlight - 1
    /\ snapshot' = IF Optimistic(update[u].field) THEN snapshot
                   ELSE [snapshot EXCEPT ![update[u].field] = u]
    /\ IF ReloadAgain
       THEN reloadDropped' = FALSE /\ reloads' = Append(reloads, Starting)
       ELSE UNCHANGED <<reloadDropped, reloads>>
    /\ UNCHANGED <<writeEpoch, saved, events, unlocked, prefTurns>>

\* A rejected save re-reads storage, so that the panel never shows a value that
\* the next unlock would not.
FailUpdate(u) ==
    /\ update[u].at = "rejected"
    /\ update' = [update EXCEPT ![u].at = "failed", ![u].nth = 0]
    /\ writesInFlight' = writesInFlight - 1
    /\ reloadDropped' = FALSE
    /\ reloads' = Append(reloads, Starting)
    /\ UNCHANGED <<snapshot, writeEpoch, saved, events, unlocked, prefTurns>>

-----------------------------------------------------------------------------
(* The rest of the world.                                                  *)

StorageEvent ==
    /\ events > 0
    /\ events' = events - 1
    /\ reloads' = Append(reloads, Starting)
    /\ UNCHANGED <<snapshot, writeEpoch, writesInFlight, reloadDropped, saved, update,
                   unlocked, prefTurns>>

Spend == prefTurns < MaxTurns /\ prefTurns' = prefTurns + 1

OtherWindowSaves ==
    /\ Spend
    /\ saved' = [saved EXCEPT !["theme"] = "other window"]
    /\ events' = events + 1
    /\ UNCHANGED <<snapshot, writeEpoch, writesInFlight, reloadDropped, update, reloads,
                   unlocked>>

\* An unlock re-reads (VaultGate); a lock does not.
Unlock ==
    /\ ~unlocked /\ Spend
    /\ unlocked' = TRUE
    /\ reloads' = Append(reloads, [Starting EXCEPT !.before = TRUE])
    /\ UNCHANGED <<snapshot, writeEpoch, writesInFlight, reloadDropped, saved, update,
                   events>>

LockVault ==
    /\ unlocked /\ Spend
    /\ unlocked' = FALSE
    /\ UNCHANGED <<snapshot, writeEpoch, writesInFlight, reloadDropped, saved, update,
                   reloads, events>>

PrefsNext ==
    \/ ReadPrefs \/ FinishReload \/ StorageEvent \/ OtherWindowSaves \/ Unlock \/ LockVault
    \/ \E u \in Update : \/ StartUpdate(u) \/ StoreUpdate(u)
                         \/ FinishUpdate(u) \/ FailUpdate(u)

PrefsSpec == PrefsInit /\ [][PrefsNext]_prefVars

-----------------------------------------------------------------------------
\* When nothing is under way, the open panel shows what is stored, unless its
\* last read failed, which shows the strictest preset: no re-read puts an old
\* value back for good, and none that was dropped is forgotten.
QuietPanelShowsStorage ==
    (unlocked /\ reloads = <<>> /\ events = 0 /\ writesInFlight = 0) =>
        snapshot = saved \/ snapshot = Strict

\* While a change is being saved the panel shows it, or a later one of its
\* field: no read in between flips it back (preferences-store.ts:14).
ChangeInFlightIsShown ==
    \A u \in Update :
        update[u].at \in {"saving", "stored"} /\ Optimistic(update[u].field) =>
            snapshot[update[u].field] \in Update

\* The defaults of a locked vault are not taken for its settings, not even by
\* a read that a lock interrupts.  One that a lock and the next unlock interrupt
\* finds a session on both sides and shows them, until the read of that unlock,
\* which is still to come, puts the settings back.
LockedReadsAreNotTaken ==
    [][snapshot # Defaults /\ snapshot' = Defaults => reloads' # <<>>]_prefVars

\* What the next unlock acts on is shown only when it is stored.
UnlockSettingShownWhenStored ==
    snapshot["unlock"] \in Update => update[snapshot["unlock"]].at \in {"done", "stored"}

(* What the panel shows of the settings (preferences-store.ts): what is     *)
(* stored, once nothing is in flight; the user's own change while it is;    *)
(* and never what a locked vault would give.                                *)
ShownIsStored ==
    /\ [](PrefsTypeOK /\ QuietPanelShowsStorage /\ ChangeInFlightIsShown /\ UnlockSettingShownWhenStored)
    /\ LockedReadsAreNotTaken
=============================================================================
