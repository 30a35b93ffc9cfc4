# PGP Tools: verification project

PGP Tools is a Chrome extension: a side panel that encrypts, signs and decrypts
with keys that live in `chrome.storage`, sealed under a master passkey or
password, and that are used only inside a WebAssembly module. This directory
holds TLA+ models of the parts of it whose correctness depends on the order in
which things happen, TLC configurations that check them on small instances, and
proofs that TLAPS checks. Paths are relative to the repository
(`src/apps/pgp/...`); "panel" is one side-panel page, and there is one per
browser window.

Contents: [the system](#the-system), [modules](#modules), [runs](#runs),
[fairness](#fairness), [disagreements](#disagreements-between-code-and-comments),
[proofs](#proofs), [limits](#what-is-only-model-checked-and-what-is-not-modelled),
[plan](#plan).

## The system

JavaScript is single-threaded, so inside one panel everything between two
`await`s is atomic, and everything across an `await` is not. Panels of two
windows, the service worker and the reader tabs run beside each other and share
`chrome.storage` and Web Locks. Three things can take state away at any moment:
the master lock (button, idle timer, operating system), the closing of a panel,
and a storage write by somebody else.

| Component | State | Operations | What makes it hard | What makes it correct |
|---|---|---|---|---|
| Key session (`hooks/useKeySession.ts`, `gpg-wasm/src/protected.rs`, `key_store.rs`) | map key id -> WASM handle, lock generation, timer; two handle stores and one handle counter in WASM | unlock by password or passkey, batch unlock on opening, cache a generated key, lock one or all, use a handle | KDFs and ceremonies take seconds; locks land inside them; drops are fire-and-forget | no unlock survives a lock; each entry addresses its own live key; every secret stays reachable until it is wiped |
| Integrity ledger (`lib/storage/integrity.ts`) | per store the newest generation seen, the revocation floor, "lost" and "suspect" marks, sealed in `storage.local` | observe, record a write, record revocations, acknowledge, replace | shared by all windows; only opens under a session; updates are best effort | the floor only grows, the mark only rises, an older copy is reported, a healthy device is not warned |
| Contacts store (`lib/storage/contacts.ts`, `encrypted-store.ts`) | one sealed array with a generation inside | load, save, update, remove | two windows, locks in the middle, profile restored from a backup | somebody seen revoked never becomes active again |
| Vault phase and lock screen (`lib/vault-phase.ts`, `VaultGate.tsx`, `MasterUnlockScreen.tsx`) | phase, opening, transition number, protection | resolve, onboard, unlock, settle, lock | the lock screen's closures outlive it; React commits after the reducer has run | nothing open behind the lock screen; only its own unlock settles a vault |
| Master lock and auto-lock (`useMasterLock.ts`, `useAutoLock.ts`, `workspace-draft.ts`) | idle timer, setting, sealed draft | lock, OS lock, timer, setting | reads what is on screen, not what the reducer holds | a lock takes back everything an unlock gave |
| Reader tabs (`useReaderTabs.ts`, `reader-protocol.ts`) | sealed messages, ports, whether showing is allowed | open, connect, show, lock, close | unsealing is asynchronous | a locked tab never shows a message |
| Context-menu selection (`usePendingOperation.ts`, `background.ts`, `pending-op.ts`) | one selection in session storage, one in React state | store, consume, route, sweep | worker restarts, several windows, a lock during a consume | consumed once, by the right window, never behind the lock screen |
| Live lists (`live-list.ts`, `vault-lists.ts`) | what a list shows, its read generation | refresh on mount, unlock, write | an older read ends after a newer one | the newest read wins |
| Storage engine (`storage/engine.ts`, `chunked.ts`) | promise chain per name, cached location, chunks and manifest | page lock, shared lock, read, write, remove | failing tasks, crashes between the writes of one value, items of another device | mutual exclusion; no torn value is read as whole |
| Keyring, CRX keys (`keyring.ts`, `protected-store.ts`, `crx/storage.ts`) | sealed records | put, remove, alias, reseal, touch, normalise | guard, load and save are separate awaits; a reseal is computed outside the lock | a change is made to what is there; a locked load erases nothing; "saved" is saved |
| Vault state and location (`vault-state.ts`, `master-protection.ts`, `OnboardingFlow.tsx`) | location and protection in two areas, a cache per window | resolve, move, adopt, erase, onboard | many writes with no transaction, two windows | a crash leaves one vault, which every window finds |
| Preferences (`preferences.ts`, `preferences-store.ts`) | sealed settings, their ledger entry, a copy per panel | load, save, reload, migrate, acknowledge | faults of storage, older copies, reload racing a save | a fault never relaxes a setting; what is shown is stored |
| History (`history.ts`, `never-cache.ts`) | manifest and segments | append, prune, list, remove, wipe | segment and manifest are two writes, two windows | a listing is complete, a wipe leaves nothing, the budget is kept |
| Workspace (`useWorkspace.ts`, `workspace-state.ts`, `useAutoRun.ts`, `operations/*`) | text, files, staged inputs, prompts, result, draft | edit, run, auto-run, prompt, undo, wipe | a run outlives the render and the input it began with | a result is over the input it was made from |
| Recipients, signer card (`RecipientPicker.tsx`, `encrypt-recipients.ts`, `signature-summary.ts`) | chips, the batch's results | choose, resolve, read one file after the other | contacts change under the chips; one card for many files | sealed to the chosen and no others; green is earned by every file |
| Message box tools (`FindReplaceBar.tsx`, `text-format.ts`) | matches, caret, styled text | search, replace, toggle | the text moves under the bar; offsets are code units | replaces every match and nothing else; letters stay |
| Import (`import/*`, `ImportKeyPage.tsx`, `ImportReview.tsx`, `ImportAllKeysPage.tsx`) | the page's steps, the review's rows | read, preview, review, save, restore, re-check | contacts change between the review and the saves; steps fail | a merge loses nothing known; nobody is taken over; the key shown is the one sealed |
| Identity clashes (`identity/binding.ts`, `utils/lookalike.ts`, `ContactList`) | cached forms of names and addresses, the list's clashes | add, rename, refresh, revoke | many alphabets, forms cached across changes | nobody passes for somebody else without a word of it |
| Pages of the keys tab (`KeysSubPages.tsx`, `GenerateKeyPage.tsx`, `DeletePages.tsx`, `ExportKeysPage.tsx`, `ExportPrivateKeyPage.tsx`, `useVaultServices.ts`) | a stack of pages, the handles a page opened, the offer of Undo, the default key | open, close, unlock, export, delete, undo, generate | a page slides out and its calls go on; clicks between two renders | nothing opened outlives its page; what leaves is sealed and chosen; the default is owned |
| Key lookups (`github/*`, `keyserver/*`, `net/capped-body.ts`, `background.ts`) | one request | ask, fetch, cap, check, answer | any answer, or none; the worker stops | keys are not missing silently; a lookup ends |
| Translation (`ai/*`, `useTranslation.ts`, `useComposeTranslation.ts`) | jobs in one queue, two results | detect, download, translate, undo, cancel | minutes pass inside a run | a translation is of the text it stands for |
| Engine (`gpg-wasm/src`: `decrypt.rs`, `sign.rs`, `crx.rs`, `age.rs`, `protect*.rs`, `sessions.rs`, `limits.rs`) | handle stores, two session keys | open, verify, seal, protect, reseal | sequential over bytes, but two passes that must agree, and handles held across awaits | an answer is true of the whole message; a key stays behind its own seal |
| Views, localisation, network lockdown, scripts | - | - | presentation | not modelled |

Interactions that matter here: `VaultGate.onUnlocked` starts the contacts session,
the lists' reads and the key session's batch, and waits for all of them before it
settles the vault; `useMasterLock.lock` locks the reader tabs, seals and wipes the
workspace, drops the selection and the WASM sessions, moves the phase and locks
the keys, in that order and without an `await`; every sealed store reads and
updates the ledger under a Web Lock that all windows share; every write refreshes
the live lists. `PROJECT.json` lists every component with its status and every
hazard with the line where it bites.

## Modules

| Module | Models | Built on |
|---|---|---|
| `KeyAccess` | what the key session promises: requests, answers, locks; no handles | - |
| `KeySession` | `useKeySession.ts` and the handle stores in WASM | implements `KeyAccess` |
| `KeySessionProofs` | proofs: the inductive invariant of `KeySession`, no handle is lost, stale handles are harmless, the refinement of `KeyAccess` | `KeySession` |
| `Ledger` | the values of the integrity ledger and the updates made to them | - |
| `ContactStore` | the contacts of one device, its panels and the ledger around them | `Ledger` |
| `VaultPanel` | one panel: phase, unlocks, locks, timer, lists, tabs, selection, draft | the batch of `KeySession` reduced to its generation check |
| `PageLock`, `Chunked`, `VaultMove`, `Keyring`, `Settings`, `PrefsStore`, `History` | the storage layer, one module per part | composed in `MCStorage` |
| `Workspace`, `Recipients`, `Verdict`, `FindBar`, `TextStyles` | the workspace | composed in `MCWorkspace` |
| `PendingOp`, `Lookup`, `Translate` | what the panel asks for and waits for | composed with `ContactStore` in `MCPanel` |
| `ImportSsh`, `ImportCert`, `ImportPage`, `BulkImport` | how keys come in | composed with `MCContactStore` in `MCContacts` |
| `Names` | who a contact claims to be, and who else claims the same | composed in `MCContacts` |
| `OpenMessage`, `SecretStores`, `Sessions`, `CrxFile`, `AgeFile` | the engine, over ideal primitives | composed in `MCEngine` |
| `ExportPages`, `KeyPages` | the pages that take keys out of the app, and those that make and delete them | composed in `MCEngine` |
| `VaultPanelProofs`, `ContactStoreProofs` | proofs about `VaultPanel`; about `ContactStore`, `ImportSsh`, `ImportCert`, `BulkImport` and `Names` | - |
| `StorageProofs` | proofs about `PageLock`, `Keyring`, `PrefsStore`, `Chunked`, `Settings`, `VaultMove`, `History` | - |
| `PanelProofs` | proofs about `Verdict`, `Lookup`, `ImportPage`, `Translate`, `PendingOp` | - |
| `WorkspaceProofs` | proofs about `Workspace`, `Recipients`, `FindBar` and `TextStyles` | - |
| `EngineProofs` | proofs about `OpenMessage`, `SecretStores`, `Sessions`, `CrxFile`, `AgeFile`, `ExportPages`, `KeyPages`, and their composition in `MCEngine` | - |
| `MC...` | instances for TLC | |

The last five groups put parts side by side that share no state. A behaviour of such
an instance picks one `part` in its first state and stays with it, so one run explores
all of them without multiplying one by another.

### KeySession

A call of `unlock()` is a *flight*: `opening` until `open()` settles (ceremony,
KDF, AEAD), `resealing` while a passkey unlock re-seals the key under the master,
`opened` with a handle from WASM, `recording` while `updateLastUsed` is awaited.
`CONSTANT Via` says what a call is: a password unlock (one at a time, the
`unlocking` ref), a passkey unlock (a new ceremony aborts the one before it), the
batch of unlock-on-open, or key generation with caching, which holds a handle
(`saving`) while `addKey` is awaited and hears of the session only afterwards.

| Action | Code |
|---|---|
| `UnlockWithPassword`, `UnlockWithPasskey`, `BatchNext` | an `unlock()` begins and takes the generation |
| `Open`, `OpenFails`, `Resealed` | `open()` settles; `HandleStore::insert`, the counter's `checked_add` |
| `Cancel`, `Store` | the continuation: generation changed / same (lines 169-186) |
| `Recorded`, `RecordFails` | `updateLastUsed` settles, the timer is re-armed or `unlock()` rejects |
| `BeginBatch`, `Loaded`, `BatchEnds` | the loop of `unlockMany` |
| `Generate`, `CacheKeyHandle`, `AddKeyFails` | `runProtect`, `GenerateKeyPage.handleGenerate` |
| `Lock`, `LockAll`, `TimerFires`, `SetAutoLock` | the locks; each bumps the generation |
| `DropKey` | a queued `dropHandle` runs in WASM, in any order |
| `GetHandle`, `UseHandle` | an operation takes a handle and uses it some awaits later |

The stores are per engine (`KindOf`), the counter is shared, handle numbers run up
to `MaxHandle` as the `u32` does: at the end of the range `Insert` is refused.
`since`, `openedAt`, `lockedAt` and `abandoned` are history variables: they are
written and never read by an action. The refinement mapping makes a call's request
to `KeyAccess` what its flight or its batch may still store (`Asked`).

### Ledger and ContactStore

`Ledger` has one operator per method of the ledger. `ContactStore` runs tasks, each
one `loadContacts()` or one mutation (`saveContact`, `updateContact`,
`removeContact`), through the awaits of the real call chain:

`Start` (guards before the first await) - `Get` (blob read and opened) -
`NoteAbsent` or the ledger's `observe` - `PeekFloor` (revocation floor, unlocked
read) - the ledger's `record` - for a mutation the change, the floor again, then
`Claim` (generation from the unlocked mark and the clock), `Set` (seal and write),
the ledger's `mark` - `Finish`. An update of the ledger is `EnterLedger` (Web Lock
granted, ledger read and opened) and `LeaveLedger` (changed, sealed, written,
released), or `SkipLedger` when no session exists at the start. Mutations of one
window exclude each other (`withLock`); updates of the ledger exclude each other on
the device (`withSharedLock`). The environment moves the clock both ways
(`ClockMoves`), locks, unlocks and closes windows, brings back an older copy of the
store (`OlderCopy`), and deletes or spoils the ledger (`LedgerGone`). A contact is
its revocation status, a sealed array its contents with its generation.

### VaultPanel

The reducer's state (`vault`) changes when an action is dispatched; what effects and
event handlers see (`shown`) changes in `Commit`, which runs the effects that depend
on the vault being open. A storage read, a ceremony and a KDF are step boundaries.
An `await` on the WASM module alone, which is loaded by then, is not one; where the
code itself defends against a change across it (a reader tab's unsealing) it is.

| Action | Code |
|---|---|
| `Resolve`, `Onboarded` | `VaultGate`'s first load and onboarding's completion |
| `Press`, `CeremonyEnds` | `MasterUnlockScreen`: a ceremony or password; its end makes the contacts session |
| `Unlock` | `onUnlocked` after the migration: dispatch, timer, lists' reads, batch's generation |
| `KeyOpens`, `BatchEnds`, `Settle` | the batch of keys, then the `settled` dispatch |
| `MasterLock` in `LockButton`, `TimerFires`, `OsLock` | `useMasterLock.lock`, `useAutoLock` |
| `Commit` | effects: arming, tabs' permission, consume, workspace mount |
| `EndRead`, `QueueWrite`, `Write`, `NotifyStoreChanged` | `live-list.ts` and the writes that refresh it |
| `OpenReader`, `Connect`, `Show`, `CloseTab` | `useReaderTabs.ts` |
| `OpArrives`, `GetOp`, `TakeOp`, `RouteOp` | `usePendingOperation.ts`, `App.tsx` |
| `Type` | the workspace has text |

The lock screen allows one password at a time, but its passkey button is never disabled
(`MasterUnlockScreen.tsx:170-179`): `Press` aborts a rival's ceremony and leaves an attempt
that is past it alone, so two of them can run beside each other and across a lock.
History: `crossed` in an attempt (an OS lock came while it was entering), and `astray`, what
two such attempts have done to the vault that is open: `opened`, the attempt that opened it
was begun at a lock screen that was gone by then; `joined`, a second attempt ended in the
same opening; `reset`, one that ended in a vault in use set the idle timer by the setting it
had begun with. Each property names the one of the three it has to except.

### The storage layer

**`PageLock`** - `withLock` for one name. `Enter` takes the tail of the chain as the
promise to await and leaves its own, `Run` is the await answered, `Leave` the
`finally`: the promise resolves, whether the task returned or threw, and the map's
entry goes if nobody queued behind. `turns` is an observer of the order of arrival.

**`Chunked`** - a value of `chrome.storage.sync` over several items. `Begin`,
`ReadHead`, `ChunkStep` and `RemoveHead` are the calls of `getChunked`, `setChunked`
and `removeChunked` between their awaits (a value has no pieces and is stored as it is, or
up to three, a one-piece manifest included); `Close` ends a window in any of them;
`RemoteWrite` and `Arrive` are another device's value, item by item. `disturbed`
remembers what the code cannot exclude (two windows writing one key, a remote write
half arrived, two values stored while one read is under way); the properties about whole
values except exactly those.

**`VaultMove`** - two areas, two windows.

| Action | Code |
|---|---|
| `Look`, `LookHere`, `LookThere`, `Adopt` | `resolveVaultState`: two reads that are not atomic, and the user's adoption of the other area |
| `Mint`, `SaveCheck`, `SaveWrite`, `RecordBoot`, `RecordPin` | onboarding: `saveMasterProtectionIfAbsent` under the shared lock, then the bootstrap, then the pin |
| `StartMove`, `Copy`, `Commit`, `CommitPin`, `Purge`, `Undo` | `moveVault`, key by key; a copy, the bootstrap and the device record may be refused |
| `StartErase`, `Erase` | `eraseVault` |
| `StartWrite`, `FinishWrite`, `LocationEvent` | a store's write by the window's cached location; the event that renews it |
| `CloseWindow` | the panel closes in any of these |

`strayed` names what happened that the code does not defend against (a write beside a
move, an event still to come, an adoption, a failed purge).

**`Keyring`** - both protected stores. A mutation is `CallRing` (page lock), `Guard`,
`LoadCheck`, `Load`, `Modify`, `Save`; `Flip` opens or drops a page's session between
any two. Which operations check the session, and which of them skip quietly, is
`Guarded` and `SkipsQuietly`. Another window's mutation that runs in between sets
`overtaken`.

**`Settings`** - what is stored: `Ask` begins an operation, `Migrate` and `Settle` are
`migrateLegacyIfNeeded`, `Read` and `SaveChange` `readSettings` and `savePreferences`,
`Fault` is every way the blob, an older copy of it or the ledger can be spoiled,
`UnlockAs("wrong")` a session of another passkey, `Dismiss` the integrity banner.
**`PrefsStore`** - what a panel shows of it: `StartUpdate`, `StoreUpdate`,
`FinishUpdate`, `FailUpdate` for both kinds of update, `StorageEvent`, `ReadPrefs`,
`FinishReload` with the write epoch and the dropped reload.

**`History`** - `Record`, `BeginAppend`, `AppendEntry`, `PruneAppend`, `RecordSegment`
and `UndoAppend` are one `recordHistory`; `BeginLoad`, `AdoptAndRead`, `EndLoad` a
listing, which adopts segments a crash left behind; `EnterNeverCache`, `ListKeys`,
`Sweep` a wipe. Sorting is by rank: each reference stands behind as many as are smaller.

### The workspace

**`Workspace`** - the reducer of `workspace-state.ts` is `ws`; its other actions are the
handlers of `useWorkspace.ts`. A run (`runs[r]`) keeps the render it was started from
and goes through `scanning` (messages are scanned before a key is chosen), `ceremony`,
`unlocking` and `engine` by `RunNext`. `staged` is compared only with its value when a
run began, so `Dispatch` keeps the comparison as the run's flag `fresh`.
`Open`, `ZipScanned`, `MessageScanned`, `Encryptable` are the auto-run and the hand-over
from other pages; `Clear`, `Undo`, `Lock`, `Restore` what is kept aside.

**`Recipients`** - `Pick`, `Backspace`, `PickByDigit`, `EncryptToOne` and `ArmPassword`
are the gestures; `AddPerson`, `ChangePerson`, `ChangeOwn` the changes of contacts and
keys elsewhere; `Encrypt` resolves the chips (`ResolveOne`) and hands the keys on or
refuses. **`Verdict`** - `StartRun`, `ReadOne`, `EndRun` are an operation over several
messages; the card is computed as `summariseBatch` and `signer-card.ts` do.

**`FindBar`** - `TypeLetter`, `MoveCaret` move the text and the caret, `Step`,
`ReplaceCurrent`, `ReplaceEvery` act on the matches as rendered, `TimedStep` is the
`setTimeout` that steps on with the matches of an earlier render. **`TextStyles`** -
`ToggleStyle` decodes a selection of code units that may begin inside a character,
restyles it and encodes it again.

### What the panel waits for

**`PendingOp`** - `Click` is the worker's write, `PanelNext` the steps of `consume()`
(at mount, at a change, and one that a lock aborted), `Expire` the minute's age limit,
`SweepRead`, `SweepAgain`, `SweepRemove` the worker's sweep, `WorkerStops` its end.
**`Lookup`** - `Ask`, `StartFetch`, `Redirected`, `Headers`, `Body`, `Deadline`,
`FetchFails`, `WorkerDies`, `Answered`. **`Translate`** - `TranslateResult` and
`TranslateBox` start a run, `RunStep` takes it through detection, pack, queue, session
and model; `Edit`, `NewResult`, `SwitchMode`, `LockWhile`, `Evict` happen meanwhile.

### How keys come in

**`ImportSsh`** - `Paste`, `Lookup` read lines or an account's keys, `ConfirmSource` and
`Decide` are the preview and the review, `SaveRow` and `RemoveReplaced` `applyReview`
row by row, `Edit` and `Elsewhere` the contacts changing in between. **`ImportCert`** -
the same for certificates, with merging into the stored copy, `KeyserverAnswer`, and
the revocation check (`CheckStart`, `CheckMerge`) of another page. **`ImportPage`** -
`PasteText`, `PickFile`, `FileRead`, `Prepared`, `Probed`, `Submit`, `Written` and the
page sliding out (`DismissPage`, `Gone`, `Reopen`): the guards are refs that outlive a
render. **`BulkImport`** - a restore of all keys: reading, choosing, sealing one by one,
writing; a step that fails ends the attempt, which may be repeated.

**`Names`** - characters stand for the kinds the code tells apart (invisible, wide,
confusable within a script or across, of no known script); a skeleton is computed as
`lookalike.ts` does, letter by letter. `Rename`, `Refresh` and `Revoke` change the
contacts, and `ListContacts` works out the clashes, with forms that may be cached.

### The engine

Primitives are ideal here: a seal opens under its own key and domain only, a hash of a
key is that key, and the OpenPGP parser is external. The model leaves the parser every
reading that the code around it guards against.

| Module | Actions and code |
|---|---|
| `OpenMessage` | `WalkHeader`, `EndOfHeader`: `walk_message_header`, packet by packet; `DecryptWithHandle`, `DecryptWithPassword`, `OpenUnencrypted`, `MessageEncryption`, `SelectDecryptionKey`: the requests; `CheckFraming`: `check_signed_framing`; `Parse`, `Read`, `WithOutputCap`: the parser's reading, the ceiling on its output, and the retry of `wasm-public.ts` |
| `SecretStores` | one action per exported function of `key_store.rs`, `age.rs` and `crx.rs` that touches a secret, called by the flows of `protect-flow.ts`, `vault-unlock.ts`, `age/protect-flow.ts` and `crx/operations.ts`; two flows interleave between calls, and `LockKey` drops what a flow holds |
| `Sessions` | the contacts session, the canary, store subkeys, the draft session; `Misplaced` puts a blob in another slot, `LegacyStore` and `LegacyCanary` are what older builds left |
| `CrxFile` | `AssembleCrx`, `VerifyCrx`; `Altered` and `AssembledElsewhere` make the files that are checked |
| `AgeFile` | `EncryptAgeToRecipients`, `SelectAgeDecryptionKey`, `AgeDecrypt`; four-byte tags may fall together |
| `ExportPages` | `BeginUnlock`, `CrxUnlocked`, `UnlockFails`: the rows' unlocks; `TypePhrase`, `TypeWord`, `ExportEncrypted`, `ExportPlaintext`: the export; `Draw` is React's commit, `Unmount` the end of the slide-out; what a click reads is what was `drawn` |
| `KeyPages` | `OpenDetails` ... `RemovePage`: the stack (`useNavStack.ts`); `Confirm`, `DeleteOne`, `DeleteFails`, `Deleted`, `Undo`: a deletion, id by id; `HandleNext` ... `Added`: a key is made; `SetDefault` |

## Runs

Every passing run explores its whole state space (distinct states in the table).

| Run | Instance | Properties | Shows | States |
|---|---|---|---|---|
| `KeySessionUser` | a PGP and an SSH key, two passkey unlocks, one generation, 3 handle values, 1 lock | `TypeOK`, `SessionInv`, `NoUnlockSurvivesALock`, `MapIsLive`, `NoLostHandle`, `LockedKeysAreWiped` | ceremonies, caching, the lock, the timer and queued drops over two engines | 93,715 |
| `KeySessionBatch` | two PGP keys, unlock-on-open, one password unlock, 2 locks | `StaleHandleIsHarmless`, `ImplementsKeyAccess` | a lock inside a batch ends it; a handle held across a lock never reaches another key | 659,658 |
| `ContactStoreWindows` | two windows with a call each, 2 mutations, one older copy; swapping the windows is a symmetry | `TypeOK`, `FloorHolds`, `OlderCopyIsReported`, `NothingIsForgotten` | no lost update of the ledger, revocations stay, rollbacks are reported (`WindowsNext` leaves out locks, closings and a lost ledger: `Contacts` and `Panel` have them) | 1,841,774 |
| `Contacts` | one window, 3 mutations, a closing, an older copy, a lost ledger; 3 SSH keys, one of them the user's, one account; 2 certificates with 3 addresses, one in a copy; an import page over 2 private texts and a public one; a backup of 2 keys, a CRX key and 2 contacts; 2 contacts and a key of the user under 18 names and 5 addresses | `WarningsAreTrue`, `ShownKeyIsImported`, `SshContactsAreTheUsers`, `ContactsAreWhoTheyWere` | crashes, clocks and locks do not make a healthy device warn; every way in adds and takes nothing over; who passes for another is told | 1,262,560 |
| `VaultUnlocks` | two passkey attempts that can run at once, one lock, one selection | `TypeOK`, `OpeningEnds` | every opening ends, whichever attempts are in it | 688,736 |
| `VaultPanelLocks` | two passkey attempts that can run at once, one lock, one write, one tab; swapping the attempts is a symmetry | `ScreenIsTrue`, `SettledByItsOwnUnlock`, `LockedTabsAreBlank`, `SettledListsAreRead`, `OpenVaultHasTimer` | a lock at every await of two unlocks, and everything it has to take back, in flight | 2,107,648 |
| `Storage` | 3 calls on a lock; values of no piece to 3, 2 windows, 3 calls; a vault of one store, 2 windows, 2 operations; 2 mutations of 2 pages on 2 keys; 2 saves and 2 faults; 2 updates; 2 windows, 3 entries | `CallsTakeTurns`, `ChunksAreWhole`, `TheVaultIsKept`, `KeysAreKept`, `SettingsHold`, `ShownIsStored`, `HistoryIsWhole` | the storage layer, part by part, with crashes between any two writes | 574,737 |
| `Workspace` | 2 runs, 2 input changes; 4 keys of 2 engines, 2 changes; 2 signers, 2 files; texts of 5 letters, 2 edits; styled texts of 4 units, 3 toggles | `ResultsAreTrue`, `SealedAsChosen`, `GreenIsEarned`, `EditorIsExact` | what the workspace shows, seals and declares is of the input and the choice it is for | 958,340 |
| `Panel` | 2 windows, 2 selections; 4 lines of keys, 2 lookups; 2 translations, 3 moves; 2 windows of `ContactStore` with a mutation and a lock | `SelectionsArrive`, `TranslationsAreTrue`, `LookupsAreHonest`, `EveryWaitEnds` | what is handed over is right, and every wait ends | 259,934 |
| `Engine` | every shape of message up to the bounds of `MCRequests`; 4 keys of 3 kinds, 2 flows, a handle counter of 3; 2 masters and 2 slots; 2 signers, 2 alterations; lists of 2 lines; a PGP and 2 CRX keys to export, 2 unlocks; 3 vaults of at most 2 records, 2 pages, one key made | `AnswersAreTrue`, `SecretsAreKept` | what the engine answers is true of the whole message; secrets stay behind their seals, and the pages that hold them keep to it | 969,312 |
| `ContactStoreLockFloor`, `VaultOsLock` | small | one each | the first two disagreements below | |

A property of the composed runs is the conjunction of its module's named promises:
`TheVaultIsKept` is `OneVault`, `VaultIsSeen`, `StoresAreBracketed`, `NothingIsStranded`
and `ProtectionSurvives`, and so on; each conjunct has its own comment in the module.

Why the bounds are enough for what each run asks:

- *Keys, handles.* Two keys, one per engine, are what it takes to confuse two keys or
  two stores; the counter reaches its end (`MaxHandle = 3`: two handles), so the
  refused insertion is explored as well as reuse would be, were there any.
- *Calls.* A passkey ceremony needs a second one to be aborted by; a batch needs
  another unlock of the same key to be overwritten by; a chain of promises needs a
  third caller that arrives while the first leaves and the second runs.
- *Locks.* Every property relates a call to the locks since it began. One lock splits
  a call's life in every possible place; a second one lets a call begin between two.
- *Ledger.* Two mutations and one older copy give three distinct generations: the one
  in storage, one below, one above. The clock takes two values, so a claim is made
  from the clock and from the mark. `MaxGen` is the largest generation these can make
  (`MaxTime + MaxSaves`), and `TypeOK` checks that it is.
- *Windows.* Two: the third would contend for the same lock and read the same store.
- *Vault.* The second unlock is what a late ending of the first can be mistaken for, and
  what can stand beside it. One lock falls in every place of both, between any two of
  their awaits: an attempt is then behind it, across it or after it. The theorems have
  neither bound.
- *Chunks.* A value that shrinks by one and by two items, two values of as many items
  that differ, one whose last item is full, one stored as it is and one of a single
  piece: every case of the leftovers. A value has at most 3 pieces (`MaxChunks`).
- *Preferences.* One lock, unlock or save of another window (`MaxTurns = 1`) beside two
  updates: it can fall between any two of their steps. The theorem covers any number.
- *Export.* Two CRX handles: one to be leaked while the other is tracked.
- *Keys tab.* Two pages are a details page with a deletion on it; the third would be
  opened from a list that no page covers.
- *Location.* One store besides the master protection: copies before the commit and
  purges after it are then two keys long, and a move can stop between them.
- *Runs of the workspace.* Two: the second is what the first can be mistaken for.
- *Messages.* Every list of containers and contents up to the length at which the code's
  cases differ (an encrypted container around, beside or behind a literal), and sizes on
  both sides of every limit, which are scaled down together.

Bounds: `MaxHandle`, `MaxLocks` (KeySession); `MaxTime`, `MaxSaves`, `MaxLocks`,
`MaxCloses`, `MaxCopies`, `MaxGone` (ContactStore); `MaxUnlocks`, `MaxLocks`,
`MaxOps` (VaultPanel); `MaxCalls` (Chunked), `MaxMoveOps` (VaultMove), `MaxFlips`
(Keyring), `MaxSaves`, `MaxFaults` (Settings), `MaxTurns` (PrefsStore), `MaxEntries`,
`MaxUpsets` (History), `MaxInputs` (Workspace), `MaxChanges` (Recipients), `MaxFiles`
(ImportPage), `MaxMessages` (Verdict), `MaxLetters`, `MaxBoxEdits` (FindBar), `MaxToggles` (TextStyles),
`MaxClicks` (PendingOp), `MaxLookups` (Lookup), `MaxRuns`, `MaxMoves` (Translate),
`MaxImports`, `MaxEdits` (ImportSsh), `MaxReads`, `MaxTouches` (ImportCert), `MaxTexts`
(ImportPage), `MaxAttempts`, `MaxOthers` (BulkImport), `MAX_HANDLE`, `MaxEntries`
(SecretStores), `MaxDraftKeys` (Sessions), `MaxSigned`, `MaxEdits` (CrxFile), `MaxLines`
(AgeFile), `MaxOpens` (ExportPages), `MaxPages`, `MaxClock` and the one key that is made
(KeyPages), `MaxRenames` and the names of `Casts` (Names). All are guards of the actions they bound. The reads of a live list are
numbered without a bound, but only finitely many steps start one.

`CHECK_DEADLOCK FALSE` stands in the runs of a panel, a page or an engine that really
stops once the bounds are used up and nobody does anything.

## Fairness

Fair are the steps that the platform takes by itself; users, authenticators, the
operating system and other devices are never made to act.

- `KeySession`: the continuation of an opened flight (a settled promise) and each
  queued drop run. A ceremony, a KDF or a storage write may hang: nothing follows
  from them in `LockedKeysAreWiped`, which excepts secrets that a waiting call holds.
- `ContactStore`: storage answers and continuations run (weak). The grant of the
  ledger's lock is strongly fair: Web Locks are granted in order of request, so a
  request is granted if the lock keeps being released. Lock screens and closings are
  not fair.
- `VaultPanel`: React commits, storage answers the reads, the migration after a
  ceremony ends, the batch comes to its end, and posts to tabs run. Ceremonies are
  not made to end.
- `PageLock`: a resolved promise's continuation runs, and a task ends.
- `PendingOp`: the panel's reads answer and its 400 ms timer fires. The worker's sweep
  and the user's click are not fair.
- `Lookup`: the worker takes the message, its deadline's timer fires, and its answer
  arrives. The network is not fair: an answer may trickle for ever.
- `Translate`: models answer or fail, and resolved promises run on; a user who declines
  a download is a failure.

`Panel` guards each of these with the part it belongs to.

## Disagreements between code and comments

With a run whose property quotes the repository; TLC prints the trace:

1. **`ContactStoreLockFloor`** - "Append-only" (`integrity.ts:63`). A master lock
   after `updateLedger`'s session check and before the ledger is opened, and an unlock
   before it is sealed, make a healthy ledger look unreadable: an empty one replaces
   it, without the revocations.
2. **`VaultOsLock`** - "OS lock screen: always lock" (`useAutoLock.ts:91`).
   `lockEverything` judges by the committed phase. An OS lock while an unlock is past
   its ceremony finds a locked vault, does nothing, and the vault opens after it.

Stated in a module and violated when the property is added to one of the runs, which
therefore do not list it:

3. `KeySession.NoOpenedHandleSurvivesALock` - "no unlock survives a lock"
   (`useKeySession.ts:122`). A key generated with caching on is opened in WASM before
   `addKey` is awaited (`GenerateKeyPage.tsx:181`), and `cacheKeyHandle` takes the
   generation only when it is called. A lock in that window is followed by the key
   appearing unlocked.
4. `KeySession.EveryLiveHandleIsReferenced` - "the map is the only reference to a live
   handle" (`useKeySession.ts:128`). When that `addKey` rejects, the handle is
   forgotten: no lock can drop it, and the secret stays in WASM until the page closes.
   `NoLostHandle` shows that this is the only way to lose one.
5. `VaultPanel.NoSelectionBehindTheLock` - the selection "waits in session storage"
   until the vault is ready (`usePendingOperation.ts:15`). A removal from storage that
   answers between the lock's dispatch and React's commit calls `setPending` behind the
   lock screen.
6. `PendingOp.FreshOpsAreLeftAlone` - "Fresh ops are left alone" (`pending-op.ts:59`).
   The sweep reads twice and then removes by name: a click between the second read and
   the removal is removed with it.
7. `Workspace.NeverOverOtherInput` - "a verdict must never sit over input it did not
   read" (`workspace-state.ts:112-114`). A run that a key prompt resumed carries today's
   `staged`, and some events (`encrypt-to` at `:346`, `restored`, `undo-restored`) change
   mode or text and leave the result standing. `ResultsAreOverTheirInput` leaves out
   exactly these.
8. `FindBar.CurrentIsAMatch` - "the current match is shown by selecting it"
   (`FindReplaceBar.tsx:53-54`). The timer at `:123` steps on with the matches of an
   earlier render, so "current" can be beyond the matches there are, or -1 with some.
9. `ImportCert.ReplacementsAreSaid` - "A new fingerprint for this source replaces that
   contact's key; say so" (`lib/import/keyserver.ts:57`). A row whose key is stored
   already, under another source, is an "update" and names no replacement. Imported all
   the same, it gives that contact the new source, and the contact that held the source
   before is removed without the row having said so.
10. `History.NeverCacheWipes` - "never-cache on, history capture off AND stored history
    wiped" (`never-cache.ts:5-6`). `recordHistory` reads the preferences before it waits
    for the lock, so an entry is written after the wipe (`history.ts:436`).
11. `VaultMove.EraseSparesVaults` - "offered only for an orphaned vault"
    (`vault-state.ts:124`). The offer is made from what a window saw earlier; another
    window can have created or adopted the vault when it is taken.
12. `VaultPanel.EveryVaultHasItsSession` - the lists of a vault without its session would
    "falsely say "your keys are gone"" (`VaultGate.tsx:176`). A second passkey ceremony ends
    while the first attempt migrates; the first opens the vault, a lock lands, and the second
    opens it again: its own session went with the lock. No read fails without a session, so
    the lists come out empty and the screen for read errors is not shown.
13. `VaultPanel.OpeningCoversEveryUnlock` - "Stores or master-sealed keys still opening"
    (`vault-phase.ts:26`). An attempt that ends in a vault another one has opened takes that
    opening's generation (`vault-phase.ts:85-91`), so the first of the two to be done settles
    it while the other's keys are still being opened.

Met while modelling, without a property:

- `conflicts.ts:36`: "only new keys join the holders". Two updates read from one text that
  add the same address to two contacts are marked neither, and both contacts show it
  afterwards, unasked; `AddressesWereAsked` names the case (`twins`). It takes three
  addresses to see it.
- `encrypted-store.ts:78`: two windows of one device that save at once may write in
  the opposite order to the generations they claimed; the next load then reports a
  rollback, although `integrity.ts:12` says concurrent writers do not warn. The
  two-window run keeps the behaviour, so `WarningsAreTrue` is asked of one window at a
  time.
- `preferences.ts:491`: settings that do not open are replaced only by a session that opens
  the ledger, which a session of another passkey does once it has saved where the settings
  had been deleted; when a copy of the vault's own settings then comes back, that session
  replaces it (`TookTheLedger` in `Settings`; it takes four saves and two faults).
- `useKeySession.ts:186`: when `updateLastUsed` fails, `unlock()` rejects with the key
  unlocked and no timer armed until the next activity (`RecordFails`).
- `VaultGate.tsx:94`: an attempt that ends in a vault in use resets the idle timer with
  the setting its lock screen had, and a changed setting is not looked at again until the
  next activity (`astray.reset`).
- `preferences.ts:266`: when the device record of a move is refused, the move is undone but
  the synced bootstrap keeps the new area (`CommitPin`); a device without a record of its
  own looks there first.
- `VaultGate.tsx:166`: adopting another location from the lock screen reloads the
  phase; an unlock that completes during that load is sent back to the lock screen
  with its session active. `VaultPanel` and `VaultMove` are not composed.
- `workspace-state.ts:451`: `wiped` does not advance `staged`; the unmounting of the
  workspace is what keeps a late result from being written back.
- `useWorkspace.ts:468-483`: a run that a key prompt resumes goes on with the closure
  of the render it began in, but with a fresh `staged`; recipients and the password do
  not bump `staged` at all.
- `operations/encrypt.ts:160-167` records the box's text as it is at the end of the
  run, `operations/decrypt.ts:289` the text it began with.
- `recipient-engine.ts:21` says that a selection is never mixed; an orphaned chip whose
  contact comes back with keys of the other engine mixes it. The run then refuses.
- `translate.ts:7-11` says that translating never downloads; a language pack evicted
  between the availability check and `create` is downloaded (`fetched`).
- `useTranslation.ts:56`: the detector's session holds the plaintext until it answers,
  also after a lock; `TranslationPage.tsx:64` shows the readiness of one direction.
- `wasm-secrets.ts:8-10` says that the unlock functions take a borrowed slice that is
  not zeroised; the Rust functions take owned values and zeroise them.
- `ExportKeysPage.tsx:72-73` says that "a second CRX unlock would open two WASM handles and
  leak the first", `ExportPrivateKeyPage.tsx:82` that the in-flight guard prevents it. Enter
  pressed again after a password unlock has ended and before the page is drawn anew passes
  the guard and does just that. Nor is a handle closed that comes after a dismissal, when
  the slide-out unmounts the page before it is drawn (`:116`, "so no signing key outlives
  'Lock'"). A key unlocked after the last drawing goes out with a contacts-only export
  under an empty passphrase. `ExportPages` calls these moments `hasty`.
- `useVaultServices.ts:70` says that the default never points at a deleted key. When the
  page of a deletion is closed before the deletion ends, a stale details page stays, from
  which the deleted key can be made the default (`rushed` in `KeyPages`). A deletion of
  contacts that fails half way offers no Undo (`failed`), and a second one replaces the
  offer of the first.
- `GenerateKeyPage.tsx`: for a signing key, Back from the protection step leads to an empty
  expiry step; a custom date that has passed when the key is made gives a key that never
  expires; the calendar offers a tomorrow that is refused.
- `lookalike.ts`: a letter of no known script is tried as any letter only in words whose
  main script is Latin; two names that both have such letters are not compared; a lookalike
  in an address of another script is not marked. `PassingIsTold` says which are.
- Four-byte tags: an age file can preselect a key that does not open it (`AgeFile`).
- `sessions.rs`: a blob or canary of an older build opens in any slot (`Sessions`).

## Proofs

Every theorem holds for all values of the constants that satisfy the assumptions named in
the module; TLC evaluates each assumption in a run. Bounds such as `MaxLocks` are numbers
there, with no value given: a theorem covers any of them.

| Module | Theorem | Statement |
|---|---|---|
| `KeySessionProofs` | `SessionInvariant` | `Spec => []SessionInv` |
| | `TypeCorrect`, `LocksWin`, `MapStaysLive` | `Spec => []TypeOK`, `[]NoUnlockSurvivesALock`, `[]MapIsLive` |
| | `NothingLost`, `StaleHandlesAreHarmless` | `Spec => []NoLostHandle`, `[]StaleHandleIsHarmless` |
| | `SessionImplementsKeyAccess` | `Spec => Access!Spec` |
| `ContactStoreProofs` | `StoreTypes` | `Spec => []TypeOK` |
| | `LedgerLockHolds` | `Spec => [](TypeInv /\ LockInv)` |
| | `OnlyReplacementsForget` | `Spec => [][no call replaces a lost ledger => Remembers]_vars` |
| | `NothingIsForgottenUnlocked` | no locks: `Spec => NothingIsForgotten` |
| | `RevokedStayRevoked` | `Spec => [](Untouched => FloorHolds)` |
| | `FloorHoldsUnlocked` | no locks, no lost ledger: `Spec => []FloorHolds` |
| | `RollbacksAreReported` | `Spec => [](Traceable => OlderCopyIsReported)` |
| | `OlderCopyIsReportedUnlocked` | no locks, a loss can be told: `Spec => []OlderCopyIsReported` |
| | `QuietDevicesDoNotWarn` | `Spec /\ []Alone => [](Unlocked => NoWarningWithoutCause)` |
| | `WarningsStayTrue` | no locks, a loss can be told: `Spec /\ []Alone => []WarningsAreTrue` |
| | `SshContactsStayTheUsers` | `sshSpec => SshContactsAreTheUsers` |
| | `CertificatesOnlyGrow` | `certSpec => CertsOnlyGrow` |
| | `RestoresStayWithTheTaken` | `bulkSpec => RestoresOnlyWhatWasTaken` |
| | `ClashesAreMutual` | `namesSpec => [](nameTypeOK /\ BothAreMarked /\ ListIsFresh)` |
| `VaultPanelProofs` | `PanelTypes`, `LockedTabsStayBlank` | `Spec => []TypeOK`, `[]LockedTabsAreBlank` |
| | `ScreenStaysTrue`, `UnlocksSettleTheirOwn`, `ListsAreReadAgain`, `TimerIsArmed` | `Spec => []ScreenIsTrue`, `[]SettledByItsOwnUnlock`, `[]SettledListsAreRead`, `[]OpenVaultHasTimer` |
| | `PasswordsOpenOneVault` | behind a password: `Spec => [](EveryVaultHasItsSession /\ OpeningCoversEveryUnlock)` |
| `StorageProofs` | `TurnsAreTaken` | `LockSpec => []TurnsAreKept` |
| | `RingIsKept` | `RingSpec => KeysAreKept` |
| | `ShownSettingsAreStored` | `PrefsSpec => ShownIsStored` |
| | `ChunksStayWhole` | `ChunkSpec => []ChunksAreWhole` |
| | `SettingsStayStrict` | `SettingsSpec => SettingsHold` |
| | `VaultStaysKept` | `MoveSpec => TheVaultIsKept` |
| | `HistoryStaysWhole` | `HistSpec => HistoryIsWhole` |
| `PanelProofs` | `GreenSpeaksForAll` | `verdictSpec => []GreenIsEarned` |
| | `LookupsAreComplete` | `lookupSpec => []LookupsAreHonest` |
| | `ImportsAreOfTheShown` | `impSpec => []ShownKeyIsImported` |
| | `TranslationsStayTrue` | `translateSpec => TranslationsAreTrue` |
| | `SelectionsStayOwn` | `pendSpec => SelectionsArrive` |
| `WorkspaceProofs` | `ResultsStayTrue` | `wsSpec => ResultsAreTrue` |
| | `SealsAsChosen` | `recipSpec => SealedAsChosen` |
| | `FindStaysExact` | `findSpec => FindIsExact` |
| | `StylesStayExact` | `styleSpec => StylesAreExact` |
| | `EditorStaysExact` | `WorkspaceSpec => EditorIsExact` |
| `EngineProofs` | `ExportsStayKept` | `ExportSpec => []ExportsAreKept` |
| | `SlotsStayApartAlways` | `SessionsSpec => []SlotsStayApart` |
| | `SecretsStayTheirsAlways` | `SecretSpec => []SecretsStayTheirs` |
| | `KeyPagesStayTrue` | `KeysSpec => []KeyPagesAreTrue` |
| | `MessagesAreOpenedHonestly` | `OpenSpec => []OpenedHonestly` |
| | `PackagesAreSigned` | `CrxSpec => []CrxIsSigned` |
| | `AgeStaysHonest` | `AgeSpec => []AgeIsHonest` |
| | `SecretsStayKept`, `AnswersStayTrue` | `EngineSpec => []SecretsAreKept`, `[]AnswersAreTrue` |

`TurnsAreKept` is the part of `CallsTakeTurns` without liveness.

### KeySession

Assumptions: `KindsAssumption` (each key has one engine, each call one route),
`BoundsAssumption` (the handle counter has at least one value, locks are counted by a
natural number) and `NoKeyAssumption` (the empty slot is not a key id).

Neither property is inductive by itself. `NoUnlockSurvivesALock` compares a key's
`since` with its `lockedAt`, and a step of `Store` keeps it only if no lock is dated
later than the present (`LocksAreInThePast`) and the flight has a key (`FlightShape`).
`MapIsLive` says that an entry's handle holds its key and that no queued drop names it.
To keep it, `Store` must put in a handle that holds the flight's key and is not being
dropped (`CallsOwn`); a drop released by `Cancel`, or by the replacement in `Store`, must
not name a handle of another entry (`OneOwner`, with `MapOwns` for a replaced entry); and a
new handle must not be in the map, held by a call or queued to be dropped
(`HandlesAreFresh`). `SessionInv` is the conjunction. `QuietStep` covers every step that
leaves the map, WASM and the drops alone, `FlightChange` the bookkeeping of one flight;
opening, cancelling, storing, the locks and the drops are treated by themselves.

`NothingLost` carries `SessionInv` and `NoLostHandle` together: a step loses nothing if each
entry and each call that gives a handle up leaves it to the map, to the queued drops or to
the abandoned ones (`StaysReferenced`). `StaleHandlesAreHarmless` needs `UseIsOld`: the
handle an operation carries was given out before, and numbers are not reused.
`SessionImplementsKeyAccess` maps each step: an `unlock()` or a batch that begins is an
`Ask`, `Store` an `Answer`, a lock a `LockKeys`, everything else a `Narrow` or a stutter. It
rests on `CallShape`: the loop's flight is no longer in its `todo`, so that a key is answered
once, and nothing began later than the present generation, so that a lock withdraws every
request.

### ContactStore

Six inductive invariants, each on top of the ones before it. `TypeInv` bounds every
generation by the clock's maximum and the mutations that have claimed one. `LockInv`: one
holder of the ledger's lock at a time, and what it read is what is there, unless the ledger
was taken away under it. `FloorInv`: whoever a call had seen revoked is revoked in what it
will return or save. `SeenInv` and `MarkInv`: the mark is at least what any finished call
read or wrote, or a loss of the ledger is on record.

The last three are proved only up to the first lock of the device, and have to be: a lock
between the session check and the opening of the ledger makes it forget, as the run
`ContactStoreLockFloor` shows. `OnlyReplacementsForget` holds under locks as well and says
that this is the only way. `IdsAssumption` (somebody can be a contact) is needed because a
store without contacts cannot be told from an absent one. `Ledger`'s operators are used
through `INSTANCE`.

`QuietInv` is for the other direction, that a device warns of nothing when nothing happened to
it: the mark is never above the generation of the stored copy, that generation is what a call
at the ledger has read (`TaskIsQuiet`), and no ledger is missing but that of an upgraded device
(`LedgerIsQuiet`). It holds while calls take turns (`Alone`, the hypothesis), the device is not
locked and nobody touched the store or the ledger (`Undisturbed`). `Alone` is needed: of two
calls at once one reads the store before the other writes it and looks at the mark afterwards
(`encrypted-store.ts:78` in the list above). The run `Contacts` is of one call as well.

### The ways in

The three proofs have one shape. What a row of the review says was found when its text was
read, and the contacts it is about are then the user's to change in other windows; so each
invariant says what still holds of a row that may yet be saved, as long as no other writer was
faster (`overtaken`, `beaten`), and that the rows of one text keep out of each other's way.

`SshContactsStayTheUsers` (`OwnAssumption`: the user's keys are among finitely many). Unless a
row says that somebody holds its keys, nobody does but the contact it refreshes (`IsApart`);
nobody is headed by the key that heads it (`HeadIsFree`); the rows of one text have no key in
common (`RowsAreSound`, `TodoIsApart`). Then a save joins two contacts only where it was asked.

`CertificatesOnlyGrow` (`QueryAssumption`). Everything that is written goes through `Write`, so
a revocation that was seen is on the floor and comes back from it (`RevokedOnFloor`). A row that
may be saved knows all that its contact's certificate says (`KnowsAll`), and where it shares an
address with another contact, or with another row, one of the two was marked (`IsMarked`,
`MarkEach`). That last invariant failed first: of two *updates* in one text neither is marked.
The run had two addresses only and could not show it; it has three now, and
`AddressesWereAsked` excepts what the code excepts (`twins`).

`RestoresStayWithTheTaken` (`BulkAssumption`: every key has a public half, and keys, CRX keys
and certificates are told apart). What is to be written was chosen and missing when the backup was read
(`ReadIsMissing`, `TodoIsChosen`), public halves were left out then (`HalvesAreOut`), and the
lists are worked off in the order keys, then CRX keys and contacts (`KeysComeFirst`).

`ClashesAreMutual` (`NamesAssumption`: everybody is a person with the four fields, and no alias
is the mark for "not worked out yet"). A form that is kept is that of the card's User IDs under
the alias it was made with (`FormsAreOfTheIds`): a rename leaves it, so only where the aliases
agree is it the card's, which is what the code compares; a refresh drops it. The four questions
(address, lookalike, name, same name) are answered the same both ways (`AlikeBothWays`), so who
is named on a card finds the other by the same question, or stopped at a graver one.

### VaultPanel

No theorem but the last has a hypothesis: any number of attempts, by passkeys or passwords,
locks, tabs and writes. `ScreenInv` says of each attempt what its place in the unlock
implies. One that is entering was begun at the lock screen there is, and has its session
once it is past its ceremony, or at an earlier one (`EnteringIsBehind`); behind the lock
screen a session is that of an attempt that is migrating (`SessionIsEntering`); one that is
opening knows an opening that is over, or the one that is open (`OpeningIsPast`), where it
is alone or has been joined (`OpeningIsAlone`). An open vault's newest read began with a
session, unless it was opened astray (`NewestReadHasSession`). A first form of the theorems
assumed one attempt at a time, which the passkey button does not give; what two of them do
is excepted by name instead (`astray`), and disagreements 12 and 13 are those exceptions.

`PasswordsOpenOneVault` shows that they are needed for passkeys only: a password's form is
busy until its attempt is done with, so at most one is entering, and only while the vault is
locked (`PasswordIsAlone`).

### The storage layer

`TurnsAreTaken` (`LockAssumption`: finitely many calls). Arrivals are numbered; the calls
under way form one chain, each waiting for the one that came before it; a promise is
resolved only when its call is done; the map's entry is the last arrival or gone.

`RingIsKept` (`RingAssumption`). A call between its guard and its save holds its page's lock,
so what it read is what is there but for the other page's writes, which set `overtaken`, and
for a lock of the vault in between. `KeysAreKept` contains `LockedReadsAreNotTaken`, which
allows what the code does: a lock and an unlock inside one re-read go unnoticed.

`ShownSettingsAreStored` (`UpdateAssumption`: finitely many updates). `PrefsIInv` follows the
last re-read that began: either it saw what is stored now, or an event that is still to come,
or a dropped reload, will start another. The write epoch keeps an older re-read from landing
over a change in flight, and `WritesAreCounted` ties the number of writes in flight to the
updates that are writing.

`ChunksStayWhole` (`ChunkAssumption`: values of at most `MaxChunks = 3` items; any values,
windows and calls). Unless disturbed, the manifest in storage has all its pieces
(`HeadIsWhole`), a reader has read pieces of the manifest it saw or the manifest has been
replaced since (`ReaderFinds`, `SeenIsHead`), and the pieces past the manifest belong to a
writer that still has to trim them (`LeftoversAreTrimmed`). The proof showed what the run's
smaller bounds had hidden: when two values are stored during one read, the reader can
put together pieces of three values whose lengths add up. The length check cannot tell, and
`ReadIsWhole` now excepts it by name (`Twice`).

`SettingsStayStrict` (`SettingsAssumption`: the bounds are natural numbers). A save takes the
next number, so every generation is that of a save (`NumbersAreSaves`). Where the user chose
strict, a ledger, another store or a sealed blob still tells of it, and a ledger that holds
nothing against the stored copy is ahead of every relaxed copy there ever was
(`StrictIsTold`): a read then either finds the copy older than the mark, or finds the ledger
lost, and overlays the strictest preset in both cases. A routine save puts no such copy back
as current because what the panel runs on was read in this session, and the ledger knows what
that read found (`ReadIsNoted`). Settings of an older version wait for the migration of the
first unlock (`GenuineWaits`). The proof attempt showed that `WrongKeyReplacesNothing` held
only within the run's two saves; it now excepts the case by name (`TookTheLedger`, see the
disagreements).

`VaultStaysKept` (`MoveAssumption`: finitely many windows, at least one store, and the
protection's key is none of theirs). Two things hold in any case: at most one vault was ever
set up, because who is about to store a protection holds the shared lock over an empty device
(`SavingIsLocked`), and every write under way has a number of its own to take
(`VersionsAreCounted`). The rest holds as long as nothing strayed (`StraightInv`): what was
last written is in the area the device looks in, or in every area with a protection while it
remembers none (`VaultInv`); a window at work in a vault has one (`SeesAVault`), and one that
found nothing here will find it there (`Seeing`); the area a move leaves keeps the vault until
the pin is in the other one, which has the protection from the first copy on and the stores as
far as they are copied (`MoveHolds`, `CopiesAreMade`); and nobody else moves the vault, sets
it up or writes to it meanwhile (`KeepsOff`). `ProtectionSurvives` follows: where a vault is
remembered there is one, and every step that takes a protection leaves it remembered.

`HistoryStaysWhole` (`HistAssumption`: the number of captures is bounded by a natural
number; any windows). In every manifest, the stored one and those the tasks hold, the numbers
ascend (`ManifestsAscend`): an append grows the head or takes a number above it, so it writes
into no other listed segment, and sorting what a listing adopted by rank finds every
reference exactly once (`SortedByNumber`). Unless windows raced, one task at most is at work
(`OneAtWork`) and an append's manifest is the stored one (`AppendsAreCurrent`). A wipe stops
the captures before it lists the keys; no append was under way when it listed them, so its
sweep has seen every segment and nothing comes after it (`SweepsSeeAll`,
`WipedStaysEmpty`). That the head survives and the budget fits is about `PrunedMan` alone
(`PruningKeepsTheHead`) and holds in races too.

### The panel

`GreenSpeaksForAll` (`SignerAssumption`: a signer is not called "none" or "mixed"): the card
is the fold of the verdicts on the batch, and a tampered message has ended the run before.
`LookupsAreComplete` (`LineAssumption`: an account has finitely many lines): a list that is
cut short carries the number of what is missing, at every hop from the worker to the page.
`ImportsAreOfTheShown` (`ImportAssumption`: a text is private or public): unless a file
was read late, readings happen on the source step only, and the refs that outlive a render
belong to the key that is shown.
`TranslationsStayTrue` (`TranslateAssumption`: the bounds are natural numbers). Of each kind
at most one run is live, and it is the current one; it reads the text of the result that is
shown, or the text that Undo puts back (`ResultInv`, `BoxInv`). The chain holds every run that
waits for the model, once, with the one that has the model first, and each of them saw its
pack before it joined (`ChainInv`).
`SelectionsStayOwn` (`ClickAssumption`: the bound is a natural number). A read under way is of
the window's own selection (`ReadsAreOwn`). Numbers are given out once (`NumbersAreGiven`), so
a sweep that finds its number again finds the selection it saw, stale since
(`SweepIsOfTheStale`).

### The workspace

`ResultsStayTrue` has no assumption. Two facts hold together (`WsIInv`): an event of the reducer
that moves the input either says so (`staged`), which makes every run under way stale, or leaves
mode, files and text as they were (`Event`); and a run that is still fresh, and that no prompt
took up again, is over the mode and the files of now, and in the engine over the text of now
(`RunsAreRight`). `SealsAsChosen` (`RecipientAssumption`: groups are of SSH keys): every contact
is of one engine (`OfOneKind`), and the first chip that stands for anybody decides the engine of
the selection. The keys of a vault, the chips and the changes to the contacts are any number.

`FindStaysExact` (`FindAssumption`: texts are of letters, and those a behaviour starts with fit
the box). `FindInv` types the bar and says that an open bar has the matches of the text
(`Fresh`). The scan and the two loops of replacing are functions that unfold one step at a time
(`StepByStep` shows that there are such functions); what they hold after `n` steps follows from
the least `n` at which it would fail (`Inductively`). `AllAreFound`: the scan finds every match,
in order, and nothing else. `EachIsSubstituted`: when replace all has passed offset `e`, the text
is the old one up to `e` and behind it what one reading of the rest makes. `InsertedIsTheText`:
what `applyTextareaEdit` puts between the common beginning and the common end makes the text
that was asked for.

`StylesStayExact` (`StylesAssumption`: the texts a behaviour starts with are of letters, digits
and spaces). What is true of the empty text and of one unit more is true of every text
(`BySequences`). `RoundTrip`: characters with styles that go together, encoded one after another,
decode to themselves and split no pair, unless a stroke that was cut off stands inside.
`WordCat`: texts that follow one another spell what each of them spells, even where a stroke is
cut from its letter. `StartIs`, `EndIs`: a selection is widened to where no pair is open, so
neither the cut nor what is put there opens one. `StyleInv` adds to `LettersAreKept` that the box
does not begin with a stroke. `EditorStaysExact` puts both tools into the composed workspace.

### The engine

`ExportsStayKept` (`ExportConstants`). Until a step is hasty, what is live is tracked by the
page, and the unlock under way is of a key that is not. `SlotsStayApartAlways`
(`SessionConstants`). A box bound to a slot was sealed for that slot, and a draft opens
exactly while the session that kept it is there.

`SecretsStayTheirsAlways` (`SecretConstants`; `SealsArePresent`: a sealed entry is not the
absent one). The stores are empty from the counter on (`StoresOK`), so a handle that is
issued is nobody else's, in any of the three stores; a flow's key is the one it was issued
for or gone (`ReachesItsKey`); a flow that is to write an entry carries the seal of its own
key (`InStep`), so that what the app wrote is `SealFor` the credential it was written for
(`RingIsWritten`). Nothing is assumed of the entries found on disk.

`KeyPagesStayTrue` (`KeyPagesConstants`: the keys of a vault are of different kinds and
finite in number, and the keys still to be made are not among them). `MakingIInv`: what is
being made is of the form on the steps, and a date is asked for only after its bounds have
been set. `PagesIInv`: the stack is at most a page of details with its deletion on top of it
(`Shallow`); unless it was rushed, a deletion under way is that of the page on top, and the
only one (`RunsOnTop`), a page of details shows what is stored or is about to go with the
deletion that has ended (`ViewsAreTrue`), and a default that is about to be deleted is one the
deletion will reset (`DefaultIsSeen`); a key that is not made is on no page and in no deletion
(`NotYetMade`); contacts that were taken are not stored, and the deletion that took them
will offer them all (`TakenAreGone`).

`MessagesAreOpenedHonestly` (`RequestAssumption`: a request is for finitely many packets,
lines, signatures and candidates; sizes and ceilings are natural numbers; inside a compressed
packet there is content or what stands in front of it). `OpenIInv` has a part per stage. The
walk has found what is in front of where it stands and has stopped at the first container or
where it may not step further (`WalkIsTrue`); only some requests get to each stage
(`WaysAreKept`); what is read was parsed as what it is, by the credential given
(`LayerIsOpened`); and a cleartext frame is one run of words between the first line and the
one signature (`FrameIsTrue`). What the parser makes of malformed packets stays its choice.
The framing of a pasted text is the longest argument: its lines are told apart by their first
and last occurrences, so the proof rests on a least and a greatest element (`Least`,
`Greatest`) instead of an induction over lines.

`PackagesAreSigned` (`CrxConstants`: archives are sequences, and nobody is no key). Every
signature is over the archive it was made for (`SignaturesAreMade`), and every file is made of
fields of fields, whatever was done to it (`FileIsOfFields`). Two payloads are equal only when
their archives are (`PayloadTellsArchive`), because the length of the signed header is part of
the payload: without it bytes could move between header and archive.

`AgeStaysHonest` (`AgeConstants`: every line has a key with a tag, and another tool takes the
tag from the key as well). A file has the tag of each stanza's key (`FileIsWhole`).

`SecretsStayKept` and `AnswersStayTrue` put the parts together: a behaviour of the composed
engine is, part by part, a behaviour of each.

## What is only model-checked, and what is not modelled

Only checked by TLC: every liveness property (`LockedKeysAreWiped`, `OpeningEnds`,
`EveryWaitEnds`, and the liveness part of `CallsTakeTurns`), since
liveness under fairness and `ENABLED` are outside the prover used here. Of
`ContactsAreWhoTheyWere` everything is proved (`CertificatesOnlyGrow`,
`RestoresStayWithTheTaken`, `ClashesAreMutual`) but `PassingIsTold` of `Names`: it is a
claim about names as people write them, checked on the casts of the run, and no claim about
every sequence of characters (of a name that is punctuation alone the code keeps no form,
so two of them have no clash).

Not modelled:

- cryptography itself: a KDF, an AEAD, a signature or a ceremony is ideal, or a step
  that succeeds or fails; making messages, describing certificates, cleaning user ids
  and error codes (`encryption.rs`, `certs.rs`, `sanitize.rs`, `error_code.rs`) are
  sequential code over one value;
- armour recovery, binary armour, padding's bucket sizes, address syntax: string and
  length arithmetic with no state;
- views, localisation, avatars, keyboard, palette, the threat model as data, audit
  scripts and developer tools: presentation, tables, tests;
- network lockdown: globals replaced once at start-up;
- the contact backfill, a mutation like the others of `ContactStore` whose contents no
  property reads;
- compositions: `VaultPanel` with `VaultMove` (adopting a location during an unlock),
  and one workspace run with the stores it reads. The composed instances put parts side
  by side, they do not connect them.

## Plan

What is left is at the edge of the tools, in this order:

1. Safety parts of the liveness properties are proved where they have one
   (`TurnsAreKept`, `SelectionsArrive`); their liveness stays with TLC.
2. Compositions of `VaultPanel` with `VaultMove`, and of the workspace with its stores.
