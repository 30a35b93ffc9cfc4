----------------------------- MODULE Workspace -----------------------------
(***************************************************************************)
(* The workspace of the side panel: the reducer of workspace-state.ts and  *)
(* the runs of useWorkspace.ts that outlive the input they were started    *)
(* over.  A run keeps the render it was started from (mode, files, the     *)
(* password, whether hidden characters were confirmed); the text it reads  *)
(* from the box when it needs it, so after an unlock it reads today's.     *)
(*                                                                         *)
(* `staged` is compared only with the value a run started under: a reducer *)
(* raises it, and Dispatch turns that into the run's own flag `fresh`.     *)
(***************************************************************************)
EXTENDS Naturals, FiniteSets

CONSTANTS RunSlot, Copy, MaxInputs

VARIABLES ws,      \* WorkspaceState
          runs,    \* the runs under way, with the context each was started with
          vault,   \* the key: how it is protected, whether it is open; alsoSign
          shelf,   \* what is kept aside: the undo snapshot and the sealed draft
          record,  \* the last history entry, the last download
          inputs   \* changes of the input so far

wsVars == <<ws, runs, vault, shelf, record, inputs>>

Mode == {"encrypt", "decrypt", "sign", "verify"}
Text == {"none", "plain", "hidden", "private", "message", "signed"}
FileName == {"gpg", "zip"}
Nothing == [fileName \in FileName |-> 0]
Count(files) == Cardinality({n \in FileName : files[n] > 0})

Armor(text) == IF text = "message" THEN "decrypt" ELSE IF text = "signed" THEN "verify" ELSE "none"
Nudge(text, mode) == IF text # "private" /\ Armor(text) # "none" THEN Armor(text) ELSE mode

NoResult == [mode |-> "none"]
Idle == [phase |-> "idle"]
NoDraft == [mode |-> "none"]
----------------------------------------------------------------------------
(* The reducer.                                                            *)

WithText(s, text) == [s EXCEPT !.text = text, !.staged = TRUE, !.confirmed = FALSE, !.shape = "unknown"]
OneZip(files) == Count(files) = 1 /\ files["zip"] > 0
WithFilesUnstaged(s, files) == [s EXCEPT !.files = files, !.shape = "unknown", !.zip = @ /\ OneZip(files)]  \* mutant
WithFiles(s, files) ==
    [s EXCEPT !.files = files, !.staged = TRUE, !.shape = "unknown", !.zip = @ /\ OneZip(files)]
WithMode(s, mode) == IF mode = s.mode THEN s ELSE [s EXCEPT !.mode = mode, !.staged = TRUE]

ResetResults(s) ==
    [s EXCEPT !.run = IF s.run = "running" THEN "running" ELSE "idle",
              !.result = NoResult, !.prompt = "none", !.carried = FALSE]
ResetAll(s) == ResetResults([WithFiles(WithText(s, "none"), Nothing) EXCEPT !.to = "none", !.arm = "none"])

Edited(s, text) ==
    LET next == IF s.mode = "encrypt" THEN s ELSE WithFiles(s, Nothing)
        mode == IF Armor(text) # Armor(s.text) THEN Nudge(text, s.mode) ELSE s.mode
    IN  ResetResults([WithMode(WithText(next, text), mode) EXCEPT !.arm = "none"])
ModePicked(s, mode) == IF s.run = "done" THEN ResetAll(WithMode(s, mode)) ELSE ResetResults(WithMode(s, mode))
\* Some events change the input and leave the result: these are marked.
Carried(s) == [s EXCEPT !.carried = s.result # NoResult]
Opened(s, mode, text) ==
    IF text = "none" THEN Carried(WithMode(s, mode))
    ELSE ResetResults([WithFiles(WithText(WithMode(s, mode), text), Nothing) EXCEPT
            !.arm = IF mode \in {"decrypt", "verify"} THEN mode ELSE "none"])
EncryptTo(s, to) == [Carried(WithMode(s, "encrypt")) EXCEPT !.to = to]
Dropped(s, name, copy, oversized) ==
    LET staged == WithFiles(s, [s.files EXCEPT ![name] = copy])
        emptied == IF s.mode # "encrypt" \/ name = "gpg" THEN WithText(staged, "none") ELSE staged
        turned == IF name = "gpg" /\ s.mode = "encrypt" THEN WithMode(emptied, "decrypt") ELSE emptied
    IN  [ResetResults(turned) EXCEPT !.run = IF oversized THEN "error" ELSE @]

Spent(s, outcome) == [s EXCEPT !.pw = @ /\ ~outcome.spent]

Finish(s, outcome) ==
    CASE outcome.kind = "done" -> [Spent(s, outcome) EXCEPT !.run = "done", !.prompt = "none",
                                                            !.result = outcome.result, !.carried = FALSE]
      [] outcome.kind = "prompt" -> [s EXCEPT !.run = "idle", !.prompt = outcome.prompt]
      [] outcome.kind \in {"rejected", "none"} -> [s EXCEPT !.run = "idle"]
      [] OTHER -> [s EXCEPT !.run = outcome.kind]

\* A run that ends over another input than it started under shows nothing.
Finished(s, fresh, outcome) ==
    IF fresh THEN Finish(s, outcome)
    ELSE [ResetResults(Spent(s, outcome)) EXCEPT !.run = "idle"]

\* A state reached by the reducer: runs that started under another one are stale.
Dispatch(next) ==
    /\ ws' = [next EXCEPT !.staged = FALSE]
    /\ runs' = [r \in RunSlot |->
                  IF runs[r].phase = "idle" THEN Idle
                  ELSE [runs[r] EXCEPT !.fresh = @ /\ ~next.staged]]
----------------------------------------------------------------------------
(* What the user and the panel do to the input, at any time: none of it    *)
(* waits for a run.                                                        *)

Changed == inputs < MaxInputs /\ inputs' = inputs + 1

Type(text) ==
    /\ Changed /\ (Count(ws.files) = 0 \/ ws.mode = "encrypt")
    /\ Dispatch(Edited(ws, text))
    /\ UNCHANGED <<vault, shelf, record>>
PickMode(mode) ==
    /\ Changed /\ mode # ws.mode
    /\ Dispatch(ModePicked(ws, mode))
    /\ UNCHANGED <<vault, shelf, record>>
DropFile(name, copy, oversized) ==
    /\ Changed /\ (ws.text = "none" \/ ws.mode = "encrypt") /\ ws.files[name] # copy
    /\ Dispatch(Dropped(ws, name, copy, oversized))
    /\ UNCHANGED <<vault, shelf, record>>
DropOversized ==
    /\ Changed
    /\ Dispatch([ws EXCEPT !.run = "error"])
    /\ UNCHANGED <<vault, shelf, record>>
RemoveFile(name) ==
    /\ ws.files[name] > 0
    /\ Dispatch(ResetResults(WithFiles(ws, [ws.files EXCEPT ![name] = 0])))
    /\ UNCHANGED <<vault, shelf, record, inputs>>
PickRecipients(to) ==
    /\ ws.mode = "encrypt" /\ ws.to # to /\ Changed
    /\ Dispatch(ResetResults([ws EXCEPT !.to = to]))
    /\ UNCHANGED <<vault, shelf, record>>
SetPassword(on) ==
    /\ ws.mode = "encrypt" /\ ws.pw # on /\ (on => ws.to # "age") /\ Changed
    /\ Dispatch(ResetResults([ws EXCEPT !.pw = on]))
    /\ UNCHANGED <<vault, shelf, record>>
Encryptable(to) ==
    /\ Changed
    /\ Dispatch(EncryptTo(ws, to))
    /\ UNCHANGED <<vault, shelf, record>>
\* Escape, pressed again over an empty workspace.
ModeReset ==
    /\ ws.text = "none" /\ Count(ws.files) = 0 /\ ws.to = "none" /\ ws.mode # "encrypt"
    /\ Dispatch(Carried(WithMode(ws, "encrypt")))
    /\ UNCHANGED <<vault, shelf, record, inputs>>
\* A selection sent from a page, with its action; it may be empty.
Open(mode, text) ==
    /\ Changed
    /\ Dispatch(Opened(ws, mode, text))
    /\ UNCHANGED <<vault, shelf, record>>
\* The one staged .zip has been read: an extension is offered to be signed.
ZipScanned ==
    /\ OneZip(ws.files) /\ ~ws.zip
    /\ LET zip == Carried([ws EXCEPT !.zip = TRUE])
       IN  Dispatch(IF ws.mode \in {"encrypt", "decrypt"} THEN WithMode(zip, "sign") ELSE zip)
    /\ UNCHANGED <<vault, shelf, record, inputs>>
\* scanStaged: for what the view offers only; a later run looks again.
MessageScanned(shape) ==
    /\ ws.mode = "decrypt" /\ ws.shape = "unknown" /\ (ws.text = "message" \/ Count(ws.files) > 0)
    /\ Dispatch([ws EXCEPT !.shape = shape])
    /\ UNCHANGED <<vault, shelf, record, inputs>>

Clear ==
    /\ Changed /\ (ws.text # "none" \/ Count(ws.files) > 0)
    /\ shelf' = [shelf EXCEPT !.undo = [text |-> ws.text, files |-> ws.files, to |-> ws.to]]
    /\ Dispatch(ResetAll(ws))
    /\ UNCHANGED <<vault, record>>
Undo ==
    /\ shelf.undo.text # "gone" /\ Changed
    /\ shelf' = [shelf EXCEPT !.undo = [text |-> "gone", files |-> Nothing, to |-> "none"]]
    /\ LET back == WithFiles(WithText(ws, shelf.undo.text), shelf.undo.files)
       IN  Dispatch([Carried(WithMode(back, Nudge(shelf.undo.text, ws.mode))) EXCEPT !.to = shelf.undo.to])
    /\ UNCHANGED <<vault, record>>
----------------------------------------------------------------------------
(* The runs.                                                               *)

Loading == ws.run = "running"
CrxShown == ws.mode = "sign" /\ ws.zip /\ ws.run # "done"
CanRun ==
    /\ ~Loading /\ ws.prompt = "none"
    /\ ~(ws.run = "done" /\ (ws.mode # "verify" \/ ws.text = "signed"))
    /\ ~CrxShown
    /\ ws.mode = "encrypt" => ws.to # "none" \/ ws.pw

\* The render a run is started from; what its mode does not read is left out.
Context(unattended, capped) ==
    [phase |-> "idle", mode |-> ws.mode, files |-> ws.files, unattended |-> unattended, capped |-> capped,
     to |-> IF ws.mode = "encrypt" THEN ws.to ELSE "none", pw |-> ws.mode = "encrypt" /\ ws.pw,
     confirmed |-> ws.confirmed, hasText |-> ws.mode = "encrypt" /\ ws.text # "none",
     resumed |-> FALSE, fresh |-> TRUE, text |-> "none"]
\* In the engine's hands: the input has been read.
InEngine(c, text) ==
    [c EXCEPT !.phase = "engine", !.text = text, !.to = "none", !.confirmed = FALSE, !.hasText = FALSE]

Signs(c) == c.mode = "sign" \/ (c.mode = "encrypt" /\ vault.alsoSign /\ c.to # "age")
\* hiddenCharsHold: asked of the text in the box now.
Held(c, text) ==
    /\ ~c.confirmed
    /\ IF c.mode = "sign" THEN Count(c.files) = 0 ELSE c.hasText
    /\ text = "hidden"

Refused(c) ==
    \/ c.mode = "encrypt" /\ c.to = "none" /\ ~c.pw
    \/ c.mode = "encrypt" /\ c.to = "age" /\ c.pw

EnsureUnlocked(c) ==
    IF vault.open THEN "engine"
    ELSE IF c.unattended THEN "none"
    ELSE IF vault.method = "passkey" THEN "ceremony"
    ELSE "ask-key"

\* A message only a password opens: no key will do.
AskMessagePassword(c) == IF c.unattended THEN "none" ELSE "ask-message"

\* What a run does first.  `shape` is what the engine says of the staged
\* message; a batch with an unencrypted member is refused before any key opens.
Decision(c, shape) ==
    IF Refused(c) THEN "error"
    ELSE IF Signs(c) THEN IF Held(c, ws.text) THEN "hidden-chars" ELSE EnsureUnlocked(c)
    ELSE IF c.mode # "decrypt" THEN "engine"
    ELSE IF shape = "clear" THEN IF Count(c.files) > 1 THEN "error" ELSE "engine"
    ELSE IF shape = "password" THEN AskMessagePassword(c)
    ELSE EnsureUnlocked(c)

Prompt(ask) == [kind |-> "prompt", prompt |-> IF ask = "ask-key" THEN "key" ELSE "message",
                spent |-> FALSE]

\* The run `c` goes on over the workspace `s` as decided.
Proceed(r, c, s, decision) ==
    /\ runs' = [runs EXCEPT ![r] =
                  CASE decision = "engine" -> InEngine(c, s.text)
                    [] decision = "ceremony" -> [c EXCEPT !.phase = "ceremony"]
                    [] OTHER -> Idle]
    /\ ws' = IF decision \in {"engine", "ceremony"} THEN s
             ELSE Finished(s, c.fresh, IF decision \in {"ask-key", "ask-message"} THEN Prompt(decision)
                                       ELSE [kind |-> decision, spent |-> FALSE])

Started(s) == [ResetResults(s) EXCEPT !.run = "running"]

\* Encrypting, signing and verifying decide in the same turn; a decrypt first
\* waits for what its message is.
Execute(r, c, s) ==
    IF c.mode = "decrypt"
    THEN /\ runs' = [runs EXCEPT ![r] = [c EXCEPT !.phase = "scanning"]]
         /\ ws' = Started(s)
    ELSE Proceed(r, c, Started(s), Decision(c, "unknown"))

----------------------------------------------------------------------------
(* What starts a run.                                                      *)

Free(r) == runs[r].phase = "idle"

Run(r) ==
    /\ Free(r) /\ CanRun /\ ws.run # "done"
    /\ Execute(r, Context(FALSE, FALSE), ws)
    /\ UNCHANGED <<vault, shelf, record, inputs>>
SignAnyway(r) ==
    /\ Free(r) /\ ws.run = "hidden-chars"
    /\ LET s == [ws EXCEPT !.confirmed = TRUE]
       IN  Execute(r, [Context(FALSE, FALSE) EXCEPT !.confirmed = TRUE], s)
    /\ UNCHANGED <<vault, shelf, record, inputs>>
\* A selection sent from a page runs by itself once, if nothing has to be asked.
AutoRun(r) ==
    /\ Free(r) /\ ws.arm # "none" /\ ~Loading
    /\ LET s == [ws EXCEPT !.arm = "none"]
       IN  IF /\ ws.mode = ws.arm /\ ws.run # "done"
              /\ (ws.arm = "decrypt" => vault.open) /\ CanRun
           THEN Execute(r, Context(TRUE, TRUE), s)
           ELSE ws' = s /\ UNCHANGED runs
    /\ UNCHANGED <<vault, shelf, record, inputs>>
\* The contacts changed after an unknown signer was looked up.
Recheck(r) ==
    /\ Free(r) /\ ~Loading /\ ws.result # NoResult /\ ws.result.tone = "warning"
    /\ \/ ws.mode = "verify" /\ Execute(r, Context(FALSE, FALSE), ws)
       \/ /\ ws.mode = "decrypt" /\ (ws.shape = "clear" \/ (ws.shape # "password" /\ vault.open))
          /\ Execute(r, Context(TRUE, FALSE), ws)
    /\ UNCHANGED <<vault, shelf, record, inputs>>
\* Enter in the password field: it is not disabled while a run is under way.
SubmitPassword(r) ==
    /\ Free(r) /\ ws.prompt # "none"
    /\ ws' = [ws EXCEPT !.run = "running"]
    /\ runs' = [runs EXCEPT ![r] =
                  IF ws.prompt = "message"
                  THEN [InEngine(Context(FALSE, FALSE), ws.text) EXCEPT
                           !.mode = "decrypt", !.pw = FALSE, !.resumed = ws.mode # "decrypt"]
                  ELSE [Context(FALSE, FALSE) EXCEPT !.phase = "unlocking"]]
    /\ UNCHANGED <<vault, shelf, record, inputs>>
Reset ==
    /\ ~Loading
    /\ ws.run = "done"
    /\ \/ Dispatch(ResetAll(ws))
       \/ Dispatch(ResetResults(ws))
    /\ UNCHANGED <<vault, shelf, record, inputs>>
----------------------------------------------------------------------------
(* How runs go on and end.                                                 *)

Scanned(r, shape) ==
    /\ runs[r].phase = "scanning"
    /\ Proceed(r, runs[r], ws, Decision(runs[r], shape))
    /\ UNCHANGED <<vault, shelf, record, inputs>>
CeremonyEnds(r, decision) ==
    /\ runs[r].phase = "ceremony"
    /\ vault' = [vault EXCEPT !.open = @ \/ decision = "engine"]
    /\ Proceed(r, runs[r], ws, decision)
    /\ UNCHANGED <<shelf, record, inputs>>
\* The run starts again with the context the password was submitted under,
\* but takes the input of now for the one it was started over.
Unlocked(r) ==
    /\ runs[r].phase = "unlocking"
    /\ vault' = [vault EXCEPT !.open = TRUE]
    /\ LET c == [runs[r] EXCEPT !.fresh = TRUE, !.resumed = TRUE]
       IN  IF c.mode = "decrypt"
           THEN Execute(r, c, ws)
           ELSE /\ runs' = [runs EXCEPT ![r] = IF Refused(c) \/ (Signs(c) /\ Held(c, ws.text)) THEN Idle
                                               ELSE InEngine(c, ws.text)]
                /\ ws' = IF Refused(c) THEN Finish(Started(ws), [kind |-> "error"])
                         ELSE IF Signs(c) /\ Held(c, ws.text) THEN Finish(Started(ws), [kind |-> "hidden-chars"])
                         ELSE Started(ws)
    /\ UNCHANGED <<shelf, record, inputs>>
WrongPassword(r) ==
    /\ runs[r].phase = "unlocking"
    /\ runs' = [runs EXCEPT ![r] = Idle]
    /\ ws' = Finish(ws, [kind |-> "rejected"])
    /\ UNCHANGED <<vault, shelf, record, inputs>>

Tones(c) == IF c.mode \in {"encrypt", "sign"} THEN {"none"} ELSE {"none", "success", "warning"}
ResultOf(c, tone) ==
    [mode |-> c.mode, files |-> c.files, text |-> c.text, tone |-> tone, resumed |-> c.resumed]
\* Encrypting and signing are recorded, with the text of the box once the engine is done.
Entry(c) == IF c.mode \in {"encrypt", "sign"}
            THEN IF Count(c.files) > 0 \/ c.text = ws.text THEN "what was made" ELSE "another text"
            ELSE record.entry
AutoDownload(c) == IF c.unattended THEN record.saved ELSE "attended"

EngineDone(r, tone) ==
    /\ runs[r].phase = "engine" /\ tone \in Tones(runs[r])
    /\ LET c == runs[r]
       IN  /\ ws' = Finished(ws, c.fresh, [kind |-> "done", result |-> ResultOf(c, tone),
                                           spent |-> c.mode = "encrypt" /\ c.pw])
           /\ record' = [entry |-> Entry(c), saved |-> AutoDownload(c)]
    /\ runs' = [runs EXCEPT ![r] = Idle]
    /\ UNCHANGED <<vault, shelf, inputs>>
EngineFails(r) ==
    /\ runs[r].phase = "engine"
    /\ \E kind \in {"error", "rejected"} \cup (IF runs[r].capped THEN {"held-back"} ELSE {}) :
          ws' = Finished(ws, runs[r].fresh, [kind |-> kind, spent |-> FALSE])
    /\ runs' = [runs EXCEPT ![r] = Idle]
    /\ UNCHANGED <<vault, shelf, record, inputs>>

KeyCloses ==
    /\ vault.open
    /\ vault' = [vault EXCEPT !.open = FALSE]
    /\ UNCHANGED <<ws, runs, shelf, record, inputs>>
----------------------------------------------------------------------------
(* The master lock takes the draft, wipes and unmounts; the panel that     *)
(* opens again restores it once it is decrypted.                           *)

Empty == [mode |-> "encrypt", text |-> "none", files |-> Nothing, to |-> "none", pw |-> FALSE, run |-> "idle",
          result |-> NoResult, prompt |-> "none", arm |-> "none", zip |-> FALSE, shape |-> "unknown",
          confirmed |-> FALSE, carried |-> FALSE, staged |-> FALSE]
NoUndo == [text |-> "gone", files |-> Nothing, to |-> "none"]

Lock ==
    /\ Changed
    /\ shelf' = [undo |-> NoUndo,
                 draft |-> IF ws.text \in {"private", "none"} THEN NoDraft
                           ELSE [mode |-> ws.mode, text |-> ws.text, to |-> ws.to]]
    /\ ws' = Empty /\ runs' = [r \in RunSlot |-> Idle]
    /\ vault' = [vault EXCEPT !.open = FALSE]
    /\ UNCHANGED record
Restore ==
    /\ shelf.draft # NoDraft
    /\ shelf' = [shelf EXCEPT !.draft = NoDraft]
    /\ Dispatch([Carried(WithMode(WithText(ws, shelf.draft.text), shelf.draft.mode)) EXCEPT !.to = shelf.draft.to])
    /\ UNCHANGED <<vault, record, inputs>>

wsInit ==
    /\ ws = Empty /\ runs = [r \in RunSlot |-> Idle]
    /\ vault \in [method : {"password", "passkey"}, open : {FALSE}, alsoSign : BOOLEAN]
    /\ shelf = [undo |-> NoUndo, draft |-> NoDraft]
    /\ record = [entry |-> "none", saved |-> "nothing"]
    /\ inputs = 0

RunNext(r) ==
    \/ Run(r) \/ SignAnyway(r) \/ AutoRun(r) \/ Recheck(r) \/ SubmitPassword(r)
    \/ \E shape \in {"keys", "password", "clear"} : Scanned(r, shape)
    \/ \E decision \in {"engine", "none", "error"} : CeremonyEnds(r, decision)
    \/ Unlocked(r) \/ WrongPassword(r) \/ EngineFails(r)
    \/ \E tone \in {"none", "success", "warning"} : EngineDone(r, tone)
wsNext ==
    \/ \E text \in Text : Type(text)
    \/ \E mode \in Mode : PickMode(mode)
    \/ \E name \in FileName, copy \in Copy, oversized \in BOOLEAN : DropFile(name, copy, oversized)
    \/ DropOversized
    \/ \E name \in FileName : RemoveFile(name)
    \/ \E to \in {"pgp", "age"} : PickRecipients(to)
    \/ Encryptable("pgp") \/ ModeReset
    \/ \E on \in BOOLEAN : SetPassword(on)
    \/ \E mode \in Mode, text \in {"none", "message", "signed"} : Open(mode, text)
    \/ ZipScanned
    \/ \E shape \in {"keys", "password", "clear"} : MessageScanned(shape)
    \/ Clear \/ Undo \/ Reset \/ KeyCloses \/ Lock \/ Restore
    \/ \E r \in RunSlot : RunNext(r)
wsSpec == wsInit /\ [][wsNext]_wsVars
----------------------------------------------------------------------------
wsTypeOK ==
    /\ ws.mode \in Mode /\ ws.text \in Text /\ ws.files \in [FileName -> Copy \cup {0}] /\ ws.to \in {"none", "pgp", "age"}
    /\ ws.run \in {"idle", "running", "done", "error", "held-back", "hidden-chars"}
    /\ ws.prompt \in {"none", "key", "message"} /\ ws.pw \in BOOLEAN /\ ws.confirmed \in BOOLEAN
    /\ ~ws.staged
    /\ \A r \in RunSlot : runs[r].phase \in {"idle", "scanning", "ceremony", "unlocking", "engine"}
    /\ record.saved \in {"nothing", "attended", "unattended"}

\* What a result was read from.
IsOver(result) == result.mode = ws.mode /\ result.files = ws.files /\ result.text = ws.text

(* A verdict never sits over input it did not read, however the input moved *)
(* while the run was under way: the `staged` guard of the reducer.  Two     *)
(* ways around the guard are left out: a run that a key prompt resumed, and *)
(* events that change the mode or the text without taking the result away   *)
(* (encrypt-to, restored, undo-restored, mode-reset, extension-zip, opened). *)
ResultsAreOverTheirInput == ws.result # NoResult => IsOver(ws.result) \/ ws.result.resumed \/ ws.carried

(* The same with nothing left out, as workspace-state.ts:112-114 says it.   *)
NeverOverOtherInput == ws.result # NoResult => IsOver(ws.result)

(* A run nobody started at the panel (a context-menu selection, the re-check *)
(* of a signer) asks for nothing, unlocks nothing and saves nothing to disk, *)
(* even when the key closes while it runs.                                   *)
UnattendedRunsAreQuiet ==
    [][/\ record'.saved # "unattended"
       /\ \A r \in RunSlot : /\ runs'[r].phase = "ceremony" => ~runs'[r].unattended
                             /\ runs[r].phase = "scanning" /\ runs[r].unattended /\ runs'[r] # runs[r]
                                    => ws'.prompt \in {"none", ws.prompt}]_wsVars

(* A signature over hidden characters is shown only when the user said to    *)
(* sign this very text as it is.                                             *)
HiddenCharsAreConfirmed ==
    (/\ ws.result # NoResult /\ ws.result.mode = "sign" /\ ~ws.result.resumed /\ ~ws.carried
     /\ ws.result.text = "hidden" /\ Count(ws.result.files) = 0) => ws.confirmed

(* A message password seals one message: when its run is done it is cleared, *)
(* also when the result is thrown away because the input moved.              *)
PasswordsAreSpent == [][\A r \in RunSlot : EngineDone(r, "none") /\ runs[r].mode = "encrypt" /\ runs[r].pw => ~ws'.pw]_wsVars

(* The panel says it is working only while a run is under way: a result that *)
(* is thrown away still gives the buttons back.                              *)
WorkingMeansRunning == Loading => \E r \in RunSlot : runs[r].phase # "idle"

(* History records what was produced, whenever what was produced is shown.   *)
HistoryNamesWhatIsShown ==
    [][ws'.result # ws.result /\ ws'.result # NoResult /\ ws'.result.mode \in {"encrypt", "sign"}
        => record'.entry = "what was made"]_wsVars

(* What the workspace promises, however runs, edits, prompts and locks      *)
(* interleave (useWorkspace.ts, workspace-state.ts): a result is over the   *)
(* input it was made from; "working" means a run is under way; hidden       *)
(* characters were confirmed; a message password is used once; nobody is    *)
(* asked by a run nobody started; and the history names what is shown.      *)
ResultsAreTrue ==
    /\ [](wsTypeOK /\ ResultsAreOverTheirInput /\ HiddenCharsAreConfirmed /\ WorkingMeansRunning)
    /\ UnattendedRunsAreQuiet /\ PasswordsAreSpent /\ HistoryNamesWhatIsShown
=============================================================================
