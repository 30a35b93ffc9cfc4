----------------------------- MODULE ImportPage ----------------------------
(***************************************************************************)
(* The import page for one text: where a key comes from, its preview, and  *)
(* the protection of a private one.  The secret half waits in a ref beside *)
(* the steps; reading (the parser) and writing (the importer) run at their *)
(* own pace, each refusing to start twice; a picked file is read first.    *)
(***************************************************************************)
EXTENDS Naturals

CONSTANTS Private,   \* private keys, by text
          Locked,    \* those encrypted under a passphrase of their own
          SshText,   \* those whose encryption only the engine knows
          Public,    \* texts with public keys
          MaxTexts,  \* texts pasted in a behaviour
          MaxFiles   \* files picked in a behaviour

ASSUME ImportAssumption == Locked \subseteq Private /\ SshText \subseteq Private /\ Private \cap Public = {}

VARIABLES at,        \* the step, and the key it shows
          armor,     \* secretArmorRef
          phrase,    \* the key for which a source passphrase is typed
          parser,    \* the reading in flight
          importer,  \* the write in flight
          files,     \* files still being read
          finished,  \* finishedRef
          visible,   \* open, sliding out, or gone
          written,   \* writes of this page
          late,      \* a file was read after the source step was left
          texts, picked

impVars == <<at, armor, phrase, parser, importer, files, finished, visible, written, late, texts, picked>>

None == "none"
Text == Private \cup Public
Source == [kind |-> "source", key |-> None, enc |-> FALSE]
Resting == [kind |-> None]
Fresh == /\ at = Source /\ armor = None /\ phrase = None /\ parser = Resting /\ importer = Resting
         /\ files = {} /\ finished = FALSE /\ visible = "open" /\ written = {} /\ late = FALSE
impInit == Fresh /\ texts = 0 /\ picked = 0
----------------------------------------------------------------------------
\* createActionRunner: a second run is refused while one is in flight.
Unguarded(action) == TRUE  \* mutant
Free(action) == action.kind = None
Reads(text) ==
    IF Free(parser) THEN parser' = [kind |-> "preparing", text |-> text] ELSE UNCHANGED parser

\* Only the source step takes a paste, or offers the file picker.
PasteText(text) ==
    /\ visible # "gone" /\ at.kind = "source" /\ texts < MaxTexts /\ texts' = texts + 1
    /\ Reads(text)
    /\ UNCHANGED <<at, armor, phrase, importer, files, finished, visible, written, late, picked>>
PickFile(text) ==
    /\ visible # "gone" /\ at.kind = "source" /\ picked < MaxFiles /\ picked' = picked + 1
    /\ files' = files \cup {text}
    /\ UNCHANGED <<at, armor, phrase, parser, importer, finished, visible, written, late, texts>>
\* readKeyFile ends: handleSource asks for no step.
FileRead(text) ==
    /\ visible # "gone" /\ text \in files
    /\ files' = files \ {text}
    /\ Reads(text)
    /\ late' = (late \/ at.kind # "source")
    /\ UNCHANGED <<at, armor, phrase, importer, finished, visible, written, texts, picked>>
Shows(text, enc) == at' = [kind |-> "preview", key |-> text, enc |-> enc]
\* The secret goes to the ref before the engine is asked whether it is encrypted.
Prepared ==
    /\ parser.kind = "preparing"
    /\ \/ parser' = Resting /\ UNCHANGED <<at, armor>>
       \/ parser.text \in Public /\ parser' = Resting /\ Shows(parser.text, FALSE) /\ UNCHANGED armor
       \/ parser.text \in Private /\ parser' = [parser EXCEPT !.kind = "probing"] /\ armor' = parser.text /\ UNCHANGED at
    /\ UNCHANGED <<phrase, importer, files, finished, visible, written, late, texts, picked>>
Probed ==
    /\ parser.kind = "probing"
    /\ parser' = Resting
    /\ Shows(parser.text, parser.text \in Locked \ SshText)
    /\ UNCHANGED <<armor, phrase, importer, files, finished, visible, written, late, texts, picked>>
----------------------------------------------------------------------------
\* clearSecrets, toSource, resetAndClose, and a dismissal, which only closes.
ClearSecrets(to) == armor' = None /\ phrase' = None
Back ==
    /\ visible # "gone" /\ Free(importer) /\ Free(parser)
    /\ \/ at.kind = "protect" /\ at' = [at EXCEPT !.kind = "preview"] /\ UNCHANGED <<armor, phrase, visible>>
       \/ at.kind = "preview" /\ at' = Source /\ ClearSecrets("source") /\ UNCHANGED visible
       \/ at.kind = "source" /\ visible' = "closing" /\ ClearSecrets("closed") /\ UNCHANGED at
    /\ UNCHANGED <<parser, importer, files, finished, written, late, texts, picked>>
DismissPage ==
    /\ visible = "open"
    /\ visible' = "closing"
    /\ UNCHANGED <<at, armor, phrase, parser, importer, files, finished, written, late, texts, picked>>
Gone ==
    /\ visible = "closing"
    /\ visible' = "gone" /\ at' = Source /\ armor' = None /\ phrase' = None /\ parser' = Resting /\ files' = {}
    /\ UNCHANGED <<importer, finished, written, late, texts, picked>>
Reopen ==
    /\ visible = "gone" /\ Free(importer)
    /\ visible' = "open" /\ finished' = FALSE /\ written' = {} /\ late' = FALSE
    /\ UNCHANGED <<at, armor, phrase, parser, importer, files, texts, picked>>

\* runImport: nothing after a write that landed, nor beside one in flight.
MayWrite(w) == Free(importer) /\ ~finished
Writes(secret, shown) ==
    IF MayWrite(secret) THEN importer' = [kind |-> "writing", key |-> secret, shown |-> shown, phrase |-> phrase]
    ELSE UNCHANGED importer
Confirm ==
    /\ visible # "gone" /\ at.kind = "preview"
    /\ IF at.key \in Public THEN Writes(at.key, at.key) /\ UNCHANGED at
       ELSE at' = [at EXCEPT !.kind = "protect"] /\ UNCHANGED importer
    /\ UNCHANGED <<armor, phrase, parser, files, finished, visible, written, late, texts, picked>>
TypePhrase ==
    /\ visible # "gone" /\ at.kind = "protect" /\ at.enc /\ phrase = None
    /\ phrase' = at.key
    /\ UNCHANGED <<at, armor, parser, importer, files, finished, visible, written, late, texts, picked>>
Submit ==
    /\ visible # "gone" /\ at.kind = "protect" /\ armor # None /\ (at.enc => phrase # None)
    /\ Writes(armor, at.key)
    /\ UNCHANGED <<at, armor, phrase, parser, files, finished, visible, written, late, texts, picked>>
\* finish(): a second write may no longer start; the page slides out.
Written ==
    /\ importer.kind = "writing" /\ (importer.key \in Locked => importer.phrase = importer.key)
    /\ written' = written \cup {[key |-> importer.key, shown |-> importer.shown, nth |-> IF written = {} THEN 1 ELSE 2]}
    /\ importer' = Resting /\ finished' = (visible # "gone") /\ ClearSecrets("closed")
    /\ visible' = IF visible = "open" THEN "closing" ELSE visible
    /\ UNCHANGED <<at, parser, files, late, texts, picked>>
\* A wrong passphrase, a dismissed passkey; an SSH key says that it has a passphrase.
WriteFails ==
    /\ importer.kind = "writing"
    /\ importer' = Resting
    /\ at' = IF at.kind = "protect" /\ importer.key \in SshText \cap Locked /\ importer.phrase = None THEN [at EXCEPT !.enc = TRUE] ELSE at
    /\ UNCHANGED <<armor, phrase, parser, files, finished, visible, written, late, texts, picked>>

impNext ==
    \/ \E text \in Text : PasteText(text) \/ PickFile(text) \/ FileRead(text)
    \/ Prepared \/ Probed \/ Back \/ DismissPage \/ Gone \/ Reopen \/ Confirm \/ TypePhrase \/ Submit \/ Written \/ WriteFails
impSpec == impInit /\ [][impNext]_impVars
----------------------------------------------------------------------------
impTypeOK ==
    /\ at.kind \in {"source", "preview", "protect"} /\ at.key \in Text \cup {None}
    /\ (at.kind = "protect" => at.key \in Private) /\ armor \in Private \cup {None} /\ phrase \in Private \cup {None}
    /\ parser.kind \in {None, "preparing", "probing"} /\ importer.kind \in {None, "writing"}
    /\ files \subseteq Text /\ visible \in {"open", "closing", "gone"} /\ finished \in BOOLEAN

(* What is sealed is the key the page showed when the user submitted, not   *)
(* one that was read beside it (a file picked earlier and read only after   *)
(* the user went on with another text may still put its secret in the ref). *)
SealedIsShown == ~late => (importer.kind = "writing" => importer.key = importer.shown) /\ \A w \in written : w.key = w.shown

(* One visit writes once, however the clicks fall while it slides out.      *)
OneWritePerVisit == \A w \in written : w.nth = 1

(* The passphrase of one key file is never offered to the next one.         *)
PassphraseIsOwn == ~late /\ importer.kind = "writing" => importer.phrase \in {None, importer.shown}

(* What the import page promises while readings, files and unlocks overlap: *)
(* the key that is shown is the one sealed, a visit writes once, and a      *)
(* passphrase is used only for the key it was typed for.                    *)
ShownKeyIsImported == impTypeOK /\ SealedIsShown /\ OneWritePerVisit /\ PassphraseIsOwn
=============================================================================
