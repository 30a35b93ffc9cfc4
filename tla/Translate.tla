----------------------------- MODULE Translate -----------------------------
(***************************************************************************)
(* On-device translation.  A result and the text being written can each be *)
(* translated at a click; a run reads its text once and then waits: for    *)
(* the detector, for a language pack, for its turn in the one chain, for   *)
(* the model.  Meanwhile results, texts, modes and the lock move on.       *)
(***************************************************************************)
EXTENDS Sequences, Naturals

CONSTANTS MaxRuns,   \* translations started in a behaviour
          MaxMoves   \* changes of the result, the text, the mode

ASSUME TranslateAssumption == MaxRuns \in Nat /\ MaxMoves \in Nat

VARIABLES result,    \* the result box: its version, its translation
          box,       \* the message box, and whether it can be edited
          compose,   \* useComposeTranslation
          jobs,      \* translations, in the order they were started
          chain,     \* queueTail: jobs that wait for the model, the first has it
          pack,      \* the language pack on this device
          fetched,   \* downloads: who started them
          moves

translateVars == <<result, box, compose, jobs, chain, pack, fetched, moves>>

NoText == [v |-> 0, by |-> 0]
Typed(v) == [v |-> v, by |-> 0]                    \* what the user wrote
Output(i) == [v |-> 0, by |-> i]                   \* what run i made of it
IdleResult(v) == [version |-> v, has |-> FALSE, status |-> "idle", showing |-> FALSE, translation |-> NoText, run |-> 0]
Readiness == {"available", "downloadable", "unavailable"}
IdleCompose == [status |-> "idle", original |-> NoText, written |-> NoText, canUndo |-> FALSE, run |-> 0]

translateInit ==
    /\ result = IdleResult(0) /\ box = [text |-> Typed(1), edits |-> TRUE, n |-> 1] /\ compose = IdleCompose
    /\ jobs = <<>> /\ chain = <<>> /\ pack \in Readiness /\ fetched = {} /\ moves = 0
----------------------------------------------------------------------------
Aborted(i, rs) == IF i = 0 THEN rs ELSE [rs EXCEPT ![i].live = FALSE]
Busy(status) == status \in {"working", "downloading"}
Move == moves < MaxMoves /\ moves' = moves + 1

\* useTranslation's reset: a new result, another language, an unlock.
Cancelled(rs) == Aborted(result.run, rs)
NewResult(has) ==
    /\ Move /\ result' = [IdleResult(result.version + 1) EXCEPT !.has = has]
    /\ jobs' = Cancelled(jobs)
    /\ UNCHANGED <<box, compose, chain, pack, fetched>>

\* noteInputChanged, and the wiper: the undo's original goes with an edit.
Noted(c, text) ==
    IF c.written # NoText /\ text # c.written
    THEN [c EXCEPT !.original = NoText, !.written = NoText, !.canUndo = FALSE, !.status = IF @ = "done" THEN "idle" ELSE @] ELSE c
Edit ==
    /\ Move
    /\ \E t \in {Typed(box.n + 1), NoText} : box' = [box EXCEPT !.text = t, !.n = @ + 1] /\ compose' = Noted(compose, t)
    /\ UNCHANGED <<result, jobs, chain, pack, fetched>>
Settled(status) == IF Busy(status) THEN "idle" ELSE status
\* The mode, a file, a private key: the box stops composing, or starts again.
SwitchMode ==
    /\ Move /\ box' = [box EXCEPT !.edits = ~@]
    /\ compose' = IF box.edits THEN [compose EXCEPT !.run = 0, !.status = Settled(@)] ELSE compose
    /\ jobs' = IF box.edits THEN Aborted(compose.run, jobs) ELSE jobs
    /\ UNCHANGED <<result, chain, pack, fetched>>
\* wipePlaintext and the unmount that follows it, then a new workspace.
LockWhile ==
    /\ Move /\ result' = IdleResult(result.version + 1) /\ compose' = IdleCompose
    /\ box' = [box EXCEPT !.text = NoText]
    /\ jobs' = Aborted(compose.run, Aborted(result.run, jobs))
    /\ UNCHANGED <<chain, pack, fetched>>
----------------------------------------------------------------------------
(* The clicks.                                                             *)

Begun(of, text) == Append(jobs, [of |-> of, text |-> text, at |-> "start", live |-> TRUE, checked |-> FALSE])
\* A button that waits while busy, and a palette entry that starts over.
TranslateResult ==
    /\ Len(jobs) < MaxRuns /\ result.has /\ result.translation = NoText
    /\ result.status \notin {"unavailable", "same-language"}
    /\ jobs' = Aborted(result.run, Begun("result", Typed(result.version))) /\ result' = [result EXCEPT !.status = "working", !.run = Len(jobs) + 1]
    /\ UNCHANGED <<box, compose, chain, pack, fetched, moves>>
ShowOriginal ==
    /\ result.translation # NoText /\ result' = [result EXCEPT !.showing = ~@]
    /\ UNCHANGED <<box, compose, jobs, chain, pack, fetched, moves>>
TranslateBox ==
    /\ Len(jobs) < MaxRuns /\ box.edits /\ box.text # NoText /\ compose.status # "unavailable"
    /\ jobs' = Aborted(compose.run, Begun("box", box.text))
    /\ compose' = [compose EXCEPT !.status = "working", !.run = Len(jobs) + 1]
    /\ UNCHANGED <<result, box, chain, pack, fetched, moves>>
\* The menu's entry, or the toast's button, which stays while the text is edited.
UndoTranslation ==
    /\ \E i \in DOMAIN jobs : jobs[i].of = "box" /\ jobs[i].at = "end"
    /\ compose' = [compose EXCEPT !.original = NoText, !.written = compose.original, !.canUndo = FALSE, !.status = "idle"]
    /\ box' = IF compose.original # NoText THEN [box EXCEPT !.text = compose.original] ELSE box
    /\ UNCHANGED <<result, jobs, chain, pack, fetched, moves>>
----------------------------------------------------------------------------
(* A run.  An aborted one goes on to its next await and ends in silence.   *)

Says(i, status) ==
    IF jobs[i].of = "result" THEN result' = [result EXCEPT !.status = status] /\ UNCHANGED compose
    ELSE compose' = [compose EXCEPT !.status = status] /\ UNCHANGED result
At(i, at) == jobs' = [jobs EXCEPT ![i].at = at]
Drops(i) == At(i, "end") /\ UNCHANGED <<result, compose>>
FailsAs(i, status) == At(i, "end") /\ Says(i, status)
Continue(i, at, status) == IF jobs[i].live THEN At(i, at) /\ Says(i, status) ELSE Drops(i)
Here(i, at) == i \in DOMAIN jobs /\ jobs[i].at = at
\* detectSource, for a result: the shared detector first.
EnsureDetector(i) ==
    /\ Here(i, "start") /\ jobs[i].of = "result"
    /\ \/ \E s \in {"working", "downloading"} : Continue(i, "detecting", s)
       \/ jobs[i].live /\ FailsAs(i, "unavailable")
    /\ UNCHANGED <<box, chain, pack, fetched, moves>>
\* detectLanguage: too short and not sure are the same.
Detections == {"detected", "same-language", "uncertain", "unavailable"}
\* The composer knows its language.
KnownLanguage == {"detected", "same-language"}
Detect(i) ==
    /\ IF jobs[i].of = "result" THEN Here(i, "detecting") ELSE Here(i, "start")
    /\ \E d \in (IF jobs[i].of = "result" THEN Detections ELSE KnownLanguage) :
          IF d = "detected" THEN Continue(i, "detected", "working") ELSE jobs[i].live /\ FailsAs(i, d)
    /\ UNCHANGED <<box, chain, pack, fetched, moves>>
\* ensureLanguagePack
EnsurePack(i) ==
    /\ Here(i, "detected")
    /\ CASE ~jobs[i].live -> Drops(i) /\ UNCHANGED fetched
         [] jobs[i].live /\ pack = "unavailable" -> FailsAs(i, "unavailable") /\ UNCHANGED fetched
         [] jobs[i].live /\ pack = "available" -> At(i, "ready") /\ Says(i, "working") /\ UNCHANGED fetched
         [] OTHER -> At(i, "download") /\ Says(i, "downloading") /\ fetched' = fetched \cup {"ensure"}
    /\ UNCHANGED <<box, chain, pack, moves>>
Download(i) ==
    /\ Here(i, "download")
    /\ \/ Continue(i, "ready", "working") /\ pack' = (IF jobs[i].live THEN "available" ELSE pack)
       \/ (IF jobs[i].live THEN FailsAs(i, "error") ELSE Drops(i)) /\ UNCHANGED pack
    /\ UNCHANGED <<box, chain, fetched, moves>>
\* translateText: the pack must be there already; then the run waits its turn.
NeedsPack == pack # "available"
Check(i) ==
    /\ Here(i, "ready")
    /\ IF NeedsPack
       THEN (IF jobs[i].live THEN FailsAs(i, IF pack = "unavailable" THEN "unavailable" ELSE "error") ELSE Drops(i)) /\ UNCHANGED chain
       ELSE /\ jobs' = [jobs EXCEPT ![i].at = "queued", ![i].checked = (pack = "available")]
            /\ chain' = Append(chain, i) /\ UNCHANGED <<result, compose>>
    /\ UNCHANGED <<box, pack, fetched, moves>>
\* Its turn: a session, which holds the text until it is destroyed.
Turn(i) ==
    /\ Here(i, "queued") /\ chain[1] = i
    /\ IF jobs[i].live
       THEN At(i, "session") /\ UNCHANGED chain /\ fetched' = (IF pack = "available" THEN fetched ELSE fetched \cup {IF jobs[i].checked THEN "evicted" ELSE "silently"})
       ELSE At(i, "end") /\ chain' = Tail(chain) /\ UNCHANGED fetched
    /\ UNCHANGED <<result, box, compose, pack, moves>>
Leaves(i) == Tail(chain)
Overwrites(i) == TRUE  \* mutant
StillReads(i) == box.text = jobs[i].text
Translated(i) ==
    /\ Here(i, "session") /\ At(i, "end") /\ chain' = Leaves(i)
    /\ IF ~jobs[i].live THEN UNCHANGED <<result, compose, box>>
       ELSE IF jobs[i].of = "result"
       THEN result' = [result EXCEPT !.status = "done", !.translation = Output(i), !.showing = TRUE] /\ UNCHANGED <<compose, box>>
       ELSE /\ UNCHANGED result
            /\ IF StillReads(i)
               THEN /\ compose' = [compose EXCEPT !.status = "done", !.original = jobs[i].text, !.written = Output(i), !.canUndo = TRUE]
                    /\ box' = [box EXCEPT !.text = Output(i)]
               ELSE compose' = [compose EXCEPT !.status = "done"] /\ UNCHANGED box
    /\ UNCHANGED <<pack, fetched, moves>>
SessionFails(i) ==
    /\ Here(i, "session") /\ chain' = Leaves(i)
    /\ IF jobs[i].live THEN FailsAs(i, "error") ELSE Drops(i)
    /\ UNCHANGED <<box, pack, fetched, moves>>
\* Chrome drops the pack.
Evict ==
    /\ Move /\ pack = "available" /\ pack' = "downloadable"
    /\ UNCHANGED <<result, box, compose, jobs, chain, fetched>>

RunStep(i) == EnsureDetector(i) \/ (i \in DOMAIN jobs /\ Detect(i)) \/ EnsurePack(i) \/ Download(i) \/ Check(i) \/ Turn(i) \/ Translated(i) \/ SessionFails(i)
translateNext ==
    \/ \E has \in BOOLEAN : NewResult(has)
    \/ Edit \/ SwitchMode \/ LockWhile \/ TranslateResult \/ ShowOriginal \/ TranslateBox \/ UndoTranslation \/ Evict
    \/ \E i \in 1..MaxRuns : RunStep(i)
\* Models answer or fail, and promises that resolved run on.
TranslateFairness == \A i \in 1..MaxRuns : WF_translateVars(RunStep(i))
translateSpec == translateInit /\ [][translateNext]_translateVars /\ TranslateFairness
----------------------------------------------------------------------------
Status == {"idle", "working", "downloading", "done", "same-language", "uncertain", "unavailable", "error"}
translateTypeOK ==
    /\ result.status \in Status /\ compose.status \in Status /\ result.run \in 0..MaxRuns /\ compose.run \in 0..MaxRuns
    /\ \A i \in DOMAIN chain : chain[i] \in DOMAIN jobs /\ jobs[chain[i]].at \in {"queued", "session"}
    /\ fetched \subseteq {"ensure", "evicted", "silently"} /\ moves \in 0..MaxMoves

(* What is on the screen as a translation is one of the result on the       *)
(* screen: not of an earlier result, nor of one wiped by a lock.            *)
TranslationIsOfTheResult ==
    result.showing => result.translation # NoText /\ jobs[result.translation.by].text = Typed(result.version)

(* A translation replaces only the text it was made from, and what UndoTranslation     *)
(* puts back is that text; once it is edited the original is not kept.      *)
NothingTypedIsLost ==
    [][(\E i \in 1..MaxRuns : Translated(i)) /\ box' # box => box.text = jobs[box'.text.by].text /\ compose'.original = box.text]_translateVars
UndoIsOfThisText ==
    compose.original # NoText => compose.canUndo /\ box.text.by # 0 /\ jobs[box.text.by].text = compose.original

(* The button is not left disabled: a status of work in progress belongs to *)
(* a run that will report.                                                  *)
WorkingHasARun ==
    /\ Busy(result.status) => result.run # 0 /\ jobs[result.run].live /\ jobs[result.run].at # "end"
    /\ Busy(compose.status) => compose.run # 0 /\ jobs[compose.run].live /\ jobs[compose.run].at # "end"

(* A pack is fetched by the step that shows its progress, never by the      *)
(* translation itself, but for one dropped while the run waited its turn    *)
(* (translate.ts:7-11 says never).                                          *)
DownloadsAreShown == "silently" \notin fetched

(* Every run ends, whatever the jobs before it in the chain did: one that   *)
(* fails or is aborted does not block the chain.                            *)
Unfinished(i) == i \in DOMAIN jobs /\ jobs[i].at # "end"
RunsEnd == \A i \in 1..MaxRuns : Unfinished(i) ~> ~Unfinished(i)

(* What translation promises (useTranslation.ts, useComposeTranslation.ts,  *)
(* translate.ts): a translation shown is of the result shown, what was      *)
(* typed meanwhile stays, Undo restores what the translation replaced,      *)
(* "working" has a run behind it, and a download is shown.                  *)
TranslationsAreTrue ==
    /\ [](translateTypeOK /\ TranslationIsOfTheResult /\ UndoIsOfThisText /\ WorkingHasARun /\ DownloadsAreShown)
    /\ NothingTypedIsLost
=============================================================================
