--------------------------- MODULE WorkspaceProofs ---------------------------
(***************************************************************************)
(* What the workspace shows and whom it seals to, for any number of runs,  *)
(* keys and contacts.                                                      *)
(*                                                                         *)
(* A result is over its input because of two facts that hold together: an  *)
(* event of the reducer that moves the input either says so (staged), which*)
(* makes every run under way stale, or leaves the mode, the files and the  *)
(* text as they were; and a run that is still fresh, and that no key prompt*)
(* took up again, is over the mode and the files of now, and in the engine *)
(* over the text of now.  A message is sealed to the chosen keys because   *)
(* every contact is of one engine, a record stands under the id of its     *)
(* chip, and the first chip that stands for anything decides the engine.   *)
(* The find bar and the styles of the message box come after.              *)
(***************************************************************************)
EXTENDS MCWorkspace, FiniteSetTheorems, SequenceTheorems, WellFoundedInduction, TLAPS

FileSlots == [FileName -> Copy \cup {0}]
Phases == {"scanning", "ceremony", "unlocking", "engine"}
Results == {NoResult} \cup [mode : Mode, files : FileSlots, text : Text, tone : {"none", "success", "warning"}, resumed : BOOLEAN]
WsState ==
    [mode : Mode, text : Text, files : FileSlots, to : {"none", "pgp", "age"}, pw : BOOLEAN,
     run : {"idle", "running", "done", "error", "held-back", "hidden-chars"},
     result : Results, prompt : {"none", "key", "message"}, arm : {"none"} \cup Mode, zip : BOOLEAN,
     shape : {"unknown", "keys", "password", "clear"}, confirmed : BOOLEAN, carried : BOOLEAN, staged : BOOLEAN]
RunOf(phases) ==
    [phase : phases, mode : Mode, files : FileSlots, unattended : BOOLEAN, capped : BOOLEAN, to : {"none", "pgp", "age"},
     pw : BOOLEAN, confirmed : BOOLEAN, hasText : BOOLEAN, resumed : BOOLEAN, fresh : BOOLEAN, text : Text]
Runs == [RunSlot -> {Idle} \cup RunOf(Phases)]
Undoes == [text : Text \cup {"gone"}, files : FileSlots, to : {"none", "pgp", "age"}]
Drafts == {NoDraft} \cup [mode : Mode, text : Text, to : {"none", "pgp", "age"}]

(* The events of the reducer: what they may do to the input and the result. *)

SameInput(s, t) == t.mode = s.mode /\ t.text = s.text /\ t.files = s.files /\ (s.confirmed => t.confirmed)
Touch(s, t) ==
    /\ t \in WsState /\ (s.staged => t.staged) /\ (~t.staged => SameInput(s, t))
    /\ t.result = s.result /\ (s.carried => t.carried) /\ t.run = s.run /\ t.prompt = s.prompt
Event(s, t) ==
    /\ t \in WsState /\ (~t.staged => SameInput(s, t))
    /\ t.result \in {NoResult, s.result}
    /\ t.result # NoResult => t.carried \/ (~t.staged /\ (s.carried => t.carried))
    /\ (t.run = "running" => s.run = "running")
    /\ t.prompt \in {"none", s.prompt}

LEMMA NothingIsFiles == Nothing \in FileSlots
BY DEF Nothing, FileSlots, FileName

LEMMA TouchNothing ==
  ASSUME NEW s \in WsState PROVE Touch(s, s)
BY DEF Touch, SameInput
LEMMA TouchTwice ==
  ASSUME NEW s, NEW t, NEW u, Touch(s, t), Touch(t, u) PROVE Touch(s, u)
BY DEF Touch, SameInput
LEMMA TouchText ==
  ASSUME NEW s \in WsState, NEW text \in Text
  PROVE  Touch(s, WithText(s, text)) /\ WithText(s, text).staged
<1> DEFINE t == [s EXCEPT !.text = text, !.staged = TRUE, !.confirmed = FALSE, !.shape = "unknown"]
<1>1. t \in WsState /\ t.staged
  BY DEF WsState
<1>2. t.result = s.result /\ t.carried = s.carried /\ t.run = s.run /\ t.prompt = s.prompt
  BY DEF WsState
<1> QED
  BY <1>1, <1>2 DEF Touch, WithText
LEMMA TouchFiles ==
  ASSUME NEW s \in WsState, NEW files \in FileSlots
  PROVE  Touch(s, WithFiles(s, files)) /\ WithFiles(s, files).staged
<1> DEFINE t == [s EXCEPT !.files = files, !.staged = TRUE, !.shape = "unknown", !.zip = s.zip /\ OneZip(files)]
<1>1. t \in WsState /\ t.staged
  BY DEF WsState
<1>2. t.result = s.result /\ t.carried = s.carried /\ t.run = s.run /\ t.prompt = s.prompt
  BY DEF WsState
<1> QED
  BY <1>1, <1>2 DEF Touch, WithFiles
LEMMA TouchMode ==
  ASSUME NEW s \in WsState, NEW mode \in Mode
  PROVE  Touch(s, WithMode(s, mode))
<1>1. CASE mode = s.mode
  BY <1>1, TouchNothing DEF WithMode
<1>2. CASE mode # s.mode
  <2> DEFINE t == [s EXCEPT !.mode = mode, !.staged = TRUE]
  <2>1. t \in WsState /\ t.staged
    BY DEF WsState
  <2>2. t.result = s.result /\ t.carried = s.carried /\ t.run = s.run /\ t.prompt = s.prompt
    BY DEF WsState
  <2> QED
    BY <2>1, <2>2, <1>2 DEF Touch, WithMode
<1> QED
  BY <1>1, <1>2
\* Whom it goes to, and what runs by itself, are no input a result is over.
LEMMA TouchAddress ==
  ASSUME NEW s \in WsState, NEW to \in {"none", "pgp", "age"}, NEW arm \in {"none"} \cup Mode
  PROVE  /\ Touch(s, [s EXCEPT !.to = to]) /\ Touch(s, [s EXCEPT !.arm = arm])
         /\ Touch(s, [s EXCEPT !.to = to, !.arm = arm])
<1>1. Touch(s, [s EXCEPT !.to = to])
  BY DEF Touch, SameInput, WsState
<1>2. Touch(s, [s EXCEPT !.arm = arm])
  BY DEF Touch, SameInput, WsState
<1>3. Touch(s, [s EXCEPT !.to = to, !.arm = arm])
  BY DEF Touch, SameInput, WsState
<1> QED
  BY <1>1, <1>2, <1>3
LEMMA TouchOptions ==
  ASSUME NEW s \in WsState, NEW on \in BOOLEAN, NEW shape \in {"unknown", "keys", "password", "clear"}
  PROVE  Touch(s, [s EXCEPT !.pw = on]) /\ Touch(s, [s EXCEPT !.zip = on]) /\ Touch(s, [s EXCEPT !.shape = shape])
<1>1. Touch(s, [s EXCEPT !.pw = on])
  BY DEF Touch, SameInput, WsState
<1>2. Touch(s, [s EXCEPT !.zip = on])
  BY DEF Touch, SameInput, WsState
<1>3. Touch(s, [s EXCEPT !.shape = shape])
  BY DEF Touch, SameInput, WsState
<1> QED
  BY <1>1, <1>2, <1>3

LEMMA EventTouch ==
  ASSUME NEW s \in WsState, NEW t, Touch(s, t)
  PROVE  t.staged \/ Event(s, t)
BY DEF Touch, Event, WsState
LEMMA EventReset ==
  ASSUME NEW s \in WsState, NEW t, Touch(s, t)
  PROVE  Event(s, ResetResults(t)) /\ ResetResults(t).staged = t.staged /\ ResetResults(t).result = NoResult
<1>1. t \in WsState
  BY DEF Touch
<1>2. ResetResults(t) \in WsState
  <2> DEFINE run == IF t.run = "running" THEN "running" ELSE "idle"
  <2>1. ResetResults(t) = [t EXCEPT !.run = run, !.result = NoResult, !.prompt = "none", !.carried = FALSE]
    BY DEF ResetResults
  <2>2. run \in {"idle", "running"} /\ NoResult \in Results
    BY DEF Results
  <2> HIDE DEF run
  <2> QED
    BY <1>1, <2>1, <2>2 DEF WsState
<1>3. ResetResults(t).result = NoResult /\ ResetResults(t).prompt = "none" /\ (ResetResults(t).run = "running" => t.run = "running") /\ ResetResults(t).staged = t.staged
  BY <1>1 DEF ResetResults, WsState
<1>4. SameInput(t, ResetResults(t))
  BY <1>1 DEF ResetResults, WsState, SameInput
<1> QED
  BY <1>2, <1>3, <1>4 DEF Touch, Event, SameInput
LEMMA EventCarried ==
  ASSUME NEW s \in WsState, NEW t, Touch(s, t)
  PROVE  Event(s, Carried(t))
<1>1. t \in WsState
  BY DEF Touch
<1>2. Carried(t) \in WsState
  BY <1>1 DEF Carried, WsState
<1>3. Carried(t).result = t.result /\ Carried(t).prompt = t.prompt /\ Carried(t).run = t.run /\ Carried(t).staged = t.staged /\ (Carried(t).result # NoResult => Carried(t).carried)
  BY <1>1 DEF Carried, WsState
<1>4. SameInput(t, Carried(t))
  BY <1>1 DEF Carried, WsState, SameInput
<1> QED
  BY <1>2, <1>3, <1>4 DEF Touch, Event, SameInput
LEMMA EventAddress ==
  ASSUME NEW s \in WsState, NEW t, Event(s, t), NEW to \in {"none", "pgp", "age"}, NEW arm \in {"none"} \cup Mode
  PROVE  Event(s, [t EXCEPT !.to = to]) /\ Event(s, [t EXCEPT !.arm = arm])
<1>1. t \in WsState
  BY DEF Event
<1>2. \A u : Touch(t, u) /\ (u.staged => t.staged) => Event(s, u)
  BY DEF Touch, Event, SameInput
<1>3. ([t EXCEPT !.to = to].staged => t.staged) /\ ([t EXCEPT !.arm = arm].staged => t.staged)
  BY <1>1 DEF WsState
<1> QED
  BY <1>1, <1>2, <1>3, TouchAddress

LEMMA NudgeIsAMode == ASSUME NEW text \in Text, NEW mode \in Mode PROVE Nudge(text, mode) \in Mode
BY DEF Nudge, Armor, Mode, Text

LEMMA EditedIsAnEvent ==
  ASSUME NEW s \in WsState, NEW text \in Text
  PROVE  Event(s, Edited(s, text))
<1> DEFINE next == IF s.mode = "encrypt" THEN s ELSE WithFiles(s, Nothing)
<1> DEFINE mode == IF Armor(text) # Armor(s.text) THEN Nudge(text, s.mode) ELSE s.mode
<1>1. Touch(s, next)
  BY TouchNothing, TouchFiles, NothingIsFiles
<1>2. mode \in Mode
  BY NudgeIsAMode DEF WsState
<1>3. next \in WsState /\ Touch(next, WithText(next, text))
  BY <1>1, TouchText DEF Touch
<1>4. WithText(next, text) \in WsState /\ Touch(WithText(next, text), WithMode(WithText(next, text), mode))
  <2>1. WithText(next, text) \in WsState
    BY <1>3 DEF Touch
  <2> HIDE DEF next, mode
  <2> QED
    BY <2>1, <1>2, TouchMode
<1>5. Touch(WithMode(WithText(next, text), mode), [WithMode(WithText(next, text), mode) EXCEPT !.arm = "none"])
  <2>1. WithMode(WithText(next, text), mode) \in WsState
    BY <1>4 DEF Touch
  <2> HIDE DEF next, mode
  <2> QED
    BY <2>1, TouchAddress
<1>6. Touch(s, [WithMode(WithText(next, text), mode) EXCEPT !.arm = "none"])
  <2> HIDE DEF next, mode
  <2> QED
    BY <1>1, <1>3, <1>4, <1>5, TouchTwice
<1> HIDE DEF next, mode
<1>7. Event(s, ResetResults([WithMode(WithText(next, text), mode) EXCEPT !.arm = "none"]))
  BY <1>6, EventReset
<1> QED
  BY <1>7 DEF Edited, next, mode

LEMMA ResetAllIsAnEvent ==
  ASSUME NEW s \in WsState, NEW t, Touch(s, t)
  PROVE  Event(s, ResetAll(t)) /\ ResetAll(t).result = NoResult
<1> DEFINE u == WithFiles(WithText(t, "none"), Nothing)
<1>1. t \in WsState /\ "none" \in Text
  BY DEF Touch, Text
<1>2. Touch(t, WithText(t, "none")) /\ WithText(t, "none") \in WsState
  BY <1>1, TouchText DEF Touch
<1>3. Touch(WithText(t, "none"), u) /\ u \in WsState
  BY <1>2, TouchFiles, NothingIsFiles DEF Touch
<1>4. Touch(u, [u EXCEPT !.to = "none", !.arm = "none"])
  <2> HIDE DEF u
  <2> QED
    BY <1>3, TouchAddress
<1>5. Touch(s, [u EXCEPT !.to = "none", !.arm = "none"])
  <2> HIDE DEF u
  <2> QED
    BY <1>2, <1>3, <1>4, TouchTwice
<1> HIDE DEF u
<1>6. Event(s, ResetResults([u EXCEPT !.to = "none", !.arm = "none"])) /\ ResetResults([u EXCEPT !.to = "none", !.arm = "none"]).result = NoResult
  BY <1>5, EventReset
<1> QED
  BY <1>6 DEF ResetAll, u

LEMMA ModePickedIsAnEvent ==
  ASSUME NEW s \in WsState, NEW mode \in Mode
  PROVE  Event(s, ModePicked(s, mode))
BY TouchMode, ResetAllIsAnEvent, EventReset DEF ModePicked

LEMMA OpenedIsAnEvent ==
  ASSUME NEW s \in WsState, NEW mode \in Mode, NEW text \in Text
  PROVE  Event(s, Opened(s, mode, text))
<1>1. Touch(s, WithMode(s, mode)) /\ WithMode(s, mode) \in WsState
  BY TouchMode DEF Touch
<1>2. CASE text = "none"
  BY <1>1, <1>2, EventCarried DEF Opened
<1>3. CASE text # "none"
  <2> DEFINE a == WithText(WithMode(s, mode), text)
  <2> DEFINE arm == IF mode \in {"decrypt", "verify"} THEN mode ELSE "none"
  <2>1. Touch(WithMode(s, mode), a) /\ a \in WsState
    BY <1>1, TouchText DEF Touch
  <2>2. Touch(a, WithFiles(a, Nothing)) /\ WithFiles(a, Nothing) \in WsState
    <3> HIDE DEF a
    <3> QED
      BY <2>1, TouchFiles, NothingIsFiles DEF Touch
  <2>3. arm \in {"none"} \cup Mode
    OBVIOUS
  <2>4. Touch(WithFiles(a, Nothing), [WithFiles(a, Nothing) EXCEPT !.arm = arm])
    <3> HIDE DEF a, arm
    <3> QED
      BY <2>2, <2>3, TouchAddress
  <2>5. Event(s, ResetResults([WithFiles(a, Nothing) EXCEPT !.arm = arm]))
    <3> HIDE DEF a, arm
    <3> QED
      BY <1>1, <2>1, <2>2, <2>4, TouchTwice, EventReset
  <2> QED
    BY <1>3, <2>5 DEF Opened
<1> QED
  BY <1>2, <1>3

LEMMA DroppedIsAnEvent ==
  ASSUME NEW s \in WsState, NEW name \in FileName, NEW copy \in Copy, NEW oversized \in BOOLEAN
  PROVE  Event(s, Dropped(s, name, copy, oversized))
<1> DEFINE a == WithFiles(s, [s.files EXCEPT ![name] = copy])
<1> DEFINE b == IF s.mode # "encrypt" \/ name = "gpg" THEN WithText(a, "none") ELSE a
<1> DEFINE c == IF name = "gpg" /\ s.mode = "encrypt" THEN WithMode(b, "decrypt") ELSE b
<1>1. [s.files EXCEPT ![name] = copy] \in FileSlots
  BY DEF WsState, FileSlots
<1>2. Touch(s, a) /\ a \in WsState
  BY <1>1, TouchFiles DEF Touch
<1>3. Touch(a, b) /\ b \in WsState
  <2>1. "none" \in Text
    BY DEF Text
  <2> HIDE DEF a
  <2> QED
    BY <1>2, <2>1, TouchText, TouchNothing DEF Touch
<1>4. Touch(b, c)
  <2>1. "decrypt" \in Mode
    BY DEF Mode
  <2> HIDE DEF b
  <2> QED
    BY <1>3, <2>1, TouchMode, TouchNothing
<1>5. Event(s, ResetResults(c))
  <2> HIDE DEF a, b, c
  <2> QED
    BY <1>2, <1>3, <1>4, TouchTwice, EventReset
<1>6. Dropped(s, name, copy, oversized) = [ResetResults(c) EXCEPT !.run = IF oversized THEN "error" ELSE @]
  BY DEF Dropped
<1> HIDE DEF a, b, c
<1>7. ASSUME NEW t, Event(s, t) PROVE Event(s, [t EXCEPT !.run = IF oversized THEN "error" ELSE @])
  <2>1. CASE oversized
    <3> DEFINE u == [t EXCEPT !.run = "error"]
    <3>1. u \in WsState
      BY <1>7 DEF Event, WsState
    <3>2. u.result = t.result /\ u.carried = t.carried /\ u.staged = t.staged /\ u.prompt = t.prompt /\ u.run = "error"
      BY <1>7 DEF Event, WsState
    <3>3. SameInput(t, u)
      BY <1>7 DEF Event, WsState, SameInput
    <3>4. Event(s, u)
      <4> HIDE DEF u
      <4> QED
        BY <1>7, <3>1, <3>2, <3>3 DEF Event, SameInput
    <3> QED
      BY <2>1, <3>4
  <2>2. CASE ~oversized
    <3>1. [t EXCEPT !.run = t.run] = t
      BY <1>7 DEF Event, WsState
    <3> QED
      BY <2>2, <3>1, <1>7
  <2> QED
    BY <2>1, <2>2
<1> QED
  BY <1>5, <1>6, <1>7

LEMMA UndoneIsAnEvent ==
  ASSUME NEW s \in WsState, NEW text \in Text, NEW files \in FileSlots, NEW mode \in Mode, NEW to \in {"none", "pgp", "age"}
  PROVE  /\ Event(s, [Carried(WithMode(WithFiles(WithText(s, text), files), mode)) EXCEPT !.to = to])
         /\ Event(s, [Carried(WithMode(WithText(s, text), mode)) EXCEPT !.to = to])
         /\ Event(s, [Carried(WithMode(s, mode)) EXCEPT !.to = to])
         /\ Event(s, Carried(WithMode(s, mode)))
<1> DEFINE a == WithText(s, text)
<1> DEFINE b == WithFiles(a, files)
<1>1. Touch(s, a) /\ a \in WsState
  BY TouchText DEF Touch
<1>2. Touch(a, b) /\ b \in WsState
  <2> HIDE DEF a
  <2> QED
    BY <1>1, TouchFiles DEF Touch
<1>3. Touch(s, WithMode(b, mode)) /\ Touch(s, WithMode(a, mode)) /\ Touch(s, WithMode(s, mode))
  <2> HIDE DEF a, b
  <2> QED
    BY <1>1, <1>2, TouchTwice, TouchMode
<1> HIDE DEF a, b
<1>4. Event(s, Carried(WithMode(b, mode))) /\ Event(s, Carried(WithMode(a, mode))) /\ Event(s, Carried(WithMode(s, mode)))
  BY <1>3, EventCarried
<1>5. Event(s, [Carried(WithMode(b, mode)) EXCEPT !.to = to])
  BY <1>4, EventAddress
<1>6. Event(s, [Carried(WithMode(a, mode)) EXCEPT !.to = to])
  BY <1>4, EventAddress
<1>7. Event(s, [Carried(WithMode(s, mode)) EXCEPT !.to = to])
  BY <1>4, EventAddress
<1> QED
  BY <1>4, <1>5, <1>6, <1>7 DEF a, b

-----------------------------------------------------------------------------
(* The inductive invariant.                                                 *)

WsTyped ==
    /\ ws \in WsState /\ ~ws.staged /\ runs \in Runs
    /\ shelf \in [undo : Undoes, draft : Drafts] /\ record.saved \in {"nothing", "attended"}
\* A run that is fresh, and was not taken up again, is over the input as it is.
RunsAreOver ==
    \A r \in RunSlot : (runs[r].phase # "idle" /\ runs[r].fresh /\ ~runs[r].resumed) =>
        runs[r].mode = ws.mode /\ runs[r].files = ws.files /\ (runs[r].confirmed => ws.confirmed)
\* What the engine was given is the text of the box while the run is fresh.
EngineReadTheText == \A r \in RunSlot : (runs[r].phase = "engine" /\ runs[r].fresh) => runs[r].text = ws.text
\* Hidden characters were confirmed before the key was asked for.
HiddenAreHeld ==
    \A r \in RunSlot :
        (/\ runs[r].phase \in {"ceremony", "engine"} /\ runs[r].fresh /\ ~runs[r].resumed
         /\ runs[r].mode = "sign" /\ Count(runs[r].files) = 0 /\ ws.text = "hidden") => ws.confirmed
\* Only a run somebody started waits for a key.
NobodyIsAsked == \A r \in RunSlot : runs[r].phase \in {"ceremony", "unlocking"} => ~runs[r].unattended

RunsAreRight == RunsAreOver /\ EngineReadTheText /\ HiddenAreHeld /\ NobodyIsAsked
ShownIsRight == ResultsAreOverTheirInput /\ HiddenCharsAreConfirmed /\ WorkingMeansRunning
WsIInv == WsTyped /\ RunsAreRight /\ ShownIsRight

\* What a step may do: nobody is asked, and what is shown newly was recorded.
StepIsQuiet ==
    /\ \A r \in RunSlot : /\ runs'[r].phase = "ceremony" => ~runs'[r].unattended
                          /\ runs[r].phase = "scanning" /\ runs[r].unattended /\ runs'[r] # runs[r]
                                  => ws'.prompt \in {"none", ws.prompt}
    /\ ws'.result # ws.result /\ ws'.result # NoResult /\ ws'.result.mode \in {"encrypt", "sign"}
            => record'.entry = "what was made"

LEMMA EmptyIsEmpty == Empty \in WsState /\ Empty.run = "idle" /\ ~Empty.staged /\ Empty.result = NoResult /\ Empty.prompt = "none"
<1>1. Nothing \in FileSlots
  BY NothingIsFiles
<1>2. NoResult \in Results /\ "encrypt" \in Mode /\ "none" \in Text
  BY DEF Results, Mode, Text
<1>3. Empty \in WsState
  <2> HIDE DEF NoResult, Nothing
  <2> QED
    BY <1>1, <1>2 DEF Empty, WsState
<1> QED
  BY <1>3 DEF Empty

LEMMA WsInit == wsInit => WsIInv
<1> SUFFICES ASSUME wsInit PROVE WsIInv
  OBVIOUS
<1>1. ws = Empty /\ \A r \in RunSlot : runs[r] = Idle
  BY DEF wsInit
<1>2. Empty \in WsState /\ Empty.run = "idle" /\ ~Empty.staged /\ Empty.result = NoResult
  BY EmptyIsEmpty
<1>3. WsTyped
  <2>1. shelf.undo \in Undoes /\ shelf.draft \in Drafts /\ shelf \in [undo : Undoes, draft : Drafts]
    <3>1. NoUndo \in Undoes /\ NoDraft \in Drafts
      BY NothingIsFiles DEF NoUndo, Undoes, Drafts
    <3> QED
      BY <3>1 DEF wsInit
  <2>2. runs \in Runs
    BY DEF wsInit, Runs
  <2> QED
    BY <1>1, <1>2, <2>1, <2>2 DEF wsInit, WsTyped
<1>4. RunsAreRight
  <2>1. \A r \in RunSlot : runs[r].phase = "idle"
    BY <1>1 DEF Idle
  <2> QED
    BY <2>1 DEF RunsAreRight, RunsAreOver, EngineReadTheText, HiddenAreHeld, NobodyIsAsked
<1>5. ShownIsRight
  BY <1>1, <1>2 DEF ShownIsRight, ResultsAreOverTheirInput, HiddenCharsAreConfirmed, WorkingMeansRunning, Loading
<1> QED
  BY <1>3, <1>4, <1>5 DEF WsIInv

\* An event: the runs under way keep all but their freshness.
LEMMA DispatchedRuns ==
  ASSUME runs \in Runs, NEW next \in WsState, Dispatch(next), NEW r \in RunSlot
  PROVE  /\ runs' \in Runs
         /\ runs[r].phase = "idle" => runs'[r] = Idle
         /\ runs'[r].phase = runs[r].phase
         /\ runs[r].phase # "idle" =>
              /\ runs'[r].mode = runs[r].mode /\ runs'[r].files = runs[r].files /\ runs'[r].text = runs[r].text
              /\ runs'[r].confirmed = runs[r].confirmed /\ runs'[r].resumed = runs[r].resumed
              /\ runs'[r].unattended = runs[r].unattended
              /\ (runs'[r].fresh => runs[r].fresh /\ ~next.staged)
<1> DEFINE q(x) == [runs[x] EXCEPT !.fresh = runs[x].fresh /\ ~next.staged]
<1>1. \A x \in RunSlot : runs'[x] = IF runs[x].phase = "idle" THEN Idle ELSE q(x)
  BY DEF Dispatch
<1>2. \A x \in RunSlot : runs[x] = Idle \/ runs[x] \in RunOf(Phases)
  BY DEF Runs
<1>3. Idle.phase = "idle"
  BY DEF Idle
<1>4. ASSUME NEW x \in RunSlot, runs[x].phase # "idle"
      PROVE  /\ q(x) \in RunOf(Phases) /\ q(x).phase = runs[x].phase
             /\ q(x).mode = runs[x].mode /\ q(x).files = runs[x].files /\ q(x).text = runs[x].text
             /\ q(x).confirmed = runs[x].confirmed /\ q(x).resumed = runs[x].resumed
             /\ q(x).unattended = runs[x].unattended
             /\ (q(x).fresh => runs[x].fresh /\ ~next.staged)
  <2>1. runs[x] \in RunOf(Phases)
    BY <1>2, <1>3, <1>4
  <2> QED
    BY <2>1 DEF RunOf
<1>5. runs' = [x \in RunSlot |-> runs'[x]]
  BY DEF Dispatch
<1> HIDE DEF q
<1>6. \A x \in RunSlot : runs'[x] \in {Idle} \cup RunOf(Phases)
  BY <1>1, <1>4
<1>7. runs' \in Runs
  BY <1>5, <1>6 DEF Runs
<1> QED
  BY <1>1, <1>3, <1>4, <1>7

LEMMA DispatchedState ==
  ASSUME NEW next \in WsState, Dispatch(next)
  PROVE  /\ ws' \in WsState /\ ~ws'.staged
         /\ ws'.mode = next.mode /\ ws'.text = next.text /\ ws'.files = next.files /\ ws'.confirmed = next.confirmed
         /\ ws'.result = next.result /\ ws'.carried = next.carried /\ ws'.run = next.run /\ ws'.prompt = next.prompt
<1>1. ws' = [next EXCEPT !.staged = FALSE]
  BY DEF Dispatch
<1> QED
  BY <1>1 DEF WsState

LEMMA EventKeeps ==
  ASSUME WsIInv, NEW next, Event(ws, next), Dispatch(next), UNCHANGED record
  PROVE  ws' \in WsState /\ ~ws'.staged /\ runs' \in Runs /\ RunsAreRight' /\ ShownIsRight' /\ StepIsQuiet
<1>1. next \in WsState /\ runs \in Runs
  BY DEF Event, WsIInv, WsTyped
<1>2. /\ ws' \in WsState /\ ~ws'.staged
      /\ ws'.mode = next.mode /\ ws'.text = next.text /\ ws'.files = next.files /\ ws'.confirmed = next.confirmed
      /\ ws'.result = next.result /\ ws'.carried = next.carried /\ ws'.run = next.run /\ ws'.prompt = next.prompt
  BY <1>1, DispatchedState
<1>3. ~next.staged => /\ ws'.mode = ws.mode /\ ws'.text = ws.text /\ ws'.files = ws.files
                      /\ (ws.confirmed => ws'.confirmed)
  BY <1>2 DEF Event, SameInput
<1>4. \A r \in RunSlot : runs'[r].phase = runs[r].phase
  BY <1>1, DispatchedRuns
<1>5. ASSUME NEW r \in RunSlot, runs[r].phase # "idle"
      PROVE  /\ runs'[r].mode = runs[r].mode /\ runs'[r].files = runs[r].files /\ runs'[r].text = runs[r].text
             /\ runs'[r].confirmed = runs[r].confirmed /\ runs'[r].resumed = runs[r].resumed
             /\ runs'[r].unattended = runs[r].unattended
             /\ (runs'[r].fresh => runs[r].fresh /\ ~next.staged)
  BY <1>1, <1>5, DispatchedRuns
<1>6. runs' \in Runs
  <2>1. \A r \in RunSlot : runs' \in Runs
    BY <1>1, DispatchedRuns
  <2>2. runs' = [x \in RunSlot |-> runs'[x]]
    BY DEF Dispatch
  <2> QED
    BY <2>1, <2>2 DEF Runs
<1>7. RunsAreRight'
  <2>1. RunsAreOver'
    BY <1>3, <1>4, <1>5 DEF WsIInv, RunsAreRight, RunsAreOver
  <2>2. EngineReadTheText'
    BY <1>3, <1>4, <1>5 DEF WsIInv, RunsAreRight, EngineReadTheText
  <2>3. HiddenAreHeld'
    BY <1>3, <1>4, <1>5 DEF WsIInv, RunsAreRight, HiddenAreHeld
  <2>4. NobodyIsAsked'
    BY <1>4, <1>5 DEF WsIInv, RunsAreRight, NobodyIsAsked
  <2> QED
    BY <2>1, <2>2, <2>3, <2>4 DEF RunsAreRight
<1>8. ShownIsRight'
  <2>1. /\ next.result \in {NoResult, ws.result}
        /\ next.result # NoResult => next.carried \/ (~next.staged /\ (ws.carried => next.carried))
        /\ (next.run = "running" => ws.run = "running")
    BY DEF Event
  <2>2. ResultsAreOverTheirInput'
    BY <1>2, <1>3, <2>1 DEF WsIInv, ShownIsRight, ResultsAreOverTheirInput, IsOver
  <2>3. HiddenCharsAreConfirmed'
    BY <1>2, <1>3, <2>1 DEF WsIInv, ShownIsRight, HiddenCharsAreConfirmed
  <2>4. WorkingMeansRunning'
    BY <1>2, <1>4, <2>1 DEF WsIInv, ShownIsRight, WorkingMeansRunning, Loading
  <2> QED
    BY <2>2, <2>3, <2>4 DEF ShownIsRight
<1>9. StepIsQuiet
  <2>1. \A r \in RunSlot : runs'[r].phase = "ceremony" => ~runs'[r].unattended
    BY <1>4, <1>5 DEF WsIInv, RunsAreRight, NobodyIsAsked
  <2>2. ws'.prompt \in {"none", ws.prompt} /\ ws'.result \in {NoResult, ws.result}
    BY <1>2 DEF Event
  <2> QED
    BY <2>1, <2>2 DEF StepIsQuiet
<1> QED
  BY <1>2, <1>6, <1>7, <1>8, <1>9

\* Every change of the input, of the panel or of the user, is an event.
EventsOfThePanel ==
    \/ \E text \in Text : Type(text)
    \/ \E mode \in Mode : PickMode(mode)
    \/ \E name \in FileName, copy \in Copy, oversized \in BOOLEAN : DropFile(name, copy, oversized)
    \/ DropOversized
    \/ \E name \in FileName : RemoveFile(name)
    \/ \E to \in {"pgp", "age"} : PickRecipients(to)
    \/ Encryptable("pgp") \/ ModeReset
    \/ \E on \in BOOLEAN : SetPassword(on)
    \/ \E mode \in Mode, text \in {"none", "message", "signed"} : Open(mode, text)
    \/ ZipScanned
    \/ \E shape \in {"keys", "password", "clear"} : MessageScanned(shape)
    \/ Clear \/ Undo \/ Reset \/ Restore

LEMMA PanelEvents ==
  ASSUME WsIInv, EventsOfThePanel
  PROVE  /\ \E next : Event(ws, next) /\ Dispatch(next)
         /\ UNCHANGED record /\ shelf' \in [undo : Undoes, draft : Drafts]
<1> USE DEF WsIInv, WsTyped
<1>1. ws \in WsState /\ "encrypt" \in Mode /\ "sign" \in Mode /\ Touch(ws, ws)
  BY TouchNothing DEF Mode
<1>2. CASE \E text \in Text : Type(text)
  BY <1>1, <1>2, EditedIsAnEvent DEF Type
<1>3. CASE \E mode \in Mode : PickMode(mode)
  BY <1>1, <1>3, ModePickedIsAnEvent DEF PickMode
<1>4. CASE \E name \in FileName, copy \in Copy, oversized \in BOOLEAN : DropFile(name, copy, oversized)
  BY <1>1, <1>4, DroppedIsAnEvent DEF DropFile
<1>5. CASE DropOversized
  <2> DEFINE u == [ws EXCEPT !.run = "error"]
  <2>1. Event(ws, u)
    <3>1. u \in WsState
      BY <1>1 DEF WsState
    <3>2. u.result = ws.result /\ u.carried = ws.carried /\ ~u.staged /\ u.prompt = ws.prompt /\ u.run = "error"
      BY <1>1 DEF WsState
    <3>3. SameInput(ws, u)
      BY <1>1 DEF WsState, SameInput
    <3> HIDE DEF u
    <3> QED
      BY <3>1, <3>2, <3>3 DEF Event
  <2> QED
    BY <1>5, <2>1 DEF DropOversized
<1>6. CASE \E name \in FileName : RemoveFile(name)
  <2>1. PICK name \in FileName : RemoveFile(name)
    BY <1>6
  <2>2. [ws.files EXCEPT ![name] = 0] \in FileSlots
    BY <1>1 DEF WsState, FileSlots
  <2>3. Event(ws, ResetResults(WithFiles(ws, [ws.files EXCEPT ![name] = 0])))
    BY <1>1, <2>2, TouchFiles, EventReset
  <2> QED
    BY <2>1, <2>3 DEF RemoveFile
<1>7. CASE \E to \in {"pgp", "age"} : PickRecipients(to)
  <2>1. PICK to \in {"pgp", "age"} : PickRecipients(to)
    BY <1>7
  <2>2. Touch(ws, [ws EXCEPT !.to = to])
    BY <1>1, TouchAddress
  <2>3. Event(ws, ResetResults([ws EXCEPT !.to = to]))
    BY <1>1, <2>2, EventReset
  <2> QED
    BY <2>1, <2>3 DEF PickRecipients
<1>8. CASE Encryptable("pgp")
  <2>1. Event(ws, EncryptTo(ws, "pgp"))
    <3>1. "none" \in Text
      BY DEF Text
    <3> QED
      BY <1>1, <3>1, UndoneIsAnEvent, NothingIsFiles DEF EncryptTo
  <2> QED
    BY <1>8, <2>1 DEF Encryptable
<1>9. CASE ModeReset
  BY <1>1, <1>9, TouchMode, EventCarried DEF ModeReset
<1>10. CASE \E on \in BOOLEAN : SetPassword(on)
  <2>1. PICK on \in BOOLEAN : SetPassword(on)
    BY <1>10
  <2>2. Touch(ws, [ws EXCEPT !.pw = on])
    BY <1>1, TouchOptions
  <2>3. Event(ws, ResetResults([ws EXCEPT !.pw = on]))
    BY <1>1, <2>2, EventReset
  <2> QED
    BY <2>1, <2>3 DEF SetPassword
<1>11. CASE \E mode \in Mode, text \in {"none", "message", "signed"} : Open(mode, text)
  <2>1. {"none", "message", "signed"} \subseteq Text
    BY DEF Text
  <2> QED
    BY <1>1, <1>11, <2>1, OpenedIsAnEvent DEF Open
<1>12. CASE ZipScanned
  <2>1. Touch(ws, [ws EXCEPT !.zip = TRUE]) /\ [ws EXCEPT !.zip = TRUE] \in WsState
    BY <1>1, TouchOptions DEF Touch
  <2> DEFINE zip == Carried([ws EXCEPT !.zip = TRUE])
  <2>2. Event(ws, zip)
    BY <1>1, <2>1, EventCarried
  <2>3. Event(ws, WithMode(zip, "sign"))
    <3>1. Touch(zip, WithMode(zip, "sign")) /\ (WithMode(zip, "sign").staged => zip.staged \/ zip.mode # "sign")
      <4> HIDE DEF zip
      <4>1. Touch(zip, WithMode(zip, "sign"))
        BY <1>1, <2>2, TouchMode DEF Event
      <4>2. zip.mode = "sign" => WithMode(zip, "sign") = zip
        BY DEF WithMode
      <4> QED
        BY <4>1, <4>2
    <3>2. zip.result # NoResult => zip.carried
      BY <2>1 DEF Carried, WsState
    <3> HIDE DEF zip
    <3> QED
      BY <2>2, <3>1, <3>2 DEF Touch, Event, SameInput
  <2> QED
    BY <1>12, <2>2, <2>3 DEF ZipScanned
<1>13. CASE \E shape \in {"keys", "password", "clear"} : MessageScanned(shape)
  <2>1. PICK shape \in {"keys", "password", "clear"} : MessageScanned(shape)
    BY <1>13
  <2>2. Touch(ws, [ws EXCEPT !.shape = shape]) /\ ~[ws EXCEPT !.shape = shape].staged
    BY <1>1, TouchOptions DEF WsState
  <2>3. Event(ws, [ws EXCEPT !.shape = shape])
    BY <1>1, <2>2, EventTouch
  <2> QED
    BY <2>1, <2>3 DEF MessageScanned
<1>14. CASE Clear
  <2>1. Event(ws, ResetAll(ws))
    BY <1>1, ResetAllIsAnEvent
  <2>2. [text |-> ws.text, files |-> ws.files, to |-> ws.to] \in Undoes
    BY <1>1 DEF WsState, Undoes
  <2> QED
    BY <1>14, <2>1, <2>2 DEF Clear
<1>15. CASE Undo
  <2>1. shelf.undo.text \in Text /\ shelf.undo.files \in FileSlots /\ shelf.undo.to \in {"none", "pgp", "age"}
    BY <1>15 DEF Undo, Undoes
  <2>2. Nudge(shelf.undo.text, ws.mode) \in Mode
    BY <1>1, <2>1, NudgeIsAMode DEF WsState
  <2>3. Event(ws, [Carried(WithMode(WithFiles(WithText(ws, shelf.undo.text), shelf.undo.files), Nudge(shelf.undo.text, ws.mode))) EXCEPT !.to = shelf.undo.to])
    BY <1>1, <2>1, <2>2, UndoneIsAnEvent
  <2>4. [text |-> "gone", files |-> Nothing, to |-> "none"] \in Undoes
    BY NothingIsFiles DEF Undoes
  <2> QED
    BY <1>15, <2>3, <2>4 DEF Undo
<1>16. CASE Reset
  BY <1>1, <1>16, ResetAllIsAnEvent, EventReset DEF Reset
<1>17. CASE Restore
  <2>1. shelf.draft.mode \in Mode /\ shelf.draft.text \in Text /\ shelf.draft.to \in {"none", "pgp", "age"}
    BY <1>17 DEF Restore, Drafts
  <2>2. Event(ws, [Carried(WithMode(WithText(ws, shelf.draft.text), shelf.draft.mode)) EXCEPT !.to = shelf.draft.to])
    BY <1>1, <2>1, UndoneIsAnEvent, NothingIsFiles
  <2>3. NoDraft \in Drafts
    BY DEF Drafts
  <2> QED
    BY <1>17, <2>2, <2>3 DEF Restore
<1> QED
  BY <1>2, <1>3, <1>4, <1>5, <1>6, <1>7, <1>8, <1>9, <1>10, <1>11, <1>12, <1>13, <1>14, <1>15, <1>16, <1>17 DEF EventsOfThePanel

-----------------------------------------------------------------------------
(* The runs.                                                                *)

\* What a run may do to the workspace it does not end with a result over.
Stays(s, t) ==
    /\ t \in WsState /\ ~t.staged /\ SameInput(s, t)
    /\ t.result \in {NoResult, s.result} /\ (t.result # NoResult /\ s.carried => t.carried)
Contexts == RunOf(Phases \cup {"idle"})
Over(c, s) == (c.fresh /\ ~c.resumed) => c.mode = s.mode /\ c.files = s.files /\ (c.confirmed => s.confirmed)
HeldBack(c, s) ==
    (c.fresh /\ ~c.resumed /\ c.mode = "sign" /\ Count(c.files) = 0 /\ s.text = "hidden") => s.confirmed
RunIsRight(x, s) ==
    \/ x = Idle
    \/ /\ x \in RunOf(Phases) /\ Over(x, s)
       /\ x.phase = "engine" /\ x.fresh => x.text = s.text
       /\ x.phase \in {"ceremony", "engine"} => HeldBack(x, s)
       /\ x.phase \in {"ceremony", "unlocking"} => ~x.unattended

LEMMA StaysTwice ==
  ASSUME NEW s, NEW t, NEW u, Stays(s, t), Stays(t, u) PROVE Stays(s, u)
BY DEF Stays, SameInput
LEMMA StaysPut ==
  ASSUME NEW s \in WsState, ~s.staged PROVE Stays(s, s)
BY DEF Stays, SameInput

LEMMA RunsKnown ==
  ASSUME WsIInv, NEW r \in RunSlot
  PROVE  /\ runs[r] = Idle \/ runs[r] \in RunOf(Phases)
         /\ RunIsRight(runs[r], ws)
<1>1. runs[r] = Idle \/ (runs[r] \in RunOf(Phases) /\ runs[r].phase # "idle")
  BY DEF WsIInv, WsTyped, Runs, RunOf, Phases
<1> QED
  BY <1>1 DEF WsIInv, RunsAreRight, RunsAreOver, EngineReadTheText, HiddenAreHeld, NobodyIsAsked, RunIsRight, Over, HeldBack

LEMMA StillRight ==
  ASSUME NEW x, NEW s, NEW t, RunIsRight(x, s), SameInput(s, t) PROVE RunIsRight(x, t)
BY DEF RunIsRight, SameInput, Over, HeldBack

LEMMA RightTogether ==
  ASSUME runs' = [q \in RunSlot |-> runs'[q]], \A q \in RunSlot : RunIsRight(runs'[q], ws')
  PROVE  runs' \in Runs /\ RunsAreRight'
<1>1. runs' \in Runs
  <2>1. \A q \in RunSlot : runs'[q] \in {Idle} \cup RunOf(Phases)
    BY DEF RunIsRight
  <2> QED
    BY <2>1 DEF Runs
<1>2. \A q \in RunSlot : runs'[q].phase # "idle" =>
        /\ Over(runs'[q], ws')
        /\ runs'[q].phase = "engine" /\ runs'[q].fresh => runs'[q].text = ws'.text
        /\ runs'[q].phase \in {"ceremony", "engine"} => HeldBack(runs'[q], ws')
        /\ runs'[q].phase \in {"ceremony", "unlocking"} => ~runs'[q].unattended
  <2>1. Idle.phase = "idle"
    BY DEF Idle
  <2> QED
    BY <2>1 DEF RunIsRight
<1>3. RunsAreRight'
  BY <1>2 DEF RunsAreRight, RunsAreOver, EngineReadTheText, HiddenAreHeld, NobodyIsAsked, Over, HeldBack
<1> QED
  BY <1>1, <1>3

\* A step of one run that shows no new result.
LEMMA OneRun ==
  ASSUME WsIInv, NEW r \in RunSlot, NEW x, RunIsRight(x, ws'), runs' = [runs EXCEPT ![r] = x],
         Stays(ws, ws'), ws'.run = "running" => x.phase # "idle", UNCHANGED record,
         (runs[r].phase = "scanning" /\ runs[r].unattended) => ws'.prompt \in {"none", ws.prompt}
  PROVE  ws' \in WsState /\ ~ws'.staged /\ runs' \in Runs /\ RunsAreRight' /\ ShownIsRight' /\ StepIsQuiet
<1>1. \A q \in RunSlot : runs'[q] = IF q = r THEN x ELSE runs[q]
  BY DEF WsIInv, WsTyped, Runs
<1>2. runs' = [q \in RunSlot |-> runs'[q]]
  BY DEF WsIInv, WsTyped, Runs
<1>3. SameInput(ws, ws')
  BY DEF Stays
<1>4. \A q \in RunSlot : RunIsRight(runs'[q], ws')
  BY <1>1, <1>3, RunsKnown, StillRight
<1>5. runs' \in Runs /\ RunsAreRight'
  BY <1>2, <1>4, RightTogether
<1>6. ShownIsRight'
  <2>1. ResultsAreOverTheirInput'
    BY <1>3 DEF Stays, SameInput, WsIInv, ShownIsRight, ResultsAreOverTheirInput, IsOver
  <2>2. HiddenCharsAreConfirmed'
    BY <1>3 DEF Stays, SameInput, WsIInv, ShownIsRight, HiddenCharsAreConfirmed
  <2>3. WorkingMeansRunning'
    BY <1>1 DEF WorkingMeansRunning, Loading
  <2> QED
    BY <2>1, <2>2, <2>3 DEF ShownIsRight
<1>7. StepIsQuiet
  <2>1. \A q \in RunSlot : runs'[q].phase = "ceremony" => ~runs'[q].unattended
    BY <1>5 DEF RunsAreRight, NobodyIsAsked
  <2>2. ws'.result \in {NoResult, ws.result}
    BY DEF Stays
  <2> QED
    BY <1>1, <2>1, <2>2 DEF StepIsQuiet
<1> QED
  BY <1>5, <1>6, <1>7 DEF Stays

LEMMA StartedState ==
  ASSUME NEW s \in WsState, ~s.staged
  PROVE  /\ Stays(s, Started(s)) /\ Started(s).run = "running" /\ Started(s).prompt = "none" /\ Started(s).text = s.text
         /\ Started(s).mode = s.mode /\ Started(s).files = s.files /\ Started(s).confirmed = s.confirmed
<1>1. ResetResults(s) \in WsState /\ ResetResults(s).result = NoResult /\ ~ResetResults(s).staged
  BY TouchNothing, EventReset DEF Event
<1>2. /\ ResetResults(s).mode = s.mode /\ ResetResults(s).text = s.text /\ ResetResults(s).files = s.files
      /\ ResetResults(s).confirmed = s.confirmed /\ ResetResults(s).prompt = "none"
  BY DEF ResetResults, WsState
<1>3. Started(s) \in WsState
  BY <1>1 DEF Started, WsState
<1>4. /\ Started(s).mode = s.mode /\ Started(s).text = s.text /\ Started(s).files = s.files
      /\ Started(s).confirmed = s.confirmed /\ Started(s).prompt = "none" /\ Started(s).run = "running"
      /\ Started(s).result = NoResult /\ ~Started(s).staged
  BY <1>1, <1>2 DEF Started, WsState
<1> QED
  BY <1>3, <1>4 DEF Stays, SameInput

\* The end of a run that shows no result.
Kinds == {"prompt", "rejected", "none", "error", "held-back", "hidden-chars"}
LEMMA FinishState ==
  ASSUME NEW s \in WsState, ~s.staged, NEW outcome, outcome.kind \in Kinds,
         outcome.kind = "prompt" => outcome.prompt \in {"key", "message"}
  PROVE  /\ Stays(s, Finish(s, outcome)) /\ Finish(s, outcome).run # "running"
         /\ outcome.kind # "prompt" => Finish(s, outcome).prompt = s.prompt
<1>1. CASE outcome.kind = "prompt"
  <2> DEFINE t == [s EXCEPT !.run = "idle", !.prompt = outcome.prompt]
  <2>1. Finish(s, outcome) = t
    BY <1>1 DEF Finish
  <2>2. t \in WsState /\ ~t.staged /\ t.run = "idle"
    BY <1>1 DEF WsState
  <2>3. t.mode = s.mode /\ t.text = s.text /\ t.files = s.files /\ t.confirmed = s.confirmed /\ t.result = s.result /\ t.carried = s.carried
    BY DEF WsState
  <2> HIDE DEF t
  <2> QED
    BY <1>1, <2>1, <2>2, <2>3 DEF Stays, SameInput
<1>2. CASE outcome.kind # "prompt"
  <2> DEFINE run == IF outcome.kind \in {"rejected", "none"} THEN "idle" ELSE outcome.kind
  <2> DEFINE t == [s EXCEPT !.run = run]
  <2>1. Finish(s, outcome) = t
    <3>1. outcome.kind # "done"
      BY DEF Kinds
    <3> QED
      BY <1>2, <3>1 DEF Finish
  <2>2. run \in {"idle", "error", "held-back", "hidden-chars"}
    BY <1>2 DEF Kinds
  <2> HIDE DEF run
  <2>3. t \in WsState /\ ~t.staged /\ t.run = run
    BY <2>2 DEF WsState
  <2>4. t.mode = s.mode /\ t.text = s.text /\ t.files = s.files /\ t.confirmed = s.confirmed /\ t.result = s.result /\ t.carried = s.carried /\ t.prompt = s.prompt
    BY DEF WsState
  <2> HIDE DEF t
  <2> QED
    BY <2>1, <2>2, <2>3, <2>4 DEF Stays, SameInput
<1> QED
  BY <1>1, <1>2
LEMMA ThrownAway ==
  ASSUME NEW s \in WsState, ~s.staged, NEW fresh, ~fresh, NEW outcome, outcome.spent \in BOOLEAN
  PROVE  /\ Stays(s, Finished(s, fresh, outcome)) /\ Finished(s, fresh, outcome).run # "running"
         /\ Finished(s, fresh, outcome).prompt = "none"
<1> DEFINE u == Spent(s, outcome)
<1>1. u \in WsState /\ ~u.staged /\ u.mode = s.mode /\ u.text = s.text /\ u.files = s.files /\ u.confirmed = s.confirmed
  BY DEF Spent, WsState
<1> HIDE DEF u
<1>2. ResetResults(u) \in WsState /\ ResetResults(u).result = NoResult /\ ~ResetResults(u).staged
  BY <1>1, TouchNothing, EventReset DEF Event
<1>3. /\ ResetResults(u).mode = u.mode /\ ResetResults(u).text = u.text /\ ResetResults(u).files = u.files
      /\ ResetResults(u).confirmed = u.confirmed /\ ResetResults(u).prompt = "none"
  BY <1>1 DEF ResetResults, WsState
<1> DEFINE t == [ResetResults(u) EXCEPT !.run = "idle"]
<1>4. t \in WsState
  BY <1>2 DEF WsState
<1>5. /\ t.mode = s.mode /\ t.text = s.text /\ t.files = s.files /\ t.confirmed = s.confirmed
      /\ t.result = NoResult /\ t.prompt = "none" /\ t.run = "idle" /\ ~t.staged
  BY <1>1, <1>2, <1>3 DEF WsState
<1>6. Finished(s, fresh, outcome) = t
  BY DEF Finished, u
<1> HIDE DEF t
<1> QED
  BY <1>4, <1>5, <1>6 DEF Stays, SameInput
LEMMA FinishedState ==
  ASSUME NEW s \in WsState, ~s.staged, NEW fresh \in BOOLEAN, NEW outcome, outcome.kind \in Kinds,
         outcome.spent = FALSE, outcome.kind = "prompt" => outcome.prompt \in {"key", "message"}
  PROVE  /\ Stays(s, Finish(s, outcome)) /\ Finish(s, outcome).run # "running"
         /\ Stays(s, Finished(s, fresh, outcome)) /\ Finished(s, fresh, outcome).run # "running"
         /\ outcome.kind # "prompt" => Finished(s, fresh, outcome).prompt \in {"none", s.prompt}
<1>1. Stays(s, Finish(s, outcome)) /\ Finish(s, outcome).run # "running" /\ (outcome.kind # "prompt" => Finish(s, outcome).prompt = s.prompt)
  BY FinishState
<1>2. CASE fresh
  BY <1>1, <1>2 DEF Finished
<1>3. CASE ~fresh
  <2>1. outcome.spent \in BOOLEAN
    OBVIOUS
  <2> QED
    BY <1>1, <1>3, <2>1, ThrownAway
<1> QED
  BY <1>2, <1>3

Asks == {"ask-key", "ask-message"}
Decisions == {"engine", "ceremony", "none", "error", "hidden-chars"} \cup Asks
LEMMA Decided ==
  ASSUME NEW c, NEW shape
  PROVE  /\ Decision(c, shape) \in Decisions
         /\ c.unattended => Decision(c, shape) \notin Asks \cup {"ceremony"}
         /\ Decision(c, shape) \in {"engine", "ceremony"} /\ c.mode = "sign" /\ Count(c.files) = 0 /\ ws.text = "hidden" => c.confirmed
<1>1. EnsureUnlocked(c) \in {"engine", "ceremony", "none", "ask-key"} /\ (c.unattended => EnsureUnlocked(c) \in {"engine", "none"})
  BY DEF EnsureUnlocked
<1>2. AskMessagePassword(c) \in {"none", "ask-message"} /\ (c.unattended => AskMessagePassword(c) = "none")
  BY DEF AskMessagePassword
<1>3. Decision(c, shape) \in {"error", "engine", "hidden-chars", EnsureUnlocked(c), AskMessagePassword(c)}
  BY DEF Decision
<1>4. Decision(c, shape) \in Decisions
  BY <1>1, <1>2, <1>3 DEF Decisions, Asks
<1>5. c.unattended => Decision(c, shape) \notin Asks \cup {"ceremony"}
  BY <1>1, <1>2, <1>3 DEF Asks
<1>6. ASSUME c.mode = "sign", Count(c.files) = 0, ws.text = "hidden", ~c.confirmed
      PROVE  Decision(c, shape) \in {"error", "hidden-chars"}
  <2>1. Held(c, ws.text) /\ Signs(c)
    BY <1>6 DEF Held, Signs
  <2> QED
    BY <2>1 DEF Decision
<1> QED
  BY <1>4, <1>5, <1>6

LEMMA EngineIsRight ==
  ASSUME NEW c \in Contexts, NEW s \in WsState, Over(c, s), HeldBack(c, s)
  PROVE  RunIsRight(InEngine(c, s.text), s) /\ InEngine(c, s.text).phase = "engine"
<1> DEFINE x == InEngine(c, s.text)
<1>1. s.text \in Text /\ "none" \in {"none", "pgp", "age"} /\ "engine" \in Phases
  BY DEF WsState, Phases
<1>2. x \in RunOf(Phases)
  BY <1>1 DEF Contexts, RunOf, InEngine
<1>3. /\ x.phase = "engine" /\ x.text = s.text /\ x.mode = c.mode /\ x.files = c.files /\ x.fresh = c.fresh
      /\ x.resumed = c.resumed /\ ~x.confirmed
  BY DEF Contexts, RunOf, InEngine
<1> HIDE DEF x
<1>4. RunIsRight(x, s)
  BY <1>2, <1>3 DEF RunIsRight, Over, HeldBack
<1> QED
  BY <1>3, <1>4 DEF x
LEMMA CeremonyIsRight ==
  ASSUME NEW c \in Contexts, NEW s \in WsState, Over(c, s), HeldBack(c, s), ~c.unattended
  PROVE  RunIsRight([c EXCEPT !.phase = "ceremony"], s) /\ [c EXCEPT !.phase = "ceremony"].phase = "ceremony"
<1> DEFINE x == [c EXCEPT !.phase = "ceremony"]
<1>1. x \in RunOf(Phases)
  BY DEF Contexts, RunOf, Phases
<1>2. /\ x.phase = "ceremony" /\ x.mode = c.mode /\ x.files = c.files /\ x.fresh = c.fresh
      /\ x.resumed = c.resumed /\ x.confirmed = c.confirmed /\ x.unattended = c.unattended
  BY DEF Contexts, RunOf
<1> HIDE DEF x
<1>3. RunIsRight(x, s)
  BY <1>1, <1>2 DEF RunIsRight, Over, HeldBack
<1> QED
  BY <1>2, <1>3 DEF x

LEMMA ProceedKeeps ==
  ASSUME WsIInv, NEW r \in RunSlot, NEW c \in Contexts, NEW s \in WsState, ~s.staged, Stays(ws, s), Over(c, s),
         NEW decision \in Decisions, decision \in {"engine", "ceremony"} => HeldBack(c, s),
         c.unattended => decision \notin Asks \cup {"ceremony"}, s.prompt \in {"none", ws.prompt},
         (runs[r].phase = "scanning" /\ runs[r].unattended) => c.unattended,
         UNCHANGED record, Proceed(r, c, s, decision)
  PROVE  ws' \in WsState /\ ~ws'.staged /\ runs' \in Runs /\ RunsAreRight' /\ ShownIsRight' /\ StepIsQuiet
<1>1. CASE decision = "engine"
  <2>1. runs' = [runs EXCEPT ![r] = InEngine(c, s.text)] /\ ws' = s
    BY <1>1 DEF Proceed
  <2>2. RunIsRight(InEngine(c, s.text), s) /\ InEngine(c, s.text).phase = "engine"
    BY <1>1, EngineIsRight
  <2> QED
    BY <2>1, <2>2, OneRun
<1>2. CASE decision = "ceremony"
  <2>1. runs' = [runs EXCEPT ![r] = [c EXCEPT !.phase = "ceremony"]] /\ ws' = s
    BY <1>2 DEF Proceed
  <2>2. RunIsRight([c EXCEPT !.phase = "ceremony"], s) /\ [c EXCEPT !.phase = "ceremony"].phase = "ceremony"
    BY <1>2, CeremonyIsRight
  <2> QED
    BY <2>1, <2>2, OneRun
<1>3. CASE decision \notin {"engine", "ceremony"}
  <2> DEFINE outcome == IF decision \in {"ask-key", "ask-message"} THEN Prompt(decision) ELSE [kind |-> decision, spent |-> FALSE]
  <2>1. runs' = [runs EXCEPT ![r] = Idle] /\ ws' = Finished(s, c.fresh, outcome)
    BY <1>3 DEF Proceed
  <2>2. /\ outcome.kind \in Kinds /\ outcome.spent = FALSE
        /\ outcome.kind = "prompt" => outcome.prompt \in {"key", "message"}
        /\ decision \notin Asks => outcome.kind # "prompt"
    <3>1. CASE decision \in Asks
      BY <3>1 DEF Asks, Prompt, Kinds
    <3>2. CASE decision \notin Asks
      BY <1>3, <3>2 DEF Asks, Decisions, Kinds
    <3> QED
      BY <3>1, <3>2
  <2>3. c.fresh \in BOOLEAN
    BY DEF Contexts, RunOf
  <2> HIDE DEF outcome
  <2>4. Stays(s, ws') /\ ws'.run # "running" /\ (outcome.kind # "prompt" => ws'.prompt \in {"none", s.prompt})
    BY <2>1, <2>2, <2>3, FinishedState
  <2>5. RunIsRight(Idle, ws') /\ Stays(ws, ws')
    BY <2>4, StaysTwice DEF RunIsRight
  <2>6. (runs[r].phase = "scanning" /\ runs[r].unattended) => ws'.prompt \in {"none", ws.prompt}
    BY <2>2, <2>4
  <2> QED
    BY <2>1, <2>4, <2>5, <2>6, OneRun
<1> QED
  BY <1>1, <1>2, <1>3

\* A run that begins, over a workspace as it is, or with the characters confirmed.
LEMMA ExecuteKeeps ==
  ASSUME WsIInv, NEW r \in RunSlot, runs[r].phase # "scanning", NEW c \in Contexts, NEW s \in WsState, ~s.staged,
         Stays(ws, s), Over(c, s), UNCHANGED record, Execute(r, c, s)
  PROVE  ws' \in WsState /\ ~ws'.staged /\ runs' \in Runs /\ RunsAreRight' /\ ShownIsRight' /\ StepIsQuiet
<1>1. /\ Stays(s, Started(s)) /\ Started(s).run = "running" /\ Started(s).prompt = "none" /\ Started(s).text = s.text
      /\ Started(s).mode = s.mode /\ Started(s).files = s.files /\ Started(s).confirmed = s.confirmed
  BY StartedState
<1>2. Started(s) \in WsState /\ ~Started(s).staged /\ Stays(ws, Started(s)) /\ Over(c, Started(s))
  BY <1>1, StaysTwice DEF Stays, Over
<1>3. CASE c.mode = "decrypt"
  <2> DEFINE x == [c EXCEPT !.phase = "scanning"]
  <2>1. runs' = [runs EXCEPT ![r] = x] /\ ws' = Started(s)
    BY <1>3 DEF Execute
  <2>2. x \in RunOf(Phases)
    BY DEF Contexts, RunOf, Phases
  <2>3. /\ x.phase = "scanning" /\ x.mode = c.mode /\ x.files = c.files /\ x.fresh = c.fresh
        /\ x.resumed = c.resumed /\ x.confirmed = c.confirmed
    BY DEF Contexts, RunOf
  <2> HIDE DEF x
  <2>4. RunIsRight(x, ws')
    BY <1>2, <2>1, <2>2, <2>3 DEF RunIsRight, Over
  <2>5. Stays(ws, ws')
    BY <1>2, <2>1
  <2> QED
    BY <2>1, <2>3, <2>4, <2>5, OneRun
<1>4. CASE c.mode # "decrypt"
  <2> DEFINE decision == Decision(c, "unknown")
  <2>1. Proceed(r, c, Started(s), decision)
    BY <1>4 DEF Execute
  <2>2. decision \in Decisions /\ (c.unattended => decision \notin Asks \cup {"ceremony"})
    BY Decided
  <2>3. decision \in {"engine", "ceremony"} => HeldBack(c, Started(s))
    <3>1. decision \in {"engine", "ceremony"} /\ c.mode = "sign" /\ Count(c.files) = 0 /\ ws.text = "hidden" => c.confirmed
      BY Decided
    <3>2. Started(s).text = ws.text
      BY <1>1 DEF Stays, SameInput
    <3> HIDE DEF decision
    <3> QED
      BY <1>2, <3>1, <3>2 DEF HeldBack, Over
  <2>4. Started(s).prompt \in {"none", ws.prompt}
    BY <1>1
  <2> HIDE DEF decision
  <2> QED
    BY <1>2, <2>1, <2>2, <2>3, <2>4, ProceedKeeps
<1> QED
  BY <1>3, <1>4

LEMMA ContextIsRight ==
  ASSUME ws \in WsState, NEW unattended \in BOOLEAN, NEW capped \in BOOLEAN
  PROVE  LET c == Context(unattended, capped) IN
         /\ c \in Contexts /\ c.phase = "idle" /\ c.mode = ws.mode /\ c.files = ws.files /\ c.confirmed = ws.confirmed
         /\ ~c.resumed /\ c.fresh /\ c.unattended = unattended
<1> DEFINE c == Context(unattended, capped)
<1> DEFINE to == IF ws.mode = "encrypt" THEN ws.to ELSE "none"
<1> DEFINE pw == ws.mode = "encrypt" /\ ws.pw
<1> DEFINE hasText == ws.mode = "encrypt" /\ ws.text # "none"
<1>1. to \in {"none", "pgp", "age"} /\ pw \in BOOLEAN /\ hasText \in BOOLEAN
  BY DEF WsState
<1>2. c = [phase |-> "idle", mode |-> ws.mode, files |-> ws.files, unattended |-> unattended, capped |-> capped,
           to |-> to, pw |-> pw, confirmed |-> ws.confirmed, hasText |-> hasText,
           resumed |-> FALSE, fresh |-> TRUE, text |-> "none"]
  BY DEF Context
<1> HIDE DEF c, to, pw, hasText
<1>3. c \in Contexts
  <2>1. "none" \in Text
    BY DEF Text
  <2>2. ws.mode \in Mode /\ ws.files \in FileSlots /\ ws.confirmed \in BOOLEAN
    BY DEF WsState
  <2> QED
    BY <1>1, <1>2, <2>1, <2>2 DEF Contexts, RunOf
<1> QED
  BY <1>2, <1>3 DEF c

LEMMA BeginKeeps ==
  ASSUME WsIInv, NEW r \in RunSlot, UNCHANGED record,
         Run(r) \/ SignAnyway(r) \/ AutoRun(r) \/ Recheck(r)
  PROVE  ws' \in WsState /\ ~ws'.staged /\ runs' \in Runs /\ RunsAreRight' /\ ShownIsRight' /\ StepIsQuiet
<1>1. ws \in WsState /\ ~ws.staged /\ Stays(ws, ws)
  BY StaysPut DEF WsIInv, WsTyped
<1>2. ASSUME NEW u \in BOOLEAN, NEW k \in BOOLEAN, NEW s \in WsState, ~s.staged, Stays(ws, s), Free(r), Execute(r, Context(u, k), s)
      PROVE  ws' \in WsState /\ ~ws'.staged /\ runs' \in Runs /\ RunsAreRight' /\ ShownIsRight' /\ StepIsQuiet
  <2>1. Context(u, k) \in Contexts /\ Over(Context(u, k), s)
    BY <1>1, <1>2, ContextIsRight DEF Over, Stays, SameInput
  <2>2. runs[r].phase # "scanning"
    BY <1>2 DEF Free
  <2> QED
    BY <1>2, <2>1, <2>2, ExecuteKeeps
<1>3. CASE Run(r)
  BY <1>1, <1>2, <1>3 DEF Run
<1>4. CASE SignAnyway(r)
  <2> DEFINE s == [ws EXCEPT !.confirmed = TRUE]
  <2> DEFINE c == [Context(FALSE, FALSE) EXCEPT !.confirmed = TRUE]
  <2>1. Free(r) /\ Execute(r, c, s)
    BY <1>4 DEF SignAnyway
  <2>2. s \in WsState /\ ~s.staged /\ s.mode = ws.mode /\ s.files = ws.files /\ s.text = ws.text /\ s.confirmed
        /\ s.result = ws.result /\ s.carried = ws.carried
    BY <1>1 DEF WsState
  <2>3. Stays(ws, s)
    <3> HIDE DEF s
    <3> QED
      BY <2>2 DEF Stays, SameInput
  <2>4. c \in Contexts /\ c.mode = ws.mode /\ c.files = ws.files
    <3>1. Context(FALSE, FALSE) \in Contexts /\ Context(FALSE, FALSE).mode = ws.mode /\ Context(FALSE, FALSE).files = ws.files
      BY <1>1, ContextIsRight
    <3> QED
      BY <3>1 DEF Contexts, RunOf
  <2>5. Over(c, s) /\ runs[r].phase # "scanning"
    <3> HIDE DEF c, s
    <3> QED
      BY <2>1, <2>2, <2>4 DEF Over, Free
  <2> HIDE DEF c, s
  <2> QED
    BY <2>1, <2>2, <2>3, <2>4, <2>5, ExecuteKeeps
<1>5. CASE AutoRun(r)
  <2> DEFINE s == [ws EXCEPT !.arm = "none"]
  <2>1. s \in WsState /\ ~s.staged /\ s.mode = ws.mode /\ s.files = ws.files /\ s.text = ws.text /\ s.confirmed = ws.confirmed
        /\ s.result = ws.result /\ s.carried = ws.carried /\ s.run = ws.run /\ s.prompt = ws.prompt
    BY <1>1 DEF WsState
  <2>2. Free(r) /\ ~Loading /\ (Execute(r, Context(TRUE, TRUE), s) \/ (ws' = s /\ UNCHANGED runs))
    BY <1>5 DEF AutoRun
  <2> HIDE DEF s
  <2>3. Stays(ws, s)
    BY <2>1 DEF Stays, SameInput
  <2>4. CASE ws' = s /\ UNCHANGED runs
    <3>1. runs' = [runs EXCEPT ![r] = runs[r]]
      BY <2>4 DEF WsIInv, WsTyped, Runs
    <3>2. RunIsRight(runs[r], ws')
      BY <2>3, <2>4, RunsKnown, StillRight DEF Stays
    <3>3. ws'.run # "running"
      BY <2>1, <2>2, <2>4 DEF Loading
    <3> QED
      BY <2>1, <2>3, <2>4, <3>1, <3>2, <3>3, OneRun
  <2> QED
    BY <1>2, <2>1, <2>2, <2>3, <2>4
<1>6. CASE Recheck(r)
  BY <1>1, <1>2, <1>6 DEF Recheck
<1> QED
  BY <1>3, <1>4, <1>5, <1>6

LEMMA SubmitKeeps ==
  ASSUME WsIInv, NEW r \in RunSlot, SubmitPassword(r)
  PROVE  ws' \in WsState /\ ~ws'.staged /\ runs' \in Runs /\ RunsAreRight' /\ ShownIsRight' /\ StepIsQuiet
<1> DEFINE c == Context(FALSE, FALSE)
<1>1. ws \in WsState /\ ~ws.staged
  BY DEF WsIInv, WsTyped
<1>2. ws' \in WsState /\ ws' = [ws EXCEPT !.run = "running"] /\ runs[r].phase = "idle" /\ UNCHANGED record
  BY <1>1 DEF SubmitPassword, Free, WsState
<1>3. /\ ~ws'.staged /\ ws'.mode = ws.mode /\ ws'.files = ws.files /\ ws'.text = ws.text /\ ws'.confirmed = ws.confirmed
      /\ ws'.result = ws.result /\ ws'.carried = ws.carried /\ ws'.run = "running" /\ ws'.prompt = ws.prompt
  BY <1>1, <1>2 DEF WsState
<1>4. Stays(ws, ws')
  BY <1>2, <1>3 DEF Stays, SameInput
<1>5. /\ c \in Contexts /\ c.phase = "idle" /\ c.mode = ws.mode /\ c.files = ws.files /\ c.confirmed = ws.confirmed
      /\ ~c.resumed /\ c.fresh /\ ~c.unattended
  BY <1>1, ContextIsRight
<1> HIDE DEF c
<1>6. CASE ws.prompt = "message"
  <2> DEFINE x == [InEngine(c, ws.text) EXCEPT !.mode = "decrypt", !.pw = FALSE, !.resumed = ws.mode # "decrypt"]
  <2>1. runs' = [runs EXCEPT ![r] = x]
    BY <1>6 DEF SubmitPassword, c
  <2>2. InEngine(c, ws.text) \in RunOf(Phases) /\ InEngine(c, ws.text).phase = "engine" /\ InEngine(c, ws.text).text = ws.text
        /\ InEngine(c, ws.text).files = ws.files /\ ~InEngine(c, ws.text).confirmed
    <3>1. ws.text \in Text /\ "engine" \in Phases
      BY <1>1 DEF WsState, Phases
    <3> QED
      BY <1>5, <3>1 DEF InEngine, Contexts, RunOf
  <2>3. x \in RunOf(Phases) /\ x.phase = "engine" /\ x.text = ws.text /\ x.files = ws.files /\ ~x.confirmed
        /\ x.mode = "decrypt" /\ (~x.resumed => ws.mode = "decrypt")
    <3>1. "decrypt" \in Mode
      BY DEF Mode
    <3> QED
      BY <2>2, <3>1 DEF RunOf
  <2> HIDE DEF x
  <2>4. RunIsRight(x, ws')
    BY <1>3, <2>3 DEF RunIsRight, Over, HeldBack
  <2> QED
    BY <1>2, <1>3, <1>4, <2>1, <2>3, <2>4, OneRun
<1>7. CASE ws.prompt # "message"
  <2> DEFINE x == [c EXCEPT !.phase = "unlocking"]
  <2>1. runs' = [runs EXCEPT ![r] = x]
    BY <1>7 DEF SubmitPassword, c
  <2>2. x \in RunOf(Phases) /\ x.phase = "unlocking" /\ x.mode = ws.mode /\ x.files = ws.files /\ x.confirmed = ws.confirmed
        /\ ~x.unattended
    BY <1>5 DEF Contexts, RunOf, Phases
  <2> HIDE DEF x
  <2>3. RunIsRight(x, ws')
    BY <1>3, <2>2 DEF RunIsRight, Over, HeldBack
  <2> QED
    BY <1>2, <1>3, <1>4, <2>1, <2>2, <2>3, OneRun
<1> QED
  BY <1>6, <1>7

LEMMA GoOnKeeps ==
  ASSUME WsIInv, NEW r \in RunSlot, UNCHANGED record,
         \/ \E shape \in {"keys", "password", "clear"} : Scanned(r, shape)
         \/ \E decision \in {"engine", "none", "error"} : CeremonyEnds(r, decision)
  PROVE  ws' \in WsState /\ ~ws'.staged /\ runs' \in Runs /\ RunsAreRight' /\ ShownIsRight' /\ StepIsQuiet
<1> DEFINE c == runs[r]
<1>1. ws \in WsState /\ ~ws.staged /\ Stays(ws, ws) /\ ws.prompt \in {"none", ws.prompt}
  BY StaysPut DEF WsIInv, WsTyped
<1>2. c.phase \in {"scanning", "ceremony"}
  BY DEF Scanned, CeremonyEnds
<1>3. c \in RunOf(Phases) /\ RunIsRight(c, ws) /\ c # Idle
  BY <1>2, RunsKnown DEF Idle
<1>4. c \in Contexts /\ Over(c, ws)
  BY <1>3 DEF RunIsRight, Contexts, RunOf
<1>5. CASE \E shape \in {"keys", "password", "clear"} : Scanned(r, shape)
  <2>1. PICK shape \in {"keys", "password", "clear"} : Proceed(r, c, ws, Decision(c, shape))
    BY <1>5 DEF Scanned
  <2>2. Decision(c, shape) \in Decisions /\ (c.unattended => Decision(c, shape) \notin Asks \cup {"ceremony"})
    BY Decided
  <2>3. Decision(c, shape) \in {"engine", "ceremony"} => HeldBack(c, ws)
    <3>1. Decision(c, shape) \in {"engine", "ceremony"} /\ c.mode = "sign" /\ Count(c.files) = 0 /\ ws.text = "hidden" => c.confirmed
      BY Decided
    <3> HIDE DEF c
    <3> QED
      BY <1>4, <3>1 DEF HeldBack, Over
  <2> DEFINE decision == Decision(c, shape)
  <2> HIDE DEF decision
  <2> QED
    BY <1>1, <1>4, <2>1, <2>2, <2>3, ProceedKeeps DEF decision
<1>6. CASE \E decision \in {"engine", "none", "error"} : CeremonyEnds(r, decision)
  <2>1. PICK decision \in {"engine", "none", "error"} : Proceed(r, c, ws, decision) /\ c.phase = "ceremony"
    BY <1>6 DEF CeremonyEnds
  <2>2. decision \in Decisions /\ decision \notin Asks \cup {"ceremony"}
    BY DEF Decisions, Asks
  <2>3. HeldBack(c, ws)
    BY <1>3, <2>1 DEF RunIsRight
  <2> QED
    BY <1>1, <1>4, <2>1, <2>2, <2>3, ProceedKeeps
<1> QED
  BY <1>5, <1>6

LEMMA UnlockedKeeps ==
  ASSUME WsIInv, NEW r \in RunSlot, Unlocked(r)
  PROVE  ws' \in WsState /\ ~ws'.staged /\ runs' \in Runs /\ RunsAreRight' /\ ShownIsRight' /\ StepIsQuiet
<1> DEFINE c == [runs[r] EXCEPT !.fresh = TRUE, !.resumed = TRUE]
<1>1. ws \in WsState /\ ~ws.staged /\ Stays(ws, ws)
  BY StaysPut DEF WsIInv, WsTyped
<1>2. runs[r].phase = "unlocking" /\ UNCHANGED record
  BY DEF Unlocked
<1>3. runs[r] \in RunOf(Phases)
  BY <1>2, RunsKnown DEF Idle
<1>4. c \in Contexts /\ c.resumed
  BY <1>3 DEF Contexts, RunOf
<1>5. IF c.mode = "decrypt" THEN Execute(r, c, ws)
      ELSE /\ runs' = [runs EXCEPT ![r] = IF Refused(c) \/ (Signs(c) /\ Held(c, ws.text)) THEN Idle ELSE InEngine(c, ws.text)]
           /\ ws' = IF Refused(c) THEN Finish(Started(ws), [kind |-> "error"])
                    ELSE IF Signs(c) /\ Held(c, ws.text) THEN Finish(Started(ws), [kind |-> "hidden-chars"])
                    ELSE Started(ws)
  BY DEF Unlocked
<1> HIDE DEF c
<1>6. \A s : Over(c, s) /\ HeldBack(c, s)
  BY <1>4 DEF Over, HeldBack
<1>7. CASE c.mode = "decrypt"
  BY <1>1, <1>2, <1>4, <1>5, <1>6, <1>7, ExecuteKeeps
<1>8. CASE c.mode # "decrypt"
  <2>1. /\ Stays(ws, Started(ws)) /\ Started(ws).prompt = "none" /\ Started(ws).text = ws.text
    BY <1>1, StartedState
  <2>2. Started(ws) \in WsState /\ ~Started(ws).staged
    BY <2>1 DEF Stays
  <2>3. CASE Refused(c) \/ (Signs(c) /\ Held(c, ws.text))
    <3>1. PICK kind \in {"error", "hidden-chars"} : ws' = Finish(Started(ws), [kind |-> kind])
      BY <1>5, <1>8, <2>3
    <3>2. Stays(Started(ws), ws') /\ ws'.run # "running"
      <4>1. [kind |-> kind].kind \in Kinds /\ [kind |-> kind].kind # "prompt"
        BY DEF Kinds
      <4> QED
        BY <2>2, <3>1, <4>1, FinishState
    <3>3. Stays(ws, ws') /\ RunIsRight(Idle, ws') /\ runs' = [runs EXCEPT ![r] = Idle]
      BY <1>5, <1>8, <2>1, <2>3, <3>2, StaysTwice DEF RunIsRight
    <3> QED
      BY <1>2, <3>2, <3>3, OneRun
  <2>4. CASE ~(Refused(c) \/ (Signs(c) /\ Held(c, ws.text)))
    <3>1. ws' = Started(ws) /\ runs' = [runs EXCEPT ![r] = InEngine(c, ws.text)]
      BY <1>5, <1>8, <2>4
    <3>2. RunIsRight(InEngine(c, ws.text), Started(ws)) /\ InEngine(c, ws.text).phase = "engine"
      <4>1. RunIsRight(InEngine(c, Started(ws).text), Started(ws)) /\ InEngine(c, Started(ws).text).phase = "engine"
        BY <1>4, <1>6, <2>2, EngineIsRight
      <4> QED
        BY <2>1, <4>1
    <3> QED
      BY <1>2, <2>1, <3>1, <3>2, OneRun
  <2> QED
    BY <2>3, <2>4
<1> QED
  BY <1>7, <1>8

LEMMA FailKeeps ==
  ASSUME WsIInv, NEW r \in RunSlot, WrongPassword(r) \/ EngineFails(r)
  PROVE  ws' \in WsState /\ ~ws'.staged /\ runs' \in Runs /\ RunsAreRight' /\ ShownIsRight' /\ StepIsQuiet
<1>1. ws \in WsState /\ ~ws.staged
  BY DEF WsIInv, WsTyped
<1>2. runs' = [runs EXCEPT ![r] = Idle] /\ runs[r].phase \in {"unlocking", "engine"} /\ UNCHANGED record
  BY DEF WrongPassword, EngineFails
<1>3. Stays(ws, ws') /\ ws'.run # "running"
  <2>1. CASE WrongPassword(r)
    <3>1. [kind |-> "rejected"].kind \in Kinds /\ [kind |-> "rejected"].kind # "prompt"
      BY DEF Kinds
    <3> QED
      BY <1>1, <2>1, <3>1, FinishState DEF WrongPassword
  <2>2. CASE EngineFails(r)
    <3>1. PICK kind \in {"error", "rejected", "held-back"} : ws' = Finished(ws, runs[r].fresh, [kind |-> kind, spent |-> FALSE])
      BY <2>2 DEF EngineFails
    <3>2. runs[r].fresh \in BOOLEAN
      BY <1>2, RunsKnown DEF Idle, RunOf
    <3>3. [kind |-> kind, spent |-> FALSE].kind \in Kinds /\ [kind |-> kind, spent |-> FALSE].kind # "prompt" /\ [kind |-> kind, spent |-> FALSE].spent = FALSE
      BY DEF Kinds
    <3> QED
      BY <1>1, <3>1, <3>2, <3>3, FinishedState
  <2> QED
    BY <2>1, <2>2
<1>4. RunIsRight(Idle, ws')
  BY DEF RunIsRight
<1> QED
  BY <1>2, <1>3, <1>4, OneRun

\* The one step that shows a result: of a run that is still over the input.
LEMMA DoneKeeps ==
  ASSUME WsIInv, NEW r \in RunSlot, NEW tone \in {"none", "success", "warning"}, EngineDone(r, tone)
  PROVE  ws' \in WsState /\ ~ws'.staged /\ runs' \in Runs /\ RunsAreRight' /\ ShownIsRight' /\ StepIsQuiet
<1> DEFINE c == runs[r]
<1> DEFINE spent == c.mode = "encrypt" /\ c.pw
<1> DEFINE outcome == [kind |-> "done", result |-> ResultOf(c, tone), spent |-> spent]
<1>1. ws \in WsState /\ ~ws.staged /\ ws.pw \in BOOLEAN
  BY DEF WsIInv, WsTyped, WsState
<1>2. c.phase = "engine" /\ runs' = [runs EXCEPT ![r] = Idle]
  BY DEF EngineDone
<1>3. c \in RunOf(Phases) /\ RunIsRight(c, ws) /\ c # Idle
  BY <1>2, RunsKnown DEF Idle
<1>4. ws' = Finished(ws, c.fresh, outcome) /\ record'.entry = Entry(c)
  BY DEF EngineDone
<1>5. outcome.spent \in BOOLEAN /\ c.fresh \in BOOLEAN
  BY <1>3 DEF RunOf
<1>6. SameInput(ws, ws') /\ ws' \in WsState /\ ~ws'.staged /\ ws'.run # "running" /\ ws'.prompt = "none"
      /\ \/ ws'.result = NoResult
         \/ c.fresh /\ ws'.result = ResultOf(c, tone)
  <2>1. CASE ~c.fresh
    <3>2. Stays(ws, ws') /\ ws'.run # "running" /\ ws'.prompt = "none"
      <4> HIDE DEF outcome, c
      <4> QED
        BY <1>1, <1>4, <1>5, <2>1, ThrownAway
    <3>3. ws'.result = NoResult
      <4>1. ws' = [ResetResults(Spent(ws, outcome)) EXCEPT !.run = "idle"]
        BY <1>4, <2>1 DEF Finished
      <4>2. Spent(ws, outcome) \in WsState
        <5> HIDE DEF outcome
        <5> QED
          BY <1>1 DEF Spent, WsState
      <4>3. ResetResults(Spent(ws, outcome)) \in WsState /\ ResetResults(Spent(ws, outcome)).result = NoResult
        <5> HIDE DEF outcome
        <5> QED
          BY <4>2, TouchNothing, EventReset DEF Event
      <4> HIDE DEF outcome
      <4> QED
        BY <4>1, <4>3 DEF WsState
    <3> QED
      BY <3>2, <3>3 DEF Stays
  <2>2. CASE c.fresh
    <3> DEFINE pw == ws.pw /\ ~spent
    <3> DEFINE result == ResultOf(c, tone)
    <3>1. Finish(ws, outcome) = [Spent(ws, outcome) EXCEPT !.run = "done", !.prompt = "none", !.result = result, !.carried = FALSE]
      BY DEF Finish
    <3>2. Spent(ws, outcome) = [ws EXCEPT !.pw = pw]
      BY DEF Spent
    <3>3. result \in Results
      <4>1. result = [mode |-> c.mode, files |-> c.files, text |-> c.text, tone |-> tone, resumed |-> c.resumed]
        BY DEF ResultOf
      <4>2. c.mode \in Mode /\ c.files \in FileSlots /\ c.text \in Text /\ c.resumed \in BOOLEAN
        BY <1>3 DEF RunOf
      <4> HIDE DEF result, c
      <4> QED
        BY <4>1, <4>2 DEF Results
    <3>4. ws' = [[ws EXCEPT !.pw = pw] EXCEPT !.run = "done", !.prompt = "none", !.result = result, !.carried = FALSE]
      BY <1>4, <2>2, <3>1, <3>2 DEF Finished
    <3>5. pw \in BOOLEAN
      OBVIOUS
    <3> HIDE DEF pw, result
    <3>6. ws' \in WsState
      BY <1>1, <3>3, <3>4, <3>5 DEF WsState
    <3>7. /\ ws'.mode = ws.mode /\ ws'.text = ws.text /\ ws'.files = ws.files /\ ws'.confirmed = ws.confirmed /\ ~ws'.staged
          /\ ws'.run = "done" /\ ws'.prompt = "none" /\ ws'.result = result
      BY <1>1, <3>4 DEF WsState
    <3> QED
      BY <2>2, <3>6, <3>7 DEF SameInput, result
  <2> QED
    BY <1>5, <2>1, <2>2
<1>7. c.fresh => /\ ws.text = c.text
                 /\ ~c.resumed => c.mode = ws.mode /\ c.files = ws.files
                 /\ ~c.resumed /\ c.mode = "sign" /\ Count(c.files) = 0 /\ ws.text = "hidden" => ws.confirmed
  BY <1>2, <1>3 DEF RunIsRight, Over, HeldBack
<1>8. ResultOf(c, tone).mode = c.mode /\ ResultOf(c, tone).files = c.files /\ ResultOf(c, tone).text = c.text
      /\ ResultOf(c, tone).resumed = c.resumed
  BY DEF ResultOf
<1>9. \A q \in RunSlot : runs'[q] = IF q = r THEN Idle ELSE runs[q]
  BY <1>2 DEF WsIInv, WsTyped, Runs
<1>10. runs' \in Runs /\ RunsAreRight'
  <2>1. runs' = [q \in RunSlot |-> runs'[q]]
    BY <1>2 DEF WsIInv, WsTyped, Runs
  <2>2. \A q \in RunSlot : RunIsRight(runs'[q], ws')
    <3>1. RunIsRight(Idle, ws')
      BY DEF RunIsRight
    <3> QED
      BY <1>6, <1>9, <3>1, RunsKnown, StillRight
  <2> QED
    BY <2>1, <2>2, RightTogether
<1> HIDE DEF c, outcome, spent
<1>11. ShownIsRight'
  <2>1. ResultsAreOverTheirInput'
    BY <1>6, <1>7, <1>8 DEF SameInput, ResultsAreOverTheirInput, IsOver
  <2>2. HiddenCharsAreConfirmed'
    BY <1>6, <1>7, <1>8 DEF SameInput, HiddenCharsAreConfirmed
  <2>3. WorkingMeansRunning'
    BY <1>6 DEF WorkingMeansRunning, Loading
  <2> QED
    BY <2>1, <2>2, <2>3 DEF ShownIsRight
<1>12. StepIsQuiet
  <2>1. \A q \in RunSlot : runs'[q].phase = "ceremony" => ~runs'[q].unattended
    BY <1>10 DEF RunsAreRight, NobodyIsAsked
  <2>2. ws'.result # NoResult /\ ws'.result.mode \in {"encrypt", "sign"} => record'.entry = "what was made"
    BY <1>4, <1>6, <1>7, <1>8 DEF Entry
  <2> QED
    BY <1>6, <2>1, <2>2 DEF StepIsQuiet
<1> QED
  BY <1>6, <1>10, <1>11, <1>12

LEMMA LockKeeps ==
  ASSUME WsIInv, Lock
  PROVE  ws' \in WsState /\ ~ws'.staged /\ runs' \in Runs /\ RunsAreRight' /\ ShownIsRight' /\ StepIsQuiet
<1>1. ws' = Empty /\ \A r \in RunSlot : runs'[r] = Idle
  BY DEF Lock
<1>2. Empty \in WsState /\ Empty.run = "idle" /\ ~Empty.staged /\ Empty.result = NoResult /\ Empty.prompt = "none"
  BY EmptyIsEmpty
<1>3. runs' \in Runs
  BY DEF Lock, Runs
<1>4. \A r \in RunSlot : runs'[r].phase = "idle"
  BY <1>1 DEF Idle
<1>5. RunsAreRight'
  BY <1>4 DEF RunsAreRight, RunsAreOver, EngineReadTheText, HiddenAreHeld, NobodyIsAsked
<1>6. ShownIsRight'
  BY <1>1, <1>2 DEF ShownIsRight, ResultsAreOverTheirInput, HiddenCharsAreConfirmed, WorkingMeansRunning, Loading
<1>7. StepIsQuiet
  BY <1>1, <1>2, <1>4 DEF StepIsQuiet
<1> QED
  BY <1>1, <1>2, <1>3, <1>5, <1>6, <1>7

LEMMA ElsewhereKeeps ==
  ASSUME WsIInv, UNCHANGED <<ws, runs, record>>
  PROVE  ws' \in WsState /\ ~ws'.staged /\ runs' \in Runs /\ RunsAreRight' /\ ShownIsRight' /\ StepIsQuiet
<1>1. RunsAreRight'
  BY DEF WsIInv, RunsAreRight, RunsAreOver, EngineReadTheText, HiddenAreHeld, NobodyIsAsked
<1>2. ShownIsRight'
  BY DEF WsIInv, ShownIsRight, ResultsAreOverTheirInput, IsOver, HiddenCharsAreConfirmed, WorkingMeansRunning, Loading
<1>3. StepIsQuiet
  BY DEF WsIInv, RunsAreRight, NobodyIsAsked, StepIsQuiet
<1> QED
  BY <1>1, <1>2, <1>3 DEF WsIInv, WsTyped

RunsGoOn == \E r \in RunSlot : RunNext(r)

LEMMA WsStep == WsIInv /\ [wsNext]_wsVars => WsIInv' /\ StepIsQuiet
<1> SUFFICES ASSUME WsIInv, wsNext \/ UNCHANGED wsVars PROVE WsIInv' /\ StepIsQuiet
  OBVIOUS
<1>1. EventsOfThePanel \/ KeyCloses \/ Lock \/ RunsGoOn \/ UNCHANGED wsVars
  BY DEF wsNext, EventsOfThePanel, RunsGoOn
<1>2. record'.saved \in {"nothing", "attended"}
  <2>1. CASE \E r \in RunSlot : \E tone \in {"none", "success", "warning"} : EngineDone(r, tone)
    BY <2>1 DEF EngineDone, AutoDownload, WsIInv, WsTyped
  <2>2. CASE UNCHANGED record
    BY <2>2 DEF WsIInv, WsTyped
  <2>3. EventsOfThePanel => UNCHANGED record
    BY PanelEvents
  <2>4. RunsGoOn => UNCHANGED record \/ \E r \in RunSlot : \E tone \in {"none", "success", "warning"} : EngineDone(r, tone)
    BY DEF RunsGoOn, RunNext, Run, SignAnyway, AutoRun, Recheck, SubmitPassword, Scanned, CeremonyEnds, Unlocked, WrongPassword, EngineFails
  <2> QED
    BY <1>1, <2>1, <2>2, <2>3, <2>4 DEF KeyCloses, Lock, wsVars
<1>3. shelf' \in [undo : Undoes, draft : Drafts]
  <2>1. CASE UNCHANGED shelf
    BY <2>1 DEF WsIInv, WsTyped
  <2>2. CASE Lock
    <3> DEFINE draft == IF ws.text \in {"private", "none"} THEN NoDraft ELSE [mode |-> ws.mode, text |-> ws.text, to |-> ws.to]
    <3>1. draft \in Drafts
      <4>1. ws.mode \in Mode /\ ws.text \in Text /\ ws.to \in {"none", "pgp", "age"}
        BY DEF WsIInv, WsTyped, WsState
      <4> QED
        BY <4>1 DEF Drafts
    <3>2. NoUndo \in Undoes
      BY NothingIsFiles DEF NoUndo, Undoes
    <3>3. shelf' = [undo |-> NoUndo, draft |-> draft]
      BY <2>2 DEF Lock
    <3> HIDE DEF draft
    <3> QED
      BY <3>1, <3>2, <3>3
  <2>3. RunsGoOn => UNCHANGED shelf
    BY DEF RunsGoOn, RunNext, Run, SignAnyway, AutoRun, Recheck, SubmitPassword, Scanned, CeremonyEnds, Unlocked, WrongPassword,
       EngineFails, EngineDone
  <2> QED
    BY <1>1, <2>1, <2>2, <2>3, PanelEvents DEF KeyCloses, wsVars
<1>4. ws' \in WsState /\ ~ws'.staged /\ runs' \in Runs /\ RunsAreRight' /\ ShownIsRight' /\ StepIsQuiet
  <2>1. CASE EventsOfThePanel
    BY <2>1, PanelEvents, EventKeeps
  <2>2. CASE Lock
    BY <2>2, LockKeeps
  <2>3. CASE KeyCloses \/ UNCHANGED wsVars
    BY <2>3, ElsewhereKeeps DEF KeyCloses, wsVars
  <2>4. CASE RunsGoOn
    <3>1. PICK r \in RunSlot : RunNext(r)
      BY <2>4 DEF RunsGoOn
    <3>2. CASE Run(r) \/ SignAnyway(r) \/ AutoRun(r) \/ Recheck(r)
      <4>1. UNCHANGED record
        BY <3>2 DEF Run, SignAnyway, AutoRun, Recheck
      <4> QED
        BY <3>2, <4>1, BeginKeeps
    <3>3. CASE SubmitPassword(r)
      BY <3>3, SubmitKeeps
    <3>4. CASE \/ \E shape \in {"keys", "password", "clear"} : Scanned(r, shape)
               \/ \E decision \in {"engine", "none", "error"} : CeremonyEnds(r, decision)
      <4>1. UNCHANGED record
        BY <3>4 DEF Scanned, CeremonyEnds
      <4> QED
        BY <3>4, <4>1, GoOnKeeps
    <3>5. CASE Unlocked(r)
      BY <3>5, UnlockedKeeps
    <3>6. CASE WrongPassword(r) \/ EngineFails(r)
      BY <3>6, FailKeeps
    <3>7. CASE \E tone \in {"none", "success", "warning"} : EngineDone(r, tone)
      BY <3>7, DoneKeeps
    <3> QED
      BY <3>1, <3>2, <3>3, <3>4, <3>5, <3>6, <3>7 DEF RunNext
  <2> QED
    BY <1>1, <2>1, <2>2, <2>3, <2>4
<1> QED
  BY <1>2, <1>3, <1>4 DEF WsIInv, WsTyped

LEMMA PasswordIsSpent ==
  ASSUME WsIInv, NEW r \in RunSlot, EngineDone(r, "none"), runs[r].mode = "encrypt", runs[r].pw
  PROVE  ~ws'.pw
<1> DEFINE outcome == [kind |-> "done", result |-> ResultOf(runs[r], "none"), spent |-> runs[r].mode = "encrypt" /\ runs[r].pw]
<1>1. ws' = Finished(ws, runs[r].fresh, outcome) /\ outcome.spent /\ outcome.kind = "done"
  BY DEF EngineDone
<1>2. ws \in WsState
  BY DEF WsIInv, WsTyped
<1> HIDE DEF outcome
<1>3. Spent(ws, outcome) \in WsState /\ ~Spent(ws, outcome).pw
  BY <1>1, <1>2 DEF Spent, WsState
<1>4. CASE runs[r].fresh
  <2>1. ws' = [Spent(ws, outcome) EXCEPT !.run = "done", !.prompt = "none", !.result = outcome.result, !.carried = FALSE]
    BY <1>1, <1>4 DEF Finished, Finish
  <2> QED
    BY <1>3, <2>1 DEF WsState
<1>5. CASE ~runs[r].fresh
  <2>1. ws' = [ResetResults(Spent(ws, outcome)) EXCEPT !.run = "idle"]
    BY <1>1, <1>5 DEF Finished
  <2>2. ws'.pw = Spent(ws, outcome).pw
    BY <1>3, <2>1 DEF ResetResults, WsState
  <2> QED
    BY <1>3, <2>2
<1> QED
  BY <1>4, <1>5

LEMMA TypesFollow == WsIInv => wsTypeOK
<1> SUFFICES ASSUME WsIInv PROVE wsTypeOK
  OBVIOUS
<1>1. \A r \in RunSlot : runs[r].phase \in {"idle", "scanning", "ceremony", "unlocking", "engine"}
  <2> TAKE r \in RunSlot
  <2>1. runs[r] = Idle \/ runs[r] \in RunOf(Phases)
    BY RunsKnown
  <2> QED
    BY <2>1 DEF Idle, RunOf, Phases
<1>2. /\ ws.mode \in Mode /\ ws.text \in Text /\ ws.files \in [FileName -> Copy \cup {0}] /\ ws.to \in {"none", "pgp", "age"}
      /\ ws.run \in {"idle", "running", "done", "error", "held-back", "hidden-chars"}
      /\ ws.prompt \in {"none", "key", "message"} /\ ws.pw \in BOOLEAN /\ ws.confirmed \in BOOLEAN
  BY DEF WsIInv, WsTyped, WsState, FileSlots
<1> QED
  BY <1>1, <1>2 DEF WsIInv, WsTyped, wsTypeOK

(* For any number of runs under way, edits, prompts, ceremonies and locks:  *)
(* a result is over the input it was made from, "working" means a run is    *)
(* under way, hidden characters were confirmed, a message password is used  *)
(* once, nobody is asked by a run nobody started, and the history names     *)
(* what is shown.                                                           *)
THEOREM ResultsStayTrue == wsSpec => ResultsAreTrue
<1>1. wsSpec => []WsIInv
  BY WsInit, WsStep, PTL DEF wsSpec
<1>2. WsIInv => wsTypeOK /\ ResultsAreOverTheirInput /\ HiddenCharsAreConfirmed /\ WorkingMeansRunning
  BY TypesFollow DEF WsIInv, ShownIsRight
<1>3. WsIInv /\ WsIInv' /\ [wsNext]_wsVars =>
        [/\ record'.saved # "unattended"
         /\ \A r \in RunSlot : /\ runs'[r].phase = "ceremony" => ~runs'[r].unattended
                               /\ runs[r].phase = "scanning" /\ runs[r].unattended /\ runs'[r] # runs[r]
                                      => ws'.prompt \in {"none", ws.prompt}]_wsVars
  <2>1. WsIInv' => record'.saved # "unattended"
    BY DEF WsIInv, WsTyped
  <2> QED
    BY WsStep, <2>1 DEF StepIsQuiet
<1>4. WsIInv /\ [wsNext]_wsVars =>
        [\A r \in RunSlot : EngineDone(r, "none") /\ runs[r].mode = "encrypt" /\ runs[r].pw => ~ws'.pw]_wsVars
  BY PasswordIsSpent
<1>5. WsIInv /\ [wsNext]_wsVars =>
        [ws'.result # ws.result /\ ws'.result # NoResult /\ ws'.result.mode \in {"encrypt", "sign"}
            => record'.entry = "what was made"]_wsVars
  BY WsStep DEF StepIsQuiet
<1>6. wsSpec => UnattendedRunsAreQuiet
  BY <1>1, <1>3, PTL DEF wsSpec, UnattendedRunsAreQuiet
<1>7. wsSpec => PasswordsAreSpent
  BY <1>1, <1>4, PTL DEF wsSpec, PasswordsAreSpent
<1>8. wsSpec => HistoryNamesWhatIsShown
  BY <1>1, <1>5, PTL DEF wsSpec, HistoryNamesWhatIsShown
<1>9. wsSpec => [](wsTypeOK /\ ResultsAreOverTheirInput /\ HiddenCharsAreConfirmed /\ WorkingMeansRunning)
  BY <1>1, <1>2, PTL
<1> QED
  BY <1>6, <1>7, <1>8, <1>9 DEF ResultsAreTrue

-----------------------------------------------------------------------------
(* The recipients.  A contact is of one engine, whatever is turned off or   *)
(* taken from it; a record stands under the id of its chip.                 *)

OfOneKind == \A c \in book : \A k \in c.keys : Kind(k) = Kind(c.id)
IsPerson == \A c \in book : c = [id |-> c.id, keys |-> c.keys, off |-> c.off]
SealedIsRight == OnlyChosenKeys /\ NobodyIsLeftOut /\ OneEngineOnly /\ SelfExclusionIsSaid
RecipIInv == recipTypeOK /\ changes \in Nat /\ IsPerson /\ OfOneKind /\ SealedIsRight

\* Sets of engine names: more than one is both.
LEMMA KindsCounted ==
  ASSUME NEW S \in SUBSET {"ssh", "pgp"}
  PROVE  /\ Cardinality(S) \in Nat
         /\ Cardinality(S) > 1 <=> S = {"ssh", "pgp"}
         /\ Cardinality(S) <= 1 <=> S # {"ssh", "pgp"}
<1>1. IsFiniteSet({"ssh"}) /\ Cardinality({"ssh"}) = 1 /\ IsFiniteSet({"pgp"}) /\ Cardinality({"pgp"}) = 1
  BY FS_Singleton
<1>2. Cardinality({"ssh"} \cup {"pgp"}) = 2
  <2>1. "pgp" \notin {"ssh"}
    OBVIOUS
  <2> QED
    BY <2>1, <1>1, FS_AddElement
<1>3. {"ssh"} \cup {"pgp"} = {"ssh", "pgp"}
  OBVIOUS
<1>4. Cardinality({}) = 0
  BY FS_EmptySet
<1>5. S = {} \/ S = {"ssh"} \/ S = {"pgp"} \/ S = {"ssh", "pgp"}
  OBVIOUS
<1>6. CASE S = {}
  BY <1>4, <1>6
<1>7. CASE S = {"ssh"}
  BY <1>1, <1>7
<1>8. CASE S = {"pgp"}
  BY <1>1, <1>8
<1>9. CASE S = {"ssh", "pgp"}
  BY <1>2, <1>3, <1>9
<1> QED
  BY <1>5, <1>6, <1>7, <1>8, <1>9

\* What stands for a chip is under the chip's own id, and of its kind.
LEMMA Resolved ==
  ASSUME recipTypeOK, IsPerson, OfOneKind, NEW id, NEW r \in ResolveOne(id)
  PROVE  /\ r.id = id /\ id \in r.keys /\ r.off \subseteq r.keys /\ r.keys \subseteq RKey
         /\ \A k \in r.keys : Kind(k) = Kind(id)
         /\ r.id \in mine => r.keys = {r.id} /\ r.off = {}
<1>1. CASE id \in mine
  <2>1. r = Own(id)
    BY <1>1 DEF ResolveOne
  <2>2. id \in RKey
    BY <1>1, RecipientAssumption DEF recipTypeOK
  <2> QED
    BY <2>1, <2>2, <1>1 DEF Own
<1>2. CASE id \notin mine
  <2>1. PICK c \in book : c.id = id /\ r = FromBook(c)
    BY <1>2 DEF ResolveOne
  <2>2. r.id = c.id /\ r.keys = c.keys /\ r.off = c.off
    BY <2>1 DEF FromBook
  <2>3. c.id \in c.keys /\ c.keys \subseteq RKey /\ c.off \subseteq c.keys
    BY DEF recipTypeOK
  <2>4. \A k \in c.keys : Kind(k) = Kind(c.id)
    BY DEF OfOneKind
  <2> QED
    BY <1>2, <2>1, <2>2, <2>3, <2>4
<1> QED
  BY <1>1, <1>2

LEMMA OfChips ==
  ASSUME NEW r
  PROVE  r \in ChosenKeys <=> \E i \in DOMAIN chips : r \in ResolveOne(chips[i])
BY DEF ChosenKeys

\* The engine is that of some chip, when one stands for anything at all.
LEMMA FirstDecides ==
  ASSUME recipTypeOK
  PROVE  /\ (\A i \in DOMAIN chips : ~Shows(chips[i])) => Engine = "none"
         /\ (\E i \in DOMAIN chips : Shows(chips[i])) => \E i \in DOMAIN chips : Shows(chips[i]) /\ Engine = Kind(chips[i])
<1>1. ASSUME NEW n \in DOMAIN chips, Shows(chips[n])
      PROVE  \E i \in DOMAIN chips : Shows(chips[i]) /\ Engine = Kind(chips[i])
  <2> DEFINE T == {i \in DOMAIN chips : Shows(chips[i])}
  <2> DEFINE First(i) == Shows(chips[i]) /\ \A j \in 1..(i - 1) : ~Shows(chips[j])
  <2>1. DOMAIN chips = 1 .. Len(chips) /\ Len(chips) \in Nat
    BY DEF recipTypeOK
  <2>2. T \subseteq Nat /\ T # {}
    BY <1>1, <2>1
  <2>3. \E x \in T : \A y \in T : ~(<<y, x>> \in OpToRel(<, Nat))
    <3> HIDE DEF T
    <3> QED
      BY <2>2, NatLessThanWellFounded, WFMin
  <2>4. PICK x \in T : \A y \in T : ~(y < x)
    BY <2>2, <2>3 DEF OpToRel
  <2>5. First(x) /\ x \in DOMAIN chips
    BY <2>1, <2>4
  <2>6. \E i \in DOMAIN chips : First(i)
    BY <2>5
  <2> DEFINE first == CHOOSE i \in DOMAIN chips : First(i)
  <2>7. first \in DOMAIN chips /\ First(first)
    <3> HIDE DEF First
    <3> QED
      BY <2>6
  <2>8. Engine = Kind(chips[first])
    BY <1>1 DEF Engine
  <2> HIDE DEF first
  <2> QED
    BY <2>7, <2>8
<1>2. (\A i \in DOMAIN chips : ~Shows(chips[i])) => Engine = "none"
  BY DEF Engine
<1> QED
  BY <1>1, <1>2

LEMMA OneOfTwo ==
  ASSUME NEW S, S \subseteq {"ssh", "pgp"}, S # {"ssh", "pgp"}, NEW a \in S, NEW b \in S
  PROVE  a = b
<1>1. ~("ssh" \in S /\ "pgp" \in S)
  OBVIOUS
<1>2. a \in {"ssh", "pgp"} /\ b \in {"ssh", "pgp"}
  OBVIOUS
<1>3. a # b => "ssh" \in S /\ "pgp" \in S
  BY <1>2
<1> QED
  BY <1>1, <1>3

LEMMA KindsAreKinds ==
  ASSUME NEW S PROVE {Kind(x) : x \in S} \in SUBSET {"ssh", "pgp"}
BY DEF Kind
LEMMA KindsOfRecords ==
  ASSUME NEW S PROVE {Kind(r.id) : r \in S} \in SUBSET {"ssh", "pgp"}
BY DEF Kind

\* Unmixed chips are all of the engine.
LEMMA AllOfTheEngine ==
  ASSUME recipTypeOK, IsPerson, OfOneKind, ~Mixed, NEW r \in ChosenKeys
  PROVE  Engine = Kind(r.id)
<1>1. PICK i \in DOMAIN chips : r \in ResolveOne(chips[i])
  BY OfChips
<1>2. Shows(chips[i]) /\ r.id = chips[i]
  BY <1>1, Resolved DEF Shows
<1>3. PICK j \in DOMAIN chips : Shows(chips[j]) /\ Engine = Kind(chips[j])
  BY <1>2, FirstDecides
<1>4. PICK q \in ResolveOne(chips[j]) : TRUE
  BY <1>3 DEF Shows
<1>5. q \in ChosenKeys /\ q.id = chips[j]
  BY <1>4, Resolved, OfChips
<1>6. {Kind(s.id) : s \in ChosenKeys} # {"ssh", "pgp"}
  <2>1. Cardinality({Kind(s.id) : s \in ChosenKeys}) \in Nat /\ ~(Cardinality({Kind(s.id) : s \in ChosenKeys}) > 1)
    BY KindsCounted, KindsOfRecords DEF Mixed
  <2> QED
    BY <2>1, KindsCounted, KindsOfRecords
<1>7. Kind(q.id) \in {"ssh", "pgp"} /\ Kind(r.id) \in {"ssh", "pgp"}
  BY DEF Kind
<1>8. Kind(q.id) = Kind(r.id)
  <2> DEFINE KS == {Kind(s.id) : s \in ChosenKeys}
  <2>1. Kind(q.id) \in KS /\ Kind(r.id) \in KS
    BY <1>5
  <2>2. KS \subseteq {"ssh", "pgp"} /\ KS # {"ssh", "pgp"}
    BY <1>6, KindsOfRecords
  <2> HIDE DEF KS
  <2> QED
    BY <2>1, <2>2, OneOfTwo
<1> QED
  BY <1>3, <1>5, <1>8

-----------------------------------------------------------------------------
LEMMA RecipInit == recipInit => RecipIInv
<1> SUFFICES ASSUME recipInit PROVE RecipIInv
  OBVIOUS
<1>1. recipTypeOK
  <2>1. book = {} /\ mine \subseteq MyKey /\ armed \in BOOLEAN /\ toSelf \in BOOLEAN
    BY DEF recipInit
  <2>2. chips = <<>> /\ DOMAIN chips = {}
    BY DEF recipInit
  <2> QED
    BY <2>1, <2>2 DEF recipTypeOK
<1>2. IsPerson /\ OfOneKind
  BY DEF recipInit, IsPerson, OfOneKind
<1>2a. changes \in Nat
  BY DEF recipInit
<1>3. SealedIsRight
  BY DEF recipInit, NotSent, SealedIsRight, OnlyChosenKeys, NobodyIsLeftOut, OneEngineOnly, SelfExclusionIsSaid
<1> QED
  BY <1>1, <1>2, <1>2a, <1>3 DEF RecipIInv

LEMMA SealedKept ==
  ASSUME SealedIsRight, UNCHANGED sealed
  PROVE  SealedIsRight'
BY DEF SealedIsRight, OnlyChosenKeys, NobodyIsLeftOut, OneEngineOnly, SelfExclusionIsSaid

\* The chips: appended to, shortened, or set to one.
ChipsAre == chips \in Seq(RKey) /\ \A i, j \in DOMAIN chips : chips[i] = chips[j] => i = j
LEMMA ChipAdded ==
  ASSUME ChipsAre, NEW id \in RKey, \A i \in DOMAIN chips : chips[i] # id, chips' = Append(chips, id)
  PROVE  ChipsAre'
<1>1. chips' \in Seq(RKey) /\ Len(chips') = Len(chips) + 1 /\ Len(chips) \in Nat
  BY DEF ChipsAre
<1>2. \A i \in 1 .. Len(chips) + 1 : chips'[i] = IF i = Len(chips) + 1 THEN id ELSE chips[i]
  BY DEF ChipsAre
<1>3. DOMAIN chips = 1 .. Len(chips) /\ DOMAIN chips' = 1 .. Len(chips) + 1
  BY <1>1 DEF ChipsAre
<1> QED
  BY <1>1, <1>2, <1>3 DEF ChipsAre
LEMMA ChipTaken ==
  ASSUME ChipsAre, NEW i \in DOMAIN chips,
         chips' = [j \in 1..(Len(chips) - 1) |-> chips[IF j < i THEN j ELSE j + 1]]
  PROVE  ChipsAre'
<1>1. DOMAIN chips = 1 .. Len(chips) /\ Len(chips) \in Nat /\ Len(chips) > 0
  BY DEF ChipsAre
<1>2. \A j \in 1..(Len(chips) - 1) : (IF j < i THEN j ELSE j + 1) \in 1 .. Len(chips)
  BY <1>1
<1>3. \A j \in 1..(Len(chips) - 1) : chips[IF j < i THEN j ELSE j + 1] \in RKey
  BY <1>1, <1>2 DEF ChipsAre
<1>4. chips' \in Seq(RKey) /\ DOMAIN chips' = 1..(Len(chips) - 1)
  BY <1>1, <1>3
<1>5. ASSUME NEW a \in DOMAIN chips', NEW b \in DOMAIN chips', chips'[a] = chips'[b]
      PROVE  a = b
  <2>1. (IF a < i THEN a ELSE a + 1) = (IF b < i THEN b ELSE b + 1)
    BY <1>1, <1>2, <1>4, <1>5 DEF ChipsAre
  <2> QED
    BY <2>1, <1>1, <1>4
<1> QED
  BY <1>4, <1>5 DEF ChipsAre
LEMMA ChipDropped ==
  ASSUME ChipsAre, chips # <<>>, chips' = SubSeq(chips, 1, Len(chips) - 1)
  PROVE  ChipsAre'
<1>1. DOMAIN chips = 1 .. Len(chips) /\ Len(chips) \in Nat /\ Len(chips) > 0
  BY DEF ChipsAre
<1>2. chips' \in Seq(RKey) /\ DOMAIN chips' = 1 .. Len(chips) - 1
  BY <1>1 DEF ChipsAre
<1>3. \A j \in 1 .. Len(chips) - 1 : chips'[j] = chips[j]
  BY <1>1 DEF ChipsAre
<1> QED
  BY <1>1, <1>2, <1>3 DEF ChipsAre

\* What is offered stands under a known id that no chip has.
LEMMA OfferedIds ==
  ASSUME recipTypeOK, NEW o \in Offered
  PROVE  o.id \in RKey /\ \A i \in DOMAIN chips : chips[i] # o.id
<1>1. CASE o \in OwnSection
  <2>1. PICK k \in mine : o = Own(k)
    BY <1>1 DEF OwnSection
  <2>2. o.id = k
    BY <2>1 DEF Own
  <2> QED
    BY <2>1, <2>2, RecipientAssumption DEF recipTypeOK, Offered
<1>2. CASE o \in ContactSection
  <2>1. PICK c \in book : o = FromBook(c)
    BY <1>2 DEF ContactSection
  <2>2. o.id = c.id
    BY <2>1 DEF FromBook
  <2> QED
    BY <2>1, <2>2 DEF recipTypeOK, Offered
<1> QED
  BY <1>1, <1>2 DEF Offered

PersonIsRight(c) ==
    /\ c.id \in c.keys /\ c.keys \subseteq RKey /\ c.off \subseteq c.keys
    /\ c = [id |-> c.id, keys |-> c.keys, off |-> c.off]
    /\ \A k \in c.keys : Kind(k) = Kind(c.id)
BookIsRight == \A c \in book : PersonIsRight(c)
OthersAreTyped == mine \subseteq MyKey /\ armed \in BOOLEAN /\ toSelf \in BOOLEAN /\ changes \in Nat

LEMMA InParts == RecipIInv <=> BookIsRight /\ ChipsAre /\ OthersAreTyped /\ SealedIsRight
<1>1. recipTypeOK /\ changes \in Nat /\ IsPerson /\ OfOneKind <=> BookIsRight /\ ChipsAre /\ OthersAreTyped
  <2>1. BookIsRight <=> /\ \A c \in book : c.id \in c.keys /\ c.keys \subseteq RKey /\ c.off \subseteq c.keys
                        /\ IsPerson /\ OfOneKind
    BY DEF BookIsRight, PersonIsRight, IsPerson, OfOneKind
  <2> QED
    BY <2>1 DEF recipTypeOK, ChipsAre, OthersAreTyped
<1> QED
  BY <1>1 DEF RecipIInv

LEMMA NewPerson ==
  ASSUME NEW c \in PgpContacts \cup SshContacts
  PROVE  PersonIsRight(c)
<1>1. CASE c \in PgpContacts
  <2>1. PICK k \in RKey \ Ssh : c = Person({k}, k)
    BY <1>1 DEF PgpContacts
  <2> QED
    BY <2>1 DEF Person, PersonIsRight
<1>2. CASE c \in SshContacts
  <2>1. PICK g \in Group \cup {{k} : k \in Ssh} : c \in {Person(g, h) : h \in g}
    BY <1>2 DEF SshContacts
  <2>1a. PICK h \in g : c = Person(g, h)
    BY <2>1
  <2>2. g \subseteq Ssh /\ g \subseteq RKey
    BY RecipientAssumption
  <2>3. c.id = h /\ c.keys = g /\ c.off = {} /\ c = [id |-> c.id, keys |-> c.keys, off |-> c.off]
    BY <2>1a DEF Person
  <2>4. \A k \in g : Kind(k) = "ssh"
    BY <2>2 DEF Kind
  <2>5. Kind(h) = "ssh"
    BY <2>2 DEF Kind
  <2> QED
    BY <2>2, <2>3, <2>4, <2>5, <1>2 DEF PersonIsRight
<1> QED
  BY <1>1, <1>2

LEMMA ChangedPerson ==
  ASSUME BookIsRight, NEW c \in book, ChangePerson(c)
  PROVE  BookIsRight'
<1>1. PersonIsRight(c)
  BY DEF BookIsRight
<1>2. CASE book' = book \ {c}
  BY <1>2 DEF BookIsRight
<1>3. CASE \E k \in c.keys : book' = (book \ {c}) \cup {[c EXCEPT !.off = IF k \in @ THEN @ \ {k} ELSE @ \cup {k}]}
  <2>1. PICK k \in c.keys : book' = (book \ {c}) \cup {[c EXCEPT !.off = IF k \in @ THEN @ \ {k} ELSE @ \cup {k}]}
    BY <1>3
  <2> DEFINE d == [c EXCEPT !.off = IF k \in @ THEN @ \ {k} ELSE @ \cup {k}]
  <2>2. d = [id |-> c.id, keys |-> c.keys, off |-> IF k \in c.off THEN c.off \ {k} ELSE c.off \cup {k}]
    BY <1>1 DEF PersonIsRight
  <2>3. d.id = c.id /\ d.keys = c.keys /\ d.off \subseteq c.keys
    BY <2>2, <1>1 DEF PersonIsRight
  <2>4. PersonIsRight(d)
    <3>1. d = [id |-> d.id, keys |-> d.keys, off |-> d.off]
      BY <2>2
    <3> HIDE DEF d
    <3> QED
      BY <2>3, <1>1, <3>1 DEF PersonIsRight
  <2> QED
    BY <2>1, <2>4 DEF BookIsRight
<1>4. CASE \E keys \in SUBSET c.keys : c.id \in keys /\ book' = (book \ {c}) \cup {[id |-> c.id, keys |-> keys, off |-> c.off \cap keys]}
  <2>1. PICK keys \in SUBSET c.keys : c.id \in keys /\ book' = (book \ {c}) \cup {[id |-> c.id, keys |-> keys, off |-> c.off \cap keys]}
    BY <1>4
  <2> DEFINE d == [id |-> c.id, keys |-> keys, off |-> c.off \cap keys]
  <2>2. d = [id |-> c.id, keys |-> keys, off |-> c.off \cap keys]
    OBVIOUS
  <2>3. d.id = c.id /\ d.keys = keys /\ d.off \subseteq keys
    BY <2>2
  <2>4. PersonIsRight(d)
    <3>1. d = [id |-> d.id, keys |-> d.keys, off |-> d.off]
      BY <2>2
    <3> HIDE DEF d
    <3> QED
      BY <2>1, <2>3, <1>1, <3>1 DEF PersonIsRight
  <2> QED
    BY <2>1, <2>4 DEF BookIsRight
<1> QED
  BY <1>2, <1>3, <1>4 DEF ChangePerson

\* The run: what it seals, it seals to what it shows.
LEMMA EncryptIsRight ==
  ASSUME RecipIInv, Encrypt
  PROVE  SealedIsRight'
<1> DEFINE records == ChosenKeys
<1> DEFINE refused == (Engine = "ssh" /\ armed) \/ Refuses(records) \/ OtherEngine(records)
<1>1. recipTypeOK /\ IsPerson /\ OfOneKind
  BY DEF RecipIInv
<1>2. PICK self : /\ self = {} \/ \E k \in SelfKeys(Engine) : self = {k}
                  /\ sealed' = IF refused THEN [done |-> FALSE]
                        ELSE [done |-> TRUE, shown |-> records, self |-> self, mine |-> mine,
                              excluded |-> LeavesSelfOut(records, self), to |-> self \cup UNION {TargetKeys(r) : r \in records}]
  <2>1. \A S : \A self \in (IF toSelf /\ S THEN {{k} : k \in SelfKeys(Engine)} ELSE {{}}) :
            self = {} \/ \E k \in SelfKeys(Engine) : self = {k}
    OBVIOUS
  <2> QED
    BY <2>1 DEF Encrypt
<1>3. CASE refused
  <2>1. sealed' = [done |-> FALSE]
    BY <1>2, <1>3
  <2>2. ~sealed'.done
    BY <2>1
  <2> QED
    BY <2>2 DEF SealedIsRight, OnlyChosenKeys, NobodyIsLeftOut, OneEngineOnly, SelfExclusionIsSaid
<1>4. CASE ~refused
  <2> DEFINE to == self \cup UNION {ActiveKeys(r) : r \in records}
  <2>1. /\ sealed'.done /\ sealed'.shown = records /\ sealed'.self = self /\ sealed'.mine = mine
        /\ sealed'.excluded = LeavesSelfOut(records, self) /\ sealed'.to = to
    BY <1>2, <1>4 DEF TargetKeys
  <2>2. \A r \in records : ActiveKeys(r) # {}
    BY <1>4 DEF Refuses
  <2>3. ~Mixed
    BY <1>4 DEF Refuses, Mixed
  <2>4. \A r \in records : /\ r.id \in r.keys /\ r.off \subseteq r.keys
                           /\ \A k \in r.keys : Kind(k) = Kind(r.id)
                           /\ r.id \in mine => r.keys = {r.id} /\ r.off = {}
    <3> TAKE r \in records
    <3>1. PICK i \in DOMAIN chips : r \in ResolveOne(chips[i])
      BY OfChips
    <3> QED
      BY <1>1, <3>1, Resolved
  <2>5. self \subseteq mine /\ \A k \in self : Engine = "none" \/ Kind(k) = Engine
    BY <1>2 DEF SelfKeys
  <2>6. \A r \in records : Engine = Kind(r.id)
    BY <1>1, <2>3, AllOfTheEngine
  <2>7. OnlyChosenKeys'
    <3>1. sealed'.to \subseteq sealed'.self \cup UNION {r.keys \ r.off : r \in sealed'.shown}
      BY <2>1 DEF ActiveKeys
    <3>2. \A r \in sealed'.shown : r.id \in sealed'.mine => r.keys = {r.id}
      BY <2>1, <2>4
    <3> QED
      BY <2>1, <2>5, <3>1, <3>2 DEF OnlyChosenKeys
  <2>8. NobodyIsLeftOut'
    <3>1. \A r \in records : r.keys \cap to # {}
      BY <2>2 DEF ActiveKeys
    <3> HIDE DEF to, records
    <3> QED
      BY <2>1, <3>1 DEF NobodyIsLeftOut
  <2>9. OneEngineOnly'
    <3>1. \A k \in to : \A l \in to : Kind(k) = Kind(l)
      <4>1. \A k \in to : k \in self \/ \E r \in records : k \in r.keys
        BY DEF ActiveKeys
      <4>2. \A k \in to : k \in self \/ Kind(k) = Engine
        BY <4>1, <2>4, <2>6
      <4>3. \A k \in self : \A l \in self : k = l
        BY <1>2
      <4>4. ASSUME Engine = "none" PROVE records = {}
        <5>1. \A r \in records : Kind(r.id) # "none"
          BY DEF Kind
        <5> QED
          BY <4>4, <5>1, <2>6
      <4>5. CASE Engine = "none"
        BY <4>1, <4>3, <4>4, <4>5
      <4>6. CASE Engine # "none"
        BY <4>2, <2>5, <4>6
      <4> QED
        BY <4>5, <4>6
    <3>2. {Kind(k) : k \in to} # {"ssh", "pgp"}
      <4>1. ASSUME {Kind(k) : k \in to} = {"ssh", "pgp"} PROVE FALSE
        <5>1. "ssh" \in {Kind(k) : k \in to} /\ "pgp" \in {Kind(k) : k \in to}
          BY <4>1
        <5>2. PICK k \in to : Kind(k) = "ssh"
          BY <5>1
        <5>3. PICK l \in to : Kind(l) = "pgp"
          BY <5>1
        <5> QED
          BY <5>2, <5>3, <3>1
      <4> QED
        BY <4>1
    <3>3. Cardinality({Kind(k) : k \in to}) <= 1
      BY <3>2, KindsCounted, KindsAreKinds
    <3> HIDE DEF to
    <3> QED
      BY <2>1, <3>3 DEF OneEngineOnly, Kind
  <2>10. SelfExclusionIsSaid'
    <3>1. ASSUME to \cap mine = {} PROVE LeavesSelfOut(records, self)
      <4>1. self = {}
        BY <3>1, <2>5
      <4>2. \A r \in records : r.id \notin mine
        <5> SUFFICES ASSUME NEW r \in records, r.id \in mine PROVE FALSE
          OBVIOUS
        <5>1. r.id \in ActiveKeys(r)
          BY <2>4 DEF ActiveKeys
        <5> QED
          BY <5>1, <3>1
      <4> QED
        BY <4>1, <4>2 DEF LeavesSelfOut
    <3>2. LeavesSelfOut(records, self) => self = {}
      BY DEF LeavesSelfOut
    <3> HIDE DEF to, records
    <3> QED
      BY <2>1, <3>1, <3>2 DEF SelfExclusionIsSaid
  <2> QED
    BY <2>7, <2>8, <2>9, <2>10 DEF SealedIsRight
<1> QED
  BY <1>3, <1>4

LEMMA RecipStep == RecipIInv /\ [recipNext]_recipVars => RecipIInv'
<1> SUFFICES ASSUME RecipIInv, [recipNext]_recipVars PROVE RecipIInv'
  OBVIOUS
<1>1. BookIsRight /\ ChipsAre /\ OthersAreTyped /\ SealedIsRight /\ recipTypeOK
  BY InParts DEF RecipIInv
<1>2. BookIsRight'
  <2>1. CASE UNCHANGED book
    BY <1>1, <2>1 DEF BookIsRight
  <2>2. CASE \E c \in book : ChangePerson(c)
    BY <1>1, <2>2, ChangedPerson
  <2>3. CASE \E c \in PgpContacts \cup SshContacts : AddPerson(c)
    <3>1. PICK c \in PgpContacts \cup SshContacts : book' = book \cup {c}
      BY <2>3 DEF AddPerson
    <3> QED
      BY <1>1, <3>1, NewPerson DEF BookIsRight
  <2> QED
    BY <2>1, <2>2, <2>3 DEF recipNext, recipVars, OpenList, CloseList, Backspace, ClearChips, ArmPassword, Encrypt,
       Highlight, Pick, PickByDigit, RemoveChip, EncryptToOne, ChangeOwn
<1>3. ChipsAre'
  <2>1. CASE UNCHANGED chips
    BY <1>1, <2>1 DEF ChipsAre
  <2>2. CASE \E o \in Offered : chips' = Append(chips, o.id)
    BY <1>1, <2>2, OfferedIds, ChipAdded
  <2>3. CASE Backspace
    BY <1>1, <2>3, ChipDropped DEF Backspace
  <2>4. CASE \E id \in RKey : RemoveChip(id)
    BY <1>1, <2>4, ChipTaken DEF RemoveChip
  <2>5. CASE ClearChips
    <3>1. chips' = <<>> /\ DOMAIN chips' = {}
      BY <2>5 DEF ClearChips
    <3> QED
      BY <3>1 DEF ChipsAre
  <2>6. CASE \E c \in book : EncryptToOne(c)
    <3>1. PICK c \in book : chips' = <<c.id>>
      BY <2>6 DEF EncryptToOne
    <3>2. c.id \in RKey
      BY <1>1 DEF BookIsRight, PersonIsRight
    <3> QED
      BY <3>1, <3>2 DEF ChipsAre
  <2>7. \A o : Pick(o) \/ PickByDigit(o) => chips' = Append(chips, o.id)
    BY DEF Pick, PickByDigit
  <2> QED
    BY <2>1, <2>2, <2>3, <2>4, <2>5, <2>6, <2>7 DEF recipNext, recipVars, OpenList, CloseList, ArmPassword, Encrypt,
       Highlight, ChangePerson, AddPerson, ChangeOwn
<1>4. OthersAreTyped'
  <2>1. mine' \subseteq MyKey
    BY <1>1 DEF OthersAreTyped, recipNext, recipVars, OpenList, CloseList, Backspace, ClearChips, ArmPassword, Encrypt,
       Highlight, Pick, PickByDigit, RemoveChip, EncryptToOne, ChangePerson, AddPerson, ChangeOwn
  <2>1a. changes' \in Nat
    BY <1>1 DEF OthersAreTyped, recipNext, recipVars, OpenList, CloseList, Backspace, ClearChips, ArmPassword, Encrypt,
       Highlight, Pick, PickByDigit, RemoveChip, EncryptToOne, ChangePerson, AddPerson, ChangeOwn, Change
  <2>2. armed' \in BOOLEAN /\ toSelf' \in BOOLEAN
    BY <1>1 DEF OthersAreTyped, recipNext, recipVars, OpenList, CloseList, Backspace, ClearChips, ArmPassword, Encrypt,
       Highlight, Pick, PickByDigit, RemoveChip, EncryptToOne, ChangePerson, AddPerson, ChangeOwn
  <2> QED
    BY <2>1, <2>1a, <2>2 DEF OthersAreTyped
<1>5. SealedIsRight'
  <2>1. CASE Encrypt
    BY <2>1, EncryptIsRight
  <2>2. CASE UNCHANGED sealed
    BY <1>1, <2>2, SealedKept
  <2> QED
    BY <2>1, <2>2 DEF recipNext, recipVars, OpenList, CloseList, Backspace, ClearChips, ArmPassword,
       Highlight, Pick, PickByDigit, RemoveChip, EncryptToOne, ChangePerson, AddPerson, ChangeOwn
<1> QED
  BY <1>2, <1>3, <1>4, <1>5, InParts, PTL

\* The chips of a list that only lost some.
LEMMA FewerDoNotMix ==
  ASSUME UNCHANGED <<book, mine>>, ~Mixed,
         \A i \in DOMAIN chips' : \E j \in DOMAIN chips : chips'[i] = chips[j]
  PROVE  ~Mixed'
<1>1. \A id : ResolveOne(id)' = ResolveOne(id)
  BY DEF ResolveOne
<1>2. ChosenKeys' \subseteq ChosenKeys
  <2> SUFFICES ASSUME NEW r \in ChosenKeys' PROVE r \in ChosenKeys
    OBVIOUS
  <2>1. PICK i \in DOMAIN chips' : r \in ResolveOne(chips'[i])
    BY <1>1 DEF ChosenKeys, ResolveOne
  <2> QED
    BY <2>1 DEF ChosenKeys
<1>3. {Kind(r.id) : r \in ChosenKeys'} \subseteq {Kind(r.id) : r \in ChosenKeys}
  BY <1>2
<1>4. {Kind(r.id) : r \in ChosenKeys} # {"ssh", "pgp"}
  BY KindsCounted, KindsOfRecords DEF Mixed
<1>5. {Kind(r.id) : r \in ChosenKeys'} # {"ssh", "pgp"}
  BY <1>3, <1>4, KindsOfRecords
<1> QED
  BY <1>5, KindsCounted, KindsOfRecords DEF Mixed, Kind

LEMMA OneChipDoesNotMix ==
  ASSUME RecipIInv, UNCHANGED <<book, mine>>,
         NEW kind, \A i \in DOMAIN chips' : \A r \in ResolveOne(chips'[i]) : Kind(r.id) = kind
  PROVE  ~Mixed'
<1>1. \A r \in ChosenKeys' : Kind(r.id) = kind
  BY DEF ChosenKeys, ResolveOne
<1>2. {Kind(r.id) : r \in ChosenKeys'} # {"ssh", "pgp"}
  <2>1. ASSUME {Kind(r.id) : r \in ChosenKeys'} = {"ssh", "pgp"} PROVE FALSE
    <3>1. "ssh" \in {Kind(r.id) : r \in ChosenKeys'} /\ "pgp" \in {Kind(r.id) : r \in ChosenKeys'}
      BY <2>1
    <3>2. "ssh" = kind /\ "pgp" = kind
      BY <3>1, <1>1
    <3> QED
      BY <3>2
  <2> QED
    BY <2>1
<1> QED
  BY <1>2, KindsCounted, KindsOfRecords DEF Mixed, Kind

\* A picked key is of the engine of the chips, if they have one.
LEMMA PickDoesNotMix ==
  ASSUME RecipIInv, UNCHANGED <<book, mine>>, ~Mixed, NEW o \in Pickable, chips' = Append(chips, o.id)
  PROVE  ~Mixed'
<1>1. recipTypeOK /\ IsPerson /\ OfOneKind
  BY DEF RecipIInv
<1>2. o.id \in RKey
  BY <1>1, OfferedIds DEF Pickable
<1>3. chips \in Seq(RKey) /\ Len(chips) \in Nat
  BY <1>1 DEF recipTypeOK
<1>4. \A i \in DOMAIN chips' : (i \in DOMAIN chips /\ chips'[i] = chips[i]) \/ chips'[i] = o.id
  BY <1>2, <1>3
<1>5. \A i \in DOMAIN chips' : \A r \in ResolveOne(chips'[i]) : Kind(r.id) = Kind(o.id)
  <2> SUFFICES ASSUME NEW i \in DOMAIN chips', NEW r \in ResolveOne(chips'[i]) PROVE Kind(r.id) = Kind(o.id)
    OBVIOUS
  <2>1. r.id = chips'[i]
    BY <1>1, Resolved
  <2>2. CASE i \in DOMAIN chips /\ chips'[i] = chips[i]
    <3>1. r \in ChosenKeys
      BY <2>2, OfChips
    <3>2. Engine = Kind(r.id)
      BY <1>1, <3>1, AllOfTheEngine
    <3>3. Kind(r.id) # "none"
      BY DEF Kind
    <3>4. Engine \in {"none", Kind(o.id)}
      BY DEF Pickable, NotBlocked
    <3> QED
      BY <3>2, <3>3, <3>4
  <2>3. CASE chips'[i] = o.id
    BY <2>1, <2>3
  <2> QED
    BY <1>4, <2>2, <2>3
<1> QED
  BY <1>5, OneChipDoesNotMix

LEMMA GestureDoesNotMix == RecipIInv /\ [recipNext]_recipVars => (Mixed' /\ ~Mixed => changes' # changes)
<1> SUFFICES ASSUME RecipIInv, recipNext \/ UNCHANGED recipVars, ~Mixed PROVE ~Mixed' \/ changes' # changes
  OBVIOUS
<1>1. chips \in Seq(RKey) /\ Len(chips) \in Nat
  BY DEF RecipIInv, recipTypeOK
<1>2. CASE UNCHANGED <<book, mine, chips>>
  BY <1>2, FewerDoNotMix
<1>3. CASE \E o \in Offered : Pick(o) \/ PickByDigit(o)
  <2>1. PICK o \in Pickable : chips' = Append(chips, o.id) /\ UNCHANGED <<book, mine>>
    BY <1>3 DEF Pick, PickByDigit, EnterPicks
  <2> QED
    BY <2>1, PickDoesNotMix
<1>4. CASE Backspace
  <2>1. chips' = SubSeq(chips, 1, Len(chips) - 1) /\ chips # <<>> /\ UNCHANGED <<book, mine>>
    BY <1>4 DEF Backspace
  <2>2. \A i \in DOMAIN chips' : i \in DOMAIN chips /\ chips'[i] = chips[i]
    BY <1>1, <2>1
  <2> QED
    BY <2>1, <2>2, FewerDoNotMix
<1>5. CASE \E id \in RKey : RemoveChip(id)
  <2>1. PICK i \in DOMAIN chips : chips' = [j \in 1..(Len(chips) - 1) |-> chips[IF j < i THEN j ELSE j + 1]]
    BY <1>5 DEF RemoveChip
  <2>2. UNCHANGED <<book, mine>>
    BY <1>5 DEF RemoveChip
  <2>3. \A j \in 1..(Len(chips) - 1) : (IF j < i THEN j ELSE j + 1) \in DOMAIN chips
    BY <1>1
  <2>4. \A j \in DOMAIN chips' : \E k \in DOMAIN chips : chips'[j] = chips[k]
    BY <2>1, <2>3
  <2> QED
    BY <2>2, <2>4, FewerDoNotMix
<1>6. CASE ClearChips
  <2>1. DOMAIN chips' = {} /\ UNCHANGED <<book, mine>>
    BY <1>6 DEF ClearChips
  <2> QED
    BY <2>1, FewerDoNotMix
<1>7. CASE \E c \in book : EncryptToOne(c)
  <2>1. PICK c \in book : chips' = <<c.id>>
    BY <1>7 DEF EncryptToOne
  <2>2. UNCHANGED <<book, mine>>
    BY <1>7 DEF EncryptToOne
  <2>3. \A i \in DOMAIN chips' : chips'[i] = c.id
    BY <2>1
  <2>4. \A r \in ResolveOne(c.id) : Kind(r.id) = Kind(c.id)
    BY Resolved DEF RecipIInv
  <2> QED
    BY <2>2, <2>3, <2>4, OneChipDoesNotMix
<1>8. CASE \/ \E c \in book : ChangePerson(c)
           \/ \E c \in PgpContacts \cup SshContacts : AddPerson(c)
           \/ \E k \in MyKey : ChangeOwn(k)
  <2>1. changes' = changes + 1 /\ changes \in Nat
    BY <1>8 DEF RecipIInv, ChangePerson, AddPerson, ChangeOwn, Change
  <2> QED
    BY <2>1
<1> QED
  BY <1>2, <1>3, <1>4, <1>5, <1>6, <1>7, <1>8 DEF recipNext, recipVars, OpenList, CloseList, Highlight, ArmPassword, Encrypt

LEMMA OwnKeysStayOffered == OwnKeysAreOffered
BY DEF OwnKeysAreOffered, Offered, OwnSection, Own

(* For any keys, contacts and changes under the picker: a message goes to   *)
(* the chosen keys, to all of them and no others, by one engine, and the    *)
(* user who cannot read it is told; a gesture never mixes engines.          *)
THEOREM SealsAsChosen == recipSpec => SealedAsChosen
<1>1. recipSpec => []RecipIInv
  BY RecipInit, RecipStep, PTL DEF recipSpec
<1>2. RecipIInv => recipTypeOK /\ OnlyChosenKeys /\ NobodyIsLeftOut /\ OneEngineOnly /\ SelfExclusionIsSaid /\ OwnKeysAreOffered
  BY OwnKeysStayOffered DEF RecipIInv, SealedIsRight
<1>3. RecipIInv /\ [recipNext]_recipVars => [Mixed' /\ ~Mixed => changes' # changes]_recipVars
  BY GestureDoesNotMix
<1> QED
  BY <1>1, <1>2, <1>3, PTL DEF recipSpec, SealedAsChosen, GesturesDoNotMix

-----------------------------------------------------------------------------
(* The find bar.  What the loops compute is proved by the least index at which *)
(* a claim fails; that a recursive function exists, by extending one of its    *)
(* beginnings.                                                                 *)

LEMMA Lowest == ASSUME NEW S, S \subseteq Nat, S # {} PROVE \E i \in S : \A j \in S : i <= j
<1>1. \E i \in S : \A j \in S : ~(<<j, i>> \in OpToRel(<, Nat))
  BY NatLessThanWellFounded, WFMin
<1>2. PICK i \in S : \A j \in S : ~(j < i)
  BY <1>1 DEF OpToRel
<1> QED
  BY <1>2

LEMMA Inductively ==
    ASSUME NEW N \in Nat, NEW S, 0 \in S, \A n \in 1 .. N : n - 1 \in S => n \in S
    PROVE  \A n \in 0 .. N : n \in S
<1> DEFINE Fails == (0 .. N) \ S
<1> SUFFICES ASSUME Fails # {} PROVE FALSE
  OBVIOUS
<1>1. PICK i \in Fails : \A j \in Fails : i <= j
  <2>1. Fails \subseteq Nat
    OBVIOUS
  <2> HIDE DEF Fails
  <2> QED
    BY <2>1, Lowest
<1>2. i \in 1 .. N /\ i - 1 \in 0 .. N /\ i - 1 < i
  BY <1>1
<1>3. i - 1 \in S
  BY <1>1, <1>2
<1> QED
  BY <1>1, <1>2, <1>3

Unfolds(f, N, T, base, step) ==
    f \in [0 .. N -> T] /\ f[0] = base /\ \A n \in 1 .. N : f[n] = step[<<n, f[n - 1]>>]

LEMMA StepByStep ==
    ASSUME NEW N \in Nat, NEW T, NEW base \in T, NEW step \in [(1 .. N) \X T -> T]
    PROVE  \E f : Unfolds(f, N, T, base, step)
<1> DEFINE Begins(f, m) == f[0] = base /\ \A n \in 1 .. m : f[n] = step[<<n, f[n - 1]>>]
           S == {m \in 0 .. N : \E f \in [0 .. m -> T] : Begins(f, m)}
<1>1. 0 \in S
  <2>1. [n \in 0 .. 0 |-> base] \in [0 .. 0 -> T] /\ Begins([n \in 0 .. 0 |-> base], 0)
    OBVIOUS
  <2>2. \E f \in [0 .. 0 -> T] : Begins(f, 0)
    BY <2>1
  <2> QED
    BY <2>2
<1>2. ASSUME NEW m \in 1 .. N, m - 1 \in S PROVE m \in S
  <2>1. PICK f \in [0 .. m - 1 -> T] : Begins(f, m - 1)
    BY <1>2
  <2> DEFINE g == [n \in 0 .. m |-> IF n = m THEN step[<<m, f[m - 1]>>] ELSE f[n]]
  <2>2. m - 1 \in 0 .. m - 1 /\ f[m - 1] \in T
    OBVIOUS
  <2>3. step[<<m, f[m - 1]>>] \in T
    BY <2>2
  <2>4. \A n \in 0 .. m - 1 : n \in 0 .. m /\ n # m /\ g[n] = f[n]
    OBVIOUS
  <2>5. g[m] = step[<<m, f[m - 1]>>]
    OBVIOUS
  <2>6. g \in [0 .. m -> T]
    <3>1. \A n \in 0 .. m : n = m \/ n \in 0 .. m - 1
      OBVIOUS
    <3> QED
      BY <2>3, <3>1
  <2> HIDE DEF g
  <2>7. \A n \in 1 .. m : g[n] = step[<<n, g[n - 1]>>]
    <3> SUFFICES ASSUME NEW n \in 1 .. m PROVE g[n] = step[<<n, g[n - 1]>>]
      OBVIOUS
    <3>1. n - 1 \in 0 .. m - 1
      OBVIOUS
    <3>2. g[n - 1] = f[n - 1]
      BY <2>4, <3>1
    <3>3. CASE n = m
      BY <2>5, <3>2, <3>3
    <3>4. CASE n # m
      <4>1. n \in 1 .. m - 1 /\ n \in 0 .. m - 1
        BY <3>4
      <4> QED
        BY <2>1, <2>4, <3>2, <4>1
    <3> QED
      BY <3>3, <3>4
  <2>8. g[0] = base
    <3>1. 0 \in 0 .. m - 1
      OBVIOUS
    <3> QED
      BY <2>1, <2>4, <3>1
  <2> QED
    BY <2>6, <2>7, <2>8
<1>3. N \in S
  <2> HIDE DEF S
  <2>1. \A n \in 0 .. N : n \in S
    BY <1>1, <1>2, Inductively
  <2> QED
    BY <2>1
<1> QED
  BY <1>3 DEF Unfolds

\* The scan, letter by letter.
Scans(f, t, exact) ==
    /\ f \in [0 .. Len(t) -> Seq(Nat)] /\ f[0] = <<>>
    /\ \A n \in 1 .. Len(t) : f[n] = IF IsMatch(t[n], exact) THEN Append(f[n - 1], n - 1) ELSE f[n - 1]

LEMMA FindAllScans ==
    ASSUME NEW t \in Seq(Letter), NEW exact \in BOOLEAN
    PROVE  \E f : Scans(f, t, exact) /\ FindAll(t, exact) = f[Len(t)]
<1> DEFINE N == Len(t)
           Next1(n, ms) == IF IsMatch(t[n], exact) THEN Append(ms, n - 1) ELSE ms
           Is(f) == f = [n \in 0 .. N |-> IF n = 0 THEN <<>> ELSE Next1(n, f[n - 1])]
           g == CHOOSE f : Is(f)
<1>0. N \in Nat
  OBVIOUS
<1>1. \A n \in 1 .. N : \A ms \in Seq(Nat) : Next1(n, ms) \in Seq(Nat)
  <2> SUFFICES ASSUME NEW n \in 1 .. N, NEW ms \in Seq(Nat) PROVE Append(ms, n - 1) \in Seq(Nat)
    OBVIOUS
  <2>1. n - 1 \in Nat
    BY <1>0
  <2> QED
    BY <2>1, AppendProperties
<1>2. FindAll(t, exact) = g[N]
  BY DEF FindAll
<1> HIDE DEF Next1
<1>3. \E f : Is(f)
  <2> DEFINE step == [x \in (1 .. N) \X Seq(Nat) |-> Next1(x[1], x[2])]
  <2>1. step \in [(1 .. N) \X Seq(Nat) -> Seq(Nat)]
    BY <1>1
  <2>2. \A n \in 1 .. N : \A ms \in Seq(Nat) : step[<<n, ms>>] = Next1(n, ms)
    OBVIOUS
  <2>3. <<>> \in Seq(Nat)
    OBVIOUS
  <2> HIDE DEF step, N
  <2>4. PICK f : Unfolds(f, N, Seq(Nat), <<>>, step)
    BY <1>0, <2>1, <2>3, StepByStep
  <2>5. \A n \in 1 .. N : n - 1 \in 0 .. N /\ n # 0
    BY <1>0
  <2>6. \A n \in 1 .. N : f[n] = Next1(n, f[n - 1])
    BY <2>2, <2>4, <2>5 DEF Unfolds
  <2>7. \A n \in 0 .. N : n = 0 \/ n \in 1 .. N
    BY <1>0
  <2>8. \A n \in 0 .. N : f[n] = IF n = 0 THEN <<>> ELSE Next1(n, f[n - 1])
    BY <2>4, <2>6, <2>7 DEF Unfolds
  <2>9. Is(f)
    BY <2>4, <2>8 DEF Unfolds
  <2> QED
    BY <2>9
<1>4. Is(g)
  <2> HIDE DEF Is
  <2> QED
    BY <1>3
<1> HIDE DEF g, N
<1>5. g[0] = <<>> /\ \A n \in 1 .. N : g[n] = Next1(n, g[n - 1])
  <2>1. \A n \in 1 .. N : n \in 0 .. N /\ n # 0
    BY <1>0
  <2> QED
    BY <1>0, <1>4, <2>1
<1>6. \A n \in 0 .. N : g[n] \in Seq(Nat)
  <2> DEFINE S == {n \in 0 .. N : g[n] \in Seq(Nat)}
  <2>a. <<>> \in Seq(Nat) /\ 0 \in 0 .. N
    BY <1>0
  <2>1. 0 \in S
    BY <1>5, <2>a
  <2>2. \A n \in 1 .. N : n - 1 \in S => n \in S
    <3>1. \A n \in 1 .. N : n \in 0 .. N
      BY <1>0
    <3> QED
      BY <1>1, <1>5, <3>1
  <2> HIDE DEF S
  <2>3. \A n \in 0 .. N : n \in S
    BY <1>0, <2>1, <2>2, Inductively
  <2> QED
    BY <2>3 DEF S
<1>7. g \in [0 .. N -> Seq(Nat)]
  BY <1>4, <1>6
<1>8. Scans(g, t, exact)
  BY <1>5, <1>7 DEF Scans, Next1, N
<1> QED
  BY <1>2, <1>8 DEF N

\* What the scan has found by letter n: the matches before it, ascending.
FoundBy(ms, t, exact, n) ==
    /\ ms \in Seq(Nat)
    /\ \A i \in 1 .. Len(ms) : ms[i] \in 0 .. n - 1 /\ IsMatch(t[ms[i] + 1], exact)
    /\ \A i, j \in 1 .. Len(ms) : i < j => ms[i] < ms[j]
    /\ \A o \in 0 .. n - 1 : IsMatch(t[o + 1], exact) => \E i \in 1 .. Len(ms) : ms[i] = o

LEMMA AllAreFound ==
    ASSUME NEW t \in Seq(Letter), NEW exact \in BOOLEAN
    PROVE  FoundBy(FindAll(t, exact), t, exact, Len(t))
<1>0. Len(t) \in Nat
  OBVIOUS
<1>1. PICK f : Scans(f, t, exact) /\ FindAll(t, exact) = f[Len(t)]
  BY FindAllScans
<1> DEFINE S == {n \in 0 .. Len(t) : FoundBy(f[n], t, exact, n)}
<1>2. 0 \in S
  <2>1. f[0] = <<>>
    BY <1>1 DEF Scans
  <2>2. FoundBy(<<>>, t, exact, 0)
    BY DEF FoundBy
  <2> QED
    BY <1>0, <2>1, <2>2
<1>3. ASSUME NEW n \in 1 .. Len(t), n - 1 \in S PROVE n \in S
  <2> DEFINE ms == f[n - 1]
             L == Len(ms)
  <2>1. FoundBy(ms, t, exact, n - 1)
    BY <1>3
  <2>2. f[n] = IF IsMatch(t[n], exact) THEN Append(ms, n - 1) ELSE ms
    BY <1>1 DEF Scans
  <2>3. n \in 0 .. Len(t) /\ n - 1 \in Nat /\ (n - 1) + 1 = n
    BY <1>0
  <2> HIDE DEF ms
  <2>4. \A o \in 0 .. n - 1 : o = n - 1 \/ o \in 0 .. (n - 1) - 1
    BY <2>3
  <2>5. \A o \in 0 .. (n - 1) - 1 : o \in 0 .. n - 1 /\ o < n - 1
    BY <2>3
  <2>6. CASE ~IsMatch(t[n], exact)
    <3>1. FoundBy(ms, t, exact, n)
      BY <2>1, <2>3, <2>4, <2>5, <2>6 DEF FoundBy
    <3> QED
      BY <2>2, <2>3, <2>6, <3>1
  <2>7. CASE IsMatch(t[n], exact)
    <3> DEFINE more == Append(ms, n - 1)
    <3>1. ms \in Seq(Nat) /\ L \in Nat
      BY <2>1 DEF FoundBy
    <3>2. /\ more \in Seq(Nat) /\ Len(more) = L + 1
          /\ \A i \in 1 .. L : more[i] = ms[i]
          /\ more[L + 1] = n - 1
      BY <2>3, <3>1, AppendProperties
    <3>3. \A i \in 1 .. L + 1 : i = L + 1 \/ i \in 1 .. L
      BY <3>1
    <3>4. \A i \in 1 .. L : i \in 1 .. L + 1
      BY <3>1
    <3>a. L + 1 \in 1 .. L + 1 /\ n - 1 \in 0 .. n - 1
      BY <2>3, <3>1
    <3> HIDE DEF more, L
    <3>5. \A i \in 1 .. L + 1 : more[i] \in 0 .. n - 1 /\ IsMatch(t[more[i] + 1], exact)
      <4>1. \A i \in 1 .. L : ms[i] \in 0 .. (n - 1) - 1 /\ IsMatch(t[ms[i] + 1], exact)
        BY <2>1 DEF FoundBy, L
      <4> QED
        BY <2>3, <2>5, <2>7, <3>2, <3>3, <3>a, <4>1
    <3>6. \A i, j \in 1 .. L + 1 : i < j => more[i] < more[j]
      <4> SUFFICES ASSUME NEW i \in 1 .. L + 1, NEW j \in 1 .. L + 1, i < j PROVE more[i] < more[j]
        OBVIOUS
      <4>1. i \in 1 .. L
        BY <3>1, <3>3
      <4>2. ms[i] < n - 1
        BY <2>1, <2>5, <4>1 DEF FoundBy, L
      <4>3. CASE j \in 1 .. L
        BY <2>1, <3>2, <4>1, <4>3 DEF FoundBy, L
      <4> QED
        BY <3>2, <3>3, <4>1, <4>2, <4>3
    <3>7. \A o \in 0 .. n - 1 : IsMatch(t[o + 1], exact) => \E i \in 1 .. L + 1 : more[i] = o
      <4> SUFFICES ASSUME NEW o \in 0 .. n - 1, IsMatch(t[o + 1], exact) PROVE \E i \in 1 .. L + 1 : more[i] = o
        OBVIOUS
      <4>1. CASE o = n - 1
        BY <3>2, <3>a, <4>1
      <4>2. CASE o \in 0 .. (n - 1) - 1
        <5>1. PICK i \in 1 .. L : ms[i] = o
          BY <2>1, <4>2 DEF FoundBy, L
        <5> QED
          BY <3>2, <3>4, <5>1
      <4> QED
        BY <2>4, <4>1, <4>2
    <3>8. FoundBy(more, t, exact, n)
      BY <3>2, <3>5, <3>6, <3>7 DEF FoundBy
    <3> QED
      BY <2>2, <2>3, <2>7, <3>8 DEF more
  <2> QED
    BY <2>6, <2>7
<1>4. Len(t) \in S
  <2> HIDE DEF S
  <2>1. \A n \in 0 .. Len(t) : n \in S
    BY <1>0, <1>2, <1>3, Inductively
  <2> QED
    BY <1>0, <2>1
<1> QED
  BY <1>1, <1>4

LEMMA MatchIsChosen ==
    ASSUME NEW ms \in Seq(Nat), ms # <<>>, NEW from
    PROVE  NextMatch(ms, from) \in 0 .. Len(ms) - 1 /\ PrevMatch(ms, from) \in 0 .. Len(ms) - 1
<1> DEFINE L == Len(ms)
           later == {i \in DOMAIN ms : ms[i] >= from}
           before == {i \in DOMAIN ms : ms[i] < from}
           First == CHOOSE i \in later : \A j \in later : i <= j
           Last == CHOOSE i \in before : \A j \in before : i >= j
<1>1. L \in Nat \ {0} /\ DOMAIN ms = 1 .. L
  BY EmptySeq
<1>2. later \subseteq 1 .. L /\ before \subseteq 1 .. L
  BY <1>1
<1>3. NextMatch(ms, from) = IF later = {} THEN 0 ELSE First - 1
  BY DEF NextMatch
<1>4. PrevMatch(ms, from) = IF before = {} THEN L - 1 ELSE Last - 1
  BY DEF PrevMatch
<1> HIDE DEF later, before
<1>5. later # {} => First \in 1 .. L
  <2> SUFFICES ASSUME later # {} PROVE First \in 1 .. L
    OBVIOUS
  <2>1. later \subseteq Nat
    BY <1>1, <1>2
  <2>2. \E i \in later : \A j \in later : i <= j
    BY <2>1, Lowest
  <2>3. First \in later
    BY <2>2
  <2> QED
    BY <1>2, <2>3
<1>6. before # {} => Last \in 1 .. L
  <2> SUFFICES ASSUME before # {} PROVE Last \in 1 .. L
    OBVIOUS
  <2> DEFINE S == {L - i : i \in before}
  <2>1. S \subseteq Nat /\ S # {}
    <3>1. \A i \in before : L - i \in Nat
      BY <1>1, <1>2
    <3> QED
      BY <3>1
  <2>2. PICK s \in S : \A x \in S : s <= x
    <3> HIDE DEF S
    <3> QED
      BY <2>1, Lowest
  <2>3. PICK i \in before : s = L - i
    OBVIOUS
  <2>4. \A j \in before : L - i <= L - j
    BY <2>2, <2>3
  <2>5. \A j \in before : i >= j
    <3>1. \A j \in before : j \in Int /\ i \in Int /\ L \in Int
      BY <1>1, <1>2
    <3> HIDE DEF L
    <3> QED
      BY <2>4, <3>1
  <2>6. Last \in before
    BY <2>5
  <2> QED
    BY <1>2, <2>6
<1> HIDE DEF First, Last, L
<1>7. NextMatch(ms, from) \in 0 .. L - 1 /\ PrevMatch(ms, from) \in 0 .. L - 1
  BY <1>1, <1>3, <1>4, <1>5, <1>6
<1> QED
  BY <1>7 DEF L

\* A text is put together from its beginning, its end and what is between.
LEMMA UptoIs ==
    ASSUME NEW t \in Seq(Letter), NEW n \in Nat
    PROVE  /\ Upto(t, n) \in Seq(Letter)
           /\ Len(Upto(t, n)) = IF n < Len(t) THEN n ELSE Len(t)
           /\ \A i \in 1 .. Len(Upto(t, n)) : Upto(t, n)[i] = t[i]
<1> DEFINE m == IF n < Len(t) THEN n ELSE Len(t)
<1>1. m \in Nat /\ m <= Len(t) /\ 1 \in Int /\ m \in Int
  OBVIOUS
<1>2. \A i \in 1 .. m : t[i] \in Letter
  <2>1. \A i \in 1 .. m : i \in 1 .. Len(t)
    BY <1>1
  <2> QED
    BY <2>1, ElementOfSeq
<1>3. Upto(t, n) = SubSeq(t, 1, m)
  BY DEF Upto
<1> HIDE DEF m
<1>4. /\ SubSeq(t, 1, m) \in Seq(Letter)
      /\ Len(SubSeq(t, 1, m)) = IF 1 <= m THEN m - 1 + 1 ELSE 0
      /\ \A i \in 1 .. m - 1 + 1 : SubSeq(t, 1, m)[i] = t[1 + i - 1]
  BY <1>1, <1>2, SubSeqProperties
<1>5. Len(SubSeq(t, 1, m)) = m
  BY <1>1, <1>4
<1>6. \A i \in 1 .. m : SubSeq(t, 1, m)[i] = t[i]
  <2>1. \A i \in 1 .. m : i \in 1 .. m - 1 + 1 /\ 1 + i - 1 = i
    BY <1>1
  <2> QED
    BY <1>4, <2>1
<1> QED
  BY <1>3, <1>4, <1>5, <1>6 DEF m

LEMMA FromIs ==
    ASSUME NEW t \in Seq(Letter), NEW n \in Nat
    PROVE  /\ From(t, n) \in Seq(Letter)
           /\ Len(From(t, n)) = IF n < Len(t) THEN Len(t) - n ELSE 0
           /\ \A i \in 1 .. Len(From(t, n)) : From(t, n)[i] = t[n + i]
<1> DEFINE L == Len(t)
<1>1. L \in Nat /\ n + 1 \in Int /\ L \in Int
  OBVIOUS
<1>2. \A i \in n + 1 .. L : t[i] \in Letter
  <2>1. \A i \in n + 1 .. L : i \in 1 .. L
    BY <1>1
  <2> QED
    BY <2>1, ElementOfSeq
<1>3. From(t, n) = SubSeq(t, n + 1, L)
  BY DEF From
<1> HIDE DEF L
<1>4. /\ SubSeq(t, n + 1, L) \in Seq(Letter)
      /\ Len(SubSeq(t, n + 1, L)) = IF n + 1 <= L THEN L - (n + 1) + 1 ELSE 0
      /\ \A i \in 1 .. L - (n + 1) + 1 : SubSeq(t, n + 1, L)[i] = t[n + 1 + i - 1]
  BY <1>1, <1>2, SubSeqProperties
<1>5. Len(SubSeq(t, n + 1, L)) = IF n < L THEN L - n ELSE 0
  BY <1>1, <1>4
<1>6. \A i \in 1 .. Len(SubSeq(t, n + 1, L)) : SubSeq(t, n + 1, L)[i] = t[n + i]
  <2>1. \A i \in 1 .. Len(SubSeq(t, n + 1, L)) : i \in 1 .. L - (n + 1) + 1 /\ n + 1 + i - 1 = n + i
    BY <1>1, <1>5
  <2> QED
    BY <1>4, <2>1
<1> QED
  BY <1>3, <1>4, <1>5, <1>6 DEF L

LEMMA SameLetters ==
    ASSUME NEW a \in Seq(Letter), NEW b \in Seq(Letter), Len(a) = Len(b),
           \A i \in 1 .. Len(a) : a[i] = b[i]
    PROVE  a = b
BY SeqEqual

\* What is inserted between the same beginning and the same end is the edit.
LEMMA InsertedIsTheText ==
    ASSUME NEW a \in Seq(Letter), NEW b \in Seq(Letter) PROVE Inserted(a, b) = b
<1> DEFINE la == Len(a)
           lb == Len(b)
           short == IF la < lb THEN la ELSE lb
<1>1. la \in Nat /\ lb \in Nat /\ short \in Nat /\ short <= la /\ short <= lb
  OBVIOUS
<1> DEFINE p == SamePrefix(a, b)
<1>2. p \in 0 .. short /\ Upto(a, p) = Upto(b, p)
  <2> DEFINE Ends(n) == n = short \/ a[n + 1] # b[n + 1]
             S == {n \in 0 .. short : Ends(n)}
  <2>1. S \subseteq Nat /\ short \in S
    BY <1>1
  <2>2. PICK n \in S : \A m \in S : n <= m
    <3> HIDE DEF S
    <3> QED
      BY <2>1, Lowest
  <2>3. \A m \in 0 .. n - 1 : a[m + 1] = b[m + 1]
    <3>1. \A m \in 0 .. n - 1 : m \in 0 .. short /\ ~(n <= m)
      BY <1>1
    <3> QED
      BY <2>2, <3>1
  <2>4. n \in 0 .. short /\ Ends(n) /\ n \in Nat /\ n <= la /\ n <= lb
    BY <1>1
  <2> HIDE DEF S
  <2>5. Upto(a, n) = Upto(b, n)
    <3>1. Len(Upto(a, n)) = n /\ Len(Upto(b, n)) = n
      BY <1>1, <2>4, UptoIs
    <3>2. \A i \in 1 .. n : a[i] = b[i]
      <4>1. \A i \in 1 .. n : i - 1 \in 0 .. n - 1 /\ (i - 1) + 1 = i
        BY <2>4
      <4> QED
        BY <2>3, <4>1
    <3>3. \A i \in 1 .. n : Upto(a, n)[i] = Upto(b, n)[i]
      BY <2>4, <3>1, <3>2, UptoIs
    <3>4. Upto(a, n) \in Seq(Letter) /\ Upto(b, n) \in Seq(Letter)
      BY <2>4, UptoIs
    <3> QED
      BY <3>1, <3>3, <3>4, SameLetters
  <2> DEFINE Is(x) == x \in 0 .. short /\ Upto(a, x) = Upto(b, x) /\ Ends(x)
  <2>6. \E x \in 0 .. short : Upto(a, x) = Upto(b, x) /\ (x = short \/ a[x + 1] # b[x + 1])
    BY <2>4, <2>5
  <2>7. p = CHOOSE x \in 0 .. short : Upto(a, x) = Upto(b, x) /\ (x = short \/ a[x + 1] # b[x + 1])
    BY DEF SamePrefix
  <2> HIDE DEF p, short
  <2> QED
    BY <2>6, <2>7
<1> HIDE DEF p
<1> DEFINE room == short - p
           s == SameSuffix(a, b, p)
<1>3. p \in Nat /\ p <= la /\ p <= lb /\ room \in Nat /\ p + room <= la /\ p + room <= lb
  BY <1>1, <1>2
<1>4. s \in 0 .. room /\ \A k \in 0 .. s - 1 : a[la - k] = b[lb - k]
  <2> DEFINE Ends(n) == n = room \/ a[la - n] # b[lb - n]
             S == {n \in 0 .. room : Ends(n)}
  <2>1. S \subseteq Nat /\ room \in S
    BY <1>3
  <2>2. PICK n \in S : \A m \in S : n <= m
    <3> HIDE DEF S
    <3> QED
      BY <2>1, Lowest
  <2>3. \A k \in 0 .. n - 1 : a[la - k] = b[lb - k]
    <3>1. \A k \in 0 .. n - 1 : k \in 0 .. room /\ ~(n <= k)
      BY <1>3
    <3> QED
      BY <2>2, <3>1
  <2>4. n \in 0 .. room /\ Ends(n)
    OBVIOUS
  <2>5. SuffixRoom(a, b, p) = room
    BY DEF SuffixRoom
  <2>6. s = CHOOSE x \in 0 .. room : /\ \A k \in 0 .. (x - 1) : a[la - k] = b[lb - k]
                                     /\ x = room \/ a[la - x] # b[lb - x]
    BY <2>5 DEF SameSuffix
  <2>7. \E x \in 0 .. room : /\ \A k \in 0 .. (x - 1) : a[la - k] = b[lb - k]
                             /\ x = room \/ a[la - x] # b[lb - x]
    BY <2>3, <2>4
  <2> HIDE DEF s, room, la, lb
  <2> QED
    BY <2>6, <2>7
<1> HIDE DEF s
<1> DEFINE front == Upto(a, p)
           mid == SubSeq(b, p + 1, lb - s)
           back == From(a, la - s)
<1>5. Inserted(a, b) = front \o mid \o back
  BY DEF Inserted, p, s
<1>6. s \in Nat /\ la - s \in Nat /\ lb - s \in Nat /\ p <= la - s /\ p <= lb - s /\ p + 1 \in Int /\ lb - s \in Int
  BY <1>1, <1>3, <1>4
<1>7. front \in Seq(Letter) /\ Len(front) = p /\ \A i \in 1 .. p : front[i] = b[i]
  <2>1. Len(Upto(a, p)) = p /\ Len(Upto(b, p)) = p
    BY <1>3, UptoIs
  <2>2. Upto(a, p) = Upto(b, p) /\ Upto(b, p) \in Seq(Letter)
    BY <1>2, <1>3, UptoIs
  <2>3. \A i \in 1 .. p : Upto(b, p)[i] = b[i]
    BY <1>3, <2>1, UptoIs
  <2> QED
    BY <2>1, <2>2, <2>3
<1>8. /\ mid \in Seq(Letter) /\ Len(mid) = (lb - s) - p
      /\ \A i \in 1 .. (lb - s) - p : mid[i] = b[p + i]
  <2> DEFINE e == lb - s
  <2>1. e \in Int /\ p \in Int /\ e <= lb /\ p <= e
    BY <1>1, <1>3, <1>6
  <2>2. \A i \in p + 1 .. e : b[i] \in Letter
    <3>1. \A i \in p + 1 .. e : i \in 1 .. lb
      BY <1>1, <1>3, <2>1
    <3> QED
      BY <3>1, ElementOfSeq
  <2> HIDE DEF e
  <2>3. /\ SubSeq(b, p + 1, e) \in Seq(Letter)
        /\ Len(SubSeq(b, p + 1, e)) = IF p + 1 <= e THEN e - (p + 1) + 1 ELSE 0
        /\ \A i \in 1 .. e - (p + 1) + 1 : SubSeq(b, p + 1, e)[i] = b[p + 1 + i - 1]
    BY <1>6, <2>1, <2>2, SubSeqProperties
  <2>4. Len(SubSeq(b, p + 1, e)) = e - p
    BY <2>1, <2>3
  <2>5. \A i \in 1 .. e - p : i \in 1 .. e - (p + 1) + 1 /\ p + 1 + i - 1 = p + i
    BY <2>1
  <2>6. \A i \in 1 .. e - p : SubSeq(b, p + 1, e)[i] = b[p + i]
    BY <2>3, <2>5
  <2> QED
    BY <2>3, <2>4, <2>6 DEF e
<1>9. /\ back \in Seq(Letter) /\ Len(back) = s
      /\ \A i \in 1 .. s : back[i] = b[(lb - s) + i]
  <2>1. back \in Seq(Letter) /\ Len(back) = s
    <3>1. Len(back) = IF la - s < la THEN la - (la - s) ELSE 0
      BY <1>6, FromIs
    <3> QED
      BY <1>1, <1>6, <3>1, FromIs
  <2>2. \A i \in 1 .. s : back[i] = a[(la - s) + i]
    BY <1>6, <2>1, FromIs
  <2>3. \A i \in 1 .. s : s - i \in 0 .. s - 1 /\ la - (s - i) = (la - s) + i /\ lb - (s - i) = (lb - s) + i
    BY <1>1, <1>6
  <2>4. \A i \in 1 .. s : a[(la - s) + i] = b[(lb - s) + i]
    BY <1>4, <2>3
  <2> QED
    BY <2>1, <2>2, <2>4
<1> HIDE DEF front, mid, back, la, lb, room, short
<1>10. /\ front \o mid \in Seq(Letter) /\ Len(front \o mid) = lb - s
       /\ \A i \in 1 .. lb - s : (front \o mid)[i] = b[i]
  <2>1. /\ Len(front \o mid) = p + ((lb - s) - p) /\ front \o mid \in Seq(Letter)
        /\ \A i \in 1 .. p + ((lb - s) - p) : (front \o mid)[i] = IF i <= p THEN front[i] ELSE mid[i - p]
    <3>1. front \in Seq(Letter) /\ mid \in Seq(Letter)
      BY <1>7, <1>8
    <3>2. /\ Len(front \o mid) = Len(front) + Len(mid) /\ front \o mid \in Seq(Letter)
          /\ \A i \in 1 .. Len(front) + Len(mid) :
                 (front \o mid)[i] = IF i <= Len(front) THEN front[i] ELSE mid[i - Len(front)]
      BY <3>1, ConcatProperties
    <3>3. Len(front) = p /\ Len(mid) = (lb - s) - p
      BY <1>7, <1>8
    <3> QED
      BY <3>1, <3>2, <3>3
  <2>2. p + ((lb - s) - p) = lb - s
    BY <1>3, <1>6
  <2>3. ASSUME NEW i \in 1 .. lb - s PROVE (front \o mid)[i] = b[i]
    <3>1. CASE i <= p
      <4>1. i \in 1 .. p
        BY <1>3, <1>6, <3>1
      <4> QED
        BY <1>7, <2>1, <2>2, <4>1
    <3>2. CASE ~(i <= p)
      <4>1. i - p \in 1 .. (lb - s) - p /\ p + (i - p) = i
        BY <1>3, <1>6, <3>2
      <4> QED
        BY <1>8, <2>1, <2>2, <3>2, <4>1
    <3> QED
      BY <3>1, <3>2
  <2> QED
    BY <2>1, <2>2, <2>3
<1> DEFINE head == front \o mid
<1> HIDE DEF head
<1>11. /\ head \o back \in Seq(Letter) /\ Len(head \o back) = lb
       /\ \A i \in 1 .. lb : (head \o back)[i] = b[i]
  <2>a. head \in Seq(Letter) /\ Len(head) = lb - s
    BY <1>10 DEF head
  <2>1. /\ Len(head \o back) = (lb - s) + s /\ head \o back \in Seq(Letter)
        /\ \A i \in 1 .. (lb - s) + s : (head \o back)[i] = IF i <= lb - s THEN head[i] ELSE back[i - (lb - s)]
    BY <2>a, <1>9, ConcatProperties
  <2>2. (lb - s) + s = lb
    BY <1>1, <1>6
  <2>3. ASSUME NEW i \in 1 .. lb PROVE (head \o back)[i] = b[i]
    <3>1. CASE i <= lb - s
      <4>1. i \in 1 .. lb - s
        BY <1>6, <3>1
      <4> QED
        BY <1>10, <2>1, <2>2, <3>1, <4>1 DEF head
    <3>2. CASE ~(i <= lb - s)
      <4>1. i - (lb - s) \in 1 .. s /\ (lb - s) + (i - (lb - s)) = i
        BY <1>1, <1>6, <3>2
      <4> QED
        BY <1>9, <2>1, <2>2, <3>2, <4>1
    <3> QED
      BY <3>1, <3>2
  <2> QED
    BY <2>1, <2>2, <2>3
<1>12. Len(b) = lb
  BY DEF lb
<1>13. head \o back = b
  BY <1>11, <1>12, SameLetters
<1> QED
  BY <1>5, <1>13 DEF head

\* A replacement loop, from the last match to the first.
Replaces(f, t, ms, with) ==
    /\ f \in [0 .. Len(ms) -> Seq(Letter)] /\ f[0] = t
    /\ \A i \in 1 .. Len(ms) :
           LET o == ms[Len(ms) + 1 - i] IN f[i] = Upto(f[i - 1], o) \o with \o From(f[i - 1], o + 1)

LEMMA ReplacedIsATextToo ==
    ASSUME NEW x \in Seq(Letter), NEW with \in Seq(Letter), NEW o \in Nat
    PROVE  Upto(x, o) \o with \o From(x, o + 1) \in Seq(Letter)
<1>1. Upto(x, o) \in Seq(Letter) /\ From(x, o + 1) \in Seq(Letter)
  <2>1. o + 1 \in Nat
    OBVIOUS
  <2> QED
    BY <2>1, UptoIs, FromIs
<1>2. Upto(x, o) \o with \in Seq(Letter)
  BY <1>1, ConcatProperties
<1> QED
  BY <1>1, <1>2, ConcatProperties

LEMMA ReplaceEachReplaces ==
    ASSUME NEW t \in Seq(Letter), NEW ms \in Seq(Nat), NEW with \in Seq(Letter)
    PROVE  \E f : Replaces(f, t, ms, with) /\ ReplaceEach(t, ms, with) = f[Len(ms)]
<1> DEFINE N == Len(ms)
           Next1(i, x) == Upto(x, ms[N + 1 - i]) \o with \o From(x, ms[N + 1 - i] + 1)
           Is(f) == f = [i \in 0 .. N |-> IF i = 0 THEN t ELSE Next1(i, f[i - 1])]
           g == CHOOSE f : Is(f)
<1>0. N \in Nat
  OBVIOUS
<1>1. \A i \in 1 .. N : \A x \in Seq(Letter) : Next1(i, x) \in Seq(Letter)
  <2> SUFFICES ASSUME NEW i \in 1 .. N, NEW x \in Seq(Letter) PROVE Next1(i, x) \in Seq(Letter)
    OBVIOUS
  <2>1. N + 1 - i \in 1 .. N
    BY <1>0
  <2>2. ms[N + 1 - i] \in Nat
    BY <2>1, ElementOfSeq
  <2> QED
    BY <2>2, ReplacedIsATextToo
<1>2. ReplaceEach(t, ms, with) = g[N]
  BY DEF ReplaceEach
<1> HIDE DEF Next1
<1>3. \E f : Is(f)
  <2> DEFINE step == [x \in (1 .. N) \X Seq(Letter) |-> Next1(x[1], x[2])]
  <2>1. step \in [(1 .. N) \X Seq(Letter) -> Seq(Letter)]
    BY <1>1
  <2>2. \A n \in 1 .. N : \A x \in Seq(Letter) : step[<<n, x>>] = Next1(n, x)
    OBVIOUS
  <2> HIDE DEF step, N
  <2>4. PICK f : Unfolds(f, N, Seq(Letter), t, step)
    BY <1>0, <2>1, StepByStep
  <2>5. \A n \in 1 .. N : n - 1 \in 0 .. N /\ n # 0
    BY <1>0
  <2>6. \A n \in 1 .. N : f[n] = Next1(n, f[n - 1])
    BY <2>2, <2>4, <2>5 DEF Unfolds
  <2>7. \A n \in 0 .. N : n = 0 \/ n \in 1 .. N
    BY <1>0
  <2>8. \A n \in 0 .. N : f[n] = IF n = 0 THEN t ELSE Next1(n, f[n - 1])
    BY <2>4, <2>6, <2>7 DEF Unfolds
  <2>9. Is(f)
    BY <2>4, <2>8 DEF Unfolds
  <2> QED
    BY <2>9
<1>4. Is(g)
  <2> HIDE DEF Is
  <2> QED
    BY <1>3
<1> HIDE DEF g, N
<1>5. g[0] = t /\ \A n \in 1 .. N : g[n] = Next1(n, g[n - 1])
  <2>1. \A n \in 1 .. N : n \in 0 .. N /\ n # 0
    BY <1>0
  <2> QED
    BY <1>0, <1>4, <2>1
<1>6. \A n \in 0 .. N : g[n] \in Seq(Letter)
  <2> DEFINE S == {n \in 0 .. N : g[n] \in Seq(Letter)}
  <2>a. 0 \in 0 .. N
    BY <1>0
  <2>1. 0 \in S
    BY <1>5, <2>a
  <2>2. \A n \in 1 .. N : n - 1 \in S => n \in S
    <3>1. \A n \in 1 .. N : n \in 0 .. N
      BY <1>0
    <3> QED
      BY <1>1, <1>5, <3>1
  <2> HIDE DEF S
  <2>3. \A n \in 0 .. N : n \in S
    BY <1>0, <2>1, <2>2, Inductively
  <2> QED
    BY <2>3 DEF S
<1>7. g \in [0 .. N -> Seq(Letter)]
  BY <1>4, <1>6
<1>8. Replaces(g, t, ms, with)
  BY <1>5, <1>7 DEF Replaces, Next1, N
<1> QED
  BY <1>2, <1>8 DEF N

\* What the replaced text should be, read off from its end.
Piece(ch, exact, with) == IF IsMatch(ch, exact) THEN with ELSE <<ch>>
ReadsOff(f, t, exact, with) ==
    /\ f \in [0 .. Len(t) -> Seq(Letter)] /\ f[0] = <<>>
    /\ \A k \in 1 .. Len(t) : f[k] = Piece(t[Len(t) + 1 - k], exact, with) \o f[k - 1]

LEMMA PieceIsAText ==
    ASSUME NEW ch \in Letter, NEW exact, NEW with \in Seq(Letter) PROVE Piece(ch, exact, with) \in Seq(Letter)
BY DEF Piece

LEMMA SubstitutedReads ==
    ASSUME NEW t \in Seq(Letter), NEW exact \in BOOLEAN, NEW with \in Seq(Letter)
    PROVE  \E f : ReadsOff(f, t, exact, with) /\ Substituted(t, exact, with) = f[Len(t)]
<1> DEFINE N == Len(t)
           Next1(k, x) == Piece(t[N + 1 - k], exact, with) \o x
           Is(f) == f = [k \in 0 .. N |-> IF k = 0 THEN <<>> ELSE Next1(k, f[k - 1])]
           g == CHOOSE f : Is(f)
<1>0. N \in Nat /\ <<>> \in Seq(Letter)
  OBVIOUS
<1>1. \A i \in 1 .. N : \A x \in Seq(Letter) : Next1(i, x) \in Seq(Letter)
  <2> SUFFICES ASSUME NEW i \in 1 .. N, NEW x \in Seq(Letter) PROVE Next1(i, x) \in Seq(Letter)
    OBVIOUS
  <2>1. N + 1 - i \in 1 .. N
    BY <1>0
  <2>2. t[N + 1 - i] \in Letter
    BY <2>1, ElementOfSeq
  <2>3. Piece(t[N + 1 - i], exact, with) \in Seq(Letter)
    BY <2>2, PieceIsAText
  <2> QED
    BY <2>3, ConcatProperties
<1>2. Substituted(t, exact, with) = g[N]
  BY DEF Substituted, Piece
<1> HIDE DEF Next1
<1>3. \E f : Is(f)
  <2> DEFINE step == [x \in (1 .. N) \X Seq(Letter) |-> Next1(x[1], x[2])]
  <2>1. step \in [(1 .. N) \X Seq(Letter) -> Seq(Letter)]
    BY <1>1
  <2>2. \A n \in 1 .. N : \A x \in Seq(Letter) : step[<<n, x>>] = Next1(n, x)
    OBVIOUS
  <2> HIDE DEF step, N
  <2>4. PICK f : Unfolds(f, N, Seq(Letter), <<>>, step)
    BY <1>0, <2>1, StepByStep
  <2>5. \A n \in 1 .. N : n - 1 \in 0 .. N /\ n # 0
    BY <1>0
  <2>6. \A n \in 1 .. N : f[n] = Next1(n, f[n - 1])
    BY <2>2, <2>4, <2>5 DEF Unfolds
  <2>7. \A n \in 0 .. N : n = 0 \/ n \in 1 .. N
    BY <1>0
  <2>8. \A n \in 0 .. N : f[n] = IF n = 0 THEN <<>> ELSE Next1(n, f[n - 1])
    BY <2>4, <2>6, <2>7 DEF Unfolds
  <2>9. Is(f)
    BY <2>4, <2>8 DEF Unfolds
  <2> QED
    BY <2>9
<1>4. Is(g)
  <2> HIDE DEF Is
  <2> QED
    BY <1>3
<1> HIDE DEF g, N
<1>5. g[0] = <<>> /\ \A n \in 1 .. N : g[n] = Next1(n, g[n - 1])
  <2>1. \A n \in 1 .. N : n \in 0 .. N /\ n # 0
    BY <1>0
  <2> QED
    BY <1>0, <1>4, <2>1
<1>6. \A n \in 0 .. N : g[n] \in Seq(Letter)
  <2> DEFINE S == {n \in 0 .. N : g[n] \in Seq(Letter)}
  <2>a. 0 \in 0 .. N
    BY <1>0
  <2>1. 0 \in S
    BY <1>0, <1>5, <2>a
  <2>2. \A n \in 1 .. N : n - 1 \in S => n \in S
    <3>1. \A n \in 1 .. N : n \in 0 .. N
      BY <1>0
    <3> QED
      BY <1>1, <1>5, <3>1
  <2> HIDE DEF S
  <2>3. \A n \in 0 .. N : n \in S
    BY <1>0, <2>1, <2>2, Inductively
  <2> QED
    BY <2>3 DEF S
<1>7. g \in [0 .. N -> Seq(Letter)]
  BY <1>4, <1>6
<1>8. ReadsOff(g, t, exact, with)
  BY <1>5, <1>7 DEF ReadsOff, Next1, N
<1> QED
  BY <1>2, <1>8 DEF N

\* One letter more of the beginning.
LEMMA OneLetterMore ==
    ASSUME NEW t \in Seq(Letter), NEW e \in 0 .. Len(t) - 1
    PROVE  Upto(t, e + 1) = Upto(t, e) \o <<t[e + 1]>>
<1>1. e \in Nat /\ e + 1 \in Nat /\ e + 1 \in 1 .. Len(t) /\ Len(t) \in Nat
  OBVIOUS
<1>2. t[e + 1] \in Letter
  BY <1>1, ElementOfSeq
<1> DEFINE a == Upto(t, e + 1)
           b == Upto(t, e)
           c == <<t[e + 1]>>
<1>3. a \in Seq(Letter) /\ Len(a) = e + 1 /\ \A i \in 1 .. e + 1 : a[i] = t[i]
  <2>1. Len(a) = e + 1
    BY <1>1, UptoIs
  <2> QED
    BY <1>1, <2>1, UptoIs
<1>4. b \in Seq(Letter) /\ Len(b) = e /\ \A i \in 1 .. e : b[i] = t[i]
  <2>1. Len(b) = e
    BY <1>1, UptoIs
  <2> QED
    BY <1>1, <2>1, UptoIs
<1>5. c \in Seq(Letter) /\ Len(c) = 1 /\ c[1] = t[e + 1]
  BY <1>2
<1> HIDE DEF a, b, c
<1>6. /\ b \o c \in Seq(Letter) /\ Len(b \o c) = Len(b) + Len(c)
      /\ \A i \in 1 .. Len(b) + Len(c) : (b \o c)[i] = IF i <= Len(b) THEN b[i] ELSE c[i - Len(b)]
  BY <1>4, <1>5, ConcatProperties
<1>7. Len(b \o c) = e + 1
  BY <1>1, <1>4, <1>5, <1>6
<1>8. \A i \in 1 .. e + 1 : a[i] = (b \o c)[i]
  <2> SUFFICES ASSUME NEW i \in 1 .. e + 1 PROVE a[i] = (b \o c)[i]
    OBVIOUS
  <2>1. CASE i = e + 1
    <3>1. ~(i <= e) /\ i - e = 1
      BY <1>1, <2>1
    <3> QED
      BY <1>1, <1>3, <1>4, <1>5, <1>6, <2>1, <3>1
  <2>2. CASE i # e + 1
    <3>1. i \in 1 .. e /\ i <= e
      BY <1>1, <2>2
    <3> QED
      BY <1>1, <1>3, <1>4, <1>5, <1>6, <3>1
  <2> QED
    BY <2>1, <2>2
<1>9. a = b \o c
  BY <1>3, <1>6, <1>7, <1>8, SameLetters
<1> QED
  BY <1>9 DEF a, b, c

\* Cut behind letter e + 1, a text falls into the beginning and what follows.
LEMMA CutBehind ==
    ASSUME NEW t \in Seq(Letter), NEW e \in 0 .. Len(t) - 1, NEW v \in Seq(Letter)
    PROVE  /\ Upto(Upto(t, e + 1) \o v, e) = Upto(t, e)
           /\ From(Upto(t, e + 1) \o v, e + 1) = v
<1>1. e \in Nat /\ e + 1 \in Nat /\ Len(t) \in Nat /\ e + 1 <= Len(t) /\ e <= Len(t) /\ Len(v) \in Nat
  OBVIOUS
<1> DEFINE a == Upto(t, e + 1)
           x == a \o v
<1>2. a \in Seq(Letter) /\ Len(a) = e + 1 /\ \A i \in 1 .. e + 1 : a[i] = t[i]
  <2>1. Len(a) = e + 1
    BY <1>1, UptoIs
  <2> QED
    BY <1>1, <2>1, UptoIs
<1> HIDE DEF a
<1>3. /\ x \in Seq(Letter) /\ Len(x) = Len(a) + Len(v)
      /\ \A i \in 1 .. Len(a) + Len(v) : x[i] = IF i <= Len(a) THEN a[i] ELSE v[i - Len(a)]
  BY <1>2, ConcatProperties
<1> HIDE DEF x
<1>4. Len(x) = e + 1 + Len(v)
  BY <1>2, <1>3
<1>5. Upto(x, e) = Upto(t, e)
  <2>1. Len(Upto(x, e)) = e /\ Len(Upto(t, e)) = e
    BY <1>1, <1>3, <1>4, UptoIs
  <2>2. \A i \in 1 .. e : Upto(x, e)[i] = Upto(t, e)[i]
    <3> SUFFICES ASSUME NEW i \in 1 .. e PROVE Upto(x, e)[i] = Upto(t, e)[i]
      OBVIOUS
    <3>1. i \in 1 .. e + 1 /\ i \in 1 .. e + 1 + Len(v) /\ i <= e + 1
      BY <1>1
    <3>2. Upto(x, e)[i] = x[i]
      <4>1. \A j \in 1 .. Len(Upto(x, e)) : Upto(x, e)[j] = x[j]
        BY <1>1, <1>3, UptoIs
      <4> QED
        BY <2>1, <4>1
    <3>4. Upto(t, e)[i] = t[i]
      <4>1. \A j \in 1 .. Len(Upto(t, e)) : Upto(t, e)[j] = t[j]
        BY <1>1, UptoIs
      <4> QED
        BY <2>1, <4>1
    <3>3. x[i] = a[i]
      BY <1>2, <1>3, <3>1
    <3> QED
      BY <1>2, <3>1, <3>2, <3>3, <3>4
  <2>3. Upto(x, e) \in Seq(Letter) /\ Upto(t, e) \in Seq(Letter)
    BY <1>1, <1>3, UptoIs
  <2> QED
    BY <2>1, <2>2, <2>3, SameLetters
<1>6. From(x, e + 1) = v
  <2>1. From(x, e + 1) \in Seq(Letter)
    BY <1>1, <1>3, FromIs
  <2>2. Len(From(x, e + 1)) = Len(v)
    <3>1. Len(From(x, e + 1)) = IF e + 1 < Len(x) THEN Len(x) - (e + 1) ELSE 0
      BY <1>1, <1>3, FromIs
    <3> QED
      BY <1>1, <1>4, <3>1
  <2>3. \A i \in 1 .. Len(v) : From(x, e + 1)[i] = v[i]
    <3> SUFFICES ASSUME NEW i \in 1 .. Len(v) PROVE From(x, e + 1)[i] = v[i]
      OBVIOUS
    <3>1. /\ e + 1 + i \in 1 .. e + 1 + Len(v) /\ ~(e + 1 + i <= e + 1)
          /\ (e + 1 + i) - (e + 1) = i
      BY <1>1
    <3>2. From(x, e + 1)[i] = x[e + 1 + i]
      BY <1>1, <1>3, <2>2, FromIs
    <3> QED
      BY <1>2, <1>3, <3>1, <3>2
  <2> QED
    BY <2>1, <2>2, <2>3, SameLetters
<1> QED
  BY <1>5, <1>6 DEF x, a

\* The last i matches are those from offset e on.
Reached(ms, i, e) == \A j \in 1 .. Len(ms) : ms[j] >= e <=> j > Len(ms) - i

\* One letter further to the left, a match is the next one to be replaced ...
LEMMA NextToReplace ==
    ASSUME NEW ms \in Seq(Nat), \A i, j \in 1 .. Len(ms) : i < j => ms[i] < ms[j],
           NEW i \in 0 .. Len(ms), NEW e \in Nat, Reached(ms, i, e + 1), NEW j \in 1 .. Len(ms), ms[j] = e
    PROVE  i + 1 \in 1 .. Len(ms) /\ ms[Len(ms) + 1 - (i + 1)] = e /\ Reached(ms, i + 1, e)
<1> DEFINE N == Len(ms)
<1>0. N \in Nat /\ \A m \in 1 .. N : ms[m] \in Nat
  BY ElementOfSeq
<1>a. \A m \in 1 .. N : ms[m] >= e + 1 <=> m > N - i
  BY DEF Reached
<1>b. \A m, o \in 1 .. N : m < o => ms[m] < ms[o]
  OBVIOUS
<1>c. j \in 1 .. N /\ i \in 0 .. N
  OBVIOUS
<1> HIDE DEF N
<1>1. j <= N - i
  <2>1. ~(ms[j] >= e + 1)
    OBVIOUS
  <2>2. ~(j > N - i)
    BY <1>a, <1>c, <2>1
  <2> QED
    BY <1>0, <1>c, <2>2
<1>2. N - i \in 1 .. N
  BY <1>0, <1>1, <1>c
<1>3. j = N - i
  <2>1. ~(N - i > N - i)
    BY <1>0, <1>c
  <2>2. ~(ms[N - i] >= e + 1)
    BY <1>a, <1>2, <2>1
  <2>3. ~(ms[N - i] > e)
    BY <1>0, <1>2, <2>2
  <2>4. ~(j < N - i)
    <3>1. j < N - i => ms[j] < ms[N - i]
      BY <1>b, <1>c, <1>2
    <3>2. ms[N - i] \in Nat
      BY <1>0, <1>2
    <3> QED
      BY <2>3, <3>1, <3>2
  <2> QED
    BY <1>0, <1>1, <1>c, <2>4
<1>4. i + 1 \in 1 .. N /\ N + 1 - (i + 1) = j /\ N - (i + 1) = j - 1
  BY <1>0, <1>2, <1>3, <1>c
<1>5. \A m \in 1 .. N : ms[m] >= e <=> m > N - (i + 1)
  <2> SUFFICES ASSUME NEW m \in 1 .. N PROVE ms[m] >= e <=> m > N - (i + 1)
    OBVIOUS
  <2>0. ms[m] \in Nat /\ m \in Nat /\ j \in Nat
    BY <1>0, <1>c
  <2>1. CASE m > j
    <3>1. ms[m] >= e + 1
      BY <1>a, <1>3, <2>1
    <3> QED
      BY <1>4, <2>0, <2>1, <3>1
  <2>2. CASE m = j
    BY <1>4, <2>0, <2>2
  <2>3. CASE m < j
    <3>1. ms[m] < ms[j]
      BY <1>b, <1>c, <2>3
    <3> QED
      BY <1>4, <2>0, <2>3, <3>1
  <2> QED
    BY <2>0, <2>1, <2>2, <2>3
<1>6. Reached(ms, i + 1, e)
  BY <1>5 DEF Reached, N
<1> QED
  BY <1>4, <1>6 DEF N

\* ... and where no match is, none is passed.
LEMMA NonePassed ==
    ASSUME NEW ms \in Seq(Nat), NEW i, NEW e \in Nat, Reached(ms, i, e + 1), \A j \in 1 .. Len(ms) : ms[j] # e
    PROVE  Reached(ms, i, e)
<1>1. \A j \in 1 .. Len(ms) : ms[j] \in Nat
  BY ElementOfSeq
<1>2. \A j \in 1 .. Len(ms) : ms[j] >= e + 1 <=> ms[j] >= e
  BY <1>1
<1> QED
  BY <1>2 DEF Reached

LEMMA JoinIs ==
    ASSUME NEW x \in Seq(Letter), NEW y \in Seq(Letter)
    PROVE  /\ x \o y \in Seq(Letter) /\ Len(x \o y) = Len(x) + Len(y)
           /\ \A i \in 1 .. Len(x) + Len(y) : (x \o y)[i] = IF i <= Len(x) THEN x[i] ELSE y[i - Len(x)]
BY ConcatProperties

LEMMA Joined ==
    ASSUME NEW a \in Seq(Letter), NEW b \in Seq(Letter), NEW c \in Seq(Letter)
    PROVE  (a \o b) \o c = a \o (b \o c)
<1> DEFINE ab == a \o b
           bc == b \o c
           l == ab \o c
           r == a \o bc
           A == Len(a)
           B == Len(b)
           C == Len(c)
<1>0. A \in Nat /\ B \in Nat /\ C \in Nat
  OBVIOUS
<1>1. ab \in Seq(Letter) /\ Len(ab) = A + B /\ \A i \in 1 .. A + B : ab[i] = IF i <= A THEN a[i] ELSE b[i - A]
  BY JoinIs
<1>2. bc \in Seq(Letter) /\ Len(bc) = B + C /\ \A i \in 1 .. B + C : bc[i] = IF i <= B THEN b[i] ELSE c[i - B]
  BY JoinIs
<1> HIDE DEF ab, bc
<1>3. /\ l \in Seq(Letter) /\ Len(l) = Len(ab) + C
      /\ \A i \in 1 .. Len(ab) + C : l[i] = IF i <= Len(ab) THEN ab[i] ELSE c[i - Len(ab)]
  BY <1>1, JoinIs
<1>4. /\ r \in Seq(Letter) /\ Len(r) = A + Len(bc)
      /\ \A i \in 1 .. A + Len(bc) : r[i] = IF i <= A THEN a[i] ELSE bc[i - A]
  BY <1>2, JoinIs
<1> HIDE DEF l, r, A, B, C
<1>5. Len(l) = Len(r) /\ Len(l) = A + B + C
  BY <1>0, <1>1, <1>2, <1>3, <1>4
<1>6. \A i \in 1 .. A + B + C : l[i] = r[i]
  <2> SUFFICES ASSUME NEW i \in 1 .. A + B + C PROVE l[i] = r[i]
    OBVIOUS
  <2>0. i \in 1 .. Len(ab) + C /\ i \in 1 .. A + Len(bc)
    BY <1>0, <1>1, <1>2
  <2>1. CASE i <= A
    <3>1. i \in 1 .. A + B /\ i <= Len(ab)
      BY <1>0, <1>1, <2>1
    <3> QED
      BY <1>1, <1>3, <1>4, <2>0, <2>1, <3>1
  <2>2. CASE ~(i <= A) /\ i <= A + B
    <3>1. i \in 1 .. A + B /\ i <= Len(ab) /\ i - A \in 1 .. B + C /\ i - A <= B
      BY <1>0, <1>1, <2>2
    <3>2. l[i] = b[i - A]
      BY <1>1, <1>3, <2>0, <2>2, <3>1
    <3>3. r[i] = b[i - A]
      BY <1>2, <1>4, <2>0, <2>2, <3>1
    <3> QED
      BY <3>2, <3>3
  <2>3. CASE ~(i <= A + B)
    <3>1. /\ ~(i <= A) /\ ~(i <= Len(ab)) /\ i - A \in 1 .. B + C /\ ~(i - A <= B)
          /\ i - Len(ab) = (i - A) - B
      BY <1>0, <1>1, <2>3
    <3>2. l[i] = c[(i - A) - B]
      BY <1>3, <2>0, <3>1
    <3>3. r[i] = c[(i - A) - B]
      BY <1>2, <1>4, <2>0, <3>1
    <3> QED
      BY <3>2, <3>3
  <2> QED
    BY <1>0, <2>1, <2>2, <2>3
<1>7. \A i \in 1 .. Len(l) : l[i] = r[i]
  BY <1>5, <1>6
<1>8. l = r
  BY <1>3, <1>4, <1>5, <1>7, SameLetters
<1> QED
  BY <1>8 DEF l, r, ab, bc

\* replaceAll's loop makes what one reading of the text makes.
LEMMA EachIsSubstituted ==
    ASSUME NEW t \in Seq(Letter), NEW exact \in BOOLEAN, NEW with \in Seq(Letter)
    PROVE  ReplaceEach(t, FindAll(t, exact), with) = Substituted(t, exact, with)
<1> DEFINE ms == FindAll(t, exact)
           N == Len(ms)
           L == Len(t)
<1>1. FoundBy(ms, t, exact, L)
  BY AllAreFound
<1> HIDE DEF ms
<1>2. /\ ms \in Seq(Nat)
      /\ \A i \in 1 .. N : ms[i] \in 0 .. L - 1
      /\ \A i \in 1 .. N : IsMatch(t[ms[i] + 1], exact)
      /\ \A i, j \in 1 .. N : i < j => ms[i] < ms[j]
      /\ \A o \in 0 .. L - 1 : IsMatch(t[o + 1], exact) => \E i \in 1 .. N : ms[i] = o
  BY <1>1 DEF FoundBy
<1>3. N \in Nat /\ L \in Nat
  BY <1>2
<1>4. PICK out : Replaces(out, t, ms, with) /\ ReplaceEach(t, ms, with) = out[N]
  BY <1>2, ReplaceEachReplaces
<1>5. PICK rest : ReadsOff(rest, t, exact, with) /\ Substituted(t, exact, with) = rest[L]
  BY SubstitutedReads
<1> DEFINE At(i, k) == Reached(ms, i, L - k) /\ out[i] = Upto(t, L - k) \o rest[k]
           S == {k \in 0 .. L : \E i \in 0 .. N : At(i, k)}
<1>6. 0 \in S
  <2>1. Reached(ms, 0, L - 0)
    <3>1. \A j \in 1 .. N : ms[j] \in 0 .. L - 1
      BY <1>2
    <3>2. \A j \in 1 .. N : ~(ms[j] >= L - 0) /\ ~(j > N - 0)
      BY <1>3, <3>1
    <3> QED
      BY <3>2 DEF Reached
  <2>2. out[0] = t /\ rest[0] = <<>>
    BY <1>4, <1>5 DEF Replaces, ReadsOff
  <2>3. L - 0 = L
    BY <1>3
  <2>4. Upto(t, L) = t
    <3>1. Upto(t, L) \in Seq(Letter) /\ Len(Upto(t, L)) = L
      BY <1>3, UptoIs
    <3>2. \A i \in 1 .. Len(Upto(t, L)) : Upto(t, L)[i] = t[i]
      BY <1>3, UptoIs
    <3> QED
      BY <3>1, <3>2, SameLetters
  <2>5. t \o <<>> = t
    BY ConcatEmptySeq
  <2>6. out[0] = Upto(t, L - 0) \o rest[0]
    BY <2>2, <2>3, <2>4, <2>5
  <2>7. 0 \in 0 .. N /\ 0 \in 0 .. L
    BY <1>3
  <2> QED
    BY <2>1, <2>6, <2>7
<1>7. \A k \in 1 .. L : k - 1 \in S => k \in S
  <2> SUFFICES ASSUME NEW k \in 1 .. L, k - 1 \in S PROVE k \in S
    OBVIOUS
  <2> DEFINE e == L - k
             rem == rest[k - 1]
             ch == t[e + 1]
  <2>0. /\ e \in 0 .. L - 1 /\ e \in Nat /\ e + 1 \in Nat /\ e + 1 \in 1 .. L /\ k - 1 \in 0 .. L /\ k \in 0 .. L
        /\ L + 1 - k = e + 1 /\ L - (k - 1) = e + 1
    BY <1>3
  <2>1. PICK i \in 0 .. N : At(i, k - 1)
    OBVIOUS
  <2>2. Reached(ms, i, e + 1) /\ out[i] = Upto(t, e + 1) \o rem
    BY <2>0, <2>1
  <2>3. ch \in Letter
    BY <2>0, ElementOfSeq
  <2>4. rem \in Seq(Letter) /\ rest[k] = Piece(ch, exact, with) \o rem
    BY <1>5, <2>0 DEF ReadsOff
  <2> HIDE DEF e, rem, ch
  <2>5. Upto(t, e) \in Seq(Letter)
    BY <2>0, UptoIs
  <2>6. CASE IsMatch(ch, exact)
    <3>1. PICK j \in 1 .. N : ms[j] = e
      BY <1>2, <2>0, <2>6 DEF ch
    <3>2. i + 1 \in 1 .. N /\ ms[N + 1 - (i + 1)] = e /\ Reached(ms, i + 1, e)
      BY <1>2, <2>0, <2>2, <3>1, NextToReplace
    <3>3. (i + 1) - 1 = i /\ i + 1 \in 0 .. N
      BY <1>3, <3>2
    <3>4. out[i + 1] = Upto(out[i], e) \o with \o From(out[i], e + 1)
      <4>1. \A m \in 1 .. N : out[m] = Upto(out[m - 1], ms[N + 1 - m]) \o with \o From(out[m - 1], ms[N + 1 - m] + 1)
        BY <1>4 DEF Replaces
      <4>2. out[i + 1] = Upto(out[(i + 1) - 1], ms[N + 1 - (i + 1)]) \o with \o From(out[(i + 1) - 1], ms[N + 1 - (i + 1)] + 1)
        BY <3>2, <4>1
      <4> QED
        BY <3>2, <3>3, <4>2
    <3>5. Upto(out[i], e) = Upto(t, e) /\ From(out[i], e + 1) = rem
      BY <2>0, <2>2, <2>4, CutBehind
    <3>6. Piece(ch, exact, with) = with
      BY <2>6 DEF Piece
    <3>7. (Upto(t, e) \o with) \o rem = Upto(t, e) \o (with \o rem)
      BY <2>4, <2>5, Joined
    <3>8. out[i + 1] = Upto(t, e) \o rest[k]
      BY <2>4, <3>4, <3>5, <3>6, <3>7
    <3>9. At(i + 1, k)
      BY <3>2, <3>8 DEF e
    <3> HIDE DEF At
    <3> QED
      BY <2>0, <3>3, <3>9
  <2>7. CASE ~IsMatch(ch, exact)
    <3>1. \A j \in 1 .. N : ms[j] # e
      BY <1>2, <2>7 DEF ch
    <3>2. Reached(ms, i, e)
      BY <1>2, <2>0, <2>2, <3>1, NonePassed
    <3>3. Upto(t, e + 1) = Upto(t, e) \o <<ch>>
      BY <2>0, OneLetterMore DEF ch
    <3>4. Piece(ch, exact, with) = <<ch>> /\ <<ch>> \in Seq(Letter)
      BY <2>3, <2>7 DEF Piece
    <3>5. (Upto(t, e) \o <<ch>>) \o rem = Upto(t, e) \o (<<ch>> \o rem)
      BY <2>4, <2>5, <3>4, Joined
    <3>6. out[i] = Upto(t, e) \o rest[k]
      BY <2>2, <2>4, <3>3, <3>4, <3>5
    <3>7. At(i, k)
      BY <3>2, <3>6 DEF e
    <3> HIDE DEF At
    <3> QED
      BY <2>0, <3>7
  <2> QED
    BY <2>6, <2>7
<1>8. L \in S
  <2> HIDE DEF S
  <2>1. \A k \in 0 .. L : k \in S
    BY <1>3, <1>6, <1>7, Inductively
  <2>2. L \in 0 .. L
    BY <1>3
  <2> QED
    BY <2>1, <2>2
<1>9. PICK i \in 0 .. N : At(i, L)
  BY <1>8
<1>10. i = N
  <2>1. \A j \in 1 .. N : ms[j] >= L - L <=> j > N - i
    BY <1>9 DEF Reached
  <2>2. \A j \in 1 .. N : ms[j] \in 0 .. L - 1
    BY <1>2
  <2>3. \A j \in 1 .. N : j > N - i
    BY <1>3, <2>1, <2>2
  <2>4. CASE i # N
    <3>1. N - i \in 1 .. N /\ ~(N - i > N - i)
      BY <1>3, <2>4
    <3> QED
      BY <2>3, <3>1
  <2> QED
    BY <2>4
<1>11. Upto(t, L - L) = <<>> /\ rest[L] \in Seq(Letter)
  <2>1. L - L = 0 /\ L \in 0 .. L /\ 0 \in Nat
    BY <1>3
  <2>2. Upto(t, 0) \in Seq(Letter) /\ Len(Upto(t, 0)) = 0
    BY <1>3, <2>1, UptoIs
  <2>3. Upto(t, 0) = <<>>
    BY <2>2, EmptySeq
  <2>4. rest[L] \in Seq(Letter)
    BY <1>5, <2>1 DEF ReadsOff
  <2> QED
    BY <2>1, <2>3, <2>4
<1>12. <<>> \o rest[L] = rest[L]
  BY <1>11, ConcatEmptySeq
<1> QED
  BY <1>4, <1>5, <1>9, <1>10, <1>11, <1>12 DEF ms

\* What the bar holds: the matches it knows are offsets into a text.
Matches == Seq(0 .. MaxLetters)
BarKind == [open : BOOLEAN, exact : BOOLEAN, with : Seq(Letter), matches : Matches, current : {i \in Int : i >= 0 - 1}]
Fits(t) == t \in Seq(Letter) /\ Len(t) <= MaxLetters
Fresh(b, t) == b.open => b.matches = FindAll(t, b.exact)

LEMMA MatchesAreOffsets ==
    ASSUME NEW t, Fits(t), NEW exact \in BOOLEAN PROVE FindAll(t, exact) \in Matches
<1> DEFINE ms == FindAll(t, exact)
<1>1. FoundBy(ms, t, exact, Len(t))
  BY AllAreFound DEF Fits
<1> HIDE DEF ms
<1>2. ms \in Seq(Nat) /\ \A i \in 1 .. Len(ms) : ms[i] \in 0 .. Len(t) - 1
  BY <1>1 DEF FoundBy
<1>3. Len(t) \in Nat /\ Len(t) <= MaxLetters /\ MaxLetters \in Nat
  BY FindAssumption DEF Fits
<1>4. \A i \in 1 .. Len(ms) : ms[i] \in 0 .. MaxLetters
  BY <1>2, <1>3
<1>5. ms \in Seq(0 .. MaxLetters)
  <2> DEFINE T == 0 .. MaxLetters
  <2>1. Len(ms) \in Nat /\ ms = [i \in 1 .. Len(ms) |-> ms[i]]
    BY <1>2
  <2>2. \A i \in 1 .. Len(ms) : ms[i] \in T
    BY <1>4
  <2> HIDE DEF T
  <2>3. ms \in Seq(T)
    BY <2>1, <2>2
  <2> QED
    BY <2>3 DEF T
<1> QED
  BY <1>5 DEF ms, Matches

LEMMA OffsetsAreNumbers == ASSUME NEW ms \in Matches PROVE ms \in Seq(Nat)
<1> DEFINE T == 0 .. MaxLetters
<1>0. ms \in Seq(T)
  BY DEF Matches
<1>1. \A x \in T : x \in Nat
  BY FindAssumption
<1> HIDE DEF T
<1>2. Len(ms) \in Nat /\ ms = [i \in 1 .. Len(ms) |-> ms[i]]
  BY <1>0
<1>3. \A i \in 1 .. Len(ms) : ms[i] \in T
  BY <1>0, ElementOfSeq
<1>4. \A i \in 1 .. Len(ms) : ms[i] \in Nat
  BY <1>1, <1>3
<1> QED
  BY <1>2, <1>4

\* The match chosen is one of those there, or none where there is none.
LEMMA ChosenOrNone ==
    ASSUME NEW ms \in Matches, NEW from
    PROVE  /\ NextMatch(ms, from) \in Int /\ NextMatch(ms, from) >= 0 - 1
           /\ PrevMatch(ms, from) \in Int /\ PrevMatch(ms, from) >= 0 - 1
           /\ IF ms = <<>> THEN NextMatch(ms, from) = 0 - 1 ELSE NextMatch(ms, from) + 1 \in DOMAIN ms
           /\ ms # <<>> => ~(NextMatch(ms, from) < 0)
<1>1. CASE ms = <<>>
  <2>1. NextMatch(ms, from) = 0 - 1 /\ PrevMatch(ms, from) = 0 - 1
    BY <1>1 DEF NextMatch, PrevMatch
  <2> QED
    BY <1>1, <2>1
<1>2. CASE ms # <<>>
  <2>0. ms \in Seq(Nat)
    BY OffsetsAreNumbers
  <2>1. NextMatch(ms, from) \in 0 .. Len(ms) - 1 /\ PrevMatch(ms, from) \in 0 .. Len(ms) - 1
    BY <1>2, <2>0, MatchIsChosen
  <2>2. Len(ms) \in Nat /\ DOMAIN ms = 1 .. Len(ms)
    BY <2>0
  <2> QED
    BY <1>2, <2>1, <2>2
<1> QED
  BY <1>1, <1>2

\* Anchoring searches the text and picks a match of it.
LEMMA AnchoredIs ==
    ASSUME NEW b \in BarKind, NEW t, Fits(t), NEW at
    PROVE  LET a == Anchored(b, t, at)
           IN  /\ a \in BarKind /\ a.open = b.open /\ Fresh(a, t)
               /\ a.matches \in Matches /\ a.current = NextMatch(a.matches, at.start)
<1> DEFINE ms == FindAll(t, b.exact)
           c == NextMatch(ms, at.start)
           a == Anchored(b, t, at)
<1>1. b.open \in BOOLEAN /\ b.exact \in BOOLEAN /\ b.with \in Seq(Letter)
  BY DEF BarKind
<1>2. ms \in Matches
  BY <1>1, MatchesAreOffsets
<1>3. c \in {i \in Int : i >= 0 - 1}
  BY <1>2, ChosenOrNone
<1>4. a = [b EXCEPT !.matches = ms, !.current = c]
  BY DEF Anchored
<1> HIDE DEF a, c
<1>5. a \in BarKind
  <2> HIDE DEF ms
  <2> QED
    BY <1>2, <1>3, <1>4 DEF BarKind
<1>6. a.open = b.open /\ a.exact = b.exact /\ a.matches = ms /\ a.current = c
  BY <1>4 DEF BarKind
<1>7. Fresh(a, t)
  BY <1>6 DEF Fresh
<1>8. a.current = NextMatch(a.matches, at.start)
  BY <1>6 DEF c
<1> HIDE DEF ms
<1> QED
  BY <1>2, <1>5, <1>6, <1>7, <1>8 DEF a

----------------------------------------------------------------------------
FindInv ==
    /\ Fits(boxText) /\ bar \in BarKind /\ Fresh(bar, boxText)
    /\ stepping \in {<<>>} \cup {<<ms>> : ms \in Matches} /\ boxEdits \in 0 .. MaxBoxEdits

\* The bar shows a match of the text, selected in the box.
Shown(b, at) ==
    /\ IF b.matches = <<>> THEN b.current = 0 - 1 ELSE b.current + 1 \in DOMAIN b.matches
    /\ b.matches # <<>> => at = Span(b.matches[b.current + 1], b.matches[b.current + 1] + 1)

LEMMA AnchoredIsShown ==
    ASSUME NEW b \in BarKind, NEW t, Fits(t), NEW at PROVE Shown(Anchored(b, t, at), Selected(Anchored(b, t, at), at))
<1> DEFINE a == Anchored(b, t, at)
<1>1. a.matches \in Matches /\ a.current = NextMatch(a.matches, at.start)
  BY AnchoredIs
<1> HIDE DEF a
<1>2. IF a.matches = <<>> THEN a.current = 0 - 1 ELSE a.current + 1 \in DOMAIN a.matches
  BY <1>1, ChosenOrNone
<1>3. a.matches # <<>> => ~(a.current < 0)
  BY <1>1, ChosenOrNone
<1>4. Shown(a, Selected(a, at))
  BY <1>2, <1>3 DEF Shown, Selected
<1> QED
  BY <1>4 DEF a

LEMMA LandsWell ==
    ASSUME FindInv, NEW t, Fits(t), NEW at, Lands(t, at)
    PROVE  /\ boxText' = t /\ bar' \in BarKind /\ Fresh(bar', t) /\ bar'.open = bar.open
           /\ bar'.open => Shown(bar', caret')
<1> DEFINE a == Anchored(bar, t, at)
<1>1. bar \in BarKind
  BY DEF FindInv
<1>2. a \in BarKind /\ a.open = bar.open /\ Fresh(a, t)
  BY <1>1, AnchoredIs
<1>3. Shown(a, Selected(a, at))
  BY <1>1, AnchoredIsShown
<1>4. /\ boxText' = t /\ bar' = (IF bar.open THEN a ELSE bar)
      /\ caret' = IF bar.open THEN Selected(a, at) ELSE at
  BY DEF Lands
<1> HIDE DEF a
<1>5. CASE bar.open
  BY <1>2, <1>3, <1>4, <1>5
<1>6. CASE ~bar.open
  <2>1. Fresh(bar, t)
    BY <1>6 DEF Fresh
  <2> QED
    BY <1>1, <1>4, <1>6, <2>1
<1> QED
  BY <1>5, <1>6

\* Opening the bar, or switching its case, searches the text that is there.
LEMMA OpensWell ==
    ASSUME FindInv, NEW b \in BarKind, b.open, NEW at,
           bar' = Anchored(b, boxText, at), caret' = Selected(Anchored(b, boxText, at), at)
    PROVE  bar' \in BarKind /\ Fresh(bar', boxText) /\ Shown(bar', caret')
<1>1. Fits(boxText)
  BY DEF FindInv
<1> QED
  BY <1>1, AnchoredIs, AnchoredIsShown

LEMMA EditingFits == ASSUME FindInv, NEW t \in Seq(Letter), Editing(t) PROVE Fits(t) /\ boxEdits' \in 0 .. MaxBoxEdits
<1>1. Fits(t)
  BY DEF Editing, Fits
<1>2. boxEdits \in 0 .. MaxBoxEdits /\ boxEdits < MaxBoxEdits /\ boxEdits' = boxEdits + 1
  BY DEF FindInv, Editing
<1>3. boxEdits' \in 0 .. MaxBoxEdits
  BY <1>2, FindAssumption
<1> QED
  BY <1>1, <1>3

\* A step leaves the bar in order; a text that came under it is shown.
Ordered ==
    /\ FindInv'
    /\ ~TimedStep /\ bar'.open /\ (boxText' # boxText \/ ~bar.open) => Shown(bar', caret')

LEMMA InvIs ==
    ASSUME NEW t, boxText' = t, Fits(t), bar' \in BarKind, Fresh(bar', t),
           stepping' \in {<<>>} \cup {<<ms>> : ms \in Matches}, boxEdits' \in 0 .. MaxBoxEdits
    PROVE  FindInv'
BY DEF FindInv, Fits, Fresh

LEMMA OpenOrdered ==
    ASSUME FindInv, NEW exact \in BOOLEAN, NEW with \in Replacements, OpenFind(exact, with) PROVE Ordered
<1> DEFINE b == [NoBar EXCEPT !.open = TRUE, !.exact = exact, !.with = with]
<1>1. b \in BarKind /\ b.open
  <2>1. with \in Seq(Letter)
    BY FindAssumption
  <2>2. NoBar \in BarKind
    <3>1. <<>> \in Matches /\ <<>> \in Seq(Letter) /\ 0 - 1 \in {i \in Int : i >= 0 - 1}
      BY FindAssumption DEF Matches
    <3> QED
      BY <3>1 DEF BarKind, NoBar
  <2>3. \A x \in BarKind, e \in BOOLEAN, w \in Seq(Letter) :
            LET y == [x EXCEPT !.open = TRUE, !.exact = e, !.with = w] IN y \in BarKind /\ y.open
    BY DEF BarKind
  <2> QED
    BY <2>1, <2>2, <2>3
<1>2. bar' = Anchored(b, boxText, caret) /\ caret' = Selected(Anchored(b, boxText, caret), caret)
  BY DEF OpenFind
<1> HIDE DEF b
<1>3. bar' \in BarKind /\ Fresh(bar', boxText) /\ Shown(bar', caret')
  BY <1>1, <1>2, OpensWell
<1>4. boxText' = boxText /\ stepping' = stepping /\ boxEdits' = boxEdits
  BY DEF OpenFind
<1>5. FindInv'
  <2>1. /\ Fits(boxText) /\ stepping' \in {<<>>} \cup {<<ms>> : ms \in Matches} /\ boxEdits' \in 0 .. MaxBoxEdits
    BY <1>4 DEF FindInv
  <2> QED
    BY <1>3, <1>4, <2>1, InvIs
<1> QED
  BY <1>3, <1>5 DEF Ordered

LEMMA CaseOrdered == ASSUME FindInv, ToggleCase PROVE Ordered
<1> DEFINE b == [bar EXCEPT !.exact = ~@]
<1>0. bar \in BarKind /\ bar.open
  BY DEF FindInv, ToggleCase
<1>1. b \in BarKind /\ b.open
  <2>1. \A x \in BarKind, e \in BOOLEAN : [x EXCEPT !.exact = e] \in BarKind /\ [x EXCEPT !.exact = e].open = x.open
    BY DEF BarKind
  <2>2. bar.exact \in BOOLEAN
    BY <1>0 DEF BarKind
  <2>3. (~bar.exact) \in BOOLEAN
    BY <2>2
  <2>4. b = [bar EXCEPT !.exact = ~bar.exact]
    BY Zenon
  <2> HIDE DEF b
  <2>5. [bar EXCEPT !.exact = ~bar.exact] \in BarKind /\ [bar EXCEPT !.exact = ~bar.exact].open = bar.open
    BY <1>0, <2>1, <2>3, Zenon
  <2> QED
    BY <1>0, <2>4, <2>5, Zenon
<1>2. bar' = Anchored(b, boxText, caret) /\ caret' = Selected(Anchored(b, boxText, caret), caret)
  BY Zenon DEF ToggleCase
<1> HIDE DEF b
<1>3. bar' \in BarKind /\ Fresh(bar', boxText) /\ Shown(bar', caret')
  BY <1>1, <1>2, OpensWell
<1>4. boxText' = boxText /\ stepping' = stepping /\ boxEdits' = boxEdits
  BY Zenon DEF ToggleCase
<1>5. FindInv'
  <2>1. /\ Fits(boxText) /\ stepping' \in {<<>>} \cup {<<ms>> : ms \in Matches} /\ boxEdits' \in 0 .. MaxBoxEdits
    BY <1>4 DEF FindInv
  <2> QED
    BY <1>3, <1>4, <2>1, InvIs
<1> QED
  BY <1>3, <1>5 DEF Ordered

LEMMA CloseOrdered == ASSUME FindInv, CloseFind PROVE Ordered
<1>1. boxText' = boxText /\ stepping' = stepping /\ boxEdits' = boxEdits /\ bar' = NoBar
  BY DEF CloseFind
<1>2. NoBar \in BarKind /\ ~NoBar.open
  <2>1. <<>> \in Matches /\ <<>> \in Seq(Letter) /\ 0 - 1 \in {i \in Int : i >= 0 - 1}
    BY FindAssumption DEF Matches
  <2> QED
    BY <2>1 DEF BarKind, NoBar
<1>3. Fresh(NoBar, boxText)
  BY <1>2 DEF Fresh
<1>4. /\ Fits(boxText) /\ stepping' \in {<<>>} \cup {<<ms>> : ms \in Matches} /\ boxEdits' \in 0 .. MaxBoxEdits
  BY <1>1 DEF FindInv
<1>5. FindInv'
  BY <1>1, <1>2, <1>3, <1>4, InvIs
<1> QED
  BY <1>1, <1>2, <1>5 DEF Ordered

LEMMA EditOrdered ==
    ASSUME FindInv, NEW t \in Seq(Letter), Editing(t), NEW at, Lands(t, at),
           stepping' \in {<<>>} \cup {<<ms>> : ms \in Matches}
    PROVE  Ordered
<1>1. Fits(t) /\ boxEdits' \in 0 .. MaxBoxEdits
  BY EditingFits
<1>2. /\ boxText' = t /\ bar' \in BarKind /\ Fresh(bar', t)
      /\ bar'.open => Shown(bar', caret')
  BY <1>1, LandsWell
<1>3. FindInv'
  BY <1>1, <1>2, InvIs
<1> QED
  BY <1>2, <1>3 DEF Ordered

LEMMA TypeOrdered == ASSUME FindInv, NEW ch \in Letter, NEW o \in 0 .. MaxLetters, TypeLetter(ch, o) PROVE Ordered
<1> DEFINE t == Upto(boxText, o) \o <<ch>> \o From(boxText, o)
<1>1. t \in Seq(Letter)
  <2>1. o \in Nat /\ boxText \in Seq(Letter) /\ <<ch>> \in Seq(Letter)
    BY FindAssumption DEF FindInv, Fits
  <2>2. Upto(boxText, o) \in Seq(Letter) /\ From(boxText, o) \in Seq(Letter)
    BY <2>1, UptoIs, FromIs
  <2>3. Upto(boxText, o) \o <<ch>> \in Seq(Letter)
    BY <2>1, <2>2, JoinIs
  <2> QED
    BY <2>2, <2>3, JoinIs
<1>2. Editing(t) /\ Lands(t, Span(o + 1, o + 1)) /\ stepping' = stepping
  BY DEF TypeLetter
<1> HIDE DEF t
<1>3. stepping' \in {<<>>} \cup {<<ms>> : ms \in Matches}
  BY <1>2 DEF FindInv
<1> QED
  BY <1>1, <1>2, <1>3, EditOrdered

LEMMA ReplaceOrdered == ASSUME FindInv, ReplaceCurrent PROVE Ordered
<1> DEFINE t == ReplacedAt(boxText, bar.matches, bar.current, bar.with)
           o == IF bar.current + 1 \in DOMAIN bar.matches THEN bar.matches[bar.current + 1] ELSE 0
<1>0. bar.matches \in Matches /\ bar.with \in Seq(Letter) /\ boxText \in Seq(Letter)
  BY DEF FindInv, BarKind, Fits
<1>1. t \in Seq(Letter)
  <2>1. CASE bar.current + 1 \in DOMAIN bar.matches
    <3> DEFINE n == bar.matches[bar.current + 1]
    <3>1. bar.matches \in Seq(Nat)
      BY <1>0, OffsetsAreNumbers
    <3>2. n \in Nat
      BY <2>1, <3>1, ElementOfSeq
    <3>3. t = Upto(boxText, n) \o bar.with \o From(boxText, n + 1)
      BY <2>1 DEF ReplacedAt
    <3> HIDE DEF n, t
    <3> QED
      BY <1>0, <3>2, <3>3, ReplacedIsATextToo
  <2>2. CASE ~(bar.current + 1 \in DOMAIN bar.matches)
    <3>1. t = boxText \o bar.with \o boxText \/ t = boxText \o bar.with \o boxText \/ t = ReplacedAt(boxText, bar.matches, bar.current, bar.with)
      OBVIOUS
    <3>2. t = boxText \o bar.with \o boxText
      BY <2>2 DEF ReplacedAt
    <3> HIDE DEF t
    <3>3. boxText \o bar.with \in Seq(Letter)
      BY <1>0, JoinIs
    <3> QED
      BY <1>0, <3>2, <3>3, JoinIs
  <2> QED
    BY <2>1, <2>2
<1>2. /\ Editing(t) /\ Lands(Inserted(boxText, t), Span(o, o + Len(bar.with))) /\ stepping' = <<bar.matches>>
  BY DEF ReplaceCurrent
<1>3. Inserted(boxText, t) = t
  BY <1>0, <1>1, InsertedIsTheText
<1> HIDE DEF t, o
<1>4. Lands(t, Span(o, o + Len(bar.with)))
  BY <1>2, <1>3
<1>5. stepping' \in {<<>>} \cup {<<ms>> : ms \in Matches}
  BY <1>0, <1>2
<1> QED
  BY <1>1, <1>2, <1>4, <1>5, EditOrdered

\* Replace all puts the text it made into the box, and that one replaces
\* the matches and nothing else.
LEMMA EveryOneIsReplaced == ASSUME FindInv, ReplaceEvery PROVE Ordered /\ boxText' = Substituted(boxText, bar.exact, bar.with)
<1> DEFINE ms == FindAll(boxText, bar.exact)
           t == ReplaceEach(boxText, ms, bar.with)
<1>0. bar.exact \in BOOLEAN /\ bar.with \in Seq(Letter) /\ boxText \in Seq(Letter) /\ Fits(boxText)
  BY DEF FindInv, BarKind, Fits
<1>1. ms \in Seq(Nat)
  BY <1>0, MatchesAreOffsets, OffsetsAreNumbers
<1>2. t = Substituted(boxText, bar.exact, bar.with)
  BY <1>0, EachIsSubstituted
<1>3. Editing(t) /\ Lands(Inserted(boxText, t), Span(caret.start, caret.start)) /\ stepping' = stepping
  BY DEF ReplaceEvery
<1> HIDE DEF ms
<1>4. t \in Seq(Letter)
  <2>1. PICK f : Replaces(f, boxText, ms, bar.with) /\ t = f[Len(ms)]
    BY <1>0, <1>1, ReplaceEachReplaces
  <2>2. Len(ms) \in 0 .. Len(ms)
    BY <1>1
  <2> HIDE DEF t
  <2> QED
    BY <2>1, <2>2 DEF Replaces
<1> HIDE DEF t
<1>5. Inserted(boxText, t) = t
  BY <1>0, <1>4, InsertedIsTheText
<1>6. Lands(t, Span(caret.start, caret.start))
  BY <1>3, <1>5
<1>7. stepping' \in {<<>>} \cup {<<ms1>> : ms1 \in Matches}
  BY <1>3 DEF FindInv
<1>8. Ordered
  BY <1>3, <1>4, <1>6, <1>7, EditOrdered
<1>9. boxText' = t
  BY <1>6 DEF Lands
<1> QED
  BY <1>2, <1>8, <1>9

\* A step, also one of a timer, chooses among matches; the text stays.
LEMMA StepKeeps ==
    ASSUME FindInv, bar.open, NEW ms \in Matches, NEW i \in Int, i >= 0 - 1, Steps(ms, i), boxText' = boxText,
           boxEdits' = boxEdits, stepping' \in {<<>>} \cup {<<m>> : m \in Matches}
    PROVE  Ordered
<1>1. bar \in BarKind /\ bar' = [bar EXCEPT !.current = i] /\ Fresh(bar, boxText) /\ Fits(boxText)
  BY DEF FindInv, Steps
<1>2. bar' \in BarKind
  BY <1>1 DEF BarKind
<1>3. bar'.open = bar.open /\ bar'.exact = bar.exact /\ bar'.matches = bar.matches
  BY <1>1 DEF BarKind
<1>4. Fresh(bar', boxText)
  BY <1>1, <1>3 DEF Fresh
<1>5. boxEdits' \in 0 .. MaxBoxEdits
  BY DEF FindInv
<1>6. FindInv'
  BY <1>1, <1>2, <1>4, <1>5, InvIs
<1> QED
  BY <1>6 DEF Ordered

LEMMA StepOrdered == ASSUME FindInv, NEW dir, Step(dir) PROVE Ordered
<1> DEFINE i == IF dir = "next" THEN NextMatch(bar.matches, caret.end) ELSE PrevMatch(bar.matches, caret.start)
<1>0. bar.matches \in Matches
  BY DEF FindInv, BarKind
<1>1. i \in Int /\ i >= 0 - 1
  BY <1>0, ChosenOrNone
<1>2. bar.open /\ Steps(bar.matches, i) /\ boxText' = boxText /\ stepping' = stepping /\ boxEdits' = boxEdits
  BY DEF Step
<1> HIDE DEF i
<1>3. stepping' \in {<<>>} \cup {<<m>> : m \in Matches}
  BY <1>2 DEF FindInv
<1> QED
  BY <1>0, <1>1, <1>2, <1>3, StepKeeps

LEMMA TimedOrdered == ASSUME FindInv, TimedStep PROVE Ordered
<1> DEFINE ms == stepping[1]
           i == NextMatch(ms, caret.end)
<1>0. ms \in Matches
  <2>1. stepping # <<>> /\ stepping \in {<<>>} \cup {<<m>> : m \in Matches}
    BY DEF FindInv, TimedStep
  <2>2. PICK m \in Matches : stepping = <<m>>
    BY <2>1
  <2> QED
    BY <2>2
<1>1. i \in Int /\ i >= 0 - 1
  BY <1>0, ChosenOrNone
<1>2. /\ stepping' = <<>> /\ boxText' = boxText /\ boxEdits' = boxEdits
      /\ IF bar.open THEN Steps(ms, i) ELSE UNCHANGED <<bar, caret>>
  BY DEF TimedStep
<1> HIDE DEF ms, i
<1>3. stepping' \in {<<>>} \cup {<<m>> : m \in Matches}
  BY <1>2
<1>4. CASE bar.open
  BY <1>0, <1>1, <1>2, <1>3, <1>4, StepKeeps
<1>5. CASE ~bar.open
  <2>1. bar' = bar
    BY <1>2, <1>5
  <2>2. Fits(boxText) /\ bar' \in BarKind /\ Fresh(bar', boxText) /\ boxEdits' \in 0 .. MaxBoxEdits
    BY <1>2, <2>1 DEF FindInv
  <2>3. FindInv'
    BY <1>2, <1>3, <2>2, InvIs
  <2> QED
    BY <2>3 DEF Ordered
<1> QED
  BY <1>4, <1>5

LEMMA CaretOrdered == ASSUME FindInv, NEW o, MoveCaret(o) PROVE Ordered
<1>1. boxText' = boxText /\ bar' = bar /\ stepping' = stepping /\ boxEdits' = boxEdits
  BY DEF MoveCaret
<1>2. FindInv'
  BY <1>1 DEF FindInv, Fits, Fresh
<1> QED
  BY <1>1, <1>2 DEF Ordered

----------------------------------------------------------------------------
LEMMA FindBegins == findInit => FindInv
<1> SUFFICES ASSUME findInit PROVE FindInv
  OBVIOUS
<1>1. boxText \in BoxTexts /\ bar = NoBar /\ stepping = <<>> /\ boxEdits = 0
  BY DEF findInit
<1>2. Fits(boxText)
  BY <1>1, FindAssumption DEF Fits
<1>3. NoBar \in BarKind /\ ~NoBar.open
  <2>1. <<>> \in Matches /\ <<>> \in Seq(Letter) /\ 0 - 1 \in {i \in Int : i >= 0 - 1}
    BY FindAssumption DEF Matches
  <2> QED
    BY <2>1 DEF BarKind, NoBar
<1>4. Fresh(bar, boxText)
  BY <1>1, <1>3 DEF Fresh
<1>5. boxEdits \in 0 .. MaxBoxEdits
  BY <1>1, FindAssumption
<1> QED
  BY <1>1, <1>2, <1>3, <1>4, <1>5 DEF FindInv

FindStep ==
    /\ Ordered
    /\ ReplaceEvery => boxText' = Substituted(boxText, bar.exact, bar.with)

LEMMA FindContinues == FindInv /\ [findNext]_findVars => FindInv' /\ (findNext => FindStep)
<1> SUFFICES ASSUME FindInv, [findNext]_findVars PROVE FindInv' /\ (findNext => FindStep)
  OBVIOUS
<1>1. ReplaceEvery => Ordered /\ boxText' = Substituted(boxText, bar.exact, bar.with)
  BY EveryOneIsReplaced
<1>2. ASSUME findNext PROVE Ordered
  <2>1. ASSUME NEW exact \in BOOLEAN, NEW with \in Replacements, OpenFind(exact, with) PROVE Ordered
    BY <2>1, OpenOrdered
  <2>2. CASE CloseFind
    BY <2>2, CloseOrdered
  <2>3. CASE ToggleCase
    BY <2>3, CaseOrdered
  <2>4. CASE ReplaceCurrent
    BY <2>4, ReplaceOrdered
  <2>5. CASE TimedStep
    BY <2>5, TimedOrdered
  <2>6. CASE ReplaceEvery
    BY <1>1, <2>6
  <2>7. ASSUME NEW o \in 0 .. MaxLetters, MoveCaret(o) PROVE Ordered
    BY <2>7, CaretOrdered
  <2>8. ASSUME NEW o \in 0 .. MaxLetters, NEW ch \in Letter, TypeLetter(ch, o) PROVE Ordered
    BY <2>8, TypeOrdered
  <2>9. ASSUME NEW dir \in {"next", "previous"}, Step(dir) PROVE Ordered
    BY <2>9, StepOrdered
  <2> QED
    BY <1>2, <2>1, <2>2, <2>3, <2>4, <2>5, <2>6, <2>7, <2>8, <2>9, Zenon DEF findNext
<1>3. CASE findNext
  <2>1. Ordered
    BY <1>2, <1>3
  <2>2. FindStep
    BY <1>1, <2>1 DEF FindStep
  <2> QED
    BY <2>1, <2>2 DEF Ordered
<1>4. CASE UNCHANGED findVars
  <2>1. boxText' = boxText /\ bar' = bar /\ stepping' = stepping /\ boxEdits' = boxEdits
    BY <1>4 DEF findVars
  <2>2. FindInv'
    BY <2>1 DEF FindInv, Fits, Fresh
  <2>3. findNext => FindStep
    BY <1>3, <1>2, <1>1 DEF FindStep
  <2> QED
    BY <2>2, <2>3
<1> QED
  BY <1>3, <1>4

LEMMA FindInvGives == FindInv => findTypeOK /\ MatchesAreFresh
<1> SUFFICES ASSUME FindInv PROVE findTypeOK /\ MatchesAreFresh
  OBVIOUS
<1>1. boxText \in Seq(Letter) /\ bar \in BarKind /\ boxEdits \in 0 .. MaxBoxEdits
  BY DEF FindInv, Fits
<1>2. bar.open \in BOOLEAN
  BY <1>1 DEF BarKind
<1>3. bar.matches \in Seq(0 .. MaxLetters)
  BY <1>1 DEF BarKind, Matches
<1>4. bar.current >= 0 - 1
  BY <1>1 DEF BarKind
<1>5. Len(stepping) <= 1
  <2>1. CASE stepping = <<>>
    BY <2>1
  <2>2. ASSUME NEW m \in Matches, stepping = <<m>> PROVE Len(stepping) <= 1
    BY <2>2
  <2> QED
    BY <2>1, <2>2 DEF FindInv
<1>6. MatchesAreFresh
  BY DEF FindInv, Fresh, MatchesAreFresh
<1> QED
  BY <1>1, <1>2, <1>3, <1>4, <1>5, <1>6, Zenon DEF findTypeOK

\* The bar says what is in the box, for every text, replacement and number
\* of letters and edits: its matches are those of the text as it is, also
\* after an edit that came between two steps of its timer; "replace all"
\* replaces every match and no other letter, whatever the replacement holds;
\* and a text that changes takes the current match along, selected.
THEOREM FindStaysExact == findSpec => FindIsExact
<1>1. findInit => FindInv
  BY FindBegins
<1>2. FindInv /\ [findNext]_findVars => FindInv'
  BY FindContinues
<1>3. FindInv => findTypeOK /\ MatchesAreFresh
  BY FindInvGives
<1>4. FindInv /\ [findNext]_findVars
        => [ReplaceEvery => boxText' = Substituted(boxText, bar.exact, bar.with)]_findVars
  BY FindContinues, Zenon DEF FindStep
<1>5. FindInv /\ [findNext]_findVars
        => [~TimedStep /\ bar'.open /\ (boxText' # boxText \/ ~bar.open)
            => CurrentIsAMatch' /\ (bar'.matches # <<>> => caret' = Span(bar'.matches[bar'.current + 1], bar'.matches[bar'.current + 1] + 1))]_findVars
  <2>1. ASSUME Shown(bar', caret')
        PROVE  CurrentIsAMatch' /\ (bar'.matches # <<>> => caret' = Span(bar'.matches[bar'.current + 1], bar'.matches[bar'.current + 1] + 1))
    BY <2>1 DEF Shown, CurrentIsAMatch
  <2>2. FindInv /\ findNext => Ordered
    BY FindContinues, Zenon DEF FindStep
  <2> QED
    BY <2>1, <2>2, Zenon DEF Ordered
<1> QED
  BY <1>1, <1>2, <1>3, <1>4, <1>5, PTL DEF findSpec, FindIsExact, AllMatchesAndNothingElse, CurrentFollowsTheText

-----------------------------------------------------------------------------
(* The styles of the message box.  A character that is encoded after whole     *)
(* ones is decoded as itself, so what a toggle writes reads as what it styled  *)
(* (RoundTrip); texts that follow one another spell what each of them spells   *)
(* (WordCat), wherever a stroke is cut from its character; and a selection is  *)
(* widened to where no pair is open (StartIs, EndIs), so the cuts split none.  *)

\* Two functions that unfold alike are one.
LEMMA UnfoldsOnce ==
    ASSUME NEW N \in Nat, NEW T, NEW base, NEW step, NEW f, NEW g,
           Unfolds(f, N, T, base, step), Unfolds(g, N, T, base, step)
    PROVE  f[N] = g[N]
<1> DEFINE S == {n \in 0 .. N : f[n] = g[n]}
<1>1. 0 \in S
  BY DEF Unfolds
<1>2. \A n \in 1 .. N : n - 1 \in S => n \in S
  <2>1. \A n \in 1 .. N : n \in 0 .. N
    OBVIOUS
  <2> QED
    BY <2>1 DEF Unfolds
<1> HIDE DEF S
<1>3. \A n \in 0 .. N : n \in S
  BY <1>1, <1>2, Inductively
<1>4. N \in 0 .. N
  OBVIOUS
<1> QED
  BY <1>3, <1>4 DEF S

\* Units are of these kinds; letters and digits that have a form are two.
Formed == {<<"bold", "a">>, <<"bold", "1">>, <<"italic", "a">>, <<"boldItalic", "a">>, <<"mono", "a">>, <<"mono", "1">>}
Single == {<<"plain", "a">>, <<"plain", "1">>, <<"plain", "space">>}
High == {<<"high", "bold", "a">>, <<"high", "bold", "1">>, <<"high", "italic", "a">>, <<"high", "boldItalic", "a">>,
         <<"high", "mono", "a">>, <<"high", "mono", "1">>}
LowOnes == {<<"low", "bold", "a">>, <<"low", "bold", "1">>, <<"low", "italic", "a">>, <<"low", "boldItalic", "a">>,
        <<"low", "mono", "a">>, <<"low", "mono", "1">>}
Unit == Single \cup High \cup LowOnes \cup {Stroke}

\* Characters as they are decoded: only some styles go together.
Base == Ch \cup {"stroke"}
Glyph == [base : Base, bold : BOOLEAN, italic : BOOLEAN, mono : BOOLEAN, strike : BOOLEAN]
Apt(g) ==
    /\ g \in Glyph
    /\ g.mono => ~g.bold /\ ~g.italic
    /\ g.bold \/ g.mono => g.base \in {"a", "1"}
    /\ g.italic => g.base = "a"
Glyphs == {g \in Glyph : Apt(g)}

LEMMA SinglesAre == ASSUME NEW u \in Single PROVE u[1] = "plain" /\ u[2] \in Ch /\ Len(u) = 2
BY DEF Single, Ch
LEMMA HighsAre == ASSUME NEW u \in High PROVE u[1] = "high" /\ Len(u) = 3 /\ u[3] \in {"a", "1"} /\ u[2] \in Alphabet
BY DEF High, Alphabet
LEMMA HighDigits == ASSUME NEW u \in High, u[3] = "1" PROVE u[2] \in {"bold", "mono"}
BY DEF High
LEMMA LowsAre == ASSUME NEW u \in LowOnes PROVE u[1] = "low" /\ Len(u) = 3 /\ u[3] \in {"a", "1"} /\ u[2] \in Alphabet
BY DEF LowOnes, Alphabet
LEMMA StrokeIs == Stroke[1] = "stroke" /\ Len(Stroke) = 1
BY DEF Stroke

LEMMA SinglesDecoded ==
    ASSUME NEW u \in Single \cup {Stroke}
    PROVE  Decoded(u) = [base |-> u[Len(u)], bold |-> FALSE, italic |-> FALSE, mono |-> FALSE, strike |-> FALSE]
<1>1. u[1] # "high"
  <2>1. CASE u \in Single
    BY <2>1, SinglesAre
  <2>2. CASE u = Stroke
    BY <2>2, StrokeIs
  <2> QED
    BY <2>1, <2>2
<1> QED
  BY <1>1 DEF Decoded, Plain

LEMMA HighsDecoded ==
    ASSUME NEW u \in High
    PROVE  Decoded(u) = [base |-> u[3], bold |-> u[2] \in {"bold", "boldItalic"}, italic |-> u[2] \in {"italic", "boldItalic"},
                         mono |-> u[2] = "mono", strike |-> FALSE]
<1>1. u[1] = "high"
  BY HighsAre
<1> QED
  BY <1>1, Zenon DEF Decoded

LEMMA GlyphMade ==
    ASSUME NEW c \in Base, NEW x \in BOOLEAN, NEW y \in BOOLEAN, NEW z \in BOOLEAN, NEW s \in BOOLEAN,
           z => ~x /\ ~y, x \/ z => c \in {"a", "1"}, y => c = "a"
    PROVE  [base |-> c, bold |-> x, italic |-> y, mono |-> z, strike |-> s] \in Glyphs
<1> DEFINE g == [base |-> c, bold |-> x, italic |-> y, mono |-> z, strike |-> s]
<1>1. g \in Glyph
  BY DEF Glyph
<1>2. g.base = c /\ g.bold = x /\ g.italic = y /\ g.mono = z
  OBVIOUS
<1> HIDE DEF g
<1>3. g \in Glyphs
  BY <1>1, <1>2 DEF Glyphs, Apt
<1> QED
  BY <1>3 DEF g

LEMMA PlainMade ==
    ASSUME NEW c \in Base
    PROVE  [base |-> c, bold |-> FALSE, italic |-> FALSE, mono |-> FALSE, strike |-> FALSE] \in Glyphs
<1>1. \A x, y, z, s \in BOOLEAN : ~x /\ ~y /\ ~z => [base |-> c, bold |-> x, italic |-> y, mono |-> z, strike |-> s] \in Glyphs
  BY GlyphMade
<1>2. FALSE \in BOOLEAN /\ ~FALSE
  OBVIOUS
<1> QED
  BY <1>1, <1>2, Zenon

LEMMA DecodedIsApt ==
    ASSUME NEW u \in Unit, u \notin LowOnes
    PROVE  Decoded(u) \in Glyphs /\ Decoded(u).base = u[Len(u)] /\ (Decoded(u).base = "stroke" <=> u = Stroke)
<1>1. CASE u \in Single
  <2>1. Decoded(u) = [base |-> u[Len(u)], bold |-> FALSE, italic |-> FALSE, mono |-> FALSE, strike |-> FALSE]
    BY <1>1, SinglesDecoded
  <2>2. u[Len(u)] \in Ch /\ u # Stroke
    <3>1. u[1] = "plain" /\ u[2] \in Ch /\ Len(u) = 2
      BY <1>1, SinglesAre
    <3> QED
      BY <3>1, StrokeIs
  <2>3. u[Len(u)] # "stroke" /\ u[Len(u)] \in Base
    BY <2>2 DEF Ch, Base
  <2> DEFINE c == u[Len(u)]
  <2>4. Decoded(u) = [base |-> c, bold |-> FALSE, italic |-> FALSE, mono |-> FALSE, strike |-> FALSE] /\ c \in Base /\ c # "stroke"
    BY <2>1, <2>3
  <2> HIDE DEF c
  <2>5. Decoded(u) \in Glyphs /\ Decoded(u).base = c
    BY <2>4, PlainMade
  <2> QED
    BY <2>2, <2>4, <2>5 DEF c
<1>2. CASE u = Stroke
  <2>1. Decoded(u) = [base |-> u[Len(u)], bold |-> FALSE, italic |-> FALSE, mono |-> FALSE, strike |-> FALSE]
    BY <1>2, SinglesDecoded
  <2>2. u[Len(u)] = "stroke" /\ u[Len(u)] \in Base
    BY <1>2, StrokeIs DEF Base
  <2> DEFINE c == u[Len(u)]
  <2>4. Decoded(u) = [base |-> c, bold |-> FALSE, italic |-> FALSE, mono |-> FALSE, strike |-> FALSE] /\ c \in Base /\ c = "stroke"
    BY <2>1, <2>2
  <2> HIDE DEF c
  <2>5. Decoded(u) \in Glyphs /\ Decoded(u).base = c
    BY <2>4, PlainMade
  <2> QED
    BY <1>2, <2>4, <2>5 DEF c
<1>3. CASE u \in High
  <2>1. u[1] = "high" /\ Len(u) = 3 /\ u[3] \in {"a", "1"} /\ u[2] \in Alphabet
    BY <1>3, HighsAre
  <2>2. u # Stroke /\ u[3] # "stroke" /\ u[3] \in Base
    BY <2>1, StrokeIs DEF Base, Ch
  <2>3. u[3] = "1" => u[2] \in {"bold", "mono"}
    BY <1>3, HighDigits
  <2> DEFINE x == u[2] \in {"bold", "boldItalic"}
             y == u[2] \in {"italic", "boldItalic"}
             z == u[2] = "mono"
  <2>4. x \in BOOLEAN /\ y \in BOOLEAN /\ z \in BOOLEAN
    OBVIOUS
  <2>5. (z => ~x /\ ~y) /\ (y => u[3] = "a")
    BY <2>1, <2>3 DEF Alphabet
  <2> DEFINE c == u[3]
  <2>6. Decoded(u) = [base |-> c, bold |-> x, italic |-> y, mono |-> z, strike |-> FALSE]
    BY <1>3, HighsDecoded
  <2>7. c \in {"a", "1"} /\ c \in Base /\ (y => c = "a")
    BY <2>1, <2>2, <2>5
  <2> HIDE DEF x, y, z, c
  <2>8. Decoded(u) \in Glyph
    BY <2>4, <2>6, <2>7 DEF Glyph
  <2>9. Decoded(u).bold = x /\ Decoded(u).italic = y /\ Decoded(u).mono = z /\ Decoded(u).base = c
    BY <2>6
  <2>10. Decoded(u) \in Glyphs
    BY <2>5, <2>7, <2>8, <2>9 DEF Glyphs, Apt
  <2> QED
    BY <2>1, <2>2, <2>9, <2>10 DEF c
<1> QED
  BY <1>1, <1>2, <1>3 DEF Unit

\* decodeAll's loop, one unit more.
More(gs, u) ==
    IF u[1] = "low" THEN gs ELSE IF u = Stroke /\ gs # <<>> THEN Struck(gs) ELSE Append(gs, Decoded(u))

LEMMA StruckIs ==
    ASSUME NEW gs \in Seq(Glyphs), gs # <<>>
    PROVE  /\ Struck(gs) \in Seq(Glyphs) /\ Len(Struck(gs)) = Len(gs)
           /\ \A i \in 1 .. Len(gs) : Struck(gs)[i].base = gs[i].base
           /\ \A i \in 1 .. Len(gs) : i # Len(gs) => Struck(gs)[i] = gs[i]
           /\ Struck(gs)[Len(gs)] = [gs[Len(gs)] EXCEPT !.strike = TRUE]
<1>1. \A g \in Glyphs : [g EXCEPT !.strike = TRUE] \in Glyphs /\ [g EXCEPT !.strike = TRUE].base = g.base
  BY DEF Glyphs, Apt, Glyph
<1>2. Len(gs) \in Nat \ {0} /\ DOMAIN gs = 1 .. Len(gs)
  BY EmptySeq
<1>3. \A i \in 1 .. Len(gs) : gs[i] \in Glyphs
  BY ElementOfSeq
<1> DEFINE N == Len(gs)
           st(i) == IF i = N THEN [gs[i] EXCEPT !.strike = TRUE] ELSE gs[i]
<1>4. Struck(gs) = [i \in 1 .. N |-> st(i)]
  BY <1>2 DEF Struck
<1> HIDE DEF N
<1>5. \A i \in 1 .. N : st(i) \in Glyphs /\ st(i).base = gs[i].base
  BY <1>1, <1>3 DEF N
<1>6. \A i \in 1 .. N : i # N => st(i) = gs[i]
  OBVIOUS
<1>7. N \in 1 .. N /\ st(N) = [gs[N] EXCEPT !.strike = TRUE]
  BY <1>2 DEF N
<1> HIDE DEF st
<1>8. Struck(gs) \in Seq(Glyphs) /\ Len(Struck(gs)) = N
  BY <1>2, <1>4, <1>5 DEF N
<1>9. \A i \in 1 .. N : Struck(gs)[i] = st(i)
  BY <1>4
<1> QED
  BY <1>5, <1>6, <1>7, <1>8, <1>9 DEF N

LEMMA LowIsLow == ASSUME NEW u \in Unit PROVE u[1] = "low" <=> u \in LowOnes
<1>1. CASE u \in Single
  <2>1. u[1] = "plain"
    BY <1>1, SinglesAre
  <2>2. u \in LowOnes => u[1] = "low"
    BY LowsAre
  <2> QED
    BY <2>1, <2>2
<1>2. CASE u \in High
  <2>1. u[1] = "high"
    BY <1>2, HighsAre
  <2>2. u \in LowOnes => u[1] = "low"
    BY LowsAre
  <2> QED
    BY <2>1, <2>2
<1>3. CASE u \in LowOnes
  BY <1>3, LowsAre
<1>4. CASE u = Stroke
  <2>1. u[1] = "stroke"
    BY <1>4, StrokeIs
  <2>2. u \in LowOnes => u[1] = "low"
    BY LowsAre
  <2> QED
    BY <2>1, <2>2
<1> QED
  BY <1>1, <1>2, <1>3, <1>4 DEF Unit

LEMMA HighIsHigh == ASSUME NEW u \in Unit PROVE u[1] = "high" <=> u \in High
<1>1. CASE u \in Single
  <2>1. u[1] = "plain"
    BY <1>1, SinglesAre
  <2>2. u \in High => u[1] = "high"
    BY HighsAre
  <2> QED
    BY <2>1, <2>2
<1>2. CASE u \in LowOnes
  <2>1. u[1] = "low"
    BY <1>2, LowsAre
  <2>2. u \in High => u[1] = "high"
    BY HighsAre
  <2> QED
    BY <2>1, <2>2
<1>3. CASE u \in High
  BY <1>3, HighsAre
<1>4. CASE u = Stroke
  <2>1. u[1] = "stroke"
    BY <1>4, StrokeIs
  <2>2. u \in High => u[1] = "high"
    BY HighsAre
  <2> QED
    BY <2>1, <2>2
<1> QED
  BY <1>1, <1>2, <1>3, <1>4 DEF Unit

LEMMA MoreAre ==
    ASSUME NEW gs \in Seq(Glyphs), NEW u \in Unit
    PROVE  /\ More(gs, u) \in Seq(Glyphs)
           /\ u \notin LowOnes => More(gs, u) # <<>>
           /\ gs # <<>> => More(gs, u) # <<>> /\ More(gs, u)[1].base = gs[1].base
           /\ gs = <<>> /\ u \notin LowOnes => More(gs, u) = <<Decoded(u)>>
<1>1. CASE u \in LowOnes
  <2>1. More(gs, u) = gs
    BY <1>1, LowIsLow DEF More
  <2> QED
    BY <1>1, <2>1
<1>2. CASE u \notin LowOnes /\ u = Stroke /\ gs # <<>>
  <2>1. More(gs, u) = Struck(gs)
    BY <1>2, LowIsLow DEF More
  <2>2. Len(gs) \in Nat \ {0}
    BY <1>2, EmptySeq
  <2>3. 1 \in 1 .. Len(gs)
    BY <2>2
  <2>4. Struck(gs) \in Seq(Glyphs) /\ Len(Struck(gs)) = Len(gs) /\ Struck(gs)[1].base = gs[1].base
    BY <1>2, <2>3, StruckIs
  <2>5. Struck(gs) # <<>>
    BY <2>2, <2>4
  <2> QED
    BY <1>2, <2>1, <2>4, <2>5
<1>3. CASE u \notin LowOnes /\ ~(u = Stroke /\ gs # <<>>)
  <2>1. More(gs, u) = Append(gs, Decoded(u))
    BY <1>3, LowIsLow DEF More
  <2>2. Decoded(u) \in Glyphs
    BY <1>3, DecodedIsApt
  <2> DEFINE d == Decoded(u)
  <2> HIDE DEF d
  <2>3. \A g \in Glyphs : Append(gs, g) \in Seq(Glyphs) /\ Append(gs, g) # <<>>
    BY AppendProperties
  <2>4. gs = <<>> => Append(gs, d) = <<d>>
    OBVIOUS
  <2>5. gs # <<>> => Append(gs, d)[1] = gs[1]
    <3>1. SUFFICES ASSUME gs # <<>> PROVE Append(gs, d)[1] = gs[1]
      OBVIOUS
    <3>2. 1 \in 1 .. Len(gs)
      BY <3>1, EmptySeq
    <3> QED
      BY <2>2, <3>2, AppendProperties DEF d
  <2> QED
    BY <1>3, <2>1, <2>2, <2>3, <2>4, <2>5 DEF d
<1> QED
  BY <1>1, <1>2, <1>3

\* What holds of the empty sequence, and of one element more, holds of all.
LEMMA BySequences ==
    ASSUME NEW T, NEW S, <<>> \in S, \A s \in Seq(T), t \in T : s \in S => Append(s, t) \in S
    PROVE  \A s \in Seq(T) : s \in S
<1> SUFFICES ASSUME NEW s \in Seq(T) PROVE s \in S
  OBVIOUS
<1> DEFINE N == Len(s)
           front(n) == SubSeq(s, 1, n)
           I == {n \in 0 .. N : front(n) \in S}
<1>0. N \in Nat
  OBVIOUS
<1>1. 0 \in I
  <2>1. front(0) = <<>>
    OBVIOUS
  <2>2. 0 \in 0 .. N
    BY <1>0
  <2> HIDE DEF front, N
  <2> QED
    BY <2>1, <2>2
<1>2. \A n \in 1 .. N : n - 1 \in I => n \in I
  <2> SUFFICES ASSUME NEW n \in 1 .. N, n - 1 \in I PROVE n \in I
    OBVIOUS
  <2>0. n \in Nat /\ n - 1 \in Nat /\ n - 1 <= N /\ n <= N /\ n \in 0 .. N
    BY <1>0
  <2>1. s[n] \in T
    BY ElementOfSeq
  <2>2. front(n - 1) \in Seq(T) /\ front(n - 1) \in S
    BY <2>0
  <2>3. Append(front(n - 1), s[n]) = front(n)
    <3>1. Len(front(n)) = n /\ \A i \in 1 .. n : front(n)[i] = s[i]
      BY <2>0
    <3>2. Len(front(n - 1)) = n - 1 /\ \A i \in 1 .. n - 1 : front(n - 1)[i] = s[i]
      BY <2>0
    <3> DEFINE a == front(n - 1)
               b == front(n)
    <3>3. a \in Seq(T) /\ b \in Seq(T)
      BY <2>0
    <3> HIDE DEF a, b
    <3>4. /\ Append(a, s[n]) \in Seq(T) /\ Len(Append(a, s[n])) = Len(a) + 1
          /\ \A i \in 1 .. Len(a) : Append(a, s[n])[i] = a[i]
          /\ Append(a, s[n])[Len(a) + 1] = s[n]
      BY <2>1, <3>3, AppendProperties
    <3>5. Len(a) = n - 1 /\ Len(b) = n
      BY <3>1, <3>2 DEF a, b
    <3>6. Len(Append(a, s[n])) = n
      BY <2>0, <3>4, <3>5
    <3>7. \A i \in 1 .. n : Append(a, s[n])[i] = b[i]
      <4> SUFFICES ASSUME NEW i \in 1 .. n PROVE Append(a, s[n])[i] = b[i]
        OBVIOUS
      <4>1. b[i] = s[i]
        BY <3>1 DEF b
      <4>2. CASE i = n
        <5>1. i = Len(a) + 1
          BY <2>0, <3>5, <4>2
        <5> QED
          BY <3>4, <4>1, <4>2, <5>1
      <4>3. CASE i # n
        <5>1. i \in 1 .. n - 1 /\ i \in 1 .. Len(a)
          BY <2>0, <3>5, <4>3
        <5>2. a[i] = s[i]
          BY <3>2, <5>1 DEF a
        <5> QED
          BY <3>4, <4>1, <5>1, <5>2
      <4> QED
        BY <4>2, <4>3
    <3>8. Append(a, s[n]) = b
      BY <3>3, <3>4, <3>5, <3>6, <3>7, SeqEqual
    <3> QED
      BY <3>8 DEF a, b
  <2>4. front(n) \in S
    BY <2>1, <2>2, <2>3
  <2> QED
    BY <2>0, <2>4
<1> HIDE DEF I
<1>3. \A n \in 0 .. N : n \in I
  BY <1>0, <1>1, <1>2, Inductively
<1>4. N \in 0 .. N
  BY <1>0
<1>5. front(N) \in S
  BY <1>3, <1>4 DEF I
<1>6. front(N) = s
  OBVIOUS
<1> QED
  BY <1>5, <1>6

\* A loop over a sequence, element by element.
Goes(f, s, T, base, step) ==
    f \in [0 .. Len(s) -> T] /\ f[0] = base /\ \A n \in 1 .. Len(s) : f[n] = step[<<f[n - 1], s[n]>>]

LEMMA LoopGoes ==
    ASSUME NEW U, NEW s \in Seq(U), NEW T, NEW base \in T, NEW step \in [T \X U -> T]
    PROVE  \E f : Goes(f, s, T, base, step)
<1> DEFINE N == Len(s)
           st == [x \in (1 .. N) \X T |-> step[<<x[2], s[x[1]]>>]]
<1>0. N \in Nat
  OBVIOUS
<1>1. \A n \in 1 .. N : s[n] \in U
  BY ElementOfSeq
<1>2. \A n \in 1 .. N, x \in T : step[<<x, s[n]>>] \in T
  BY <1>1
<1>3. st \in [(1 .. N) \X T -> T]
  BY <1>2
<1>4. \A n \in 1 .. N, x \in T : st[<<n, x>>] = step[<<x, s[n]>>]
  OBVIOUS
<1> HIDE DEF st, N
<1>5. PICK f : Unfolds(f, N, T, base, st)
  BY <1>0, <1>3, StepByStep
<1>6. \A n \in 1 .. N : n - 1 \in 0 .. N
  BY <1>0
<1>7. \A n \in 1 .. N : f[n] = step[<<f[n - 1], s[n]>>]
  BY <1>4, <1>5, <1>6 DEF Unfolds
<1>8. Goes(f, s, T, base, step)
  BY <1>5, <1>7 DEF Goes, Unfolds, N
<1> QED
  BY <1>8

LEMMA LoopGoesOnce ==
    ASSUME NEW U, NEW s \in Seq(U), NEW T, NEW base, NEW step, NEW f, NEW g,
           Goes(f, s, T, base, step), Goes(g, s, T, base, step)
    PROVE  f[Len(s)] = g[Len(s)]
<1> DEFINE N == Len(s)
           S == {n \in 0 .. N : f[n] = g[n]}
<1>0. N \in Nat
  OBVIOUS
<1>1. 0 \in S
  BY <1>0 DEF Goes
<1>2. \A n \in 1 .. N : n - 1 \in S => n \in S
  <2>1. \A n \in 1 .. N : n \in 0 .. N
    BY <1>0
  <2> QED
    BY <2>1 DEF Goes
<1> HIDE DEF S
<1>3. \A n \in 0 .. N : n \in S
  BY <1>0, <1>1, <1>2, Inductively
<1>4. N \in 0 .. N
  BY <1>0
<1> QED
  BY <1>3, <1>4 DEF S

\* One element more is one step more.
LEMMA LoopGoesOn ==
    ASSUME NEW U, NEW s \in Seq(U), NEW u \in U, NEW T, NEW base, NEW step, NEW f, NEW g,
           Goes(f, s, T, base, step), Goes(g, Append(s, u), T, base, step)
    PROVE  g[Len(s) + 1] = step[<<f[Len(s)], u>>]
<1> DEFINE N == Len(s)
           r == Append(s, u)
<1>1. N \in Nat /\ Len(r) = N + 1 /\ r[N + 1] = u /\ \A i \in 1 .. N : r[i] = s[i]
  BY AppendProperties
<1> HIDE DEF r, N
<1>2. g \in [0 .. N + 1 -> T] /\ g[0] = base /\ \A n \in 1 .. N + 1 : g[n] = step[<<g[n - 1], r[n]>>]
  BY <1>1 DEF Goes, r
<1> DEFINE h == [n \in 0 .. N |-> g[n]]
<1>3. Goes(h, s, T, base, step)
  <2>1. \A n \in 0 .. N : n \in 0 .. N + 1
    BY <1>1
  <2>2. h \in [0 .. N -> T]
    BY <1>2, <2>1
  <2>3. h[0] = base
    BY <1>1, <1>2
  <2>4. \A n \in 1 .. N : h[n] = step[<<h[n - 1], s[n]>>]
    <3> SUFFICES ASSUME NEW n \in 1 .. N PROVE h[n] = step[<<h[n - 1], s[n]>>]
      OBVIOUS
    <3>1. n \in 1 .. N + 1 /\ n \in 0 .. N /\ n - 1 \in 0 .. N
      BY <1>1
    <3>2. h[n] = g[n] /\ h[n - 1] = g[n - 1] /\ r[n] = s[n]
      BY <1>1, <3>1
    <3> QED
      BY <1>2, <3>1, <3>2
  <2> HIDE DEF h
  <2> QED
    BY <2>2, <2>3, <2>4 DEF Goes, N
<1>4. h[N] = f[N]
  <2> HIDE DEF h
  <2> QED
    BY <1>3, LoopGoesOnce DEF N
<1>5. h[N] = g[N]
  BY <1>1
<1>6. N + 1 \in 1 .. N + 1 /\ (N + 1) - 1 = N
  BY <1>1
<1>7. g[N + 1] = step[<<g[N], u>>]
  BY <1>1, <1>2, <1>6
<1> QED
  BY <1>4, <1>5, <1>7 DEF N

DecodeStep == [x \in Seq(Glyphs) \X Unit |-> More(x[1], x[2])]

LEMMA DecodeStepIs ==
    /\ DecodeStep \in [Seq(Glyphs) \X Unit -> Seq(Glyphs)]
    /\ \A gs \in Seq(Glyphs), u \in Unit : DecodeStep[<<gs, u>>] = More(gs, u)
<1>1. \A gs \in Seq(Glyphs), u \in Unit : More(gs, u) \in Seq(Glyphs)
  BY MoreAre
<1> QED
  BY <1>1 DEF DecodeStep

LEMMA DecodeGoes ==
    ASSUME NEW us \in Seq(Unit)
    PROVE  \E f : Goes(f, us, Seq(Glyphs), <<>>, DecodeStep) /\ DecodeAll(us) = f[Len(us)]
<1> DEFINE N == Len(us)
           Is(f) == f = [n \in 0 .. N |-> IF n = 0 THEN <<>> ELSE More(f[n - 1], us[n])]
           g == CHOOSE f : Is(f)
<1>0. N \in Nat /\ <<>> \in Seq(Glyphs) /\ \A n \in 1 .. N : us[n] \in Unit
  BY ElementOfSeq
<1>1. DecodeAll(us) = g[N]
  BY DEF DecodeAll, More
<1>2. PICK f : Goes(f, us, Seq(Glyphs), <<>>, DecodeStep)
  <2>1. DecodeStep \in [Seq(Glyphs) \X Unit -> Seq(Glyphs)]
    BY DecodeStepIs
  <2> QED
    BY <1>0, <2>1, LoopGoes
<1>3. \A n \in 1 .. N : f[n] = More(f[n - 1], us[n])
  <2> SUFFICES ASSUME NEW n \in 1 .. N PROVE f[n] = More(f[n - 1], us[n])
    OBVIOUS
  <2>1. n - 1 \in 0 .. N
    BY <1>0
  <2>2. f[n - 1] \in Seq(Glyphs) /\ us[n] \in Unit /\ f[n] = DecodeStep[<<f[n - 1], us[n]>>]
    BY <1>0, <1>2, <2>1 DEF Goes
  <2> QED
    BY <2>2, DecodeStepIs
<1>4. Is(g)
  <2>1. \A n \in 0 .. N : n = 0 \/ n \in 1 .. N
    BY <1>0
  <2>2. f \in [0 .. N -> Seq(Glyphs)] /\ f[0] = <<>>
    BY <1>2 DEF Goes
  <2> HIDE DEF N
  <2>3. \A n \in 0 .. N : f[n] = IF n = 0 THEN <<>> ELSE More(f[n - 1], us[n])
    BY <1>3, <2>1, <2>2
  <2>4. Is(f)
    BY <2>2, <2>3
  <2> HIDE DEF Is
  <2> QED
    BY <2>4
<1> HIDE DEF g
<1>5. g[0] = <<>> /\ \A n \in 1 .. N : g[n] = More(g[n - 1], us[n])
  <2>1. \A n \in 1 .. N : n \in 0 .. N /\ n # 0
    BY <1>0
  <2>2. 0 \in 0 .. N
    BY <1>0
  <2> HIDE DEF N
  <2> QED
    BY <1>4, <2>1, <2>2
<1> HIDE DEF Is
<1>6. \A n \in 0 .. N : g[n] = f[n]
  <2> DEFINE S == {n \in 0 .. N : g[n] = f[n]}
  <2>a. f[0] = <<>> /\ 0 \in 0 .. N
    BY <1>0, <1>2 DEF Goes
  <2>1. 0 \in S
    BY <1>5, <2>a
  <2>2. \A n \in 1 .. N : n - 1 \in S => n \in S
    <3>1. \A n \in 1 .. N : n \in 0 .. N
      BY <1>0
    <3> QED
      BY <1>3, <1>5, <3>1
  <2> HIDE DEF S
  <2>3. \A n \in 0 .. N : n \in S
    BY <1>0, <2>1, <2>2, Inductively
  <2> QED
    BY <2>3 DEF S
<1>7. g[N] = f[N]
  BY <1>0, <1>6
<1> QED
  BY <1>1, <1>2, <1>7

LEMMA DecodeOne ==
    /\ DecodeAll(<<>>) = <<>>
    /\ \A us \in Seq(Unit), u \in Unit : DecodeAll(Append(us, u)) = More(DecodeAll(us), u)
    /\ \A us \in Seq(Unit) : DecodeAll(us) \in Seq(Glyphs)
<1>1. DecodeAll(<<>>) = <<>>
  <2>1. <<>> \in Seq(Unit) /\ Len(<<>>) = 0
    OBVIOUS
  <2>2. PICK f : Goes(f, <<>>, Seq(Glyphs), <<>>, DecodeStep) /\ DecodeAll(<<>>) = f[Len(<<>>)]
    BY <2>1, DecodeGoes
  <2> QED
    BY <2>1, <2>2 DEF Goes
<1>2. ASSUME NEW us \in Seq(Unit) PROVE DecodeAll(us) \in Seq(Glyphs)
  <2>1. PICK f : Goes(f, us, Seq(Glyphs), <<>>, DecodeStep) /\ DecodeAll(us) = f[Len(us)]
    BY DecodeGoes
  <2>2. Len(us) \in 0 .. Len(us)
    OBVIOUS
  <2> QED
    BY <2>1, <2>2 DEF Goes
<1>3. ASSUME NEW us \in Seq(Unit), NEW u \in Unit PROVE DecodeAll(Append(us, u)) = More(DecodeAll(us), u)
  <2>1. PICK f : Goes(f, us, Seq(Glyphs), <<>>, DecodeStep) /\ DecodeAll(us) = f[Len(us)]
    BY DecodeGoes
  <2>2. Append(us, u) \in Seq(Unit) /\ Len(Append(us, u)) = Len(us) + 1
    BY AppendProperties
  <2>3. PICK g : Goes(g, Append(us, u), Seq(Glyphs), <<>>, DecodeStep) /\ DecodeAll(Append(us, u)) = g[Len(Append(us, u))]
    BY <2>2, DecodeGoes
  <2>4. g[Len(us) + 1] = DecodeStep[<<f[Len(us)], u>>]
    BY <2>1, <2>3, LoopGoesOn
  <2>5. DecodeAll(Append(us, u)) = DecodeStep[<<DecodeAll(us), u>>]
    BY <2>1, <2>2, <2>3, <2>4
  <2>6. DecodeAll(us) \in Seq(Glyphs)
    BY <1>2
  <2> QED
    BY <2>5, <2>6, DecodeStepIs
<1> QED
  BY <1>1, <1>2, <1>3

\* Units that follow one another in an encoded text.
Units == Seq(Unit)
EncodeStep == [x \in Units \X Glyphs |-> x[1] \o Encode(x[2])]

LEMMA FormIs ==
    ASSUME NEW g \in Glyphs
    PROVE  \/ g.base = "stroke" /\ Form(g) = <<Stroke>>
           \/ g.mono /\ g.base \in {"a", "1"} /\ Form(g) = Wide("mono", g.base)
           \/ ~g.mono /\ g.bold /\ g.italic /\ g.base = "a" /\ Form(g) = Wide("boldItalic", "a")
           \/ ~g.mono /\ g.bold /\ ~g.italic /\ g.base \in {"a", "1"} /\ Form(g) = Wide("bold", g.base)
           \/ ~g.mono /\ ~g.bold /\ g.italic /\ g.base = "a" /\ Form(g) = Wide("italic", "a")
           \/ ~g.mono /\ ~g.bold /\ ~g.italic /\ g.base \in Ch /\ Form(g) = <<<<"plain", g.base>>>>
<1>1. /\ g.base \in Ch \cup {"stroke"} /\ g.mono \in BOOLEAN /\ g.bold \in BOOLEAN /\ g.italic \in BOOLEAN
      /\ g.mono => ~g.bold /\ ~g.italic
      /\ g.bold \/ g.mono => g.base \in {"a", "1"}
      /\ g.italic => g.base = "a"
  BY DEF Glyphs, Apt, Glyph, Base
<1> DEFINE b == g.base
<1> HIDE DEF b
<1>2. b \in Ch \cup {"stroke"} /\ (g.bold \/ g.mono => b \in {"a", "1"}) /\ (g.italic => b = "a")
  BY <1>1 DEF b
<1>3. b \in {"a", "1"} => b # "stroke" /\ b # "space" /\ (b # "1" => b = "a")
  OBVIOUS
<1>4. b # "stroke" => b \in Ch
  BY <1>2
<1>5. Form(g) = IF b = "stroke" THEN <<Stroke>>
                ELSE IF g.mono /\ b # "space" THEN Wide("mono", b)
                ELSE IF g.bold /\ g.italic /\ b = "a" THEN Wide("boldItalic", "a")
                ELSE IF g.bold /\ b # "space" THEN Wide("bold", b)
                ELSE IF g.italic /\ b = "a" THEN Wide("italic", "a")
                ELSE <<<<"plain", b>>>>
  BY Zenon DEF Form, b
<1> QED
  BY <1>1, <1>2, <1>3, <1>4, <1>5, Zenon DEF b

\* A character's form is one unit, or two that belong together ...
IsSingle(us) == \E v \in Single \cup {Stroke} : us = <<v>>
IsPair(us) == \E h \in High, l \in LowOnes : us = <<h, l>> /\ l = <<"low", h[2], h[3]>> /\ h = <<"high", l[2], l[3]>>
Flags(d, bold, italic, mono) == d.bold = bold /\ d.italic = italic /\ d.mono = mono /\ d.strike = FALSE

LEMMA WideIs ==
    ASSUME NEW al, NEW c, <<al, c>> \in Formed
    PROVE  /\ IsPair(Wide(al, c)) /\ Wide(al, c)[1] = <<"high", al, c>>
           /\ Decoded(Wide(al, c)[1]).base = c
           /\ Flags(Decoded(Wide(al, c)[1]), al \in {"bold", "boldItalic"}, al \in {"italic", "boldItalic"}, al = "mono")
<1> DEFINE h == <<"high", al, c>>
           l == <<"low", al, c>>
<1>1. h[1] = "high" /\ h[2] = al /\ h[3] = c /\ l[2] = al /\ l[3] = c
  OBVIOUS
<1>2. h \in High /\ l \in LowOnes
  <2>1. \/ al = "bold" /\ c = "a"
        \/ al = "bold" /\ c = "1"
        \/ al = "italic" /\ c = "a"
        \/ al = "boldItalic" /\ c = "a"
        \/ al = "mono" /\ c = "a"
        \/ al = "mono" /\ c = "1"
    BY DEF Formed
  <2> QED
    BY <2>1 DEF High, LowOnes
<1>3. Wide(al, c) = <<h, l>>
  BY DEF Wide
<1>4. Decoded(h) = [base |-> h[3], bold |-> h[2] \in {"bold", "boldItalic"}, italic |-> h[2] \in {"italic", "boldItalic"},
                    mono |-> h[2] = "mono", strike |-> FALSE]
  BY <1>2, HighsDecoded
<1>5. l = <<"low", h[2], h[3]>> /\ h = <<"high", l[2], l[3]>>
  BY <1>1
<1> HIDE DEF h, l
<1>6. <<h, l>>[1] = h
  OBVIOUS
<1>7. IsPair(<<h, l>>)
  BY <1>2, <1>5 DEF IsPair
<1> DEFINE x == h[2] \in {"bold", "boldItalic"}
           y == h[2] \in {"italic", "boldItalic"}
           z == h[2] = "mono"
<1>8. Decoded(h) = [base |-> c, bold |-> x, italic |-> y, mono |-> z, strike |-> FALSE]
  BY <1>1, <1>4, Zenon
<1>9. (x <=> al \in {"bold", "boldItalic"}) /\ (y <=> al \in {"italic", "boldItalic"}) /\ (z <=> al = "mono")
  BY <1>1
<1>10. x \in BOOLEAN /\ y \in BOOLEAN /\ z \in BOOLEAN
  OBVIOUS
<1> HIDE DEF x, y, z
<1>11. Decoded(h).base = c /\ Decoded(h).bold = x /\ Decoded(h).italic = y /\ Decoded(h).mono = z /\ Decoded(h).strike = FALSE
  BY <1>8
<1>12. /\ x = (al \in {"bold", "boldItalic"}) /\ y = (al \in {"italic", "boldItalic"}) /\ z = (al = "mono")
  BY <1>9, <1>10
<1>13. Flags(Decoded(h), al \in {"bold", "boldItalic"}, al \in {"italic", "boldItalic"}, al = "mono")
  BY <1>11, <1>12, Zenon DEF Flags
<1> QED
  BY <1>3, <1>6, <1>7, <1>11, <1>13 DEF h

LEMMA SingleFlags ==
    ASSUME NEW v \in Single \cup {Stroke} PROVE Decoded(v).base = v[Len(v)] /\ Flags(Decoded(v), FALSE, FALSE, FALSE)
<1> DEFINE c == v[Len(v)]
<1>1. Decoded(v) = [base |-> c, bold |-> FALSE, italic |-> FALSE, mono |-> FALSE, strike |-> FALSE]
  BY SinglesDecoded
<1> HIDE DEF c
<1>2. \A x : LET d == [base |-> c, bold |-> x, italic |-> x, mono |-> x, strike |-> x]
             IN  d.base = c /\ d.bold = x /\ d.italic = x /\ d.mono = x /\ d.strike = x
  OBVIOUS
<1> QED
  BY <1>1, <1>2, Zenon DEF c, Flags

\* ... and reads as the character, but for its stroke.
LEMMA FormReads ==
    ASSUME NEW g \in Glyphs
    PROVE  /\ IsSingle(Form(g)) \/ IsPair(Form(g))
           /\ Decoded(Form(g)[1]).base = g.base
           /\ Flags(Decoded(Form(g)[1]), g.bold, g.italic, g.mono)
<1> DEFINE d == Decoded(Form(g)[1])
<1>0. /\ g.bold \in BOOLEAN /\ g.italic \in BOOLEAN /\ g.mono \in BOOLEAN /\ (g.mono => ~g.bold /\ ~g.italic)
      /\ (g.bold \/ g.mono => g.base \in {"a", "1"}) /\ (g.italic => g.base = "a")
  BY DEF Glyphs, Apt, Glyph
<1>a. \A w \in {TRUE, FALSE} : w \in BOOLEAN
  OBVIOUS
<1>1. CASE g.base = "stroke" /\ Form(g) = <<Stroke>>
  <2>1. Form(g)[1] = Stroke /\ IsSingle(Form(g))
    BY <1>1 DEF IsSingle
  <2>2. Stroke[Len(Stroke)] = "stroke"
    BY DEF Stroke
  <2>3. ~g.bold /\ ~g.italic /\ ~g.mono
    BY <1>0, <1>1
  <2>4. g.bold = FALSE /\ g.italic = FALSE /\ g.mono = FALSE
    BY <1>0, <2>3
  <2>5. Decoded(Stroke).base = "stroke" /\ Flags(Decoded(Stroke), FALSE, FALSE, FALSE)
    BY <2>2, SingleFlags
  <2> QED
    BY <1>1, <2>1, <2>4, <2>5
<1>2. CASE ~g.mono /\ ~g.bold /\ ~g.italic /\ g.base \in Ch /\ Form(g) = <<<<"plain", g.base>>>>
  <2> DEFINE v == <<"plain", g.base>>
  <2>1. v \in Single
    BY <1>2 DEF Single, Ch
  <2>2. v[Len(v)] = g.base
    OBVIOUS
  <2>3. Form(g) = <<v>> /\ Form(g)[1] = v
    BY <1>2
  <2> HIDE DEF v
  <2>4. IsSingle(Form(g))
    BY <2>1, <2>3 DEF IsSingle
  <2>5. g.bold = FALSE /\ g.italic = FALSE /\ g.mono = FALSE
    BY <1>0, <1>2
  <2>6. Decoded(v).base = g.base /\ Flags(Decoded(v), FALSE, FALSE, FALSE)
    BY <2>1, <2>2, SingleFlags
  <2> QED
    BY <2>3, <2>4, <2>5, <2>6
<1>3. ASSUME NEW al, <<al, g.base>> \in Formed, Form(g) = Wide(al, g.base),
             g.bold <=> al \in {"bold", "boldItalic"}, g.italic <=> al \in {"italic", "boldItalic"}, g.mono <=> al = "mono"
      PROVE  /\ IsSingle(Form(g)) \/ IsPair(Form(g))
             /\ Decoded(Form(g)[1]).base = g.base
             /\ Flags(Decoded(Form(g)[1]), g.bold, g.italic, g.mono)
  <2>1. IsPair(Form(g)) /\ Decoded(Form(g)[1]).base = g.base
    BY <1>3, WideIs
  <2>2. /\ g.bold = (al \in {"bold", "boldItalic"}) /\ g.italic = (al \in {"italic", "boldItalic"}) /\ g.mono = (al = "mono")
    BY <1>0, <1>3
  <2>3. Flags(Decoded(Form(g)[1]), al \in {"bold", "boldItalic"}, al \in {"italic", "boldItalic"}, al = "mono")
    BY <1>3, WideIs
  <2> QED
    BY <2>1, <2>2, <2>3, Zenon
<1>4. CASE g.mono /\ g.base \in {"a", "1"} /\ Form(g) = Wide("mono", g.base)
  <2>1. <<"mono", g.base>> \in Formed
    BY <1>4 DEF Formed
  <2>2. /\ g.bold <=> "mono" \in {"bold", "boldItalic"}
        /\ g.italic <=> "mono" \in {"italic", "boldItalic"}
        /\ g.mono <=> "mono" = "mono"
    BY <1>0, <1>4
  <2> QED
    BY <1>3, <1>4, <2>1, <2>2
<1>5. CASE ~g.mono /\ g.bold /\ g.italic /\ g.base = "a" /\ Form(g) = Wide("boldItalic", "a")
  <2>1. <<"boldItalic", g.base>> \in Formed
    BY <1>5 DEF Formed
  <2>2. /\ g.bold <=> "boldItalic" \in {"bold", "boldItalic"}
        /\ g.italic <=> "boldItalic" \in {"italic", "boldItalic"}
        /\ g.mono <=> "boldItalic" = "mono"
    BY <1>0, <1>5
  <2> QED
    BY <1>3, <1>5, <2>1, <2>2
<1>6. CASE ~g.mono /\ g.bold /\ ~g.italic /\ g.base \in {"a", "1"} /\ Form(g) = Wide("bold", g.base)
  <2>1. <<"bold", g.base>> \in Formed
    BY <1>6 DEF Formed
  <2>2. /\ g.bold <=> "bold" \in {"bold", "boldItalic"}
        /\ g.italic <=> "bold" \in {"italic", "boldItalic"}
        /\ g.mono <=> "bold" = "mono"
    BY <1>0, <1>6
  <2> QED
    BY <1>3, <1>6, <2>1, <2>2
<1>7. CASE ~g.mono /\ ~g.bold /\ g.italic /\ g.base = "a" /\ Form(g) = Wide("italic", "a")
  <2>1. <<"italic", g.base>> \in Formed
    BY <1>7 DEF Formed
  <2>2. /\ g.bold <=> "italic" \in {"bold", "boldItalic"}
        /\ g.italic <=> "italic" \in {"italic", "boldItalic"}
        /\ g.mono <=> "italic" = "mono"
    BY <1>0, <1>7
  <2> QED
    BY <1>3, <1>7, <2>1, <2>2
<1> QED
  BY <1>1, <1>2, <1>4, <1>5, <1>6, <1>7, FormIs

LEMMA GlyphsEqual ==
    ASSUME NEW d \in Glyph, NEW g \in Glyph, d.base = g.base, d.bold = g.bold, d.italic = g.italic, d.mono = g.mono,
           d.strike = g.strike
    PROVE  d = g
BY DEF Glyph

LEMMA OneMore ==
    ASSUME NEW U, NEW us \in Seq(U), NEW v \in U PROVE us \o <<v>> = Append(us, v)
OBVIOUS

LEMMA TwoMore ==
    ASSUME NEW U, NEW us \in Seq(U), NEW v \in U, NEW w \in U PROVE us \o <<v, w>> = Append(Append(us, v), w)
<1> DEFINE p == <<v, w>>
           a == Append(us, v)
           N == Len(us)
<1>1. p \in Seq(U) /\ Len(p) = 2 /\ p[1] = v /\ p[2] = w
  OBVIOUS
<1>2. N \in Nat /\ a \in Seq(U) /\ Len(a) = N + 1 /\ a[N + 1] = v /\ \A i \in 1 .. N : a[i] = us[i]
  BY AppendProperties
<1> HIDE DEF p, a
<1>3. us \o p \in Seq(U) /\ Len(us \o p) = N + Len(p) /\ \A i \in 1 .. N + Len(p) : (us \o p)[i] = IF i <= N THEN us[i] ELSE p[i - N]
  BY <1>1, ConcatProperties
<1>4. /\ Append(a, w) \in Seq(U) /\ Len(Append(a, w)) = Len(a) + 1 /\ Append(a, w)[Len(a) + 1] = w
      /\ \A i \in 1 .. Len(a) : Append(a, w)[i] = a[i]
  BY <1>2, AppendProperties
<1> HIDE DEF N
<1>5. Len(us \o p) = N + 2 /\ Len(Append(a, w)) = N + 2
  BY <1>1, <1>2, <1>3, <1>4
<1>6. \A i \in 1 .. N + 2 : (us \o p)[i] = Append(a, w)[i]
  <2> SUFFICES ASSUME NEW i \in 1 .. N + 2 PROVE (us \o p)[i] = Append(a, w)[i]
    OBVIOUS
  <2>0. i \in 1 .. N + Len(p)
    BY <1>1
  <2>1. CASE i \in 1 .. N
    <3>1. i <= N /\ i \in 1 .. Len(a)
      BY <1>2, <2>1
    <3> QED
      BY <1>2, <1>3, <1>4, <2>0, <2>1, <3>1
  <2>2. CASE i = N + 1
    <3>1. ~(i <= N) /\ i - N = 1 /\ i \in 1 .. Len(a)
      BY <1>2, <2>2
    <3> QED
      BY <1>1, <1>2, <1>3, <1>4, <2>0, <2>2, <3>1
  <2>3. CASE i = N + 2
    <3>1. ~(i <= N) /\ i - N = 2 /\ i = Len(a) + 1
      BY <1>2, <2>3
    <3> QED
      BY <1>1, <1>3, <1>4, <2>0, <3>1
  <2>4. N \in Nat
    BY <1>2
  <2>5. i \in 1 .. N \/ i = N + 1 \/ i = N + 2
    BY <2>4
  <2> QED
    BY <2>1, <2>2, <2>3, <2>5
<1>7. us \o p = Append(a, w)
  <2>1. \A i \in 1 .. Len(us \o p) : (us \o p)[i] = Append(a, w)[i]
    BY <1>5, <1>6
  <2>2. Len(us \o p) = Len(Append(a, w))
    BY <1>5
  <2> DEFINE l == us \o p
             r == Append(a, w)
  <2>3. l \in Seq(U) /\ r \in Seq(U)
    BY <1>3, <1>4
  <2> HIDE DEF l, r
  <2>4. (\A i \in 1 .. Len(l) : l[i] = r[i]) /\ Len(l) = Len(r)
    BY <2>1, <2>2 DEF l, r
  <2>5. l = r
    BY <2>3, <2>4, SeqEqual
  <2> QED
    BY <2>5 DEF l, r
<1> QED
  BY <1>7 DEF p, a

LEMMA ConcatAppend ==
    ASSUME NEW U, NEW us \in Seq(U), NEW v \in Seq(U), NEW w \in U PROVE us \o Append(v, w) = Append(us \o v, w)
<1> DEFINE p == Append(v, w)
           a == us \o v
           N == Len(us)
           M == Len(v)
<1>0. N \in Nat /\ M \in Nat
  OBVIOUS
<1>1. p \in Seq(U) /\ Len(p) = M + 1 /\ p[M + 1] = w /\ \A i \in 1 .. M : p[i] = v[i]
  BY AppendProperties
<1>2. a \in Seq(U) /\ Len(a) = N + M /\ \A i \in 1 .. N + M : a[i] = IF i <= N THEN us[i] ELSE v[i - N]
  BY ConcatProperties
<1> DEFINE l == us \o p
           r == Append(a, w)
<1> HIDE DEF p, a
<1>3. l \in Seq(U) /\ Len(l) = N + Len(p) /\ \A i \in 1 .. N + Len(p) : l[i] = IF i <= N THEN us[i] ELSE p[i - N]
  BY <1>1, ConcatProperties
<1>4. r \in Seq(U) /\ Len(r) = Len(a) + 1 /\ r[Len(a) + 1] = w /\ \A i \in 1 .. Len(a) : r[i] = a[i]
  BY <1>2, AppendProperties
<1> HIDE DEF N, M, l, r
<1>5. Len(l) = N + M + 1 /\ Len(r) = N + M + 1
  BY <1>0, <1>1, <1>2, <1>3, <1>4
<1>6. \A i \in 1 .. N + M + 1 : l[i] = r[i]
  <2> SUFFICES ASSUME NEW i \in 1 .. N + M + 1 PROVE l[i] = r[i]
    OBVIOUS
  <2>0. i \in 1 .. N + Len(p)
    BY <1>0, <1>1
  <2>1. CASE i <= N
    <3>1. i \in 1 .. N + M /\ i \in 1 .. Len(a)
      BY <1>0, <1>2, <2>1
    <3> QED
      BY <1>2, <1>3, <1>4, <2>0, <2>1, <3>1
  <2>2. CASE ~(i <= N) /\ i <= N + M
    <3>1. i \in 1 .. N + M /\ i \in 1 .. Len(a) /\ i - N \in 1 .. M
      BY <1>0, <1>2, <2>2
    <3>2. l[i] = v[i - N]
      BY <1>1, <1>3, <2>0, <2>2, <3>1
    <3>3. r[i] = v[i - N]
      BY <1>2, <1>4, <2>2, <3>1
    <3> QED
      BY <3>2, <3>3
  <2>3. CASE i = N + M + 1
    <3>1. ~(i <= N) /\ i - N = M + 1 /\ i = Len(a) + 1
      BY <1>0, <1>2, <2>3
    <3>2. l[i] = w
      BY <1>1, <1>3, <2>0, <3>1
    <3> QED
      BY <1>4, <3>1, <3>2
  <2> QED
    BY <1>0, <2>1, <2>2, <2>3
<1>7. \A i \in 1 .. Len(l) : l[i] = r[i]
  BY <1>5, <1>6
<1>8. l = r
  BY <1>3, <1>4, <1>5, <1>7, SeqEqual
<1> QED
  BY <1>8 DEF l, r, p, a

\* The units of a form, read after others.
LEMMA FormDecodes ==
    ASSUME NEW us \in Units, NEW g \in Glyphs, g.base # "stroke" \/ DecodeAll(us) = <<>>
    PROVE  /\ Form(g) \in Units /\ us \o Form(g) \in Units
           /\ DecodeAll(us \o Form(g)) = Append(DecodeAll(us), Decoded(Form(g)[1]))
<1> DEFINE gs == DecodeAll(us)
<1>0. us \in Seq(Unit) /\ gs \in Seq(Glyphs)
  BY DecodeOne DEF Units
<1>1. CASE IsSingle(Form(g))
  <2>1. PICK v \in Single \cup {Stroke} : Form(g) = <<v>>
    BY <1>1 DEF IsSingle
  <2>2. v \in Unit /\ Form(g)[1] = v
    BY <2>1 DEF Unit
  <2>3. v[1] # "low"
    <3>1. CASE v \in Single
      BY <3>1, SinglesAre
    <3>2. CASE v = Stroke
      BY <3>2, StrokeIs
    <3> QED
      BY <3>1, <3>2
  <2>4. v = Stroke => gs = <<>>
    <3>1. v = Stroke => Decoded(Form(g)[1]).base = "stroke"
      BY <2>2, SingleFlags, StrokeIs DEF Stroke
    <3>2. Decoded(Form(g)[1]).base = g.base
      BY FormReads
    <3> QED
      BY <3>1, <3>2
  <2>5. More(gs, v) = Append(gs, Decoded(v))
    BY <2>3, <2>4 DEF More
  <2>6. us \o <<v>> = Append(us, v)
    BY <1>0, <2>2, OneMore
  <2>7. DecodeAll(Append(us, v)) = More(gs, v)
    BY <1>0, <2>2, DecodeOne
  <2>8. <<v>> \in Seq(Unit) /\ Append(us, v) \in Seq(Unit)
    BY <1>0, <2>2, AppendProperties
  <2> HIDE DEF gs
  <2>9. DecodeAll(us \o Form(g)) = Append(gs, Decoded(Form(g)[1]))
    BY <2>1, <2>2, <2>5, <2>6, <2>7
  <2> QED
    BY <2>1, <2>6, <2>8, <2>9 DEF gs, Units
<1>2. CASE IsPair(Form(g))
  <2>1. PICK h \in High, l \in LowOnes : Form(g) = <<h, l>>
    BY <1>2 DEF IsPair
  <2>2. h \in Unit /\ l \in Unit /\ Form(g)[1] = h
    BY <2>1 DEF Unit
  <2>3. h[1] # "low" /\ h # Stroke /\ l[1] = "low"
    <3>1. h[1] = "high" /\ l[1] = "low"
      BY HighsAre, LowsAre
    <3>2. Stroke[1] = "stroke"
      BY StrokeIs
    <3> QED
      BY <3>1, <3>2
  <2>4. More(gs, h) = Append(gs, Decoded(h)) /\ More(Append(gs, Decoded(h)), l) = Append(gs, Decoded(h))
    BY <2>3 DEF More
  <2>5. us \o <<h, l>> = Append(Append(us, h), l)
    BY <1>0, <2>2, TwoMore
  <2>6. Append(us, h) \in Seq(Unit)
    BY <1>0, <2>2, AppendProperties
  <2>7. DecodeAll(Append(us, h)) = More(gs, h)
    BY <1>0, <2>2, DecodeOne
  <2>8. DecodeAll(Append(Append(us, h), l)) = More(DecodeAll(Append(us, h)), l)
    BY <2>2, <2>6, DecodeOne
  <2>9. <<h, l>> \in Seq(Unit) /\ Append(Append(us, h), l) \in Seq(Unit)
    BY <2>2, <2>6, AppendProperties
  <2> HIDE DEF gs
  <2>10. DecodeAll(us \o Form(g)) = Append(gs, Decoded(Form(g)[1]))
    BY <2>1, <2>2, <2>4, <2>5, <2>7, <2>8
  <2> QED
    BY <2>1, <2>5, <2>9, <2>10 DEF gs, Units
<1> QED
  BY <1>1, <1>2, FormReads

LEMMA EncodeDecodes ==
    ASSUME NEW us \in Units, NEW g \in Glyphs, g.base # "stroke" \/ DecodeAll(us) = <<>>
    PROVE  us \o Encode(g) \in Units /\ DecodeAll(us \o Encode(g)) = Append(DecodeAll(us), g)
<1> DEFINE fm == Form(g)
           d == Decoded(fm[1])
           gs == DecodeAll(us)
<1>1. fm \in Units /\ us \o fm \in Units /\ DecodeAll(us \o fm) = Append(gs, d)
  BY FormDecodes
<1>2. d.base = g.base /\ Flags(d, g.bold, g.italic, g.mono)
  BY FormReads
<1>3. d.bold = g.bold /\ d.italic = g.italic /\ d.mono = g.mono /\ d.strike = FALSE
  BY <1>2, Zenon DEF Flags
<1>4. g \in Glyph /\ g.strike \in BOOLEAN
  BY DEF Glyphs, Glyph
<1>5. d \in Glyphs
  <2>1. CASE IsSingle(fm)
    <3>1. PICK v \in Single \cup {Stroke} : fm = <<v>>
      BY <2>1 DEF IsSingle
    <3>2. fm[1] = v /\ v \in Unit
      BY <3>1 DEF Unit
    <3>3. v \notin LowOnes
      <4>1. v \in LowOnes => v[1] = "low"
        BY LowsAre
      <4>2. CASE v \in Single
        BY <4>1, <4>2, SinglesAre
      <4>3. CASE v = Stroke
        BY <4>1, <4>3, StrokeIs
      <4> QED
        BY <4>2, <4>3
    <3> HIDE DEF fm
    <3> QED
      BY <3>2, <3>3, DecodedIsApt
  <2>2. CASE IsPair(fm)
    <3>1. PICK h \in High, l \in LowOnes : fm = <<h, l>>
      BY <2>2 DEF IsPair
    <3>2. fm[1] = h /\ h \in Unit
      BY <3>1 DEF Unit
    <3>3. h \notin LowOnes
      <4>1. h \in LowOnes => h[1] = "low"
        BY LowsAre
      <4> QED
        BY <4>1, HighsAre
    <3> HIDE DEF fm
    <3> QED
      BY <3>2, <3>3, DecodedIsApt
  <2> QED
    BY <2>1, <2>2, FormReads
<1>6. d \in Glyph
  BY <1>5 DEF Glyphs
<1>7. gs \in Seq(Glyphs)
  BY DecodeOne DEF Units
<1> HIDE DEF fm, d, gs
<1>8. CASE ~g.strike
  <2>1. Encode(g) = fm
    BY <1>8 DEF Encode, fm
  <2>2. d.strike = g.strike
    BY <1>3, <1>4, <1>8
  <2>3. d = g
    BY <1>2, <1>3, <1>4, <1>6, <2>2, GlyphsEqual, Zenon
  <2> QED
    BY <1>1, <2>1, <2>3 DEF gs
<1>9. CASE g.strike
  <2>1. Encode(g) = Append(fm, Stroke)
    BY <1>9 DEF Encode, fm
  <2>2. Stroke \in Unit /\ Stroke[1] # "low"
    BY StrokeIs DEF Unit
  <2>3. us \o Append(fm, Stroke) = Append(us \o fm, Stroke)
    <3>1. us \in Seq(Unit) /\ fm \in Seq(Unit)
      BY <1>1 DEF Units
    <3> QED
      BY <2>2, <3>1, ConcatAppend
  <2>4. Append(us \o fm, Stroke) \in Units
    BY <1>1, <2>2, AppendProperties DEF Units
  <2>5. DecodeAll(Append(us \o fm, Stroke)) = More(Append(gs, d), Stroke)
    BY <1>1, <2>2, DecodeOne DEF Units
  <2> DEFINE ds == Append(gs, d)
  <2>6. ds \in Seq(Glyphs) /\ ds # <<>> /\ Len(ds) = Len(gs) + 1 /\ ds[Len(ds)] = d /\ \A i \in 1 .. Len(gs) : ds[i] = gs[i]
    BY <1>5, <1>7, AppendProperties
  <2>7. Len(gs) \in Nat
    BY <1>7
  <2> HIDE DEF ds
  <2>8. More(ds, Stroke) = Struck(ds)
    BY <2>2, <2>6 DEF More
  <2>9. [d EXCEPT !.strike = TRUE] = g
    <3> DEFINE e == [d EXCEPT !.strike = TRUE]
    <3>1. e \in Glyph /\ e.base = d.base /\ e.bold = d.bold /\ e.italic = d.italic /\ e.mono = d.mono
      BY <1>6 DEF Glyph
    <3>2. e.strike = TRUE
      BY <1>6 DEF Glyph
    <3>3. g.strike = TRUE
      BY <1>4, <1>9
    <3> HIDE DEF e
    <3>4. e = g
      BY <1>2, <1>3, <1>4, <3>1, <3>2, <3>3, GlyphsEqual, Zenon
    <3> QED
      BY <3>4 DEF e
  <2>10. Struck(ds) = Append(gs, g)
    <3>1. /\ Struck(ds) \in Seq(Glyphs) /\ Len(Struck(ds)) = Len(ds)
          /\ \A i \in 1 .. Len(ds) : i # Len(ds) => Struck(ds)[i] = ds[i]
          /\ Struck(ds)[Len(ds)] = [ds[Len(ds)] EXCEPT !.strike = TRUE]
      BY <2>6, StruckIs
    <3>2. /\ Append(gs, g) \in Seq(Glyphs) /\ Len(Append(gs, g)) = Len(gs) + 1 /\ Append(gs, g)[Len(gs) + 1] = g
          /\ \A i \in 1 .. Len(gs) : Append(gs, g)[i] = gs[i]
      BY <1>7, AppendProperties
    <3>3. \A i \in 1 .. Len(ds) : Struck(ds)[i] = Append(gs, g)[i]
      <4> SUFFICES ASSUME NEW i \in 1 .. Len(ds) PROVE Struck(ds)[i] = Append(gs, g)[i]
        OBVIOUS
      <4>1. CASE i = Len(ds)
        BY <2>6, <2>9, <3>1, <3>2, <4>1
      <4>2. CASE i # Len(ds)
        <5>1. i \in 1 .. Len(gs)
          BY <2>6, <2>7, <4>2
        <5> QED
          BY <2>6, <3>1, <3>2, <4>2, <5>1
      <4> QED
        BY <4>1, <4>2
    <3> DEFINE l == Struck(ds)
               r == Append(gs, g)
    <3>4. l \in Seq(Glyphs) /\ r \in Seq(Glyphs) /\ Len(l) = Len(r) /\ Len(l) = Len(ds)
      BY <2>6, <3>1, <3>2
    <3> HIDE DEF l, r
    <3>5. \A i \in 1 .. Len(l) : l[i] = r[i]
      BY <3>3, <3>4 DEF l, r
    <3>6. l = r
      BY <3>4, <3>5, SeqEqual
    <3> QED
      BY <3>6 DEF l, r
  <2> QED
    BY <2>1, <2>3, <2>4, <2>5, <2>8, <2>10 DEF gs, ds
<1> QED
  BY <1>8, <1>9

LEMMA WholeTogether ==
    ASSUME NEW x \in Units, NEW y \in Units, Whole(x), Whole(y) PROVE Whole(x \o y)
<1> DEFINE c == x \o y
           N == Len(x)
           M == Len(y)
<1>0. N \in Nat /\ M \in Nat /\ DOMAIN x = 1 .. N /\ DOMAIN y = 1 .. M
  BY DEF Units
<1>1. c \in Seq(Unit) /\ Len(c) = N + M /\ \A i \in 1 .. N + M : c[i] = IF i <= N THEN x[i] ELSE y[i - N]
  BY ConcatProperties DEF Units
<1>2. DOMAIN c = 1 .. N + M
  BY <1>1
<1> HIDE DEF c
<1>3. \A i \in 1 .. N :
          /\ x[i][1] = "high" => i < N /\ x[i + 1] = <<"low", x[i][2], x[i][3]>>
          /\ x[i][1] = "low" => i > 1 /\ x[i - 1] = <<"high", x[i][2], x[i][3]>>
  BY <1>0 DEF Whole
<1>4. \A i \in 1 .. M :
          /\ y[i][1] = "high" => i < M /\ y[i + 1] = <<"low", y[i][2], y[i][3]>>
          /\ y[i][1] = "low" => i > 1 /\ y[i - 1] = <<"high", y[i][2], y[i][3]>>
  BY <1>0 DEF Whole
<1> HIDE DEF N, M
<1>5. \A i \in 1 .. N + M :
          /\ c[i][1] = "high" => i < N + M /\ c[i + 1] = <<"low", c[i][2], c[i][3]>>
          /\ c[i][1] = "low" => i > 1 /\ c[i - 1] = <<"high", c[i][2], c[i][3]>>
  <2> SUFFICES ASSUME NEW i \in 1 .. N + M
               PROVE  /\ c[i][1] = "high" => i < N + M /\ c[i + 1] = <<"low", c[i][2], c[i][3]>>
                      /\ c[i][1] = "low" => i > 1 /\ c[i - 1] = <<"high", c[i][2], c[i][3]>>
    OBVIOUS
  <2>1. CASE i <= N
    <3>1. i \in 1 .. N /\ c[i] = x[i]
      BY <1>0, <1>1, <2>1
    <3>2. ASSUME i < N PROVE c[i + 1] = x[i + 1] /\ i < N + M
      <4>1. i + 1 \in 1 .. N + M /\ i + 1 <= N
        BY <1>0, <3>2
      <4> QED
        BY <1>0, <1>1, <3>2, <4>1
    <3>3. ASSUME i > 1 PROVE c[i - 1] = x[i - 1]
      <4>1. i - 1 \in 1 .. N + M /\ i - 1 <= N
        BY <1>0, <2>1, <3>3
      <4> QED
        BY <1>1, <4>1
    <3> QED
      BY <1>3, <3>1, <3>2, <3>3
  <2>2. CASE ~(i <= N)
    <3> DEFINE j == i - N
    <3>1. j \in 1 .. M /\ c[i] = y[j]
      BY <1>0, <1>1, <2>2
    <3>2. ASSUME j < M PROVE c[i + 1] = y[j + 1] /\ i < N + M
      <4>1. i + 1 \in 1 .. N + M /\ ~(i + 1 <= N) /\ (i + 1) - N = j + 1
        BY <1>0, <2>2, <3>2
      <4> QED
        BY <1>0, <1>1, <3>2, <4>1
    <3>3. ASSUME j > 1 PROVE c[i - 1] = y[j - 1] /\ i > 1
      <4>1. i - 1 \in 1 .. N + M /\ ~(i - 1 <= N) /\ (i - 1) - N = j - 1 /\ i > 1
        BY <1>0, <2>2, <3>3
      <4> QED
        BY <1>1, <4>1
    <3> HIDE DEF j
    <3> QED
      BY <1>4, <3>1, <3>2, <3>3
  <2> QED
    BY <2>1, <2>2
<1>6. Whole(c)
  BY <1>1, <1>2, <1>5 DEF Whole
<1> QED
  BY <1>6 DEF c

LEMMA EncodeIsWhole == ASSUME NEW g \in Glyphs PROVE Encode(g) \in Units /\ Whole(Encode(g)) /\ Encode(g) # <<>>
<1> DEFINE fm == Form(g)
<1>1. fm \in Units /\ Whole(fm) /\ fm # <<>>
  <2>1. CASE IsSingle(fm)
    <3>1. PICK v \in Single \cup {Stroke} : fm = <<v>>
      BY <2>1 DEF IsSingle
    <3>2. v[1] # "high" /\ v[1] # "low" /\ v \in Unit
      <4>1. CASE v \in Single
        BY <4>1, SinglesAre DEF Unit
      <4>2. CASE v = Stroke
        BY <4>2, StrokeIs DEF Unit
      <4> QED
        BY <4>1, <4>2
    <3>3. DOMAIN <<v>> = {1} /\ <<v>>[1] = v /\ <<v>> # <<>> /\ <<v>> \in Seq(Unit)
      BY <3>2
    <3> HIDE DEF fm
    <3> QED
      BY <3>1, <3>2, <3>3 DEF Whole, Units
  <2>2. CASE IsPair(fm)
    <3>1. PICK h \in High, l \in LowOnes : fm = <<h, l>> /\ l = <<"low", h[2], h[3]>> /\ h = <<"high", l[2], l[3]>>
      BY <2>2 DEF IsPair
    <3>2. h[1] = "high" /\ l[1] = "low" /\ h \in Unit /\ l \in Unit
      BY HighsAre, LowsAre DEF Unit
    <3> DEFINE p == <<h, l>>
    <3>3. p \in Seq(Unit) /\ Len(p) = 2 /\ p[1] = h /\ p[2] = l /\ p # <<>> /\ DOMAIN p = 1 .. 2
      BY <3>2
    <3>a. fm = p
      BY <3>1
    <3> HIDE DEF p, fm
    <3>4. \A i \in 1 .. 2 :
              /\ p[i][1] = "high" => i < 2 /\ p[i + 1] = <<"low", p[i][2], p[i][3]>>
              /\ p[i][1] = "low" => i > 1 /\ p[i - 1] = <<"high", p[i][2], p[i][3]>>
      <4> SUFFICES ASSUME NEW i \in 1 .. 2
                   PROVE  /\ p[i][1] = "high" => i < 2 /\ p[i + 1] = <<"low", p[i][2], p[i][3]>>
                          /\ p[i][1] = "low" => i > 1 /\ p[i - 1] = <<"high", p[i][2], p[i][3]>>
        OBVIOUS
      <4>1. CASE i = 1
        <5>1. i + 1 = 2 /\ i < 2 /\ p[i] = h /\ p[i + 1] = l
          BY <3>3, <4>1
        <5> QED
          BY <3>1, <3>2, <5>1
      <4>2. CASE i = 2
        <5>1. i - 1 = 1 /\ i > 1 /\ p[i] = l /\ p[i - 1] = h
          BY <3>3, <4>2
        <5> QED
          BY <3>1, <3>2, <5>1
      <4> QED
        BY <4>1, <4>2
    <3>5. Whole(p)
      BY <3>3, <3>4 DEF Whole
    <3> QED
      BY <3>3, <3>5, <3>a DEF Units
  <2> QED
    BY <2>1, <2>2, FormReads
<1>2. <<Stroke>> \in Units /\ Whole(<<Stroke>>)
  <2>1. Stroke[1] = "stroke" /\ Stroke \in Unit
    BY StrokeIs DEF Unit
  <2> DEFINE v == Stroke
  <2>2. v[1] = "stroke" /\ v \in Unit
    BY <2>1
  <2> HIDE DEF v
  <2>3. DOMAIN <<v>> = {1} /\ <<v>>[1] = v /\ <<v>> \in Seq(Unit)
    BY <2>2
  <2>4. <<v>> \in Units /\ Whole(<<v>>)
    BY <2>2, <2>3 DEF Whole, Units
  <2> QED
    BY <2>4 DEF v
<1> HIDE DEF fm
<1>3. CASE ~g.strike
  BY <1>1, <1>3 DEF Encode, fm
<1>4. CASE g.strike
  <2>1. Encode(g) = Append(fm, Stroke)
    BY <1>4 DEF Encode, fm
  <2>2. Stroke \in Unit
    BY DEF Unit
  <2>3. Append(fm, Stroke) = fm \o <<Stroke>> /\ Append(fm, Stroke) \in Units /\ Append(fm, Stroke) # <<>>
    BY <1>1, <2>2, AppendProperties, OneMore DEF Units
  <2>4. Whole(fm \o <<Stroke>>)
    BY <1>1, <1>2, WholeTogether
  <2> QED
    BY <2>1, <2>3, <2>4
<1> QED
  BY <1>3, <1>4

LEMMA EncodeStepIs ==
    /\ EncodeStep \in [Units \X Glyphs -> Units]
    /\ \A us \in Units, g \in Glyphs : EncodeStep[<<us, g>>] = us \o Encode(g) /\ us \o Encode(g) \in Units
<1>1. \A us \in Units, g \in Glyphs : us \o Encode(g) \in Units
  <2> SUFFICES ASSUME NEW us \in Units, NEW g \in Glyphs PROVE us \o Encode(g) \in Units
    OBVIOUS
  <2>1. Encode(g) \in Units
    BY EncodeIsWhole
  <2> QED
    BY <2>1, ConcatProperties DEF Units
<1> QED
  BY <1>1 DEF EncodeStep

LEMMA EncodeGoes ==
    ASSUME NEW gs \in Seq(Glyphs)
    PROVE  \E f : Goes(f, gs, Units, <<>>, EncodeStep) /\ EncodeAll(gs) = f[Len(gs)]
<1> DEFINE N == Len(gs)
           Is(f) == f = [n \in 0 .. N |-> IF n = 0 THEN <<>> ELSE f[n - 1] \o Encode(gs[n])]
           g == CHOOSE f : Is(f)
<1>0. N \in Nat /\ <<>> \in Units /\ \A n \in 1 .. N : gs[n] \in Glyphs
  BY ElementOfSeq DEF Units
<1>1. EncodeAll(gs) = g[N]
  BY DEF EncodeAll
<1>2. PICK f : Goes(f, gs, Units, <<>>, EncodeStep)
  <2>1. EncodeStep \in [Units \X Glyphs -> Units]
    BY EncodeStepIs
  <2> QED
    BY <1>0, <2>1, LoopGoes
<1>3. \A n \in 1 .. N : f[n] = f[n - 1] \o Encode(gs[n])
  <2> SUFFICES ASSUME NEW n \in 1 .. N PROVE f[n] = f[n - 1] \o Encode(gs[n])
    OBVIOUS
  <2>1. n - 1 \in 0 .. N
    BY <1>0
  <2>2. f[n - 1] \in Units /\ gs[n] \in Glyphs /\ f[n] = EncodeStep[<<f[n - 1], gs[n]>>]
    BY <1>0, <1>2, <2>1 DEF Goes
  <2> QED
    BY <2>2, EncodeStepIs
<1>4. Is(g)
  <2>1. \A n \in 0 .. N : n = 0 \/ n \in 1 .. N
    BY <1>0
  <2>2. f \in [0 .. N -> Units] /\ f[0] = <<>>
    BY <1>2 DEF Goes
  <2> HIDE DEF N
  <2>3. \A n \in 0 .. N : f[n] = IF n = 0 THEN <<>> ELSE f[n - 1] \o Encode(gs[n])
    BY <1>3, <2>1, <2>2
  <2>4. Is(f)
    BY <2>2, <2>3
  <2> HIDE DEF Is
  <2> QED
    BY <2>4
<1> HIDE DEF g
<1>5. g[0] = <<>> /\ \A n \in 1 .. N : g[n] = g[n - 1] \o Encode(gs[n])
  <2>1. \A n \in 1 .. N : n \in 0 .. N /\ n # 0
    BY <1>0
  <2>2. 0 \in 0 .. N
    BY <1>0
  <2> HIDE DEF N
  <2> QED
    BY <1>4, <2>1, <2>2
<1> HIDE DEF Is
<1>6. \A n \in 0 .. N : g[n] = f[n]
  <2> DEFINE S == {n \in 0 .. N : g[n] = f[n]}
  <2>a. f[0] = <<>> /\ 0 \in 0 .. N
    BY <1>0, <1>2 DEF Goes
  <2>1. 0 \in S
    BY <1>5, <2>a
  <2>2. \A n \in 1 .. N : n - 1 \in S => n \in S
    <3>1. \A n \in 1 .. N : n \in 0 .. N
      BY <1>0
    <3> QED
      BY <1>3, <1>5, <3>1
  <2> HIDE DEF S
  <2>3. \A n \in 0 .. N : n \in S
    BY <1>0, <2>1, <2>2, Inductively
  <2> QED
    BY <2>3 DEF S
<1>7. g[N] = f[N]
  BY <1>0, <1>6
<1> QED
  BY <1>1, <1>2, <1>7

LEMMA EncodeOne ==
    /\ EncodeAll(<<>>) = <<>>
    /\ \A gs \in Seq(Glyphs), g \in Glyphs : EncodeAll(Append(gs, g)) = EncodeAll(gs) \o Encode(g)
    /\ \A gs \in Seq(Glyphs) : EncodeAll(gs) \in Units
<1>1. EncodeAll(<<>>) = <<>>
  <2>1. <<>> \in Seq(Glyphs) /\ Len(<<>>) = 0
    OBVIOUS
  <2>2. PICK f : Goes(f, <<>>, Units, <<>>, EncodeStep) /\ EncodeAll(<<>>) = f[Len(<<>>)]
    BY <2>1, EncodeGoes
  <2> QED
    BY <2>1, <2>2 DEF Goes
<1>2. ASSUME NEW gs \in Seq(Glyphs) PROVE EncodeAll(gs) \in Units
  <2>1. PICK f : Goes(f, gs, Units, <<>>, EncodeStep) /\ EncodeAll(gs) = f[Len(gs)]
    BY EncodeGoes
  <2>2. Len(gs) \in 0 .. Len(gs)
    OBVIOUS
  <2> QED
    BY <2>1, <2>2 DEF Goes
<1>3. ASSUME NEW gs \in Seq(Glyphs), NEW g \in Glyphs PROVE EncodeAll(Append(gs, g)) = EncodeAll(gs) \o Encode(g)
  <2>1. PICK f : Goes(f, gs, Units, <<>>, EncodeStep) /\ EncodeAll(gs) = f[Len(gs)]
    BY EncodeGoes
  <2>2. Append(gs, g) \in Seq(Glyphs) /\ Len(Append(gs, g)) = Len(gs) + 1
    BY AppendProperties
  <2>3. PICK h : Goes(h, Append(gs, g), Units, <<>>, EncodeStep) /\ EncodeAll(Append(gs, g)) = h[Len(Append(gs, g))]
    BY <2>2, EncodeGoes
  <2>4. h[Len(gs) + 1] = EncodeStep[<<f[Len(gs)], g>>]
    BY <2>1, <2>3, LoopGoesOn
  <2>5. EncodeAll(Append(gs, g)) = EncodeStep[<<EncodeAll(gs), g>>]
    BY <2>1, <2>2, <2>3, <2>4
  <2>6. EncodeAll(gs) \in Units
    BY <1>2
  <2> QED
    BY <2>5, <2>6, EncodeStepIs
<1> QED
  BY <1>1, <1>2, <1>3

\* Only the first character may be a stroke that was cut off.
StrokeLeads(gs) == \A i \in 1 .. Len(gs) : gs[i].base = "stroke" => i = 1

\* What is encoded reads as what it was encoded from, and splits no pair.
LEMMA RoundTrip ==
    ASSUME NEW gs \in Seq(Glyphs), StrokeLeads(gs)
    PROVE  /\ EncodeAll(gs) \in Units /\ Whole(EncodeAll(gs))
           /\ DecodeAll(EncodeAll(gs)) = gs
<1> DEFINE Good(x) == Whole(EncodeAll(x)) /\ DecodeAll(EncodeAll(x)) = x
           S == {x \in Seq(Glyphs) : StrokeLeads(x) => Good(x)}
<1>1. <<>> \in S
  <2>1. Whole(<<>>)
    BY DEF Whole
  <2>2. Good(<<>>)
    BY <2>1, DecodeOne, EncodeOne
  <2> HIDE DEF Good
  <2> QED
    BY <2>2
<1>2. \A x \in Seq(Glyphs), g \in Glyphs : x \in S => Append(x, g) \in S
  <2> SUFFICES ASSUME NEW x \in Seq(Glyphs), NEW g \in Glyphs, x \in S, StrokeLeads(Append(x, g)) PROVE Good(Append(x, g))
    <3> HIDE DEF Good
    <3>1. \A x \in Seq(Glyphs), g \in Glyphs : Append(x, g) \in Seq(Glyphs)
      BY AppendProperties
    <3> QED
      BY <3>1
  <2> DEFINE r == Append(x, g)
  <2>1. r \in Seq(Glyphs) /\ Len(r) = Len(x) + 1 /\ r[Len(x) + 1] = g /\ \A i \in 1 .. Len(x) : r[i] = x[i]
    BY AppendProperties
  <2>0. Len(x) \in Nat
    OBVIOUS
  <2> HIDE DEF r
  <2>2. \A i \in 1 .. Len(x) + 1 : r[i].base = "stroke" => i = 1
    BY <2>1 DEF StrokeLeads, r
  <2>3. StrokeLeads(x)
    <3>1. \A i \in 1 .. Len(x) : i \in 1 .. Len(x) + 1
      BY <2>0
    <3> QED
      BY <2>1, <2>2, <3>1 DEF StrokeLeads
  <2>4. Good(x)
    BY <2>3
  <2>5. g.base # "stroke" \/ x = <<>>
    <3>1. g.base = "stroke" => Len(x) + 1 = 1
      <4>1. Len(x) + 1 \in 1 .. Len(x) + 1
        BY <2>0
      <4> QED
        BY <2>1, <2>2, <4>1
    <3>2. Len(x) = 0 => x = <<>>
      BY EmptySeq
    <3> QED
      BY <2>0, <3>1, <3>2
  <2> DEFINE us == EncodeAll(x)
  <2>6. us \in Units /\ EncodeAll(Append(x, g)) = us \o Encode(g) /\ Whole(us) /\ DecodeAll(us) = x
    BY <2>4, EncodeOne
  <2> HIDE DEF us
  <2>7. DecodeAll(us \o Encode(g)) = Append(x, g)
    <3>1. g.base # "stroke" \/ DecodeAll(us) = <<>>
      BY <2>5, <2>6
    <3> QED
      BY <2>6, <3>1, EncodeDecodes
  <2>8. Whole(us \o Encode(g))
    BY <2>6, EncodeIsWhole, WholeTogether
  <2> QED
    BY <2>6, <2>7, <2>8
<1> HIDE DEF S
<1>3. \A x \in Seq(Glyphs) : x \in S
  BY <1>1, <1>2, BySequences
<1>4. Good(gs)
  BY <1>3 DEF S
<1> QED
  BY <1>4, EncodeOne

\* The letters that units spell: what is left of the characters when a
\* stroke that was cut off is taken for none.
Bare(gs) == [i \in DOMAIN gs |-> gs[i].base]
WordOf(gs) == IF gs # <<>> /\ gs[1].base = "stroke" THEN Tail(Bare(gs)) ELSE Bare(gs)
Word(us) == WordOf(DecodeAll(us))

LEMMA BareIs ==
    ASSUME NEW gs \in Seq(Glyphs)
    PROVE  /\ Bare(gs) \in Seq(Base) /\ Len(Bare(gs)) = Len(gs) /\ \A i \in 1 .. Len(gs) : Bare(gs)[i] = gs[i].base
           /\ gs = <<>> <=> Bare(gs) = <<>>
<1>1. Len(gs) \in Nat /\ DOMAIN gs = 1 .. Len(gs)
  OBVIOUS
<1>2. \A i \in 1 .. Len(gs) : gs[i].base \in Base
  BY ElementOfSeq DEF Glyphs, Glyph
<1> DEFINE N == Len(gs)
           e(i) == gs[i].base
<1>3. Bare(gs) = [i \in 1 .. N |-> e(i)]
  BY <1>1 DEF Bare
<1>4. \A i \in 1 .. N : e(i) \in Base
  BY <1>2
<1> HIDE DEF e
<1>5. Bare(gs) \in Seq(Base) /\ Len(Bare(gs)) = N
  BY <1>1, <1>3, <1>4
<1>6. \A i \in 1 .. N : Bare(gs)[i] = e(i)
  BY <1>3
<1>7. gs = <<>> <=> Bare(gs) = <<>>
  BY <1>1, <1>5, EmptySeq
<1> QED
  BY <1>5, <1>6, <1>7 DEF e

LEMMA BareAppend ==
    ASSUME NEW gs \in Seq(Glyphs), NEW g \in Glyphs PROVE Bare(Append(gs, g)) = Append(Bare(gs), g.base)
<1> DEFINE r == Append(gs, g)
           l == Bare(r)
           b == Bare(gs)
           m == Append(b, g.base)
           N == Len(gs)
<1>0. N \in Nat /\ g.base \in Base
  BY DEF Glyphs, Glyph
<1>1. r \in Seq(Glyphs) /\ Len(r) = N + 1 /\ r[N + 1] = g /\ \A i \in 1 .. N : r[i] = gs[i]
  BY AppendProperties
<1>2. b \in Seq(Base) /\ Len(b) = N /\ \A i \in 1 .. N : b[i] = gs[i].base
  BY BareIs
<1> HIDE DEF r, b
<1>3. l \in Seq(Base) /\ Len(l) = Len(r) /\ \A i \in 1 .. Len(r) : l[i] = r[i].base
  BY <1>1, BareIs
<1>4. m \in Seq(Base) /\ Len(m) = Len(b) + 1 /\ m[Len(b) + 1] = g.base /\ \A i \in 1 .. Len(b) : m[i] = b[i]
  BY <1>0, <1>2, AppendProperties
<1> HIDE DEF l, m, N
<1>5. \A i \in 1 .. N + 1 : l[i] = m[i]
  <2> SUFFICES ASSUME NEW i \in 1 .. N + 1 PROVE l[i] = m[i]
    OBVIOUS
  <2>1. CASE i = N + 1
    BY <1>0, <1>1, <1>2, <1>3, <1>4, <2>1
  <2>2. CASE i # N + 1
    <3>1. i \in 1 .. N /\ i \in 1 .. Len(r)
      BY <1>0, <1>1, <2>2
    <3> QED
      BY <1>1, <1>2, <1>3, <1>4, <3>1
  <2> QED
    BY <2>1, <2>2
<1>6. Len(l) = N + 1 /\ Len(m) = N + 1
  BY <1>1, <1>2, <1>3, <1>4
<1>7. \A i \in 1 .. Len(l) : l[i] = m[i]
  BY <1>5, <1>6
<1>8. l = m
  BY <1>3, <1>4, <1>6, <1>7, SeqEqual
<1> QED
  BY <1>8 DEF l, m, r, b

Silent(u) == u[1] = "low" \/ u = Stroke

\* One unit more spells one letter more, or none.
LEMMA WordMore ==
    ASSUME NEW gs \in Seq(Glyphs), NEW u \in Unit
    PROVE  WordOf(More(gs, u)) = IF Silent(u) THEN WordOf(gs) ELSE Append(WordOf(gs), u[Len(u)])
<1>1. CASE u[1] = "low"
  BY <1>1 DEF More, Silent
<1>2. CASE u = Stroke /\ gs # <<>> /\ u[1] # "low"
  <2>1. More(gs, u) = Struck(gs)
    BY <1>2 DEF More
  <2>2. /\ Struck(gs) \in Seq(Glyphs) /\ Len(Struck(gs)) = Len(gs)
        /\ \A i \in 1 .. Len(gs) : Struck(gs)[i].base = gs[i].base
    BY <1>2, StruckIs
  <2>3. DOMAIN Struck(gs) = 1 .. Len(gs) /\ DOMAIN gs = 1 .. Len(gs)
    BY <2>2
  <2>4. Bare(Struck(gs)) = Bare(gs)
    BY <2>2, <2>3 DEF Bare
  <2>5. Len(gs) \in Nat \ {0}
    BY <1>2, EmptySeq
  <2>6. 1 \in 1 .. Len(gs) /\ Struck(gs) # <<>>
    BY <2>2, <2>5
  <2>7. Struck(gs)[1].base = gs[1].base
    BY <2>2, <2>6
  <2>8. WordOf(Struck(gs)) = WordOf(gs)
    BY <1>2, <2>4, <2>6, <2>7 DEF WordOf
  <2> QED
    BY <1>2, <2>1, <2>8 DEF Silent
<1>3. CASE u = Stroke /\ gs = <<>> /\ u[1] # "low"
  <2>1. u \notin LowOnes
    BY <1>3, LowIsLow
  <2> DEFINE d == Decoded(u)
  <2>2. d \in Glyphs /\ d.base = "stroke"
    BY <1>3, <2>1, DecodedIsApt
  <2>3. More(gs, u) = <<d>>
    BY <1>3, <2>1, MoreAre
  <2> HIDE DEF d
  <2>4. WordOf(<<d>>) = <<>>
    <3>1. <<d>> # <<>> /\ <<d>>[1] = d /\ <<d>> = Append(<<>>, d) /\ <<>> \in Seq(Glyphs)
      OBVIOUS
    <3>2. Bare(<<>>) = <<>>
      BY <3>1, BareIs
    <3>3. Bare(<<d>>) = Append(<<>>, "stroke")
      BY <2>2, <3>1, <3>2, BareAppend
    <3>4. Tail(Append(<<>>, "stroke")) = <<>>
      OBVIOUS
    <3> QED
      BY <2>2, <3>1, <3>3, <3>4 DEF WordOf
  <2>5. WordOf(<<>>) = <<>>
    <3>1. <<>> \in Seq(Glyphs)
      OBVIOUS
    <3>2. Bare(<<>>) = <<>>
      BY <3>1, BareIs
    <3> QED
      BY <3>2 DEF WordOf
  <2> QED
    BY <1>3, <2>3, <2>4, <2>5 DEF Silent
<1>4. CASE u # Stroke /\ u[1] # "low"
  <2>1. u \notin LowOnes
    BY <1>4, LowIsLow
  <2> DEFINE d == Decoded(u)
             c == u[Len(u)]
  <2>2. d \in Glyphs /\ d.base = c /\ c # "stroke"
    BY <1>4, <2>1, DecodedIsApt
  <2>3. More(gs, u) = Append(gs, d)
    BY <1>4 DEF More
  <2> HIDE DEF d, c
  <2>4. Bare(Append(gs, d)) = Append(Bare(gs), c)
    BY <2>2, BareAppend
  <2>5. Append(gs, d) # <<>> /\ Bare(gs) \in Seq(Base) /\ c \in Base
    <3>1. Append(gs, d) # <<>>
      BY <2>2, AppendProperties
    <3>2. Bare(gs) \in Seq(Base)
      BY BareIs
    <3>3. c \in Base
      BY <2>2 DEF Glyphs, Glyph
    <3> QED
      BY <3>1, <3>2, <3>3
  <2>6. CASE gs = <<>>
    <3>1. Append(gs, d)[1] = d
      BY <2>6
    <3> QED
      BY <1>4, <2>2, <2>3, <2>4, <2>5, <2>6, <3>1 DEF WordOf, Silent, c
  <2>7. CASE gs # <<>>
    <3>1. Append(gs, d)[1] = gs[1]
      <4>1. 1 \in 1 .. Len(gs)
        BY <2>7, EmptySeq
      <4> QED
        BY <2>2, <4>1, AppendProperties
    <3>2. Bare(gs) # <<>>
      BY <2>7, BareIs
    <3>3. Tail(Append(Bare(gs), c)) = Append(Tail(Bare(gs)), c)
      BY <2>5, <3>2, HeadTailAppend
    <3>4. WordOf(Append(gs, d)) = Append(WordOf(gs), c)
      BY <2>4, <2>5, <2>7, <3>1, <3>3 DEF WordOf
    <3> QED
      BY <1>4, <2>3, <3>4 DEF Silent, c
  <2> QED
    BY <2>6, <2>7
<1> QED
  BY <1>1, <1>2, <1>3, <1>4

LEMMA WordIs == ASSUME NEW gs \in Seq(Glyphs) PROVE WordOf(gs) \in Seq(Base)
<1>1. Bare(gs) \in Seq(Base) /\ (gs = <<>> <=> Bare(gs) = <<>>)
  BY BareIs
<1>2. gs # <<>> => Tail(Bare(gs)) \in Seq(Base)
  BY <1>1, HeadTailProperties
<1> QED
  BY <1>1, <1>2 DEF WordOf

LEMMA WordAppend ==
    ASSUME NEW us \in Units, NEW u \in Unit
    PROVE  /\ Word(Append(us, u)) = IF Silent(u) THEN Word(us) ELSE Append(Word(us), u[Len(u)])
           /\ ~Silent(u) => u[Len(u)] \in Base
           /\ Word(us) \in Seq(Base)
<1>1. DecodeAll(Append(us, u)) = More(DecodeAll(us), u) /\ DecodeAll(us) \in Seq(Glyphs)
  BY DecodeOne DEF Units
<1>2. Word(Append(us, u)) = IF Silent(u) THEN Word(us) ELSE Append(Word(us), u[Len(u)])
  BY <1>1, WordMore DEF Word
<1>3. Word(us) \in Seq(Base)
  BY <1>1, WordIs DEF Word
<1>4. ASSUME ~Silent(u) PROVE u[Len(u)] \in Base
  <2>1. u \notin LowOnes
    BY <1>4, LowIsLow DEF Silent
  <2>2. Decoded(u) \in Glyphs /\ Decoded(u).base = u[Len(u)]
    BY <2>1, DecodedIsApt
  <2> QED
    BY <2>2 DEF Glyphs, Glyph
<1> QED
  BY <1>2, <1>3, <1>4

\* Texts that follow one another spell what each of them spells.
LEMMA WordCat ==
    ASSUME NEW x \in Units, NEW y \in Units
    PROVE  Word(x \o y) = Word(x) \o Word(y)
<1> DEFINE S == {s \in Units : Word(x \o s) = Word(x) \o Word(s)}
<1>0. Word(x) \in Seq(Base)
  BY DecodeOne, WordIs DEF Word, Units
<1>1. <<>> \in S
  <2>1. <<>> \in Units /\ x \o <<>> = x
    BY DEF Units
  <2>2. Word(<<>>) = <<>>
    <3>1. DecodeAll(<<>>) = <<>>
      BY DecodeOne
    <3>2. <<>> \in Seq(Glyphs)
      OBVIOUS
    <3>3. Bare(<<>>) = <<>>
      BY <3>2, BareIs
    <3> QED
      BY <3>1, <3>3 DEF Word, WordOf
  <2>3. Word(x) \o <<>> = Word(x)
    BY <1>0
  <2> QED
    BY <2>1, <2>2, <2>3
<1>2. \A s \in Seq(Unit), u \in Unit : s \in S => Append(s, u) \in S
  <2> SUFFICES ASSUME NEW s \in Seq(Unit), NEW u \in Unit, Word(x \o s) = Word(x) \o Word(s)
               PROVE  Append(s, u) \in Units /\ Word(x \o Append(s, u)) = Word(x) \o Word(Append(s, u))
    OBVIOUS
  <2> DEFINE c == u[Len(u)]
  <2>1. Append(s, u) \in Units
    BY AppendProperties DEF Units
  <2>2. x \o Append(s, u) = Append(x \o s, u)
    BY ConcatAppend DEF Units
  <2>3. x \o s \in Units
    BY ConcatProperties DEF Units
  <2>4. /\ Word(Append(s, u)) = IF Silent(u) THEN Word(s) ELSE Append(Word(s), c)
        /\ ~Silent(u) => c \in Base
        /\ Word(s) \in Seq(Base)
    BY WordAppend DEF Units
  <2>5. Word(Append(x \o s, u)) = IF Silent(u) THEN Word(x \o s) ELSE Append(Word(x \o s), c)
    BY <2>3, WordAppend
  <2> HIDE DEF c
  <2>6. ~Silent(u) => Word(x) \o Append(Word(s), c) = Append(Word(x) \o Word(s), c)
    BY <1>0, <2>4, ConcatAppend
  <2>7. Word(x \o Append(s, u)) = Word(x) \o Word(Append(s, u))
    BY <2>2, <2>4, <2>5, <2>6
  <2> QED
    BY <2>1, <2>7
<1> HIDE DEF S
<1>3. \A s \in Seq(Unit) : s \in S
  BY <1>1, <1>2, BySequences
<1> QED
  BY <1>3 DEF S, Units

\* A text that begins with a whole character reads as it begins.
Leads(us) ==
    /\ DecodeAll(us) # <<>>
    /\ DecodeAll(us)[1].base = "stroke" <=> us[1] = Stroke
    /\ StrokeLeads(DecodeAll(us))

LEMMA MoreLeads ==
    ASSUME NEW gs \in Seq(Glyphs), gs # <<>>, StrokeLeads(gs), NEW u \in Unit
    PROVE  StrokeLeads(More(gs, u))
<1>0. Len(gs) \in Nat /\ Len(gs) # 0
  BY EmptySeq
<1>1. CASE u[1] = "low"
  BY <1>1 DEF More
<1>2. CASE u = Stroke /\ u[1] # "low"
  <2>1. More(gs, u) = Struck(gs)
    BY <1>2 DEF More
  <2>2. Len(Struck(gs)) = Len(gs) /\ \A i \in 1 .. Len(gs) : Struck(gs)[i].base = gs[i].base
    BY StruckIs
  <2> QED
    BY <2>1, <2>2 DEF StrokeLeads
<1>3. CASE u # Stroke /\ u[1] # "low"
  <2>1. u \notin LowOnes
    BY <1>3, LowIsLow
  <2> DEFINE d == Decoded(u)
             r == Append(gs, d)
             N == Len(gs)
  <2>2. d \in Glyphs /\ d.base # "stroke"
    BY <1>3, <2>1, DecodedIsApt
  <2>3. More(gs, u) = r
    BY <1>3 DEF More
  <2> HIDE DEF d
  <2>4. Len(r) = N + 1 /\ r[N + 1] = d /\ \A i \in 1 .. N : r[i] = gs[i]
    BY <2>2, AppendProperties
  <2>6. \A i \in 1 .. N : gs[i].base = "stroke" => i = 1
    BY DEF StrokeLeads
  <2> HIDE DEF r
  <2>5. \A i \in 1 .. N + 1 : i = N + 1 \/ i \in 1 .. N
    BY <1>0
  <2> HIDE DEF N
  <2>7. \A i \in 1 .. N + 1 : r[i].base = "stroke" => i = 1
    BY <2>2, <2>4, <2>5, <2>6
  <2> QED
    BY <2>3, <2>4, <2>7 DEF StrokeLeads
<1> QED
  BY <1>1, <1>2, <1>3

LEMMA DecodeLeads ==
    ASSUME NEW us \in Units, us # <<>>, us[1] \notin LowOnes
    PROVE  Leads(us)
<1> DEFINE S == {s \in Units : s # <<>> /\ s[1] \notin LowOnes => Leads(s)}
<1>1. <<>> \in S
  BY DEF Units
<1>2. \A s \in Seq(Unit), u \in Unit : s \in S => Append(s, u) \in S
  <2> SUFFICES ASSUME NEW s \in Seq(Unit), NEW u \in Unit, s \in S, Append(s, u)[1] \notin LowOnes
               PROVE  Leads(Append(s, u))
    <3>1. \A s \in Seq(Unit), u \in Unit : Append(s, u) \in Units
      BY AppendProperties DEF Units
    <3> QED
      BY <3>1
  <2> DEFINE gs == DecodeAll(s)
  <2>1. DecodeAll(Append(s, u)) = More(gs, u) /\ gs \in Seq(Glyphs)
    BY DecodeOne
  <2>2. CASE s = <<>>
    <3> DEFINE d == Decoded(u)
    <3>1. Append(s, u)[1] = u
      BY <2>2
    <3>2. gs = <<>>
      BY <2>2, DecodeOne
    <3>3. d \in Glyphs /\ (d.base = "stroke" <=> u = Stroke)
      BY <3>1, DecodedIsApt
    <3>4. More(gs, u) = <<d>>
      BY <2>1, <3>1, <3>2, MoreAre
    <3> HIDE DEF gs, d
    <3>5. <<d>> # <<>> /\ <<d>>[1] = d /\ StrokeLeads(<<d>>)
      BY DEF StrokeLeads
    <3> QED
      BY <2>1, <3>1, <3>3, <3>4, <3>5 DEF Leads
  <2>3. CASE s # <<>>
    <3>1. Append(s, u)[1] = s[1]
      <4>1. 1 \in 1 .. Len(s)
        BY <2>3, EmptySeq
      <4> QED
        BY <4>1, AppendProperties
    <3>2. Leads(s)
      BY <2>3, <3>1
    <3>3. gs # <<>> /\ (gs[1].base = "stroke" <=> s[1] = Stroke) /\ StrokeLeads(gs)
      BY <3>2 DEF Leads
    <3> HIDE DEF gs
    <3>4. More(gs, u) # <<>> /\ More(gs, u)[1].base = gs[1].base
      BY <2>1, <3>3, MoreAre
    <3>5. StrokeLeads(More(gs, u))
      BY <2>1, <3>3, MoreLeads
    <3> QED
      BY <2>1, <3>1, <3>3, <3>4, <3>5 DEF Leads
  <2> QED
    BY <2>2, <2>3
<1> HIDE DEF S
<1>3. \A s \in Seq(Unit) : s \in S
  BY <1>1, <1>2, BySequences
<1> QED
  BY <1>3 DEF S, Units

LEMMA ReadsWord ==
    ASSUME NEW us \in Units, us # <<>> => us[1] \notin LowOnes /\ us[1] # Stroke
    PROVE  Reads(us) = Word(us)
<1>1. Reads(us) = Bare(DecodeAll(us))
  BY DEF Reads, Bare
<1>2. CASE us = <<>>
  <2>1. DecodeAll(us) = <<>>
    BY <1>2, DecodeOne
  <2> QED
    BY <1>1, <2>1 DEF Word, WordOf
<1>3. CASE us # <<>>
  <2>1. DecodeAll(us)[1].base # "stroke"
    BY <1>3, DecodeLeads DEF Leads
  <2> QED
    BY <1>1, <2>1 DEF Word, WordOf
<1> QED
  BY <1>2, <1>3

\* A text cut where no pair is open splits none.
LEMMA CutWhole ==
    ASSUME NEW us \in Units, Whole(us), NEW m \in Nat, NEW n \in Nat, m <= n, n <= Len(us), ~Low(us, m), ~Low(us, n)
    PROVE  /\ SubSeq(us, m + 1, n) \in Units /\ Len(SubSeq(us, m + 1, n)) = n - m
           /\ \A i \in 1 .. n - m : SubSeq(us, m + 1, n)[i] = us[m + i]
           /\ Whole(SubSeq(us, m + 1, n))
<1> DEFINE c == SubSeq(us, m + 1, n)
           N == Len(us)
<1>0. N \in Nat /\ DOMAIN us = 1 .. N
  BY DEF Units
<1>1. c \in Units /\ Len(c) = n - m /\ \A i \in 1 .. n - m : c[i] = us[m + i]
  <2>1. Len(c) = n - m
    BY DEF Units
  <2>2. \A i \in 1 .. n - m : c[i] = us[m + i]
    BY DEF Units
  <2>3. c \in Seq(Unit)
    BY DEF Units
  <2> QED
    BY <2>1, <2>2, <2>3 DEF Units
<1>2. DOMAIN c = 1 .. n - m
  BY <1>1 DEF Units
<1>3. \A i \in 1 .. N :
          /\ us[i][1] = "high" => i < N /\ us[i + 1] = <<"low", us[i][2], us[i][3]>>
          /\ us[i][1] = "low" => i > 1 /\ us[i - 1] = <<"high", us[i][2], us[i][3]>>
  BY <1>0 DEF Whole
<1>4. ~(m < N /\ us[m + 1][1] = "low") /\ ~(n < N /\ us[n + 1][1] = "low") /\ n <= N
  BY DEF Low
<1> HIDE DEF c, N
<1>5. ASSUME NEW i \in 1 .. n - m, c[i][1] = "high" PROVE i < n - m /\ c[i + 1] = <<"low", c[i][2], c[i][3]>>
  <2> DEFINE j == m + i
  <2>1. j \in 1 .. N /\ c[i] = us[j] /\ j <= n
    BY <1>0, <1>1, <1>4
  <2>2. j < N /\ us[j + 1] = <<"low", us[j][2], us[j][3]>>
    BY <1>3, <1>5, <2>1
  <2>3. us[j + 1][1] = "low"
    BY <2>2
  <2> HIDE DEF j
  <2>4. j # n
    BY <1>4, <2>2, <2>3
  <2>5. j < n
    BY <2>1, <2>4
  <2>6. i + 1 \in 1 .. n - m /\ m + (i + 1) = j + 1 /\ i < n - m
    BY <2>5 DEF j
  <2> QED
    BY <1>1, <2>1, <2>2, <2>6
<1>6. ASSUME NEW i \in 1 .. n - m, c[i][1] = "low" PROVE i > 1 /\ c[i - 1] = <<"high", c[i][2], c[i][3]>>
  <2> DEFINE j == m + i
  <2>1. j \in 1 .. N /\ c[i] = us[j] /\ j <= n
    BY <1>0, <1>1, <1>4
  <2>2. j > 1 /\ us[j - 1] = <<"high", us[j][2], us[j][3]>>
    BY <1>3, <1>6, <2>1
  <2>3. i # 1
    <3>1. i = 1 => j = m + 1 /\ m < N
      BY <1>0, <1>4, <2>1
    <3> HIDE DEF j
    <3> QED
      BY <1>4, <1>6, <2>1, <3>1
  <2>4. i - 1 \in 1 .. n - m /\ m + (i - 1) = j - 1 /\ i > 1
    BY <2>3
  <2> HIDE DEF j
  <2> QED
    BY <1>1, <2>1, <2>2, <2>4
<1>7. Whole(c)
  BY <1>1, <1>2, <1>5, <1>6 DEF Whole
<1> QED
  BY <1>1, <1>7 DEF c

\* A text is what comes before a cut, what is cut and what comes after.
LEMMA CutInThree ==
    ASSUME NEW us \in Units, NEW a \in Nat, NEW b \in Nat, a <= b, b <= Len(us)
    PROVE  SubSeq(us, 1, a) \o SubSeq(us, a + 1, b) \o SubSeq(us, b + 1, Len(us)) = us
<1> DEFINE p == SubSeq(us, 1, a)
           s == SubSeq(us, a + 1, b)
           q == SubSeq(us, b + 1, Len(us))
           N == Len(us)
<1>0. N \in Nat /\ b <= N /\ us \in Seq(Unit)
  BY DEF Units
<1>1. p \in Seq(Unit) /\ Len(p) = a /\ \A i \in 1 .. a : p[i] = us[i]
  BY <1>0
<1>2. s \in Seq(Unit) /\ Len(s) = b - a /\ \A i \in 1 .. b - a : s[i] = us[a + i]
  BY <1>0
<1>3. q \in Seq(Unit) /\ Len(q) = N - b /\ \A i \in 1 .. N - b : q[i] = us[b + i]
  BY <1>0
<1> HIDE DEF p, s, q
<1> DEFINE x == p \o s
           y == x \o q
<1>4. x \in Seq(Unit) /\ Len(x) = a + (b - a) /\ \A i \in 1 .. a + (b - a) : x[i] = IF i <= a THEN p[i] ELSE s[i - a]
  <2>1. x \in Seq(Unit) /\ Len(x) = Len(p) + Len(s) /\ \A i \in 1 .. Len(p) + Len(s) : x[i] = IF i <= Len(p) THEN p[i] ELSE s[i - Len(p)]
    BY <1>1, <1>2, ConcatProperties
  <2> HIDE DEF x
  <2> QED
    BY <1>1, <1>2, <2>1
<1> HIDE DEF x
<1>5. y \in Seq(Unit) /\ Len(y) = Len(x) + (N - b) /\ \A i \in 1 .. Len(x) + (N - b) : y[i] = IF i <= Len(x) THEN x[i] ELSE q[i - Len(x)]
  BY <1>3, <1>4, ConcatProperties
<1> HIDE DEF y
<1>6. Len(x) = b /\ Len(y) = N
  BY <1>0, <1>4, <1>5
<1>7. \A i \in 1 .. N : y[i] = us[i]
  <2> SUFFICES ASSUME NEW i \in 1 .. N PROVE y[i] = us[i]
    OBVIOUS
  <2> HIDE DEF N
  <2>0. i \in 1 .. Len(x) + (N - b)
    BY <1>0, <1>6
  <2>1. CASE i <= a
    <3>1. i \in 1 .. a /\ i \in 1 .. a + (b - a) /\ i <= b
      BY <1>0, <2>1
    <3> QED
      BY <1>1, <1>4, <1>5, <1>6, <2>0, <2>1, <3>1
  <2>2. CASE ~(i <= a) /\ i <= b
    <3>1. i - a \in 1 .. b - a /\ i \in 1 .. a + (b - a) /\ a + (i - a) = i
      BY <1>0, <2>2
    <3> QED
      BY <1>2, <1>4, <1>5, <1>6, <2>0, <2>2, <3>1
  <2>3. CASE ~(i <= b)
    <3>1. i - b \in 1 .. N - b /\ b + (i - b) = i
      BY <1>0, <2>3
    <3> QED
      BY <1>3, <1>5, <1>6, <2>0, <2>3, <3>1
  <2> QED
    BY <2>1, <2>2, <2>3
<1>8. y = us
  BY <1>0, <1>5, <1>6, <1>7, SeqEqual
<1> QED
  BY <1>8 DEF y, x, p, s, q

LEMMA MiddleOf ==
    ASSUME NEW p \in Units, NEW s \in Units, NEW q \in Units
    PROVE  /\ p \o s \o q \in Units /\ Len(p \o s \o q) = Len(p) + Len(s) + Len(q)
           /\ SubSeq(p \o s \o q, Len(p) + 1, Len(p) + Len(s)) = s
           /\ \A i \in 1 .. Len(p) : (p \o s \o q)[i] = p[i]
           /\ \A i \in 1 .. Len(s) : (p \o s \o q)[Len(p) + i] = s[i]
<1> DEFINE x == p \o s
           y == x \o q
           P == Len(p)
           M == Len(s)
           Q == Len(q)
<1>0. P \in Nat /\ M \in Nat /\ Q \in Nat /\ p \in Seq(Unit) /\ s \in Seq(Unit) /\ q \in Seq(Unit)
  BY DEF Units
<1>1. x \in Seq(Unit) /\ Len(x) = P + M /\ \A i \in 1 .. P + M : x[i] = IF i <= P THEN p[i] ELSE s[i - P]
  BY <1>0, ConcatProperties
<1> HIDE DEF x
<1>2. y \in Seq(Unit) /\ Len(y) = Len(x) + Q /\ \A i \in 1 .. Len(x) + Q : y[i] = IF i <= Len(x) THEN x[i] ELSE q[i - Len(x)]
  <2>1. y \in Seq(Unit) /\ Len(y) = Len(x) + Len(q) /\ \A i \in 1 .. Len(x) + Len(q) : y[i] = IF i <= Len(x) THEN x[i] ELSE q[i - Len(x)]
    <3>1. x \in Seq(Unit) /\ q \in Seq(Unit)
      BY <1>0, <1>1
    <3> QED
      BY <3>1, ConcatProperties
  <2>2. Q = Len(q)
    OBVIOUS
  <2> HIDE DEF y, Q
  <2> QED
    BY <2>1, <2>2
<1> HIDE DEF y, P, M, Q
<1>3. \A i \in 1 .. P : y[i] = p[i]
  <2> SUFFICES ASSUME NEW i \in 1 .. P PROVE y[i] = p[i]
    OBVIOUS
  <2>1. i \in 1 .. P + M /\ i \in 1 .. Len(x) + Q /\ i <= Len(x) /\ i <= P
    BY <1>0, <1>1
  <2> QED
    BY <1>1, <1>2, <2>1
<1>4. \A i \in 1 .. M : y[P + i] = s[i]
  <2> SUFFICES ASSUME NEW i \in 1 .. M PROVE y[P + i] = s[i]
    OBVIOUS
  <2>1. P + i \in 1 .. P + M /\ P + i \in 1 .. Len(x) + Q /\ P + i <= Len(x) /\ ~(P + i <= P) /\ (P + i) - P = i
    BY <1>0, <1>1
  <2> QED
    BY <1>1, <1>2, <2>1
<1>5. Len(y) = P + M + Q
  BY <1>0, <1>1, <1>2
<1> DEFINE r == SubSeq(y, P + 1, P + M)
<1>6. r \in Seq(Unit) /\ Len(r) = M /\ \A i \in 1 .. M : r[i] = y[P + i]
  BY <1>0, <1>2, <1>5
<1> HIDE DEF r
<1>7. \A i \in 1 .. M : r[i] = s[i]
  BY <1>4, <1>6
<1>8. Len(s) = M
  BY DEF M
<1>9. r = s
  BY <1>0, <1>6, <1>7, <1>8, SeqEqual
<1> QED
  BY <1>2, <1>3, <1>4, <1>5, <1>9 DEF y, x, r, P, M, Q, Units

\* A selection is widened to where no pair is open.
LEMMA StartIs ==
    ASSUME NEW us \in Units, Whole(us), NEW o \in 0 .. Len(us)
    PROVE  Start(us, o) \in Nat /\ Start(us, o) <= o /\ ~Low(us, Start(us, o)) /\ ~Low(us, 0)
<1> DEFINE N == Len(us)
<1>0. N \in Nat /\ DOMAIN us = 1 .. N
  BY DEF Units
<1>1. \A i \in 1 .. N : us[i][1] = "low" => i > 1 /\ us[i - 1] = <<"high", us[i][2], us[i][3]>>
  BY <1>0 DEF Whole
<1>2. ~Low(us, 0)
  <2>1. 0 < N => 1 \in 1 .. N
    BY <1>0
  <2> QED
    BY <1>1, <2>1 DEF Low
<1>3. CASE o > 0 /\ Low(us, o)
  <2>1. Start(us, o) = o - 1
    BY <1>3 DEF Start
  <2>2. o < N /\ us[o + 1][1] = "low"
    BY <1>3 DEF Low
  <2>3. o + 1 \in 1 .. N /\ (o + 1) - 1 = o /\ (o - 1) + 1 = o /\ o - 1 \in Nat /\ o - 1 <= o
    BY <1>0, <1>3, <2>2
  <2>4. us[o] = <<"high", us[o + 1][2], us[o + 1][3]>>
    BY <1>1, <2>2, <2>3
  <2>5. us[o][1] # "low"
    BY <2>4
  <2>6. ~Low(us, o - 1)
    BY <2>3, <2>5 DEF Low
  <2> QED
    BY <1>2, <2>1, <2>3, <2>6
<1>4. CASE ~(o > 0 /\ Low(us, o))
  <2>1. Start(us, o) = o
    BY <1>4 DEF Start
  <2>2. o = 0 \/ o > 0
    BY <1>0
  <2>3. ~Low(us, o)
    BY <1>2, <1>4, <2>2
  <2> QED
    BY <1>0, <1>2, <2>1, <2>3
<1> QED
  BY <1>3, <1>4

LEMMA EndIs ==
    ASSUME NEW us \in Units, Whole(us), NEW o \in 0 .. Len(us)
    PROVE  End(us, o) \in Nat /\ o <= End(us, o) /\ End(us, o) <= Len(us) /\ ~Low(us, End(us, o))
<1> DEFINE N == Len(us)
           w == IF Low(us, o) THEN o + 1 ELSE o
           Ends(e) == (\A i \in (w + 1) .. e : us[i] = Stroke) /\ (e = N \/ us[e + 1] # Stroke)
           S == {e \in w .. N : e = N \/ us[e + 1] # Stroke}
<1>0. N \in Nat /\ DOMAIN us = 1 .. N
  BY DEF Units
<1>1. \A i \in 1 .. N : us[i][1] = "low" => i > 1 /\ us[i - 1] = <<"high", us[i][2], us[i][3]>>
  BY <1>0 DEF Whole
<1>2. w \in o .. N /\ w \in Nat
  BY <1>0 DEF Low
<1>3. ~Low(us, w)
  <2>1. CASE Low(us, o)
    <3>1. w = o + 1 /\ o < N /\ us[o + 1][1] = "low"
      BY <2>1 DEF Low
    <3>2. ASSUME Low(us, w) PROVE FALSE
      <4>1. w < N /\ us[w + 1][1] = "low"
        BY <3>2 DEF Low
      <4>2. w + 1 \in 1 .. N /\ (w + 1) - 1 = w
        BY <1>0, <1>2, <4>1
      <4>3. us[w] = <<"high", us[w + 1][2], us[w + 1][3]>>
        BY <1>1, <4>1, <4>2
      <4>4. us[w][1] = "high"
        BY <4>3
      <4> QED
        BY <3>1, <4>4
    <3> QED
      BY <3>2
  <2>2. CASE ~Low(us, o)
    BY <2>2
  <2> QED
    BY <2>1, <2>2
<1>4. End(us, o) = CHOOSE e \in w .. N : Ends(e)
  BY DEF End
<1> HIDE DEF w
<1>5. S \subseteq Nat /\ S # {}
  <2>1. N \in S
    BY <1>0, <1>2
  <2>2. S \subseteq Nat
    BY <1>0, <1>2
  <2> QED
    BY <2>1, <2>2
<1>6. PICK l \in S : \A j \in S : l <= j
  BY <1>5, Lowest
<1>7. Ends(l) /\ l \in w .. N
  <2>1. l \in w .. N /\ (l = N \/ us[l + 1] # Stroke)
    OBVIOUS
  <2>3. l \in w .. N
    BY <2>1
  <2>2. ASSUME NEW i \in (w + 1) .. l PROVE us[i] = Stroke
    <3> HIDE DEF N
    <3>0. N \in Nat /\ w \in Nat
      BY <1>0, <1>2
    <3>1. i - 1 \in w .. N /\ ~(l <= i - 1) /\ (i - 1) + 1 = i /\ i - 1 # N
      BY <3>0, <2>3
    <3>2. i - 1 \notin S
      BY <1>6, <3>1
    <3> QED
      BY <3>1, <3>2
  <2> QED
    BY <2>1, <2>2
<1> HIDE DEF S
<1> DEFINE e == End(us, o)
<1>8. e \in w .. N /\ Ends(e)
  <2> HIDE DEF Ends
  <2> QED
    BY <1>4, <1>7
<1> HIDE DEF e
<1>9. e \in Nat /\ o <= e /\ e <= N
  <2>1. e \in w .. N
    BY <1>8
  <2>2. N \in Nat /\ w \in o .. N /\ w \in Nat /\ o \in Nat
    BY <1>0, <1>2
  <2> HIDE DEF N
  <2> QED
    BY <2>1, <2>2
<1>10. ~Low(us, e)
  <2>1. CASE e = w
    BY <1>3, <2>1
  <2>2. CASE e # w
    <3>0. e \in w .. N
      BY <1>8
    <3>1. e \in (w + 1) .. e /\ e \in Nat
      BY <1>2, <1>9, <2>2, <3>0
    <3>2. us[e] = Stroke
      BY <1>8, <3>1
    <3>3. ASSUME Low(us, e) PROVE FALSE
      <4>1. e < N /\ us[e + 1][1] = "low"
        BY <3>3 DEF Low
      <4>2. e + 1 \in 1 .. N /\ (e + 1) - 1 = e
        BY <1>0, <3>1, <4>1
      <4>3. us[e] = <<"high", us[e + 1][2], us[e + 1][3]>>
        BY <1>1, <4>1, <4>2
      <4>4. us[e][1] = "high"
        BY <4>3
      <4> QED
        BY <3>2, <4>4, StrokeIs
    <3> QED
      BY <3>3
  <2> QED
    BY <2>1, <2>2
<1> QED
  BY <1>9, <1>10 DEF e

\* A style set on a character that can carry it.
LEMMA StyleSet ==
    ASSUME NEW g \in Glyphs, NEW style \in Style, Styleable(g, style), NEW on \in BOOLEAN
    PROVE  /\ SetStyle(g, style, on) \in Glyphs /\ SetStyle(g, style, on).base = g.base
           /\ HasStyle(SetStyle(g, style, on), style) = on
<1>0. g \in Glyph /\ Apt(g)
  BY DEF Glyphs
<1>1. CASE style = "code"
  <2> DEFINE h == [base |-> g.base, bold |-> g.bold /\ ~on, italic |-> g.italic /\ ~on, mono |-> on, strike |-> g.strike]
  <2>1. SetStyle(g, style, on) = h
    BY <1>0, <1>1 DEF SetStyle, Glyph
  <2>2. h \in Glyphs
    <3>1. g.base \in Base /\ (g.bold /\ ~on) \in BOOLEAN /\ (g.italic /\ ~on) \in BOOLEAN /\ g.strike \in BOOLEAN
      BY <1>0 DEF Glyph
    <3>2. on => ~(g.bold /\ ~on) /\ ~(g.italic /\ ~on)
      OBVIOUS
    <3>3. (g.bold /\ ~on) \/ on => g.base \in {"a", "1"}
      BY <1>0, <1>1 DEF Apt, Styleable
    <3>4. (g.italic /\ ~on) => g.base = "a"
      BY <1>0 DEF Apt
    <3> QED
      BY <3>1, <3>2, <3>3, <3>4, GlyphMade
  <2>3. HasStyle(h, style) = h.mono
    BY <1>1 DEF HasStyle
  <2> QED
    BY <2>1, <2>2, <2>3
<1>2. CASE style = "bold"
  <2> DEFINE h == [base |-> g.base, bold |-> on, italic |-> g.italic, mono |-> g.mono /\ ~on, strike |-> g.strike]
  <2>1. SetStyle(g, style, on) = h
    BY <1>0, <1>2 DEF SetStyle, Glyph
  <2>2. h \in Glyphs
    <3>1. g.base \in Base /\ g.italic \in BOOLEAN /\ (g.mono /\ ~on) \in BOOLEAN /\ g.strike \in BOOLEAN
      BY <1>0 DEF Glyph
    <3>2. (g.mono /\ ~on) => ~on /\ ~g.italic
      BY <1>0 DEF Apt
    <3>3. on \/ (g.mono /\ ~on) => g.base \in {"a", "1"}
      BY <1>0, <1>2 DEF Apt, Styleable
    <3>4. g.italic => g.base = "a"
      BY <1>0 DEF Apt
    <3> QED
      BY <3>1, <3>2, <3>3, <3>4, GlyphMade
  <2>3. HasStyle(h, style) = h.bold
    BY <1>2 DEF HasStyle
  <2> QED
    BY <2>1, <2>2, <2>3
<1>3. CASE style = "italic"
  <2> DEFINE h == [base |-> g.base, bold |-> g.bold, italic |-> on, mono |-> g.mono /\ ~on, strike |-> g.strike]
  <2>1. SetStyle(g, style, on) = h
    BY <1>0, <1>3 DEF SetStyle, Glyph
  <2>2. h \in Glyphs
    <3>1. g.base \in Base /\ g.bold \in BOOLEAN /\ (g.mono /\ ~on) \in BOOLEAN /\ g.strike \in BOOLEAN
      BY <1>0 DEF Glyph
    <3>2. (g.mono /\ ~on) => ~g.bold /\ ~on
      BY <1>0 DEF Apt
    <3>3. g.bold \/ (g.mono /\ ~on) => g.base \in {"a", "1"}
      BY <1>0 DEF Apt
    <3>4. on => g.base = "a"
      BY <1>3 DEF Styleable
    <3> QED
      BY <3>1, <3>2, <3>3, <3>4, GlyphMade
  <2>3. HasStyle(h, style) = h.italic
    BY <1>3 DEF HasStyle
  <2> QED
    BY <2>1, <2>2, <2>3
<1>4. CASE style = "strike"
  <2> DEFINE h == [base |-> g.base, bold |-> g.bold, italic |-> g.italic, mono |-> g.mono, strike |-> on]
  <2>1. SetStyle(g, style, on) = h
    BY <1>0, <1>4 DEF SetStyle, Glyph
  <2>2. h \in Glyphs
    <3>1. g.base \in Base /\ g.bold \in BOOLEAN /\ g.italic \in BOOLEAN /\ g.mono \in BOOLEAN
      BY <1>0 DEF Glyph
    <3>2. (g.mono => ~g.bold /\ ~g.italic) /\ (g.bold \/ g.mono => g.base \in {"a", "1"}) /\ (g.italic => g.base = "a")
      BY <1>0 DEF Apt
    <3> QED
      BY <3>1, <3>2, GlyphMade
  <2>3. HasStyle(h, style) = h.strike
    BY <1>4 DEF HasStyle
  <2> QED
    BY <2>1, <2>2, <2>3
<1> QED
  BY <1>1, <1>2, <1>3, <1>4 DEF Style

\* The characters of a selection with a style set.
Styled(gs, style, on) == [i \in DOMAIN gs |-> IF Styleable(gs[i], style) THEN SetStyle(gs[i], style, on) ELSE gs[i]]

LEMMA StyledIs ==
    ASSUME NEW gs \in Seq(Glyphs), NEW style \in Style, NEW on \in BOOLEAN
    PROVE  /\ Styled(gs, style, on) \in Seq(Glyphs)
           /\ Bare(Styled(gs, style, on)) = Bare(gs)
           /\ WordOf(Styled(gs, style, on)) = WordOf(gs)
           /\ StrokeLeads(gs) => StrokeLeads(Styled(gs, style, on))
           /\ gs # <<>> => Styled(gs, style, on) # <<>> /\ Styled(gs, style, on)[1].base = gs[1].base
           /\ \A i \in DOMAIN Styled(gs, style, on) :
                  Styleable(Styled(gs, style, on)[i], style) => HasStyle(Styled(gs, style, on)[i], style) = on
<1> DEFINE N == Len(gs)
           e(i) == IF Styleable(gs[i], style) THEN SetStyle(gs[i], style, on) ELSE gs[i]
           r == Styled(gs, style, on)
<1>0. N \in Nat /\ DOMAIN gs = 1 .. N
  OBVIOUS
<1>1. \A i \in 1 .. N : gs[i] \in Glyphs
  BY ElementOfSeq
<1>2. ASSUME NEW i \in 1 .. N
      PROVE  e(i) \in Glyphs /\ e(i).base = gs[i].base /\ (Styleable(e(i), style) => HasStyle(e(i), style) = on)
  <2>1. CASE Styleable(gs[i], style)
    <3>1. gs[i] \in Glyphs
      BY <1>1
    <3>2. e(i) = SetStyle(gs[i], style, on)
      BY <2>1
    <3> HIDE DEF e
    <3> QED
      BY <2>1, <3>1, <3>2, StyleSet
  <2>2. CASE ~Styleable(gs[i], style)
    <3>1. e(i) = gs[i]
      BY <2>2
    <3> HIDE DEF e
    <3> QED
      BY <1>1, <2>2, <3>1
  <2> QED
    BY <2>1, <2>2
<1>3. r = [i \in 1 .. N |-> e(i)]
  BY <1>0 DEF Styled
<1> HIDE DEF e, r
<1>4. r \in Seq(Glyphs) /\ Len(r) = N /\ DOMAIN r = 1 .. N
  BY <1>0, <1>2, <1>3
<1>5. \A i \in 1 .. N : r[i] = e(i)
  BY <1>3
<1>6. \A i \in 1 .. N : r[i].base = gs[i].base
  BY <1>2, <1>5
<1>7. Bare(r) = Bare(gs)
  BY <1>0, <1>4, <1>6 DEF Bare
<1>8. gs # <<>> => r # <<>> /\ r[1].base = gs[1].base
  <2>1. gs # <<>> => N # 0
    BY EmptySeq
  <2>2. gs # <<>> => 1 \in 1 .. N /\ N # 0
    BY <1>0, <2>1
  <2>3. r = <<>> => N = 0
    BY <1>4
  <2> QED
    BY <1>6, <2>2, <2>3
<1>9. gs = <<>> => r = <<>>
  <2>1. gs = <<>> => N = 0
    OBVIOUS
  <2> QED
    BY <1>4, <2>1, EmptySeq
<1>10. WordOf(r) = WordOf(gs)
  BY <1>7, <1>8, <1>9 DEF WordOf
<1>11. StrokeLeads(gs) => StrokeLeads(r)
  BY <1>4, <1>6 DEF StrokeLeads
<1>12. \A i \in DOMAIN r : Styleable(r[i], style) => HasStyle(r[i], style) = on
  BY <1>2, <1>4, <1>5
<1> QED
  BY <1>4, <1>7, <1>8, <1>10, <1>11, <1>12 DEF r

\* The box between two steps: no pair is split, no stroke is on nothing, and
\* the letters are those the last toggle found.
StyleInv ==
    /\ units \in Units /\ Whole(units)
    /\ units # <<>> => units[1] # Stroke
    /\ marked \in [start : Nat, end : Nat] /\ marked.start <= marked.end /\ marked.end <= Len(units)
    /\ toggled.times \in 0 .. MaxToggles
    /\ toggled.times > 0 => Reads(units) = Reads(toggled.before)

LEMMA WholeBegins == ASSUME NEW us \in Units, Whole(us), us # <<>> PROVE us[1] \notin LowOnes
<1>1. 1 \in DOMAIN us /\ us[1] \in Unit
  <2>1. Len(us) \in Nat /\ Len(us) # 0 /\ DOMAIN us = 1 .. Len(us)
    BY EmptySeq DEF Units
  <2>2. 1 \in 1 .. Len(us)
    BY <2>1
  <2> QED
    BY <2>1, <2>2, ElementOfSeq DEF Units
<1>2. us[1][1] # "low"
  BY <1>1 DEF Whole
<1> QED
  BY <1>1, <1>2, LowIsLow

LEMMA StyleInitInv == ASSUME styleInit PROVE StyleInv
<1>1. PICK b \in Bases : units = [i \in DOMAIN b |-> <<"plain", b[i]>>]
  BY DEF styleInit
<1>2. b \in Seq(Ch)
  BY StylesAssumption
<1>3. Len(b) \in Nat /\ DOMAIN b = 1 .. Len(b) /\ \A i \in 1 .. Len(b) : b[i] \in Ch
  BY <1>2, ElementOfSeq
<1>4. \A i \in 1 .. Len(b) : units[i] \in Single /\ units[i][1] = "plain" /\ units[i] \in Unit
  BY <1>1, <1>3 DEF Single, Ch, Unit
<1>5. units \in Seq(Unit) /\ Len(units) = Len(b) /\ DOMAIN units = 1 .. Len(b)
  <2> DEFINE e(i) == <<"plain", b[i]>>
             N == Len(b)
  <2>1. units = [i \in 1 .. N |-> e(i)] /\ N \in Nat
    BY <1>1, <1>3
  <2>2. \A i \in 1 .. N : e(i) \in Unit
    BY <1>1, <1>3, <1>4
  <2> HIDE DEF e, N
  <2>3. units \in Seq(Unit) /\ Len(units) = N /\ DOMAIN units = 1 .. N
    BY <2>1, <2>2
  <2> QED
    BY <2>3 DEF N
<1>6. Whole(units)
  BY <1>4, <1>5 DEF Whole
<1>7. units # <<>> => units[1] # Stroke
  <2>1. units # <<>> => Len(units) # 0
    BY <1>5, EmptySeq
  <2>2. units # <<>> => 1 \in 1 .. Len(b)
    BY <1>3, <1>5, <2>1
  <2> QED
    BY <1>4, <2>2, StrokeIs
<1>8. marked \in [start : Nat, end : Nat] /\ marked.start <= marked.end /\ marked.end <= Len(units)
  BY <1>3, <1>5 DEF styleInit
<1>9. toggled.times \in 0 .. MaxToggles /\ ~(toggled.times > 0)
  BY StylesAssumption DEF styleInit, NeverToggled
<1> QED
  BY <1>5, <1>6, <1>7, <1>8, <1>9 DEF StyleInv, Units

LEMMA SelectInv == ASSUME StyleInv, NEW a \in 0 .. Len(units), NEW b \in 0 .. Len(units), Select(a, b) PROVE StyleInv'
<1>1. marked' = [start |-> a, end |-> b] /\ a <= b /\ b <= Len(units) /\ UNCHANGED <<units, toggled>>
  BY DEF Select
<1>2. marked' \in [start : Nat, end : Nat] /\ marked'.start <= marked'.end /\ marked'.end <= Len(units')
  BY <1>1
<1>3. Reads(units)' = Reads(units) /\ Reads(toggled.before)' = Reads(toggled.before) /\ Whole(units)' = Whole(units)
  BY <1>1 DEF Reads, Whole, DecodeAll
<1> QED
  BY <1>1, <1>2, <1>3 DEF StyleInv

\* What a toggle does: the letters stay, nothing is split, and the new
\* selection is the text that was styled.
LEMMA ToggleDoes ==
    ASSUME StyleInv, NEW style \in Style, ToggleStyle(style)
    PROVE  /\ StyleInv'
           /\ LET gs == DecodeAll(Slice(units', marked'.start, marked'.end))
              IN  \A i \in DOMAIN gs : Styleable(gs[i], toggled'.style) => HasStyle(gs[i], toggled'.style) = toggled'.on
<1> DEFINE N == Len(units)
           a == Start(units, marked.start)
           b == End(units, marked.end)
           p == SubSeq(units, 1, a)
           s == SubSeq(units, a + 1, b)
           q == SubSeq(units, b + 1, N)
           gs == DecodeAll(s)
           targets == {gs[i] : i \in {j \in DOMAIN gs : Styleable(gs[j], style)}}
           on == Turns(targets, style)
           hs == Styled(gs, style, on)
           styled == EncodeAll(hs)
<1>1. /\ units' = p \o styled \o q
      /\ marked' = [start |-> a, end |-> a + Len(styled)]
      /\ toggled' = [times |-> toggled.times + 1, style |-> style, on |-> on, before |-> units]
      /\ toggled.times < MaxToggles /\ marked.start < marked.end
  BY DEF ToggleStyle, Slice, Styled
<1>2. on \in BOOLEAN
  BY DEF Turns
<1> HIDE DEF on
<1>3. units \in Units /\ Whole(units) /\ N \in Nat /\ marked.start \in 0 .. N /\ marked.end \in 0 .. N
  <2>1. units \in Units /\ Whole(units) /\ marked.start <= marked.end /\ marked.end <= N
    BY DEF StyleInv
  <2>2. marked.start \in Nat /\ marked.end \in Nat
    BY DEF StyleInv
  <2>3. N \in Nat
    BY <2>1 DEF Units
  <2> QED
    BY <2>1, <2>2, <2>3
<1>4. a \in Nat /\ a <= marked.start /\ ~Low(units, a) /\ ~Low(units, 0)
  BY <1>3, StartIs
<1>5. b \in Nat /\ marked.end <= b /\ b <= N /\ ~Low(units, b)
  BY <1>3, EndIs
<1> HIDE DEF a, b
<1>6. a < b
  BY <1>1, <1>3, <1>4, <1>5
<1>7. ~Low(units, N)
  BY <1>3 DEF Low
<1>8. s \in Units /\ Len(s) = b - a /\ (\A i \in 1 .. b - a : s[i] = units[a + i]) /\ Whole(s)
  BY <1>3, <1>4, <1>5, <1>6, CutWhole
<1>9. p \in Units /\ Len(p) = a /\ (\A i \in 1 .. a : p[i] = units[i]) /\ Whole(p)
  <2>1. /\ SubSeq(units, 0 + 1, a) \in Units /\ Len(SubSeq(units, 0 + 1, a)) = a - 0
        /\ \A i \in 1 .. a - 0 : SubSeq(units, 0 + 1, a)[i] = units[0 + i]
        /\ Whole(SubSeq(units, 0 + 1, a))
    <3>1. 0 \in Nat /\ 0 <= a /\ a <= N
      BY <1>3, <1>4, <1>5, <1>6
    <3> QED
      BY <1>3, <1>4, <3>1, CutWhole
  <2>2. 0 + 1 = 1 /\ a - 0 = a /\ \A i \in 1 .. a : 0 + i = i
    BY <1>4
  <2> QED
    BY <2>1, <2>2
<1>10. q \in Units /\ Whole(q)
  BY <1>3, <1>5, <1>7, CutWhole
<1>11. p \o s \o q = units
  <2>1. a \in Nat /\ b \in Nat /\ a <= b /\ b <= Len(units)
    BY <1>4, <1>5, <1>6
  <2> QED
    BY <1>3, <2>1, CutInThree
<1>12. s # <<>> /\ s[1] \notin LowOnes
  <2>1. b - a # 0
    BY <1>4, <1>5, <1>6
  <2>2. s # <<>>
    BY <1>8, <2>1
  <2> QED
    BY <1>8, <2>2, WholeBegins
<1> HIDE DEF s, p, q
<1>13. gs \in Seq(Glyphs) /\ gs # <<>> /\ (gs[1].base = "stroke" <=> s[1] = Stroke) /\ StrokeLeads(gs)
  <2>1. Leads(s)
    BY <1>8, <1>12, DecodeLeads
  <2>2. gs \in Seq(Glyphs)
    BY <1>8, DecodeOne DEF Units
  <2> QED
    BY <2>1, <2>2 DEF Leads
<1> HIDE DEF gs
<1>14. /\ hs \in Seq(Glyphs) /\ WordOf(hs) = WordOf(gs) /\ StrokeLeads(hs)
       /\ hs # <<>> /\ hs[1].base = gs[1].base
       /\ \A i \in DOMAIN hs : Styleable(hs[i], style) => HasStyle(hs[i], style) = on
  BY <1>2, <1>13, StyledIs
<1> HIDE DEF hs
<1>15. styled \in Units /\ Whole(styled) /\ DecodeAll(styled) = hs
  BY <1>14, RoundTrip
<1>16. styled # <<>> /\ styled[1] \notin LowOnes /\ (styled[1] = Stroke <=> s[1] = Stroke)
  <2>1. styled # <<>>
    BY <1>14, <1>15, DecodeOne
  <2>2. styled[1] \notin LowOnes
    BY <1>15, <2>1, WholeBegins
  <2>3. Leads(styled)
    BY <1>15, <2>1, <2>2, DecodeLeads
  <2> QED
    BY <1>13, <1>14, <1>15, <2>1, <2>2, <2>3 DEF Leads
<1> HIDE DEF styled
<1> DEFINE us == p \o styled \o q
<1>17. /\ us \in Units /\ Len(us) = a + Len(styled) + Len(q)
       /\ SubSeq(us, a + 1, a + Len(styled)) = styled
       /\ \A i \in 1 .. a : us[i] = p[i]
       /\ \A i \in 1 .. Len(styled) : us[a + i] = styled[i]
  <2>1. /\ us \in Units /\ Len(us) = Len(p) + Len(styled) + Len(q)
        /\ SubSeq(us, Len(p) + 1, Len(p) + Len(styled)) = styled
        /\ \A i \in 1 .. Len(p) : us[i] = p[i]
        /\ \A i \in 1 .. Len(styled) : us[Len(p) + i] = styled[i]
    BY <1>9, <1>10, <1>15, MiddleOf
  <2> HIDE DEF us
  <2> QED
    BY <1>9, <2>1
<1>18. Whole(us)
  <2>1. p \o styled \in Units /\ Whole(p \o styled)
    <3>1. p \o styled \in Units
      BY <1>9, <1>15, ConcatProperties DEF Units
    <3> QED
      BY <1>9, <1>15, <3>1, WholeTogether
  <2> QED
    BY <1>10, <2>1, WholeTogether
<1>19. Word(us) = Word(units)
  <2>1. Word(styled) = Word(s)
    BY <1>14, <1>15 DEF Word, gs
  <2>2. p \o styled \in Units /\ p \o s \in Units
    BY <1>8, <1>9, <1>15, ConcatProperties DEF Units
  <2>3. Word(us) = Word(p) \o Word(styled) \o Word(q)
    BY <1>9, <1>10, <1>15, <2>2, WordCat
  <2>4. Word(p \o s \o q) = Word(p) \o Word(s) \o Word(q)
    BY <1>8, <1>9, <1>10, <2>2, WordCat
  <2> QED
    BY <1>11, <2>1, <2>3, <2>4
<1>20. units[1] # Stroke /\ units # <<>> /\ units[1] \notin LowOnes
  <2>1. units # <<>>
    <3>1. N # 0
      BY <1>3, <1>4, <1>5, <1>6
    <3> QED
      BY <1>3, <3>1
  <2> QED
    BY <1>3, <2>1, WholeBegins DEF StyleInv
<1>21. us[1] # Stroke
  <2>1. CASE a = 0
    <3>1. Len(styled) \in Nat /\ Len(styled) # 0
      BY <1>15, <1>16, EmptySeq DEF Units
    <3>2. 1 \in 1 .. Len(styled) /\ a + 1 = 1
      BY <2>1, <3>1
    <3>3. us[1] = styled[1]
      BY <1>17, <3>2
    <3>4. 1 \in 1 .. b - a
      BY <1>4, <1>5, <1>6
    <3>5. s[1] = units[1]
      BY <1>8, <3>2, <3>4
    <3> HIDE DEF us
    <3> QED
      BY <1>16, <1>20, <3>3, <3>5
  <2>2. CASE a # 0
    <3>1. 1 \in 1 .. a
      BY <1>4, <2>2
    <3> HIDE DEF us
    <3>2. us[1] = units[1]
      BY <1>9, <1>17, <3>1
    <3> QED
      BY <1>20, <3>2
  <2> QED
    BY <2>1, <2>2
<1>22. us # <<>> /\ us[1] \notin LowOnes
  <2>1. Len(styled) \in Nat /\ Len(styled) # 0 /\ Len(q) \in Nat
    BY <1>10, <1>15, <1>16, EmptySeq DEF Units
  <2> HIDE DEF us
  <2>2. Len(us) # 0
    BY <1>4, <1>17, <2>1
  <2>3. us # <<>>
    BY <2>2
  <2> QED
    BY <1>17, <1>18, <2>3, WholeBegins
<1>23. Reads(us) = Reads(units)
  BY <1>3, <1>17, <1>19, <1>20, <1>21, <1>22, ReadsWord
<1> HIDE DEF us
<1>24. units' = us
  BY <1>1 DEF us
<1>25. /\ marked'.start = a /\ marked'.end = a + Len(styled) /\ marked' \in [start : Nat, end : Nat]
       /\ marked'.start <= marked'.end /\ marked'.end <= Len(us)
  <2>1. Len(styled) \in Nat /\ Len(q) \in Nat
    BY <1>10, <1>15 DEF Units
  <2>2. marked'.start = a /\ marked'.end = a + Len(styled)
    BY <1>1
  <2>3. a + Len(styled) \in Nat /\ a <= a + Len(styled) /\ a + Len(styled) <= Len(us)
    BY <1>4, <1>17, <2>1
  <2> QED
    BY <1>1, <1>4, <2>2, <2>3
<1>26. toggled'.times \in 0 .. MaxToggles /\ toggled'.before = units /\ toggled'.style = style /\ toggled'.on = on
  <2>1. toggled'.times = toggled.times + 1 /\ toggled'.before = units /\ toggled'.style = style /\ toggled'.on = on
    BY <1>1
  <2>2. toggled.times \in 0 .. MaxToggles
    BY DEF StyleInv
  <2>3. toggled.times + 1 \in 0 .. MaxToggles
    BY <1>1, <2>2, StylesAssumption
  <2> QED
    BY <2>1, <2>3
<1>27. StyleInv'
  <2>1. (units \in Units)' /\ Whole(units)'
    BY <1>17, <1>18, <1>24 DEF Whole
  <2>2. (units # <<>> => units[1] # Stroke)'
    BY <1>21, <1>24
  <2>3. (marked \in [start : Nat, end : Nat] /\ marked.start <= marked.end /\ marked.end <= Len(units))'
    BY <1>24, <1>25
  <2>4. (Reads(units) = Reads(toggled.before))'
    <3>1. Reads(units') = Reads(toggled'.before)
      BY <1>23, <1>24, <1>26
    <3> QED
      BY <3>1
  <2> QED
    BY <1>26, <2>1, <2>2, <2>3, <2>4 DEF StyleInv
<1>28. DecodeAll(Slice(units', marked'.start, marked'.end)) = hs
  <2>1. Slice(units', marked'.start, marked'.end) = styled
    BY <1>17, <1>24, <1>25 DEF Slice
  <2> QED
    BY <1>15, <2>1
<1> QED
  BY <1>14, <1>26, <1>27, <1>28

\* However styles are stacked, toggled and cut across, the text reads the
\* same without them, no pair of units is split, and every toggle leaves the
\* selection with the style or without it (text-format.ts).
THEOREM StylesStayExact == styleSpec => StylesAreExact
<1> DEFINE Kept == toggled' # toggled =>
                       LET gs == DecodeAll(Slice(units', marked'.start, marked'.end))
                       IN  \A i \in DOMAIN gs : Styleable(gs[i], toggled'.style) => HasStyle(gs[i], toggled'.style) = toggled'.on
<1>1. styleInit => StyleInv
  BY StyleInitInv
<1>2. StyleInv /\ [styleNext]_styleVars => StyleInv' /\ [Kept]_styleVars
  <2> SUFFICES ASSUME StyleInv, [styleNext]_styleVars PROVE StyleInv' /\ [Kept]_styleVars
    OBVIOUS
  <2>1. ASSUME NEW style \in Style, ToggleStyle(style) PROVE StyleInv' /\ Kept
    BY <2>1, ToggleDoes
  <2>2. ASSUME NEW a \in 0 .. Len(units), NEW b \in 0 .. Len(units), Select(a, b) PROVE StyleInv' /\ Kept
    <3>1. toggled' = toggled
      BY <2>2 DEF Select
    <3> QED
      BY <2>2, <3>1, SelectInv
  <2>3. CASE UNCHANGED styleVars
    <3>1. UNCHANGED <<units, marked, toggled>>
      BY <2>3 DEF styleVars
    <3>2. Reads(units)' = Reads(units) /\ Reads(toggled.before)' = Reads(toggled.before) /\ Whole(units)' = Whole(units)
      BY <3>1 DEF Reads, Whole, DecodeAll
    <3>3. StyleInv'
      BY <3>1, <3>2 DEF StyleInv
    <3> QED
      BY <2>3, <3>3
  <2> HIDE DEF Kept
  <2> QED
    BY <2>1, <2>2, <2>3 DEF styleNext
<1>3. StyleInv => styleTypeOK /\ LettersAreKept
  <2> SUFFICES ASSUME StyleInv PROVE styleTypeOK /\ LettersAreKept
    OBVIOUS
  <2>1. \A i \in DOMAIN units : units[i] = Stroke \/ units[i][1] \in {"plain", "high", "low"}
    <3> SUFFICES ASSUME NEW i \in DOMAIN units PROVE units[i] = Stroke \/ units[i][1] \in {"plain", "high", "low"}
      OBVIOUS
    <3>1. units[i] \in Unit
      BY ElementOfSeq DEF StyleInv, Units
    <3> QED
      BY <3>1, SinglesAre, HighsAre, LowsAre DEF Unit
  <2> QED
    BY <2>1 DEF StyleInv, styleTypeOK, LettersAreKept
<1> HIDE DEF Kept
<1>4. styleSpec => [](styleTypeOK /\ LettersAreKept) /\ [][Kept]_styleVars
  BY <1>1, <1>2, <1>3, PTL DEF styleSpec
<1> QED
  BY <1>4 DEF StylesAreExact, OneMind, Kept

\* The find bar and the styles of the message box, side by side with the
\* rest of the workspace, do what their buttons say.
THEOREM EditorStaysExact == WorkspaceSpec => EditorIsExact
<1>1. WorkspaceInit => findInit /\ styleInit
  BY DEF WorkspaceInit
<1>2. [WorkspaceNext]_WorkspaceVars => [findNext]_findVars
  BY DEF WorkspaceNext, WorkspaceVars
<1>3. [WorkspaceNext]_WorkspaceVars => [styleNext]_styleVars
  BY DEF WorkspaceNext, WorkspaceVars
<1> QED
  BY <1>1, <1>2, <1>3, FindStaysExact, StylesStayExact, PTL DEF WorkspaceSpec, findSpec, styleSpec, EditorIsExact
=============================================================================
