----------------------------- MODULE PendingOp -----------------------------
(***************************************************************************)
(* A selection sent to the side panel from a page's context menu, or a     *)
(* mode shortcut without text.  The service worker writes it to session    *)
(* storage and opens the panel; the panel of the selection's window reads  *)
(* it and removes it; every start of the worker removes one that nobody    *)
(* took in time.  All of them work on one storage item, one call at a time.*)
(***************************************************************************)
EXTENDS Naturals

CONSTANTS PanelWindow,  \* the windows whose side panel may be open
          MaxClicks     \* selections sent in a behaviour

ASSUME ClickAssumption == MaxClicks \in Nat

VARIABLES slot,    \* the storage item
          panel,   \* per window: usePendingOperation
          reads,   \* per window: its consume() calls under way
          heard,   \* per window: whether a change of the item is still to be told
          sweep,   \* the worker's sweepStalePendingOp
          clicks

pendVars == <<slot, panel, reads, heard, sweep, clicks>>

NoOp == [id |-> 0]
Op == [id : 1..MaxClicks, window : PanelWindow, fresh : BOOLEAN]
Task == {"mount", "change", "stray"}  \* stray: one that a lock aborted
NoTask == [at |-> "idle"]

pendInit ==
    /\ slot = NoOp
    /\ panel = [w \in PanelWindow |-> [ready |-> FALSE, pending |-> NoOp, polls |-> 0]]
    /\ reads = [w \in PanelWindow |-> [k \in Task |-> NoTask]]
    /\ heard = [w \in PanelWindow |-> TRUE]
    /\ sweep = [at |-> "idle", id |-> 0]
    /\ clicks = 0

\* openPanelWithOperation: menuMayActOn let the click pass.
Click(w) ==
    /\ clicks < MaxClicks
    /\ clicks' = clicks + 1
    /\ slot' = [id |-> clicks + 1, window |-> w, fresh |-> TRUE]
    /\ heard' = [v \in PanelWindow |-> ~panel[v].ready]
    /\ UNCHANGED <<panel, reads, sweep>>

\* A minute passes: PENDING_OP_TTL_MS.
Expire ==
    /\ slot # NoOp /\ slot.fresh
    /\ slot' = [slot EXCEPT !.fresh = FALSE]
    /\ UNCHANGED <<panel, reads, heard, sweep, clicks>>
----------------------------------------------------------------------------
(* The panel.                                                              *)

\* Mounted and unlocked: it looks at once, and again after 400 ms.
Ready(w) ==
    /\ ~panel[w].ready
    /\ panel' = [panel EXCEPT ![w] = [ready |-> TRUE, pending |-> @.pending, polls |-> 2]]
    /\ UNCHANGED <<slot, reads, heard, sweep, clicks>>
\* Locked or closed: calls under way are aborted.  After a lock (one of) them goes
\* on to remove what it finds, and keeps nothing.
NotReady(w) ==
    /\ panel[w].ready
    /\ panel' = [panel EXCEPT ![w] = [ready |-> FALSE, pending |-> NoOp, polls |-> 0]]
    /\ \E t \in {reads[w][k] : k \in Task} \cup {NoTask} :
          reads' = [reads EXCEPT ![w] = [k \in Task |-> IF k = "stray" THEN t ELSE NoTask]]
    /\ heard' = [heard EXCEPT ![w] = TRUE]
    /\ UNCHANGED <<slot, sweep, clicks>>

AnyWindow(op, w) == TRUE  \* mutant
ForWindow(op, w) == op.window = w
\* consume() up to its second await: what is there, if it is this window's.
Found(w) == IF slot # NoOp /\ ForWindow(slot, w) THEN [at |-> "remove", op |-> slot] ELSE NoTask
OnChange(w) == Found(w)
Poll(w) ==
    /\ panel[w].polls > 0 /\ reads[w]["mount"] = NoTask
    /\ panel' = [panel EXCEPT ![w].polls = @ - 1]
    /\ reads' = [reads EXCEPT ![w]["mount"] = Found(w)]
    /\ UNCHANGED <<slot, heard, sweep, clicks>>
Hear(w) ==
    /\ ~heard[w] /\ reads[w]["change"] = NoTask
    /\ heard' = [heard EXCEPT ![w] = TRUE]
    /\ reads' = [reads EXCEPT ![w]["change"] = OnChange(w)]
    /\ UNCHANGED <<slot, panel, sweep, clicks>>
\* Whatever the item holds by now goes; what was read is kept if it is fresh.
Take(op, w) == IF op.fresh THEN op ELSE panel[w].pending
RemoveOp(w, k) ==
    /\ reads[w][k] # NoTask
    /\ slot' = NoOp
    /\ \E late \in BOOLEAN :
          LET op == [reads[w][k].op EXCEPT !.fresh = @ /\ ~late]
          IN  panel' = IF k = "stray" THEN panel
                       ELSE [panel EXCEPT ![w].pending = Take(op, w),
                                          ![w].polls = IF k = "mount" /\ op.fresh THEN 0 ELSE @]
    /\ reads' = [reads EXCEPT ![w][k] = NoTask]
    /\ UNCHANGED <<heard, sweep, clicks>>
\* App routes it to the workspace or to the import page, once.
Route(w) ==
    /\ panel[w].pending # NoOp
    /\ panel' = [panel EXCEPT ![w].pending = NoOp]
    /\ UNCHANGED <<slot, reads, heard, sweep, clicks>>
----------------------------------------------------------------------------
(* The worker's start: two reads and a removal.                            *)

SweepRead ==
    /\ sweep.at = "idle" /\ slot # NoOp /\ ~slot.fresh
    /\ sweep' = [at |-> "again", id |-> slot.id]
    /\ UNCHANGED <<slot, panel, reads, heard, clicks>>
SameOp == slot.id = sweep.id
SweepAgain ==
    /\ sweep.at = "again"
    /\ sweep' = [sweep EXCEPT !.at = IF SameOp THEN "remove" ELSE "idle"]
    /\ UNCHANGED <<slot, panel, reads, heard, clicks>>
SweepRemove ==
    /\ sweep.at = "remove"
    /\ slot' = NoOp
    /\ sweep' = [at |-> "idle", id |-> 0]
    /\ UNCHANGED <<panel, reads, heard, clicks>>
WorkerStops ==
    /\ sweep.at # "idle"
    /\ sweep' = [at |-> "idle", id |-> 0]
    /\ UNCHANGED <<slot, panel, reads, heard, clicks>>

PanelNext(w) == Poll(w) \/ Hear(w) \/ Route(w) \/ \E k \in Task : RemoveOp(w, k)
SweepNext == SweepRead \/ SweepAgain \/ SweepRemove
pendNext ==
    \/ \E w \in PanelWindow : Click(w) \/ Ready(w) \/ NotReady(w) \/ PanelNext(w)
    \/ Expire \/ SweepNext \/ WorkerStops

\* A panel that stays open goes on with its calls, and Chrome tells it of changes.
PendFairness == \A w \in PanelWindow : WF_pendVars(PanelNext(w))
pendSpec == pendInit /\ [][pendNext]_pendVars /\ PendFairness
----------------------------------------------------------------------------
pendTypeOK ==
    /\ slot \in Op \cup {NoOp}
    /\ \A w \in PanelWindow : panel[w].pending \in Op \cup {NoOp} /\ panel[w].polls \in 0..2
    /\ \A w \in PanelWindow, k \in Task : reads[w][k].at \in {"idle", "remove"}
    /\ sweep.at \in {"idle", "again", "remove"} /\ clicks \in 0..MaxClicks

(* A panel shows a selection of its own window only, and never one that     *)
(* was older than a minute when the panel removed it.                       *)
SelectionsAreOwnAndFresh ==
    \A w \in PanelWindow : panel[w].pending # NoOp => panel[w].pending.window = w /\ panel[w].pending.fresh

(* A selection that comes in while the panel of its window is open is taken *)
(* (or a selection of another window takes its place): the change event is  *)
(* not missed, whichever side of the first read it falls on.                *)
Untaken(w) == slot # NoOp /\ slot.window = w /\ panel[w].ready
OpenPanelsTakeSelections == \A w \in PanelWindow : Untaken(w) ~> ~Untaken(w)

(* The sweep goes on to remove only what it found stale and still there: a  *)
(* click between its two reads is left alone.                               *)
SweepsComeBackForTheSame == [][sweep'.at = "remove" /\ sweep.at = "again" => slot # NoOp /\ ~slot.fresh]_pendVars

(* The item removed by a sweep is stale, as pending-op.ts:59 has it         *)
(* ("Fresh ops are left alone").                                            *)
FreshOpsAreLeftAlone == [][SweepRemove => slot = NoOp \/ ~slot.fresh]_pendVars

(* What the context menu promises (pending-op.ts, usePendingOperation.ts):  *)
(* a panel takes only its own window's selections, fresh ones, and the      *)
(* worker's sweep removes the one it found.                                 *)
SelectionsArrive == [](pendTypeOK /\ SelectionsAreOwnAndFresh) /\ SweepsComeBackForTheSame
=============================================================================
