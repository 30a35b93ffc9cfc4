------------------------------- MODULE MCPanel --------------------------------
(***************************************************************************)
(* What the panel is handed and must answer or await: selections of the    *)
(* context menu, lookups of keys, translations, and the calls of two       *)
(* windows on the contacts, side by side as in MCStorage.                  *)
(***************************************************************************)
EXTENDS PendingOp, Lookup, Translate, TLC

CONSTANTS left, right, one, two,
  Ids, Windows, Tasks, WindowOf, OthersCarry,
  MaxTime, MaxSaves, MaxLocks, MaxCloses, MaxCopies, MaxGone

VARIABLES part, blob, past, ledger, holders, session, issues, tasks, now, spent, seen

Contacts == INSTANCE ContactStore
MCTwoWindows == (one :> left) @@ (two :> right)

storeVars == <<blob, past, ledger, holders, session, issues, tasks, now, spent, seen>>
PanelVars == <<part, pendVars, lookupVars, translateVars, storeVars>>

Part == {"selections", "lookup", "translation", "contacts"}
On(p) == part = p /\ part' = p
Still(p, settled) == part # p => settled

PanelInit ==
    /\ part \in Part
    /\ pendInit /\ lookupInit /\ translateInit /\ Contacts!Init
    /\ Still("translation", pack = "available")

PanelPartsNext ==
    \/ On("selections") /\ pendNext /\ UNCHANGED <<lookupVars, translateVars, storeVars>>
    \/ On("lookup") /\ lookupNext /\ UNCHANGED <<pendVars, translateVars, storeVars>>
    \/ On("translation") /\ translateNext /\ UNCHANGED <<pendVars, lookupVars, storeVars>>
    \/ On("contacts") /\ Contacts!Next /\ UNCHANGED <<pendVars, lookupVars, translateVars>>

\* The fairness of each part's own module, while that part runs.
PanelFairness ==
    /\ \A w \in PanelWindow : WF_pendVars(On("selections") /\ PanelNext(w))
    /\ \A i \in 1..MaxRuns : WF_translateVars(On("translation") /\ RunStep(i))
    /\ WF_lookupVars(On("lookup") /\ StartFetch)
    /\ WF_lookupVars(On("lookup") /\ Deadline)
    /\ WF_lookupVars(On("lookup") /\ Answered)
    /\ \A t \in Tasks : /\ WF_storeVars(On("contacts") /\ Contacts!Moves(t))
                        /\ SF_storeVars(On("contacts") /\ Contacts!EnterLedger(t))

PanelSpec == PanelInit /\ [][PanelPartsNext]_PanelVars /\ PanelFairness

\* What somebody waits for: a window or a lookup, a translation, a call, by number.
Waiting(i) ==
    CASE part = "selections" -> Untaken(<<"a", "b">>[i])
      [] part = "lookup" -> i = 1 /\ asks # NoAsk
      [] part = "translation" -> Unfinished(i)
      [] part = "contacts" -> tasks[<<one, two>>[i]].pc # "idle"

(* OpenPanelsTakeSelections, LookupsEnd, RunsEnd and the contacts' CallsEnd *)
(* at once.  A selection is taken by the open panel of its window, a lookup *)
(* is answered, a translation ends, and so does a call on the contacts: the *)
(* change event is not missed, the deadline holds however slowly an answer  *)
(* trickles, and a chain or a lock is passed on whatever became of the one  *)
(* that held it (usePendingOperation.ts:39, background.ts:47,               *)
(* translate.ts:83, engine.ts:48).                                          *)
EveryWaitEnds == \A i \in 1..2 : Waiting(i) ~> ~Waiting(i)
=============================================================================
