-------------------------------- MODULE Ledger --------------------------------
(***************************************************************************)
(* The sealed integrity ledger of one device (src/lib/storage/integrity.ts)*)
(* for one store: the highest generation seen, the fingerprints ever seen  *)
(* revoked, whether this ledger replaced a lost one, and the older copy    *)
(* that the settings are held at.  Only values and the updates made to     *)
(* them; the locking around an update is in the module that uses it.       *)
(***************************************************************************)
EXTENDS Integers

CONSTANTS
  Ids,        \* contact fingerprints
  MaxGen      \* bound on generations

Unmarked == -1
Generation == 0 .. MaxGen
NotHeld == [kind |-> "none", gen |-> 0, mark |-> 0]
Held == [kind : {"rolled-back", "no-generation"}, gen : Generation, mark : Generation]

\* "good" opens under the vault's key; "junk" does not.
Ledgers == [state : {"good", "absent", "junk"}, mark : Generation \cup {Unmarked},
            floor : SUBSET Ids, lost : {"none", "missing", "ledger-unreadable"},
            suspect : Held \cup {NotHeld}]

EmptyLedger == [state |-> "good", mark |-> Unmarked, floor |-> {}, lost |-> "none",
                suspect |-> NotHeld]
AbsentLedger == [EmptyLedger EXCEPT !.state = "absent"]
JunkLedger == [EmptyLedger EXCEPT !.state = "junk"]

\* What a proven update starts from when no ledger opened: an empty one,
\* marked lost when one evidently existed.
QuietReplacement(found, storesCarryGenerations) == EmptyLedger  \* mutant
Replacement(found, storesCarryGenerations) ==
  [EmptyLedger EXCEPT !.lost =
     IF found = "junk" THEN "ledger-unreadable"
     ELSE IF storesCarryGenerations THEN "missing" ELSE "none"]

Older(l, gen) == l.mark # Unmarked /\ gen < l.mark
OlderKind(gen) == IF gen = 0 THEN "no-generation" ELSE "rolled-back"

\* observeGeneration: a lower generation leaves the mark alone; the settings
\* are held at it until the user dismisses the warning.
AdoptAnyGeneration(l, gen, held) == [l EXCEPT !.mark = gen]  \* mutant: no check
ObserveGeneration(l, gen, held) ==
  IF ~Older(l, gen) THEN [l EXCEPT !.mark = gen]
  ELSE IF held THEN [l EXCEPT !.suspect = [kind |-> OlderKind(gen), gen |-> gen, mark |-> l.mark]]
  ELSE l

\* recordWrite: only ever raises the mark.
RecordWrite(l, gen) == IF l.mark >= gen THEN l ELSE [l EXCEPT !.mark = gen]

\* recordRevoked: fingerprints are only ever added.
RecordRevoked(l, ids) == [l EXCEPT !.floor = @ \cup ids]

\* acknowledgeIntegrityIssues: the mark drops to the held copy's generation
\* unless something was written since it was held.
Acknowledge(l) ==
  [l EXCEPT !.lost = "none", !.suspect = NotHeld,
            !.mark = IF l.suspect # NotHeld /\ l.mark = l.suspect.mark
                     THEN l.suspect.gen ELSE l.mark]

\* claimGeneration: above what this device has seen, and at least the clock.
ClaimNextTick(l, now) == (IF l.mark >= now THEN l.mark ELSE now) + 2  \* mutant
ClaimGeneration(l, now) ==
  LET next == (IF l.mark = Unmarked THEN 0 ELSE l.mark) + 1
  IN IF next >= now THEN next ELSE now
=============================================================================
