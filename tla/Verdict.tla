------------------------------- MODULE Verdict -----------------------------
(***************************************************************************)
(* What the user is told about signatures: a verify or a decrypt reads its *)
(* messages one after the other, and one card speaks for all of them.      *)
(* Green means that every one is signed by the same known, current key and *)
(* not for somebody else; amber says what is missing.                      *)
(***************************************************************************)
EXTENDS FiniteSets, Sequences, Naturals

CONSTANTS SignerId,   \* keys that sign
          Me, Other,  \* people a message may be signed for
          MaxMessages    \* messages of one run

\* A key is told from "nobody" and from "several".
ASSUME SignerAssumption == SignerId \cap {"none", "mixed"} = {} /\ MaxMessages \in Nat

VARIABLES held,       \* RunContext: the signers held as contacts, or vouched for, when a run begins
          op,         \* the run: its mode and the messages still to read
          batch,      \* the engine's results
          card,       \* what is shown
          downloads   \* files saved by this run

verdictVars == <<held, op, batch, card, downloads>>

Result == [status : {"valid", "unknown_key", "invalid", "unsigned"}, signer : SignerId, current : BOOLEAN,
           intended : SUBSET {Me, Other}, others : SUBSET SignerId]
\* The fields of a result say something only if a signature verified.
Plausible(r) == r.status = "valid" \/ (r.current /\ r.intended = {} /\ r.others = {})
NoRun == [mode |-> "none"]
NoCard == [shown |-> FALSE]

verdictInit ==
    /\ held \in [known : SUBSET SignerId, vouched : SUBSET SignerId] /\ held.vouched \subseteq held.known
    /\ op = NoRun /\ batch = <<>> /\ card = NoCard /\ downloads = 0
----------------------------------------------------------------------------
ForOthers(r) == r.intended # {} /\ Me \notin r.intended
NotAddressed(r, mode) == mode = "decrypt" /\ r.intended = {}

\* signatureVerdict: one result, and whether the message was encrypted at all.
Unsigned == [tone |-> "none", signer |-> "none", caveat |-> FALSE, notes |-> {}]
Amber(signer) == [tone |-> "warning", signer |-> signer, caveat |-> FALSE, notes |-> {}]
Caveat(r, mode) == mode = "plain" \/ ForOthers(r) \/ ~r.current
Notes(r, mode) ==
    {<<"cosigner", s>> : s \in r.others} \cup (IF ForOthers(r) THEN {<<"for others", Me>>} ELSE {})
    \cup (IF NotAddressed(r, mode) THEN {<<"not addressed", Me>>} ELSE {})
    \cup (IF r.signer \notin held.vouched THEN {<<"not vouched", r.signer>>} ELSE {})
SignatureVerdict(r, mode) ==
    IF r.status = "valid"
    THEN IF r.signer \in held.known
         THEN [tone |-> IF Caveat(r, mode) THEN "warning" ELSE "success", signer |-> r.signer, caveat |-> Caveat(r, mode), notes |-> Notes(r, mode)]
         ELSE [Unsigned EXCEPT !.tone = "verified"]
    ELSE IF r.status = "unknown_key" THEN Amber(r.signer)
    ELSE IF mode = "plain" THEN Amber("none") ELSE Unsigned

\* summariseBatch: one result for several files by one signer.
IntendedOf(b) ==
    IF \E i \in DOMAIN b : ForOthers(b[i])
    THEN b[CHOOSE i \in DOMAIN b : ForOthers(b[i])].intended ELSE {}
FirstOnly(b) == b[1].others  \* mutant
Cosigners(b) == UNION {b[i].others : i \in DOMAIN b}
SameSigner(b) == \A i \in DOMAIN b : b[i].status = "valid" /\ b[i].signer = b[1].signer
BatchVerdict(b, mode) ==
    IF \A i \in DOMAIN b : b[i].status = "unsigned" THEN Unsigned
    ELSE IF SameSigner(b)
    THEN SignatureVerdict([b[1] EXCEPT !.current = \A i \in DOMAIN b : b[i].current, !.intended = IntendedOf(b), !.others = Cosigners(b)], mode)
    ELSE Amber("mixed")
VerdictOf(b, mode) == IF Len(b) = 1 THEN SignatureVerdict(b[1], mode) ELSE BatchVerdict(b, mode)
\* signerCardState: what the card says; an unverified one has no notes.
Unverified(v) == v.tone = "warning" /\ ~v.caveat
Told(v) == IF Unverified(v) THEN {} ELSE v.notes
CardOf(b, mode) ==
    LET v == VerdictOf(b, mode)
    IN  [shown |-> TRUE, tone |-> v.tone, signer |-> v.signer, told |-> Told(v), mode |-> mode, b |-> b, held |-> held]
----------------------------------------------------------------------------
(* The run.  "plain" is a decrypt of a message that was only signed.       *)

StartRun(mode, files) ==
    /\ op = NoRun /\ (mode = "plain" => files = 1)
    /\ op' = [mode |-> mode, left |-> files] /\ batch' = <<>> /\ card' = NoCard /\ downloads' = 0
    /\ UNCHANGED held
FailedCard(r) == op' = NoRun /\ card' = [shown |-> FALSE] /\ UNCHANGED downloads
\* refuseInvalid: a decrypt ends at the first message that was tampered with.
SavesAtTheEnd(r) == UNCHANGED downloads
ReadOne(r) ==
    /\ op # NoRun /\ op.left > 0
    /\ batch' = Append(batch, r)
    /\ IF op.mode # "verify" /\ r.status = "invalid" THEN FailedCard(r)
       ELSE op' = [op EXCEPT !.left = @ - 1] /\ SavesAtTheEnd(r) /\ UNCHANGED card
    /\ UNCHANGED held
\* A verify speaks for all of its files or for none.
FailsVerify(b) == \E i \in DOMAIN b : b[i].status \in {"invalid", "unsigned"}
EndRun ==
    /\ op # NoRun /\ op.left = 0
    /\ IF op.mode = "verify" /\ FailsVerify(batch) THEN FailedCard(batch[1])
       ELSE /\ card' = CardOf(batch, op.mode)
            /\ downloads' = IF op.mode # "verify" \/ (Len(batch) = 1 /\ batch[1].status = "valid") THEN Len(batch) ELSE 0
            /\ op' = NoRun
    /\ UNCHANGED <<held, batch>>

verdictNext ==
    \/ \E mode \in {"verify", "decrypt", "plain"}, files \in 1..MaxMessages : StartRun(mode, files)
    \/ \E r \in {x \in Result : Plausible(x)} : ReadOne(r)
    \/ EndRun
verdictSpec == verdictInit /\ [][verdictNext]_verdictVars
----------------------------------------------------------------------------
verdictTypeOK ==
    /\ held.vouched \subseteq held.known /\ op.mode \in {"none", "verify", "decrypt", "plain"}
    /\ batch \in Seq(Result) /\ Len(batch) <= MaxMessages /\ downloads \in 0..MaxMessages

Files == {card.b[i] : i \in DOMAIN card.b}
(* Green speaks for every file: each alone would be green, by one signer;   *)
(* no file vouches for another beside it.                                   *)
GreenIsEveryFile ==
    card.shown /\ card.tone = "success" =>
        \A r \in Files : /\ r.status = "valid" /\ r.signer = card.signer /\ r.signer \in card.held.known
                         /\ r.current /\ (r.intended = {} \/ Me \in r.intended) /\ card.mode # "plain"

(* Every other key that signed any of the files is named on a known         *)
(* signer's card.                                                           *)
CosignersAreTold ==
    card.shown /\ card.tone \in {"success", "warning"} /\ card.signer \in SignerId /\ (\E r \in Files : r.status = "valid")
        => \A r \in Files : \A s \in r.others : <<"cosigner", s>> \in card.told

(* A run over a tampered message saves nothing and shows nothing, whatever  *)
(* was read before it; a verify with one unsigned file says so for all.     *)
TamperedShowsNothing == (\E i \in DOMAIN batch : batch[i].status = "invalid") => ~card.shown /\ downloads = 0
UnsignedVerifyFails == card.shown /\ card.mode = "verify" => \A r \in Files : r.status # "unsigned"

(* What the signer card promises over a run's messages (signature-summary,  *)
(* signer-card, the operations): green is every message's verdict, further  *)
(* signers are told, a tampered message shows nothing, and text that nobody *)
(* signed never passes for verified.                                        *)
GreenIsEarned == verdictTypeOK /\ GreenIsEveryFile /\ CosignersAreTold /\ TamperedShowsNothing /\ UnsignedVerifyFails
=============================================================================
