----------------------------- MODULE PanelProofs -----------------------------
(***************************************************************************)
(* What the panel tells its user: of the signatures of a run, for any      *)
(* number of messages and signers; of a key that was looked up, for any    *)
(* account and any network; of the key it imports, for any texts and       *)
(* files, in any order; of what it translates, for any translations        *)
(* started, aborted and overtaken; and of the selections it takes, for any *)
(* windows and any number of them.                                         *)
(***************************************************************************)
EXTENDS Verdict, Lookup, ImportPage, Translate, PendingOp, FiniteSetTheorems, SequenceTheorems, TLAPS

-----------------------------------------------------------------------------
(* The signer card.  A run over a tampered message never gets as far as a   *)
(* card, and a card is the verdict over all that the run read.              *)

Modes == {"verify", "decrypt", "plain"}
Runs == [mode : Modes, left : 0 .. MaxMessages]
Untampered(b) == \A i \in DOMAIN b : b[i].status # "invalid"

RunTypes ==
    /\ held.vouched \subseteq held.known
    /\ op = NoRun \/ (op \in Runs /\ Len(batch) + op.left \in 1 .. MaxMessages)
    /\ batch \in Seq(Result) /\ Len(batch) <= MaxMessages /\ downloads \in 0 .. MaxMessages
RunningShowsNothing ==
    op # NoRun =>
        /\ ~card.shown /\ downloads = 0
        /\ op.mode # "verify" => Untampered(batch)
CardIsOfTheBatch ==
    card.shown =>
        /\ \E mode \in Modes : /\ card = CardOf(batch, mode)
                               /\ mode = "verify" => ~FailsVerify(batch)
        /\ batch # <<>> /\ Untampered(batch)
EndedWithoutACard == ~card.shown /\ ~Untampered(batch) => downloads = 0

VerdictIInv == RunTypes /\ RunningShowsNothing /\ CardIsOfTheBatch /\ EndedWithoutACard

\* One result: green is a known, current signer who wrote to us or to nobody in
\* particular; a known signer's cosigners are among the notes.
LEMMA OneVerdict ==
  ASSUME NEW r \in Result, NEW mode
  PROVE  LET v == SignatureVerdict(r, mode) IN
         /\ v.tone = "success" =>
              /\ r.status = "valid" /\ v.signer = r.signer /\ r.signer \in held.known
              /\ mode # "plain" /\ ~ForOthers(r) /\ r.current
         /\ v.tone \in {"success", "warning"} /\ v.signer \in SignerId =>
              \/ r.status = "unknown_key"
              \/ \A s \in r.others : <<"cosigner", s>> \in Told(v)
<1> DEFINE v == SignatureVerdict(r, mode)
<1>1. CASE r.status = "valid" /\ r.signer \in held.known
  <2>1. v = [tone |-> IF Caveat(r, mode) THEN "warning" ELSE "success", signer |-> r.signer,
             caveat |-> Caveat(r, mode), notes |-> Notes(r, mode)]
    BY <1>1 DEF SignatureVerdict
  <2>2. v.tone = "success" => ~Caveat(r, mode)
    BY <2>1
  <2>3. Told(v) = Notes(r, mode)
    <3>1. ~Unverified(v)
      BY <2>1 DEF Unverified
    <3> QED
      BY <2>1, <3>1 DEF Told
  <2>4. \A s \in r.others : <<"cosigner", s>> \in Notes(r, mode)
    BY DEF Notes
  <2> QED
    BY <1>1, <2>1, <2>2, <2>3, <2>4 DEF Caveat
<1>2. CASE r.status = "valid" /\ r.signer \notin held.known
  <2>1. v.tone = "verified"
    BY <1>2 DEF SignatureVerdict, Unsigned
  <2> QED
    BY <2>1
<1>3. CASE r.status = "unknown_key"
  <2>1. v.tone = "warning"
    BY <1>3 DEF SignatureVerdict, Amber
  <2> QED
    BY <1>3, <2>1
<1>4. CASE r.status \notin {"valid", "unknown_key"}
  <2>1. v = Amber("none") \/ v = Unsigned
    BY <1>4 DEF SignatureVerdict
  <2>2. v.tone # "success" /\ v.signer = "none"
    BY <2>1 DEF Amber, Unsigned
  <2> QED
    BY <2>2, SignerAssumption
<1> QED
  BY <1>1, <1>2, <1>3, <1>4

\* Several files by one signer, as one result.
Together(b) == [b[1] EXCEPT !.current = \A i \in DOMAIN b : b[i].current,
                            !.intended = IntendedOf(b), !.others = Cosigners(b)]

LEMMA TogetherIsAll ==
  ASSUME NEW b \in Seq(Result), b # <<>>
  PROVE  /\ 1 \in DOMAIN b /\ \A i \in DOMAIN b : b[i] \in Result
         /\ Together(b) \in Result /\ Together(b).status = b[1].status
         /\ Together(b).signer = b[1].signer
         /\ Together(b).current => \A i \in DOMAIN b : b[i].current
         /\ ~ForOthers(Together(b)) => \A i \in DOMAIN b : ~ForOthers(b[i])
         /\ \A i \in DOMAIN b : b[i].others \subseteq Together(b).others
<1>1. 1 \in DOMAIN b /\ \A i \in DOMAIN b : b[i] \in Result
  BY EmptySeq, LenProperties, ElementOfSeq
<1> DEFINE c == \A i \in DOMAIN b : b[i].current
<1>2. IntendedOf(b) \in SUBSET {Me, Other}
      /\ ((\E i \in DOMAIN b : ForOthers(b[i])) =>
           IntendedOf(b) # {} /\ Me \notin IntendedOf(b))
  <2>1. CASE \E i \in DOMAIN b : ForOthers(b[i])
    <3> DEFINE k == CHOOSE i \in DOMAIN b : ForOthers(b[i])
    <3>1. k \in DOMAIN b /\ ForOthers(b[k])
      BY <2>1
    <3>2. IntendedOf(b) = b[k].intended
      BY <2>1 DEF IntendedOf
    <3> HIDE DEF k
    <3> QED
      BY <1>1, <3>1, <3>2 DEF ForOthers, Result
  <2>2. CASE ~\E i \in DOMAIN b : ForOthers(b[i])
    BY <2>2 DEF IntendedOf
  <2> QED
    BY <2>1, <2>2
<1>3. Cosigners(b) \in SUBSET SignerId /\ \A i \in DOMAIN b : b[i].others \subseteq Cosigners(b)
  BY <1>1 DEF Cosigners, Result
<1>4. c \in BOOLEAN
  OBVIOUS
<1> HIDE DEF c
<1> DEFINE x == [b[1] EXCEPT !.current = c]
<1> DEFINE y == [x EXCEPT !.intended = IntendedOf(b)]
<1> DEFINE z == [y EXCEPT !.others = Cosigners(b)]
<1>5. x \in Result /\ x.status = b[1].status /\ x.signer = b[1].signer /\ x.current = c
  BY <1>1, <1>4 DEF Result
<1>6. y \in Result /\ y.status = b[1].status /\ y.signer = b[1].signer /\ y.current = c
      /\ y.intended = IntendedOf(b)
  <2> HIDE DEF x
  <2> QED
    BY <1>2, <1>5 DEF Result
<1>7. z \in Result /\ z.status = b[1].status /\ z.signer = b[1].signer /\ z.current = c
      /\ z.intended = IntendedOf(b) /\ z.others = Cosigners(b)
  <2> HIDE DEF y
  <2> QED
    BY <1>3, <1>6 DEF Result
<1>8. Together(b) = z
  BY <1>1 DEF Together, Result, c
<1> HIDE DEF z
<1> QED
  BY <1>1, <1>2, <1>3, <1>7, <1>8 DEF c, ForOthers

\* The card of a run speaks for every message of the run.
LEMMA CardIsEarned ==
  ASSUME NEW b \in Seq(Result), b # <<>>, NEW mode
  PROVE  LET v == VerdictOf(b, mode) IN
         /\ v.tone = "success" =>
              \A i \in DOMAIN b :
                 /\ b[i].status = "valid" /\ b[i].signer = v.signer /\ v.signer \in held.known
                 /\ b[i].current /\ ~ForOthers(b[i]) /\ mode # "plain"
         /\ v.tone \in {"success", "warning"} /\ v.signer \in SignerId
            /\ (\E i \in DOMAIN b : b[i].status = "valid") =>
              \A i \in DOMAIN b : \A s \in b[i].others : <<"cosigner", s>> \in Told(v)
<1>0. 1 \in DOMAIN b /\ \A i \in DOMAIN b : b[i] \in Result
  BY TogetherIsAll
<1>1. CASE Len(b) = 1
  <2>1. VerdictOf(b, mode) = SignatureVerdict(b[1], mode)
    BY <1>1 DEF VerdictOf
  <2>2. \A i \in DOMAIN b : i = 1
    BY <1>1, LenProperties
  <2> QED
    BY <1>0, <2>1, <2>2, OneVerdict
<1>2. CASE Len(b) # 1 /\ (\A i \in DOMAIN b : b[i].status = "unsigned")
  <2>1. VerdictOf(b, mode) = Unsigned
    BY <1>2 DEF VerdictOf, BatchVerdict
  <2> QED
    BY <1>2, <2>1 DEF Unsigned
<1>3. CASE Len(b) # 1 /\ ~(\A i \in DOMAIN b : b[i].status = "unsigned") /\ ~SameSigner(b)
  <2>1. VerdictOf(b, mode) = Amber("mixed")
    BY <1>3 DEF VerdictOf, BatchVerdict
  <2>2. VerdictOf(b, mode).tone = "warning" /\ VerdictOf(b, mode).signer = "mixed"
    BY <2>1 DEF Amber
  <2> QED
    BY <2>2, SignerAssumption
<1>4. CASE Len(b) # 1 /\ ~(\A i \in DOMAIN b : b[i].status = "unsigned") /\ SameSigner(b)
  <2>1. VerdictOf(b, mode) = SignatureVerdict(Together(b), mode)
    BY <1>4 DEF VerdictOf, BatchVerdict, Together
  <2>2. \A i \in DOMAIN b : b[i].status = "valid" /\ b[i].signer = b[1].signer
    BY <1>4 DEF SameSigner
  <2>3. PICK r \in Result : r = Together(b)
    BY TogetherIsAll
  <2>4. r.status = "valid"
    BY <1>0, <2>2, <2>3, TogetherIsAll
  <2> DEFINE v == SignatureVerdict(r, mode)
  <2>5. v.tone = "success" =>
          /\ v.signer = r.signer /\ r.signer \in held.known /\ mode # "plain"
          /\ ~ForOthers(r) /\ r.current
    BY OneVerdict
  <2>6. v.tone \in {"success", "warning"} /\ v.signer \in SignerId =>
          \A s \in r.others : <<"cosigner", s>> \in Told(v)
    BY <2>4, OneVerdict
  <2>7. VerdictOf(b, mode) = v
    BY <2>1, <2>3
  <2> HIDE DEF v
  <2> QED
    BY <1>0, <2>2, <2>3, <2>5, <2>6, <2>7, TogetherIsAll
<1> QED
  BY <1>1, <1>2, <1>3, <1>4

\* Who is held is that of the beginning of the run: a card stays what it said.
LEMMA CardStays ==
  ASSUME held' = held, batch' = batch, NEW mode
  PROVE  CardOf(batch, mode)' = CardOf(batch, mode)
<1>1. VerdictOf(batch, mode)' = VerdictOf(batch, mode)
  BY DEF VerdictOf, BatchVerdict, SignatureVerdict, Notes
<1> QED
  BY <1>1 DEF CardOf

LEMMA InitVerdict == verdictInit => VerdictIInv
<1> SUFFICES ASSUME verdictInit PROVE VerdictIInv
  OBVIOUS
<1>1. batch = <<>> /\ batch \in Seq(Result) /\ Len(batch) = 0 /\ DOMAIN batch = {}
  BY DEF verdictInit
<1>2. ~card.shown /\ op = NoRun /\ downloads = 0
  BY DEF verdictInit, NoCard
<1> QED
  BY <1>1, <1>2, SignerAssumption
  DEF verdictInit, VerdictIInv, RunTypes, RunningShowsNothing, CardIsOfTheBatch,
      EndedWithoutACard

LEMMA NextVerdict == VerdictIInv /\ [verdictNext]_verdictVars => VerdictIInv'
<1> SUFFICES ASSUME VerdictIInv, [verdictNext]_verdictVars PROVE VerdictIInv'
  OBVIOUS
<1>0. /\ RunTypes /\ Len(batch) \in Nat /\ MaxMessages \in Nat
      /\ DOMAIN batch = 1 .. Len(batch)
  BY SignerAssumption, LenProperties DEF VerdictIInv, RunTypes
<1>1. ASSUME NEW mode \in Modes, NEW messages \in 1 .. MaxMessages, StartRun(mode, messages)
      PROVE  VerdictIInv'
  <2>1. /\ op' = [mode |-> mode, left |-> messages] /\ batch' = <<>> /\ card' = NoCard
        /\ downloads' = 0 /\ held' = held
    BY <1>1 DEF StartRun
  <2>2. op' \in Runs /\ op'.left = messages
    BY <1>0, <2>1 DEF Runs
  <2>3. batch' \in Seq(Result) /\ Len(batch') = 0 /\ DOMAIN batch' = {}
    BY <2>1
  <2>4. RunTypes'
    <3>1. op' \in Runs /\ Len(batch') + op'.left \in 1 .. MaxMessages
      BY <1>0, <2>2, <2>3
    <3>2. Len(batch') <= MaxMessages /\ downloads' \in 0 .. MaxMessages
      BY <1>0, <2>1, <2>3
    <3> QED
      BY <1>0, <2>1, <2>3, <3>1, <3>2 DEF RunTypes
  <2>5. ~card'.shown
    BY <2>1 DEF NoCard
  <2> QED
    BY <2>1, <2>3, <2>4, <2>5
    DEF VerdictIInv, RunningShowsNothing, CardIsOfTheBatch, EndedWithoutACard, Untampered
<1>2. ASSUME NEW r \in Result, ReadOne(r) PROVE VerdictIInv'
  <2>1. /\ op # NoRun /\ op \in Runs /\ op.left > 0 /\ batch' = Append(batch, r)
        /\ held' = held /\ downloads' = downloads
    BY <1>0, <1>2 DEF ReadOne, RunTypes, FailedCard, SavesAtTheEnd
  <2>2. /\ batch' \in Seq(Result) /\ Len(batch') = Len(batch) + 1
        /\ DOMAIN batch' = 1 .. Len(batch) + 1
        /\ \A i \in 1 .. Len(batch) : batch'[i] = batch[i]
        /\ batch'[Len(batch) + 1] = r
    BY <1>0, <2>1, AppendProperties, LenProperties DEF RunTypes
  <2>3. ~card.shown /\ downloads = 0 /\ (op.mode # "verify" => Untampered(batch))
    BY <2>1 DEF VerdictIInv, RunningShowsNothing
  <2>4. op.left \in 0 .. MaxMessages /\ Len(batch) + op.left \in 1 .. MaxMessages
    BY <1>0, <2>1 DEF RunTypes, Runs
  <2>5. CASE op.mode # "verify" /\ r.status = "invalid"
    <3>1. op' = NoRun /\ ~card'.shown
      BY <1>2, <2>5 DEF ReadOne, FailedCard
    <3>2. RunTypes'
      BY <1>0, <2>1, <2>2, <2>3, <2>4, <3>1 DEF RunTypes
    <3> QED
      BY <2>1, <2>3, <3>1, <3>2
      DEF VerdictIInv, RunningShowsNothing, CardIsOfTheBatch, EndedWithoutACard
  <2>6. CASE ~(op.mode # "verify" /\ r.status = "invalid")
    <3>1. op' = [op EXCEPT !.left = op.left - 1] /\ card' = card
      BY <1>2, <2>6 DEF ReadOne
    <3>2. op' \in Runs /\ op'.mode = op.mode /\ op'.left = op.left - 1
      <4>1. op.left - 1 \in 0 .. MaxMessages
        BY <1>0, <2>1, <2>4
      <4> QED
        BY <2>1, <3>1, <4>1 DEF Runs
    <3>3. RunTypes'
      BY <1>0, <2>1, <2>2, <2>3, <2>4, <3>2 DEF RunTypes
    <3>4. op'.mode # "verify" => Untampered(batch')
      <4> SUFFICES ASSUME op.mode # "verify", NEW i \in DOMAIN batch'
                   PROVE  batch'[i].status # "invalid"
        BY <3>2 DEF Untampered
      <4>1. CASE i \in 1 .. Len(batch)
        BY <1>0, <2>2, <2>3, <4>1 DEF Untampered
      <4>2. CASE i = Len(batch) + 1
        BY <2>2, <2>6, <4>2
      <4> QED
        BY <1>0, <2>2, <4>1, <4>2
    <3> QED
      BY <2>1, <2>3, <3>1, <3>2, <3>3, <3>4
      DEF VerdictIInv, RunningShowsNothing, CardIsOfTheBatch, EndedWithoutACard, Untampered
  <2> QED
    BY <2>5, <2>6
<1>3. CASE EndRun
  <2>1. op # NoRun /\ op \in Runs /\ op.left = 0 /\ UNCHANGED <<held, batch>>
    BY <1>0, <1>3 DEF EndRun, RunTypes
  <2>2. op' = NoRun
    BY <1>3 DEF EndRun, FailedCard
  <2>3. ~card.shown /\ downloads = 0 /\ (op.mode # "verify" => Untampered(batch))
    BY <2>1 DEF VerdictIInv, RunningShowsNothing
  <2>4. Len(batch) \in 1 .. MaxMessages /\ batch # <<>> /\ op.mode \in Modes
    BY <1>0, <2>1, EmptySeq DEF RunTypes, Runs
  <2>5. downloads' \in {0, Len(batch)}
    BY <1>3, <2>3 DEF EndRun, FailedCard
  <2>6. RunTypes'
    BY <1>0, <2>1, <2>2, <2>4, <2>5 DEF RunTypes
  <2>7. CASE op.mode = "verify" /\ FailsVerify(batch)
    <3>1. ~card'.shown /\ downloads' = downloads
      BY <1>3, <2>7 DEF EndRun, FailedCard
    <3> QED
      BY <2>2, <2>3, <2>6, <3>1
      DEF VerdictIInv, RunningShowsNothing, CardIsOfTheBatch, EndedWithoutACard
  <2>8. CASE ~(op.mode = "verify" /\ FailsVerify(batch))
    <3>1. card' = CardOf(batch, op.mode)
      BY <1>3, <2>8 DEF EndRun
    <3>2. card'.shown /\ card'.mode = op.mode
      BY <3>1 DEF CardOf
    <3>3. Untampered(batch)
      BY <2>3, <2>8 DEF Untampered, FailsVerify
    <3>4. PICK mode \in Modes : mode = op.mode
      BY <2>4
    <3>5. card' = CardOf(batch, mode)'
      BY <2>1, <3>1, <3>4, CardStays
    <3>6. (mode = "verify" => ~FailsVerify(batch)')
      BY <2>1, <2>8, <3>4 DEF FailsVerify
    <3>7. CardIsOfTheBatch'
      BY <2>1, <2>4, <3>3, <3>5, <3>6 DEF CardIsOfTheBatch, Untampered
    <3> QED
      BY <2>2, <2>6, <3>2, <3>7 DEF VerdictIInv, RunningShowsNothing, EndedWithoutACard
  <2> QED
    BY <2>7, <2>8
<1>4. CASE UNCHANGED verdictVars
  <2>1. held' = held /\ op' = op /\ batch' = batch /\ card' = card /\ downloads' = downloads
    BY <1>4 DEF verdictVars
  <2>2. ASSUME card.shown PROVE CardIsOfTheBatch'
    <3>1. PICK mode \in Modes : card = CardOf(batch, mode) /\ (mode = "verify" => ~FailsVerify(batch))
      BY <2>2 DEF VerdictIInv, CardIsOfTheBatch
    <3>2. card' = CardOf(batch, mode)'
      BY <2>1, <3>1, CardStays
    <3> QED
      BY <2>1, <2>2, <3>1, <3>2 DEF VerdictIInv, CardIsOfTheBatch, FailsVerify, Untampered
  <2>3. CardIsOfTheBatch'
    BY <2>1, <2>2 DEF CardIsOfTheBatch
  <2> QED
    BY <2>1, <2>3 DEF VerdictIInv, RunTypes, RunningShowsNothing, EndedWithoutACard, Untampered
<1> QED
  BY <1>1, <1>2, <1>3, <1>4 DEF verdictNext, Modes

\* Whatever the messages of a run, and however many keys signed them: green is
\* the verdict on every one of them, by one signer; cosigners are named; a run
\* over a tampered message shows and saves nothing (signature-summary.ts:
\* summariseBatch, signerCardState; operations/decrypt.ts, sign.ts).
THEOREM GreenSpeaksForAll == verdictSpec => []GreenIsEarned
<1>1. VerdictIInv => GreenIsEarned
  <2> SUFFICES ASSUME VerdictIInv PROVE GreenIsEarned
    OBVIOUS
  <2>1. verdictTypeOK
    <3>1. op.mode \in {"none", "verify", "decrypt", "plain"}
      BY DEF VerdictIInv, RunTypes, Runs, Modes, NoRun
    <3> QED
      BY <3>1 DEF VerdictIInv, RunTypes, verdictTypeOK
  <2>2. TamperedShowsNothing
    BY DEF VerdictIInv, CardIsOfTheBatch, EndedWithoutACard, Untampered, TamperedShowsNothing
  <2>3. ASSUME card.shown
        PROVE  /\ card.tone = VerdictOf(batch, card.mode).tone
               /\ card.signer = VerdictOf(batch, card.mode).signer
               /\ card.told = Told(VerdictOf(batch, card.mode))
               /\ card.b = batch /\ card.held = held
               /\ batch \in Seq(Result) /\ batch # <<>>
               /\ card.mode = "verify" => ~FailsVerify(batch)
    <3>1. PICK mode \in Modes : card = CardOf(batch, mode) /\ (mode = "verify" => ~FailsVerify(batch))
      BY <2>3 DEF VerdictIInv, CardIsOfTheBatch
    <3>2. /\ card.tone = VerdictOf(batch, mode).tone /\ card.mode = mode
          /\ card.signer = VerdictOf(batch, mode).signer
          /\ card.told = Told(VerdictOf(batch, mode)) /\ card.b = batch /\ card.held = held
      BY <3>1 DEF CardOf
    <3> QED
      BY <2>3, <3>1, <3>2 DEF VerdictIInv, CardIsOfTheBatch, RunTypes
  <2>4. GreenIsEveryFile
    <3> SUFFICES ASSUME card.shown, card.tone = "success", NEW i \in DOMAIN batch
                 PROVE  /\ batch[i].status = "valid" /\ batch[i].signer = card.signer
                        /\ batch[i].signer \in card.held.known /\ batch[i].current
                        /\ batch[i].intended = {} \/ Me \in batch[i].intended
                        /\ card.mode # "plain"
      BY <2>3 DEF GreenIsEveryFile, Files
    <3> QED
      BY <2>3, CardIsEarned DEF ForOthers
  <2>5. CosignersAreTold
    <3> SUFFICES ASSUME card.shown, card.tone \in {"success", "warning"},
                        card.signer \in SignerId, NEW k \in DOMAIN batch,
                        batch[k].status = "valid",
                        NEW i \in DOMAIN batch, NEW s \in batch[i].others
                 PROVE  <<"cosigner", s>> \in card.told
      BY <2>3 DEF CosignersAreTold, Files
    <3> QED
      BY <2>3, CardIsEarned
  <2>6. UnsignedVerifyFails
    BY <2>3 DEF UnsignedVerifyFails, Files, FailsVerify
  <2> QED
    BY <2>1, <2>2, <2>4, <2>5, <2>6 DEF GreenIsEarned
<1> QED
  BY <1>1, InitVerdict, NextVerdict, PTL DEF verdictSpec

-----------------------------------------------------------------------------
(* Key lookups.  While one runs the account is the one that was asked for,  *)
(* and an answer on its way accounts for every line of it.                  *)

Requests == [at : {"connecting", "body"}, deadline : BOOLEAN, name : {"asked"}]
Complete(r) ==
    /\ r.lines \subseteq account /\ r.omitted \in Nat
    /\ Cardinality(account) = Cardinality(r.lines) + r.omitted
    /\ r.name = "asked"
TrueFailure(r) == r.kind = "failed" /\ (r = Failed("no-keys") => account = {})

LookupIInv ==
    /\ asks \in {NoAsk, "github", "keyserver"} /\ account \subseteq PubLine
    /\ request = NoRequest \/ (request \in Requests /\ asks # NoAsk /\ reply = NoReply)
    /\ \/ reply = NoReply
       \/ asks # NoAsk /\ (reply = Dead \/ TrueFailure(reply)
                           \/ (reply.kind = "lines" /\ Complete(reply)))
    /\ shown.kind \in {"none", "failed", "keys"}
    /\ NothingSilentlyMissing /\ NoKeysIsTrue /\ AskedNameOnly

LEMMA LinesAdd ==
  ASSUME NEW S \in SUBSET PubLine, NEW T \in SUBSET S
  PROVE  /\ IsFiniteSet(S) /\ IsFiniteSet(T) /\ Cardinality(S \ T) \in Nat
         /\ Cardinality(T) \in Nat /\ Cardinality(S) = Cardinality(T) + Cardinality(S \ T)
<1>1. IsFiniteSet(S) /\ IsFiniteSet(T)
  BY LineAssumption, FS_Subset
<1>2. S \cap T = T
  OBVIOUS
<1>3. IsFiniteSet(S \ T) /\ Cardinality(S \ T) = Cardinality(S) - Cardinality(S \cap T)
  BY <1>1, FS_Difference
<1>4. Cardinality(S) \in Nat /\ Cardinality(T) \in Nat /\ Cardinality(S \ T) \in Nat
  BY <1>1, <1>3, FS_CardinalityType
<1> QED
  BY <1>1, <1>2, <1>3, <1>4

\* What the worker makes of the body: every listed line is forwarded or counted
\* as held back, and "no keys" is the answer for none at all.
LEMMA RepliesAreComplete ==
  ASSUME account \subseteq PubLine, request.name = "asked",
         NEW r \in Github(account) \cup Keyserver(account)
                   \cup {Failed(code) : code \in {"not-found", "rate-limited", "server-error"}}
  PROVE  r # NoReply /\ (TrueFailure(r) \/ (r.kind = "lines" /\ Complete(r)))
<1>1. CASE r \in {Failed(code) : code \in {"not-found", "rate-limited", "server-error"}}
  BY <1>1 DEF Failed, TrueFailure, NoReply
<1>2. ASSUME NEW lines \in SUBSET account, NEW n, n = HeldBack(account, lines),
             r = [kind |-> "lines", lines |-> lines, omitted |-> n, name |-> request.name]
      PROVE  r # NoReply /\ r.kind = "lines" /\ Complete(r)
  <2>1. r.kind = "lines" /\ r.lines = lines /\ r.omitted = n /\ r.name = request.name
    BY <1>2
  <2>2. n \in Nat /\ Cardinality(account) = Cardinality(lines) + n
    BY <1>2, LinesAdd DEF HeldBack
  <2> QED
    BY <2>1, <2>2 DEF Complete, NoReply
<1>3. CASE r \in Github(account)
  <2>1. PICK lines \in SUBSET account :
          r = IF NoKeys(lines, HeldBack(account, lines)) THEN Failed("no-keys")
              ELSE [kind |-> "lines", lines |-> lines, omitted |-> HeldBack(account, lines),
                    name |-> request.name]
    BY <1>3 DEF Github
  <2>2. CASE NoKeys(lines, HeldBack(account, lines))
    <3>1. lines = {} /\ Cardinality(account \ lines) = 0
      BY <2>2 DEF NoKeys, HeldBack
    <3>2. IsFiniteSet(account) /\ Cardinality(account) = 0
      BY <3>1, LinesAdd, FS_EmptySet
    <3>3. account = {}
      BY <3>2, FS_EmptySet
    <3> QED
      BY <2>1, <2>2, <3>3 DEF Failed, TrueFailure, NoReply
  <2>3. CASE ~NoKeys(lines, HeldBack(account, lines))
    BY <1>2, <2>1, <2>3
  <2> QED
    BY <2>2, <2>3
<1>4. CASE r \in Keyserver(account)
  <2>1. CASE account = {}
    BY <1>4, <2>1 DEF Keyserver, Failed, TrueFailure, NoReply
  <2>2. CASE account # {}
    <3>1. PICK k \in account :
            r = [kind |-> "lines", lines |-> {k}, omitted |-> HeldBack(account, {k}),
                 name |-> request.name]
      BY <1>4, <2>2 DEF Keyserver
    <3>2. {k} \in SUBSET account
      OBVIOUS
    <3> QED
      BY <1>2, <3>1, <3>2
  <2> QED
    BY <2>1, <2>2
<1> QED
  BY <1>1, <1>3, <1>4

LEMMA InitLookup == lookupInit => LookupIInv
  BY DEF lookupInit, LookupIInv, NoReply, NoAsk, NothingSilentlyMissing, NoKeysIsTrue,
     AskedNameOnly, Failed

\* The worker answers: only the reply and the request change.
LEMMA Replies ==
  ASSUME LookupIInv, asks # NoAsk, NEW r, Answers(r),
         r = Dead \/ TrueFailure(r) \/ (r.kind = "lines" /\ Complete(r)),
         UNCHANGED <<asks, account, shown, lookups>>
  PROVE  LookupIInv'
<1>1. reply' = r /\ request' = NoRequest
  BY DEF Answers
<1>2. (reply' = Dead \/ TrueFailure(reply)' \/ (reply'.kind = "lines" /\ Complete(reply)'))
  BY <1>1 DEF TrueFailure, Complete
<1> QED
  BY <1>1, <1>2 DEF LookupIInv, NothingSilentlyMissing, NoKeysIsTrue, AskedNameOnly

LEMMA NextLookup == LookupIInv /\ [lookupNext]_lookupVars => LookupIInv'
<1> SUFFICES ASSUME LookupIInv, [lookupNext]_lookupVars PROVE LookupIInv'
  OBVIOUS
<1>0. \A code : code # "no-keys" => TrueFailure(Failed(code))
  BY DEF TrueFailure, Failed
<1>r. request # NoRequest => request \in Requests /\ asks # NoAsk /\ reply = NoReply
  BY DEF LookupIInv
<1>n. NoRequest.at = "none" /\ \A r \in Requests : r.name = "asked"
  BY DEF NoRequest, Requests
<1>1. ASSUME NEW input, NEW keys \in SUBSET PubLine, Ask(input, keys) PROVE LookupIInv'
  <2>1. asks = NoAsk /\ reply = NoReply /\ request = NoRequest
    BY <1>1 DEF Ask, LookupIInv
  <2>2. CASE Target(input) = "invalid"
    <3>1. shown' = Failed("invalid") /\ UNCHANGED <<asks, account, request, reply>>
      BY <1>1, <2>2 DEF Ask
    <3>2. shown'.kind = "failed" /\ shown' # Failed("no-keys")
      BY <3>1 DEF Failed
    <3> QED
      BY <2>1, <3>1, <3>2 DEF LookupIInv, NothingSilentlyMissing, NoKeysIsTrue, AskedNameOnly
  <2>3. CASE Target(input) # "invalid"
    <3>1. asks' = Target(input) /\ account' = keys /\ shown' = NoReply
          /\ UNCHANGED <<request, reply>>
      BY <1>1, <2>3 DEF Ask
    <3>2. asks' \in {"github", "keyserver"}
      BY <2>3, <3>1 DEF Target
    <3>3. shown'.kind = "none" /\ shown' # Failed("no-keys")
      BY <3>1 DEF NoReply, Failed
    <3> QED
      BY <2>1, <3>1, <3>2, <3>3
      DEF LookupIInv, NothingSilentlyMissing, NoKeysIsTrue, AskedNameOnly
  <2> QED
    BY <2>2, <2>3
<1>2. CASE StartFetch
  <2>1. request' \in Requests /\ asks # NoAsk /\ UNCHANGED <<asks, reply, account, shown>>
    BY <1>2 DEF StartFetch, Requests
  <2>2. reply = NoReply
    BY <1>2 DEF StartFetch
  <2> QED
    BY <2>1, <2>2 DEF LookupIInv, NothingSilentlyMissing, NoKeysIsTrue, AskedNameOnly
<1>3. CASE Redirected \/ FetchFails
  BY <1>0, <1>3, <1>n, <1>r, Replies DEF Redirected, FetchFails, Redirect
<1>4. CASE Headers
  <2>1. request \in Requests /\ request' = [request EXCEPT !.at = "body"]
        /\ UNCHANGED <<asks, reply, account, shown>>
    BY <1>4, <1>n, <1>r DEF Headers, WithBody
  <2>2. request' \in Requests
    BY <2>1 DEF Requests
  <2>3. asks # NoAsk
    BY <1>4, <1>n, <1>r DEF Headers
  <2>4. reply' = NoReply
    BY <1>4, <1>n, <1>r, <2>1 DEF Headers
  <2> QED
    BY <2>1, <2>2, <2>3, <2>4 DEF LookupIInv, NothingSilentlyMissing, NoKeysIsTrue, AskedNameOnly
<1>5. CASE Deadline
  <2>1. request # NoRequest
    BY <1>5, <1>n DEF Deadline
  <2>2. PICK code \in {"offline", "server-error"} : Answers(Failed(code))
    BY <1>5 DEF Deadline
  <2> QED
    BY <1>0, <1>5, <1>r, <2>1, <2>2, Replies DEF Deadline
<1>6. CASE Body
  <2>1. request \in Requests /\ asks # NoAsk
    BY <1>6, <1>n, <1>r DEF Body
  <2>2. PICK r \in (IF asks = "github" THEN Github(account) ELSE Keyserver(account))
                    \cup {Failed(code) : code \in {"not-found", "rate-limited", "server-error"}} :
          Answers(r)
    BY <1>6 DEF Body
  <2>3. TrueFailure(r) \/ (r.kind = "lines" /\ Complete(r))
    BY <1>n, <2>1, <2>2, RepliesAreComplete DEF LookupIInv
  <2> QED
    BY <1>6, <2>1, <2>2, <2>3, Replies DEF Body
<1>7. CASE WorkerDies
  BY <1>7, <1>r, Replies DEF WorkerDies
<1>8. CASE Answered
  <2>1. /\ asks # NoAsk /\ reply # NoReply /\ shown' = Outcome /\ asks' = NoAsk
        /\ reply' = NoReply /\ UNCHANGED <<request, account, lookups>>
    BY <1>8 DEF Answered
  <2>2. request' = NoRequest
    BY <2>1 DEF LookupIInv
  <2>3. /\ shown'.kind \in {"failed", "keys"} /\ AskedNameOnly' /\ NoKeysIsTrue'
        /\ NothingSilentlyMissing'
    <3>1. CASE reply = Dead
      <4>1. shown' = Failed("unreachable")
        BY <2>1, <3>1 DEF Outcome, Dead
      <4>2. shown'.kind = "failed" /\ shown' # Failed("no-keys")
        BY <4>1 DEF Failed
      <4> QED
        BY <4>2 DEF NothingSilentlyMissing, NoKeysIsTrue, AskedNameOnly
    <3>2. CASE TrueFailure(reply)
      <4>1. shown' = reply
        BY <2>1, <3>2 DEF Outcome, TrueFailure, Dead
      <4> QED
        BY <2>1, <3>2, <4>1 DEF TrueFailure, NothingSilentlyMissing, NoKeysIsTrue, AskedNameOnly
    <3>3. CASE reply.kind = "lines" /\ Complete(reply)
      <4>1. shown' = Failed("not-a-key") \/ shown' = Engine(reply)
        BY <2>1, <3>3 DEF Outcome, Dead
      <4>2. CASE shown' = Failed("not-a-key")
        <5>1. shown'.kind = "failed" /\ shown' # Failed("no-keys")
          BY <4>2 DEF Failed
        <5> QED
          BY <5>1 DEF NothingSilentlyMissing, NoKeysIsTrue, AskedNameOnly
      <4>3. CASE shown' = Engine(reply)
        <5>1. /\ shown'.kind = "keys" /\ shown'.keys = reply.lines \ Unusable
              /\ shown'.refused = reply.lines \cap Unusable
              /\ shown'.omitted = reply.omitted /\ shown'.name = reply.name
          BY <4>3 DEF Engine
        <5> DEFINE L == reply.lines
        <5>2. L \in SUBSET PubLine /\ L \cap Unusable \in SUBSET L
              /\ L \ (L \cap Unusable) = L \ Unusable
          BY <3>3 DEF Complete, LookupIInv
        <5>3. Cardinality(L) = Cardinality(L \cap Unusable) + Cardinality(L \ Unusable)
              /\ Cardinality(L \cap Unusable) \in Nat /\ Cardinality(L \ Unusable) \in Nat
          <6> HIDE DEF L
          <6>1. /\ Cardinality(L \ (L \cap Unusable)) \in Nat
                /\ Cardinality(L \cap Unusable) \in Nat
                /\ Cardinality(L) = Cardinality(L \cap Unusable)
                                      + Cardinality(L \ (L \cap Unusable))
            BY <5>2, LinesAdd
          <6> QED
            BY <5>2, <6>1
        <5>4. NothingSilentlyMissing'
          BY <2>1, <3>3, <5>1, <5>3 DEF NothingSilentlyMissing, Complete
        <5> QED
          BY <3>3, <5>1, <5>4 DEF NoKeysIsTrue, AskedNameOnly, Complete, Failed
      <4> QED
        BY <4>1, <4>2, <4>3
    <3> QED
      BY <2>1, <3>1, <3>2, <3>3 DEF LookupIInv
  <2> QED
    BY <2>1, <2>2, <2>3 DEF LookupIInv
<1>9. CASE UNCHANGED lookupVars
  BY <1>9 DEF LookupIInv, lookupVars, NothingSilentlyMissing, NoKeysIsTrue, AskedNameOnly,
     TrueFailure, Complete
<1> QED
  BY <1>1, <1>2, <1>3, <1>4, <1>5, <1>6, <1>7, <1>8, <1>9 DEF lookupNext

\* Whatever the account holds and the network does: no line of a list is missing
\* unsaid, "no keys" is said only of an account without, and only the name that
\* was asked for is shown (background.ts, github/response.ts, run-lookup.ts).
THEOREM LookupsAreComplete == lookupSpec => []LookupsAreHonest
<1>1. LookupIInv => LookupsAreHonest
  <2> SUFFICES ASSUME LookupIInv PROVE LookupsAreHonest
    OBVIOUS
  <2>1. request.at \in {"none", "connecting", "body"}
    BY DEF LookupIInv, NoRequest, Requests
  <2>2. reply.kind \in {"none", "failed", "undefined", "lines"}
    BY DEF LookupIInv, NoReply, Dead, TrueFailure
  <2> QED
    BY <2>1, <2>2 DEF LookupIInv, LookupsAreHonest, lookupTypeOK
<1> QED
  BY <1>1, InitLookup, NextLookup, PTL DEF lookupSpec

-----------------------------------------------------------------------------
(* The import page.  Unless a picked file is read after the source step was *)
(* left, a reading is under way only while the source step is shown, and    *)
(* what is in the refs belongs to the key that is shown.                    *)

Steps == [kind : {"source", "preview", "protect"}, key : Text \cup {None}, enc : BOOLEAN]
Readings == [kind : {"preparing", "probing"}, text : Text]
Imports == [kind : {"writing"}, key : Text, shown : Text, phrase : Private \cup {None}]

PageTypes ==
    /\ at \in Steps /\ (at.kind = "protect" => at.key \in Private)
    /\ (at.kind # "source" => at.key \in Text)
    /\ armor \in Private \cup {None} /\ phrase \in Private \cup {None}
    /\ parser = Resting \/ parser \in Readings
    /\ (parser.kind = "probing" => parser.text \in Private)
    /\ importer = Resting \/ importer \in Imports
    /\ files \subseteq Text /\ visible \in {"open", "closing", "gone"}
    /\ finished \in BOOLEAN /\ late \in BOOLEAN
GoneIsBlank ==
    visible = "gone" =>
        at = Source /\ armor = None /\ phrase = None /\ parser = Resting /\ files = {}
ReadsAtTheSource == ~late /\ parser.kind # None => at.kind = "source"
RefIsOfTheShown ==
    ~late => /\ parser.kind = "probing" => armor \in {None, parser.text}
             /\ at.kind # "source" /\ at.key \in Private => armor \in {None, at.key}
PhraseIsOfTheShown == ~late => phrase = None \/ (at.kind # "source" /\ phrase = at.key)
WritesAreOfTheShown ==
    ~late => /\ importer.kind = "writing" =>
                  importer.key = importer.shown /\ importer.phrase \in {None, importer.shown}
             /\ \A w \in written : w.key = w.shown
WritesOnce ==
    /\ importer.kind = "writing" => written = {}
    /\ written # {} => finished \/ visible = "gone"
    /\ OneWritePerVisit

ImportIInv ==
    /\ PageTypes /\ GoneIsBlank /\ ReadsAtTheSource /\ RefIsOfTheShown
    /\ PhraseIsOfTheShown /\ WritesAreOfTheShown /\ WritesOnce
LEMMA Blanks ==
    /\ Source \in Steps /\ Source.kind = "source" /\ Source.key = None
    /\ Resting.kind = "none" /\ None = "none"
    /\ \A r \in Readings : r.kind \in {"preparing", "probing"} /\ r.text \in Text
    /\ \A w \in Imports : w.kind = "writing" /\ w.key \in Text /\ w.shown \in Text
  BY DEF Source, Resting, None, Steps, Readings, Imports


LEMMA InitImport == impInit => ImportIInv
  BY Blanks DEF impInit, Fresh,
     ImportIInv, PageTypes, GoneIsBlank, ReadsAtTheSource, RefIsOfTheShown,
     PhraseIsOfTheShown, WritesAreOfTheShown, WritesOnce, OneWritePerVisit

LEMMA NextImport == ImportIInv /\ [impNext]_impVars => ImportIInv'
<1> SUFFICES ASSUME ImportIInv, [impNext]_impVars PROVE ImportIInv'
  OBVIOUS
<1> USE ImportAssumption DEF Text
<1>1. ASSUME NEW text \in Text, PasteText(text) PROVE ImportIInv'
  BY <1>1 DEF PasteText, Reads, Free, Resting, Readings,
     ImportIInv, PageTypes, GoneIsBlank, ReadsAtTheSource, RefIsOfTheShown,
     PhraseIsOfTheShown, WritesAreOfTheShown, WritesOnce, OneWritePerVisit
<1>2. ASSUME NEW text \in Text, PickFile(text) PROVE ImportIInv'
  BY <1>2 DEF PickFile,
     ImportIInv, PageTypes, GoneIsBlank, ReadsAtTheSource, RefIsOfTheShown,
     PhraseIsOfTheShown, WritesAreOfTheShown, WritesOnce, OneWritePerVisit
<1>3. ASSUME NEW text \in Text, FileRead(text) PROVE ImportIInv'
  <2>1. PageTypes'
    BY <1>3, Blanks DEF FileRead, Reads, Free, Readings, ImportIInv, PageTypes
  <2>2. GoneIsBlank'
    BY <1>3, Blanks DEF FileRead, Reads, Free, Readings, ImportIInv, PageTypes, GoneIsBlank
  <2>3. ReadsAtTheSource'
    BY <1>3, Blanks DEF FileRead, Reads, Free, Readings, ImportIInv, PageTypes, GoneIsBlank, ReadsAtTheSource
  <2>4. RefIsOfTheShown'
    BY <1>3, Blanks DEF FileRead, Reads, Free, Readings, ImportIInv, PageTypes, ReadsAtTheSource, RefIsOfTheShown, GoneIsBlank, PhraseIsOfTheShown
  <2>5. PhraseIsOfTheShown'
    BY <1>3, Blanks DEF FileRead, Reads, Free, Readings, ImportIInv, PageTypes, ReadsAtTheSource, PhraseIsOfTheShown, GoneIsBlank
  <2>6. WritesAreOfTheShown'
    BY <1>3, Blanks DEF FileRead, Reads, Free, Readings, ImportIInv, PageTypes, RefIsOfTheShown, PhraseIsOfTheShown, WritesAreOfTheShown
  <2>7. WritesOnce'
    BY <1>3, Blanks DEF FileRead, Reads, Free, Readings, ImportIInv, PageTypes, WritesOnce, OneWritePerVisit
  <2> QED
    BY <2>1, <2>2, <2>3, <2>4, <2>5, <2>6, <2>7 DEF ImportIInv
<1>4. CASE Prepared
  <2>1. PageTypes'
    <3>1. parser \in Readings
      BY <1>4, Blanks DEF Prepared, ImportIInv, PageTypes
    <3>2. CASE parser.text \in Private /\ parser' = [parser EXCEPT !.kind = "probing"] /\ armor' = parser.text
               /\ UNCHANGED at
      <4>1. parser' \in Readings /\ parser'.text = parser.text
        BY <3>1, <3>2 DEF Readings
      <4> QED
        BY <1>4, <3>2, <4>1, Blanks DEF Prepared, ImportIInv, PageTypes
    <3>3. CASE parser' = Resting /\ UNCHANGED <<at, armor>>
      BY <1>4, <3>3, Blanks DEF Prepared, ImportIInv, PageTypes
    <3>4. CASE parser.text \in Public /\ parser' = Resting /\ Shows(parser.text, FALSE) /\ UNCHANGED armor
      <4>1. at' \in Steps /\ at'.kind = "preview" /\ at'.key \in Text
        BY <3>1, <3>4 DEF Shows, Steps
      <4> QED
        BY <1>4, <3>4, <4>1, Blanks DEF Prepared, ImportIInv, PageTypes
    <3> QED
      BY <1>4, <3>2, <3>3, <3>4 DEF Prepared
  <2>2. GoneIsBlank'
    BY <1>4, Blanks DEF Prepared, Shows, Readings, Steps, ImportIInv, PageTypes, GoneIsBlank
  <2>3. ReadsAtTheSource'
    BY <1>4, Blanks DEF Prepared, Shows, Readings, Steps, ImportIInv, PageTypes, GoneIsBlank, ReadsAtTheSource
  <2>4. RefIsOfTheShown'
    BY <1>4, Blanks DEF Prepared, Shows, Readings, Steps, ImportIInv, PageTypes, ReadsAtTheSource, RefIsOfTheShown, GoneIsBlank, PhraseIsOfTheShown
  <2>5. PhraseIsOfTheShown'
    BY <1>4, Blanks DEF Prepared, Shows, Readings, Steps, ImportIInv, PageTypes, ReadsAtTheSource, PhraseIsOfTheShown, GoneIsBlank
  <2>6. WritesAreOfTheShown'
    BY <1>4, Blanks DEF Prepared, Shows, Readings, Steps, ImportIInv, PageTypes, RefIsOfTheShown, PhraseIsOfTheShown, WritesAreOfTheShown
  <2>7. WritesOnce'
    BY <1>4, Blanks DEF Prepared, Shows, Readings, Steps, ImportIInv, PageTypes, WritesOnce, OneWritePerVisit
  <2> QED
    BY <2>1, <2>2, <2>3, <2>4, <2>5, <2>6, <2>7 DEF ImportIInv
<1>5. CASE Probed
  <2>1. PageTypes'
    BY <1>5, Blanks DEF Probed, Shows, Readings, Steps, ImportIInv, PageTypes
  <2>2. GoneIsBlank'
    BY <1>5, Blanks DEF Probed, Shows, Readings, Steps, ImportIInv, PageTypes, GoneIsBlank
  <2>3. ReadsAtTheSource'
    BY <1>5, Blanks DEF Probed, Shows, Readings, Steps, ImportIInv, PageTypes, GoneIsBlank, ReadsAtTheSource
  <2>4. RefIsOfTheShown'
    BY <1>5, Blanks DEF Probed, Shows, Readings, Steps, ImportIInv, PageTypes, ReadsAtTheSource, RefIsOfTheShown, GoneIsBlank, PhraseIsOfTheShown
  <2>5. PhraseIsOfTheShown'
    BY <1>5, Blanks DEF Probed, Shows, Readings, Steps, ImportIInv, PageTypes, ReadsAtTheSource, PhraseIsOfTheShown, GoneIsBlank
  <2>6. WritesAreOfTheShown'
    BY <1>5, Blanks DEF Probed, Shows, Readings, Steps, ImportIInv, PageTypes, RefIsOfTheShown, PhraseIsOfTheShown, WritesAreOfTheShown
  <2>7. WritesOnce'
    BY <1>5, Blanks DEF Probed, Shows, Readings, Steps, ImportIInv, PageTypes, WritesOnce, OneWritePerVisit
  <2> QED
    BY <2>1, <2>2, <2>3, <2>4, <2>5, <2>6, <2>7 DEF ImportIInv
<1>6. CASE Back
  <2>1. PageTypes'
    BY <1>6, Blanks DEF Back, ClearSecrets, Free, Steps, ImportIInv, PageTypes
  <2>2. GoneIsBlank'
    BY <1>6, Blanks DEF Back, ClearSecrets, Free, Steps, ImportIInv, PageTypes, GoneIsBlank
  <2>3. ReadsAtTheSource'
    BY <1>6, Blanks DEF Back, ClearSecrets, Free, Steps, ImportIInv, PageTypes, GoneIsBlank, ReadsAtTheSource
  <2>4. RefIsOfTheShown'
    BY <1>6, Blanks DEF Back, ClearSecrets, Free, Steps, ImportIInv, PageTypes, ReadsAtTheSource, RefIsOfTheShown, GoneIsBlank, PhraseIsOfTheShown
  <2>5. PhraseIsOfTheShown'
    BY <1>6, Blanks DEF Back, ClearSecrets, Free, Steps, ImportIInv, PageTypes, ReadsAtTheSource, PhraseIsOfTheShown, GoneIsBlank
  <2>6. WritesAreOfTheShown'
    BY <1>6, Blanks DEF Back, ClearSecrets, Free, Steps, ImportIInv, PageTypes, RefIsOfTheShown, PhraseIsOfTheShown, WritesAreOfTheShown
  <2>7. WritesOnce'
    BY <1>6, Blanks DEF Back, ClearSecrets, Free, Steps, ImportIInv, PageTypes, WritesOnce, OneWritePerVisit
  <2> QED
    BY <2>1, <2>2, <2>3, <2>4, <2>5, <2>6, <2>7 DEF ImportIInv
<1>7. CASE DismissPage
  BY <1>7 DEF DismissPage,
     ImportIInv, PageTypes, GoneIsBlank, ReadsAtTheSource, RefIsOfTheShown,
     PhraseIsOfTheShown, WritesAreOfTheShown, WritesOnce, OneWritePerVisit
<1>8. CASE Gone
  <2>1. PageTypes'
    BY <1>8, Blanks DEF Gone, ImportIInv, PageTypes
  <2>2. GoneIsBlank'
    BY <1>8, Blanks DEF Gone, ImportIInv, PageTypes, GoneIsBlank
  <2>3. ReadsAtTheSource'
    BY <1>8, Blanks DEF Gone, ImportIInv, PageTypes, GoneIsBlank, ReadsAtTheSource
  <2>4. RefIsOfTheShown'
    BY <1>8, Blanks DEF Gone, ImportIInv, PageTypes, ReadsAtTheSource, RefIsOfTheShown, GoneIsBlank, PhraseIsOfTheShown
  <2>5. PhraseIsOfTheShown'
    BY <1>8, Blanks DEF Gone, ImportIInv, PageTypes, ReadsAtTheSource, PhraseIsOfTheShown, GoneIsBlank
  <2>6. WritesAreOfTheShown'
    BY <1>8, Blanks DEF Gone, ImportIInv, PageTypes, RefIsOfTheShown, PhraseIsOfTheShown, WritesAreOfTheShown
  <2>7. WritesOnce'
    BY <1>8, Blanks DEF Gone, ImportIInv, PageTypes, WritesOnce, OneWritePerVisit
  <2> QED
    BY <2>1, <2>2, <2>3, <2>4, <2>5, <2>6, <2>7 DEF ImportIInv
<1>9. CASE Reopen
  <2>1. PageTypes'
    BY <1>9, Blanks DEF Reopen, Free, ImportIInv, PageTypes
  <2>2. GoneIsBlank'
    BY <1>9, Blanks DEF Reopen, Free, ImportIInv, PageTypes, GoneIsBlank
  <2>3. ReadsAtTheSource'
    BY <1>9, Blanks DEF Reopen, Free, ImportIInv, PageTypes, GoneIsBlank, ReadsAtTheSource
  <2>4. RefIsOfTheShown'
    BY <1>9, Blanks DEF Reopen, Free, ImportIInv, PageTypes, ReadsAtTheSource, RefIsOfTheShown, GoneIsBlank, PhraseIsOfTheShown
  <2>5. PhraseIsOfTheShown'
    BY <1>9, Blanks DEF Reopen, Free, ImportIInv, PageTypes, ReadsAtTheSource, PhraseIsOfTheShown, GoneIsBlank
  <2>6. WritesAreOfTheShown'
    BY <1>9, Blanks DEF Reopen, Free, ImportIInv, PageTypes, RefIsOfTheShown, PhraseIsOfTheShown, WritesAreOfTheShown
  <2>7. WritesOnce'
    BY <1>9, Blanks DEF Reopen, Free, ImportIInv, PageTypes, WritesOnce, OneWritePerVisit
  <2> QED
    BY <2>1, <2>2, <2>3, <2>4, <2>5, <2>6, <2>7 DEF ImportIInv
<1>10. CASE Confirm
  BY <1>10 DEF Confirm, Writes, MayWrite, Free, Resting, Imports, Steps,
     ImportIInv, PageTypes, GoneIsBlank, ReadsAtTheSource, RefIsOfTheShown,
     PhraseIsOfTheShown, WritesAreOfTheShown, WritesOnce, OneWritePerVisit
<1>11. CASE TypePhrase
  BY <1>11 DEF TypePhrase, Steps,
     ImportIInv, PageTypes, GoneIsBlank, ReadsAtTheSource, RefIsOfTheShown,
     PhraseIsOfTheShown, WritesAreOfTheShown, WritesOnce, OneWritePerVisit
<1>12. CASE Submit
  BY <1>12 DEF Submit, Writes, MayWrite, Free, Resting, Imports, Steps,
     ImportIInv, PageTypes, GoneIsBlank, ReadsAtTheSource, RefIsOfTheShown,
     PhraseIsOfTheShown, WritesAreOfTheShown, WritesOnce, OneWritePerVisit
<1>13. CASE Written
  <2>1. PageTypes'
    BY <1>13, Blanks DEF Written, ClearSecrets, Imports, ImportIInv, PageTypes
  <2>2. GoneIsBlank'
    BY <1>13, Blanks DEF Written, ClearSecrets, Imports, ImportIInv, PageTypes, GoneIsBlank
  <2>3. ReadsAtTheSource'
    BY <1>13, Blanks DEF Written, ClearSecrets, Imports, ImportIInv, PageTypes, GoneIsBlank, ReadsAtTheSource
  <2>4. RefIsOfTheShown'
    BY <1>13, Blanks DEF Written, ClearSecrets, Imports, ImportIInv, PageTypes, ReadsAtTheSource, RefIsOfTheShown, GoneIsBlank, PhraseIsOfTheShown
  <2>5. PhraseIsOfTheShown'
    BY <1>13, Blanks DEF Written, ClearSecrets, Imports, ImportIInv, PageTypes, ReadsAtTheSource, PhraseIsOfTheShown, GoneIsBlank
  <2>6. WritesAreOfTheShown'
    BY <1>13, Blanks DEF Written, ClearSecrets, Imports, ImportIInv, PageTypes, RefIsOfTheShown, PhraseIsOfTheShown, WritesAreOfTheShown
  <2>7. WritesOnce'
    <3>1. written = {} /\ importer'.kind # "writing"
      BY <1>13, Blanks DEF Written, ImportIInv, WritesOnce
    <3>2. \A w \in written' : w.nth = 1
      BY <1>13, <3>1 DEF Written
    <3>3. finished' \/ visible' = "gone"
      <4>1. CASE visible = "gone"
        BY <1>13, <4>1 DEF Written
      <4>2. CASE visible # "gone"
        BY <1>13, <4>2, Zenon DEF Written
      <4> QED
        BY <4>1, <4>2
    <3> QED
      BY <3>1, <3>2, <3>3 DEF WritesOnce, OneWritePerVisit
  <2> QED
    BY <2>1, <2>2, <2>3, <2>4, <2>5, <2>6, <2>7 DEF ImportIInv
<1>14. CASE WriteFails
  <2>1. PageTypes'
    BY <1>14, Blanks DEF WriteFails, Imports, Steps, ImportIInv, PageTypes
  <2>2. GoneIsBlank'
    BY <1>14, Blanks DEF WriteFails, Imports, Steps, ImportIInv, PageTypes, GoneIsBlank
  <2>3. ReadsAtTheSource'
    BY <1>14, Blanks DEF WriteFails, Imports, Steps, ImportIInv, PageTypes, GoneIsBlank, ReadsAtTheSource
  <2>4. RefIsOfTheShown'
    BY <1>14, Blanks DEF WriteFails, Imports, Steps, ImportIInv, PageTypes, ReadsAtTheSource, RefIsOfTheShown, GoneIsBlank, PhraseIsOfTheShown
  <2>5. PhraseIsOfTheShown'
    BY <1>14, Blanks DEF WriteFails, Imports, Steps, ImportIInv, PageTypes, ReadsAtTheSource, PhraseIsOfTheShown, GoneIsBlank
  <2>6. WritesAreOfTheShown'
    BY <1>14, Blanks DEF WriteFails, Imports, Steps, ImportIInv, PageTypes, RefIsOfTheShown, PhraseIsOfTheShown, WritesAreOfTheShown
  <2>7. WritesOnce'
    BY <1>14, Blanks DEF WriteFails, Imports, Steps, ImportIInv, PageTypes, WritesOnce, OneWritePerVisit
  <2> QED
    BY <2>1, <2>2, <2>3, <2>4, <2>5, <2>6, <2>7 DEF ImportIInv
<1>15. CASE UNCHANGED impVars
  BY <1>15 DEF impVars,
     ImportIInv, PageTypes, GoneIsBlank, ReadsAtTheSource, RefIsOfTheShown,
     PhraseIsOfTheShown, WritesAreOfTheShown, WritesOnce, OneWritePerVisit
<1> QED
  BY <1>1, <1>2, <1>3, <1>4, <1>5, <1>6, <1>7, <1>8, <1>9, <1>10, <1>11, <1>12, <1>13, <1>14, <1>15 DEF impNext

\* However readings, files, unlocks and clicks overlap: what is sealed is the key
\* the page showed, unless a file picked before was read after the user went on;
\* a visit writes once, and a passphrase is used only for the key it was typed
\* for (ImportKeyPage.tsx, useAsyncAction.ts).
THEOREM ImportsAreOfTheShown == impSpec => []ShownKeyIsImported
<1>1. ImportIInv => ShownKeyIsImported
  <2> SUFFICES ASSUME ImportIInv PROVE ShownKeyIsImported
    OBVIOUS
  <2>1. impTypeOK
    BY DEF ImportIInv, PageTypes, impTypeOK, Steps, Readings, Imports, Resting
  <2> QED
    BY <2>1 DEF ImportIInv, WritesAreOfTheShown, WritesOnce, ShownKeyIsImported, SealedIsShown,
       PassphraseIsOwn
<1> QED
  BY <1>1, InitImport, NextImport, PTL DEF impSpec

-----------------------------------------------------------------------------
(* Translation.  A run belongs to the result or to the box it was started   *)
(* for as long as it is live and has not ended; the chain holds who waits   *)
(* for the model and who has it.                                            *)

Texts == [v : Nat, by : Nat]
Stages == {"start", "detecting", "detected", "download", "ready", "queued", "session", "end"}
Jobs == [of : {"result", "box"}, text : Texts, at : Stages, live : BOOLEAN, checked : BOOLEAN]
ResultBoxes == [version : Nat, has : BOOLEAN, status : Status, showing : BOOLEAN,
                translation : Texts, run : Nat]
Composers == [status : Status, original : Texts, written : Texts, canUndo : BOOLEAN, run : Nat]
TranslateTypes ==
    /\ result \in ResultBoxes /\ compose \in Composers
    /\ box \in [text : Texts, edits : BOOLEAN, n : Nat]
    /\ jobs \in Seq(Jobs) /\ Len(jobs) <= MaxRuns
    /\ fetched \subseteq {"ensure", "evicted"} /\ moves \in 0..MaxMoves

\* A live run that has not ended is the current run of its kind, and a status of
\* work in progress has one.
Going(job) == job.live /\ job.at # "end"
Current(kind, run, rs) ==
    /\ run \in 0..Len(rs) /\ (run # 0 => rs[run].of = kind)
    /\ \A i \in 1..Len(rs) : Going(rs[i]) /\ rs[i].of = kind => i = run
Works(status, run, rs) == Busy(status) => run # 0 /\ Going(rs[run])

\* A run of the result is over the result on the screen, as is what it made of it.
ResultInv(r, rs) ==
    /\ Current("result", r.run, rs) /\ Works(r.status, r.run, rs)
    /\ \A i \in 1..Len(rs) : Going(rs[i]) /\ rs[i].of = "result" => rs[i].text = Typed(r.version)
    /\ r.showing => r.translation # NoText
    /\ r.translation # NoText =>
           r.translation.by \in 1..Len(rs) /\ rs[r.translation.by].text = Typed(r.version)

\* What can be put back is what the text in the box was made from.
UndoInv(c, text, rs) ==
    c.original # NoText =>
        /\ c.canUndo /\ c.written = text /\ text.by \in 1..Len(rs)
        /\ rs[text.by].text = c.original
BoxInv(c, text, rs) ==
    Current("box", c.run, rs) /\ Works(c.status, c.run, rs) /\ UndoInv(c, text, rs)

\* The chain: every run that waits for the model or has it, once, the one that has
\* it first, and each saw the pack before it joined.
Waits(job) == job.at \in {"queued", "session"}
ChainInv(ch, rs) ==
    /\ ch \in Seq(1..Len(rs))
    /\ \A a \in 1..Len(ch) : Waits(rs[ch[a]])
    /\ \A a, b \in 1..Len(ch) : ch[a] = ch[b] => a = b
    /\ \A i \in 1..Len(rs) : Waits(rs[i]) => rs[i].checked /\ \E a \in 1..Len(ch) : ch[a] = i
    /\ \A i \in 1..Len(rs) : rs[i].at = "session" => ch[1] = i

TranslateIInv ==
    /\ TranslateTypes /\ ResultInv(result, jobs)
    /\ BoxInv(compose, box.text, jobs) /\ ChainInv(chain, jobs)

\* How the list of runs changes: one goes on, one is aborted, one is added.
SameJob(job, new) ==
    job.of = new.of /\ job.text = new.text /\ (Going(new) => Going(job))
GoesOn(i, rs, q) ==
    /\ q \in Seq(Jobs) /\ Len(q) = Len(rs)
    /\ \A j \in 1..Len(rs) : SameJob(rs[j], q[j]) /\ (j # i => q[j] = rs[j])
    /\ q[i].live = rs[i].live

LEMMA OneChanges ==
  ASSUME NEW rs \in Seq(Jobs), NEW i \in 1..Len(rs), NEW new \in Jobs, SameJob(rs[i], new),
         new.live = rs[i].live
  PROVE  GoesOn(i, rs, [rs EXCEPT ![i] = new]) /\ [rs EXCEPT ![i] = new][i] = new
<1> DEFINE q == [rs EXCEPT ![i] = new]
<1>1. q \in Seq(Jobs) /\ Len(q) = Len(rs)
  OBVIOUS
<1>2. \A j \in 1..Len(rs) : q[j] = IF j = i THEN new ELSE rs[j]
  OBVIOUS
<1> HIDE DEF q
<1>3. \A j \in 1..Len(rs) : SameJob(rs[j], rs[j])
  BY DEF SameJob
<1>4. GoesOn(i, rs, q) /\ q[i] = new
  BY <1>1, <1>2, <1>3 DEF GoesOn
<1> QED
  BY <1>4 DEF q

MovedTo(rs, i, stage) == [rs EXCEPT ![i].at = stage]
Queued(rs, i, c) == [rs EXCEPT ![i].at = "queued", ![i].checked = c]

LEMMA RunMoves ==
  ASSUME NEW rs \in Seq(Jobs), NEW i \in 1..Len(rs), NEW stage \in Stages, rs[i].at # "end",
         NEW q, q = MovedTo(rs, i, stage)
  PROVE  GoesOn(i, rs, q) /\ q[i].at = stage /\ q[i].checked = rs[i].checked
<1>1. ASSUME NEW job \in Jobs, job.at # "end", NEW new, new = [job EXCEPT !.at = stage]
      PROVE  /\ new \in Jobs /\ SameJob(job, new) /\ new.at = stage /\ new.live = job.live
             /\ new.checked = job.checked
  BY <1>1 DEF Jobs, SameJob, Going
<1> DEFINE new == [rs[i] EXCEPT !.at = stage]
<1>2. rs[i] \in Jobs
  OBVIOUS
<1>3. q = [rs EXCEPT ![i] = new]
  BY DEF MovedTo
<1>4. /\ new \in Jobs /\ SameJob(rs[i], new) /\ new.at = stage /\ new.live = rs[i].live
      /\ new.checked = rs[i].checked
  BY <1>1, <1>2
<1> HIDE DEF new
<1>5. GoesOn(i, rs, [rs EXCEPT ![i] = new]) /\ [rs EXCEPT ![i] = new][i] = new
  BY <1>4, OneChanges, Zenon
<1>6. GoesOn(i, rs, q) /\ q[i] = new
  BY <1>3, <1>5, Zenon
<1> QED
  BY <1>4, <1>6

LEMMA RunQueues ==
  ASSUME NEW rs \in Seq(Jobs), NEW i \in 1..Len(rs), NEW c \in BOOLEAN, rs[i].at # "end",
         NEW q, q = Queued(rs, i, c)
  PROVE  GoesOn(i, rs, q) /\ q[i].at = "queued" /\ q[i].checked = c
<1>1. ASSUME NEW job \in Jobs, job.at # "end",
             NEW new, new = [job EXCEPT !.at = "queued", !.checked = c]
      PROVE  /\ new \in Jobs /\ SameJob(job, new) /\ new.at = "queued" /\ new.live = job.live
             /\ new.checked = c
  BY <1>1 DEF Jobs, SameJob, Going, Stages
<1> DEFINE new == [rs[i] EXCEPT !.at = "queued", !.checked = c]
<1>2. rs[i] \in Jobs
  OBVIOUS
<1>3. q = [rs EXCEPT ![i] = new]
  BY DEF Jobs, Queued
<1>4. /\ new \in Jobs /\ SameJob(rs[i], new) /\ new.at = "queued" /\ new.live = rs[i].live
      /\ new.checked = c
  BY <1>1, <1>2
<1> HIDE DEF new
<1>5. GoesOn(i, rs, [rs EXCEPT ![i] = new]) /\ [rs EXCEPT ![i] = new][i] = new
  BY <1>4, OneChanges, Zenon
<1>6. GoesOn(i, rs, q) /\ q[i] = new
  BY <1>3, <1>5, Zenon
<1> QED
  BY <1>4, <1>6

\* Aborting a run, or none.
Aborts(i, rs, q) ==
    /\ q \in Seq(Jobs) /\ Len(q) = Len(rs)
    /\ \A j \in 1..Len(rs) :
          /\ SameJob(rs[j], q[j]) /\ (j # i => q[j] = rs[j])
          /\ q[j].at = rs[j].at /\ q[j].checked = rs[j].checked
    /\ i # 0 => ~Going(q[i])

LEMMA AbortAborts ==
  ASSUME NEW rs \in Seq(Jobs), NEW i \in 0..Len(rs)
  PROVE  Aborts(i, rs, Aborted(i, rs))
<1> DEFINE q == Aborted(i, rs)
<1>0. \A j \in 1..Len(rs) : SameJob(rs[j], rs[j])
  BY DEF SameJob
<1>1. CASE i = 0
  BY <1>0, <1>1 DEF Aborts, Aborted
<1>2. CASE i # 0
  <2>1. rs[i] \in Jobs /\ i \in 1..Len(rs)
    BY <1>2
  <2>2. [rs[i] EXCEPT !.live = FALSE] \in Jobs
    BY <2>1 DEF Jobs
  <2>3. PICK new \in Jobs : /\ new = [rs[i] EXCEPT !.live = FALSE] /\ new.at = rs[i].at
                            /\ SameJob(rs[i], new) /\ ~Going(new)
                            /\ new.checked = rs[i].checked
    BY <2>1, <2>2 DEF Jobs, SameJob, Going
  <2>4. q = [rs EXCEPT ![i] = new]
    BY <2>3, <1>2 DEF Aborted
  <2>5. q \in Seq(Jobs) /\ Len(q) = Len(rs)
    BY <2>1, <2>4
  <2>6. \A j \in 1..Len(rs) : q[j] = IF j = i THEN new ELSE rs[j]
    BY <2>1, <2>4
  <2> QED
    BY <1>0, <2>1, <2>3, <2>5, <2>6 DEF Aborts
<1> QED
  BY <1>1, <1>2

\* A new run, and the one before it of its kind aborted.
Begins(k, job, rs, q) ==
    /\ q \in Seq(Jobs) /\ Len(q) = Len(rs) + 1 /\ q[Len(rs) + 1] = job
    /\ \A j \in 1..Len(rs) :
          /\ SameJob(rs[j], q[j]) /\ (j # k => q[j] = rs[j])
          /\ q[j].at = rs[j].at /\ q[j].checked = rs[j].checked
    /\ k # 0 => ~Going(q[k])

LEMMA RunBegins ==
  ASSUME NEW rs \in Seq(Jobs), NEW k \in 0..Len(rs), NEW job \in Jobs
  PROVE  Begins(k, job, rs, Aborted(k, Append(rs, job)))
<1> DEFINE more == Append(rs, job)
           q == Aborted(k, more)
<1>1. more \in Seq(Jobs) /\ Len(more) = Len(rs) + 1 /\ more[Len(rs) + 1] = job
  OBVIOUS
<1>2. \A j \in 1..Len(rs) : more[j] = rs[j]
  OBVIOUS
<1> HIDE DEF more
<1>3. k \in 0..Len(more)
  BY <1>1
<1>4. Aborts(k, more, q)
  BY <1>1, <1>3, AbortAborts
<1> HIDE DEF q
<1>5. q \in Seq(Jobs) /\ Len(q) = Len(rs) + 1 /\ (k # 0 => ~Going(q[k]))
  BY <1>1, <1>4 DEF Aborts
<1>6. q[Len(rs) + 1] = job
  BY <1>1, <1>4 DEF Aborts
<1>7. ASSUME NEW j \in 1..Len(rs)
      PROVE  /\ SameJob(rs[j], q[j]) /\ (j # k => q[j] = rs[j])
             /\ q[j].at = rs[j].at /\ q[j].checked = rs[j].checked
  <2>1. j \in 1..Len(more) /\ more[j] = rs[j]
    BY <1>1, <1>2
  <2> QED
    BY <1>4, <2>1 DEF Aborts
<1>8. Begins(k, job, rs, q)
  BY <1>5, <1>6, <1>7 DEF Begins
<1> QED
  BY <1>8 DEF q, more

\* What a change of the runs leaves true of the result and of the box.
JobsKept(rs, q) ==
    /\ q \in Seq(Jobs) /\ Len(q) = Len(rs)
    /\ \A j \in 1..Len(rs) : SameJob(rs[j], q[j])

LEMMA ResultStays ==
  ASSUME NEW rs \in Seq(Jobs), NEW q, JobsKept(rs, q), NEW r, ResultInv(r, rs), NEW s,
         s.version = r.version, s.run = r.run, s.translation = r.translation,
         s.showing => s.translation # NoText, Works(s.status, s.run, q)
  PROVE  ResultInv(s, q)
<1>1. Current("result", s.run, q)
  BY DEF JobsKept, ResultInv, Current, SameJob
<1>2. \A i \in 1..Len(q) : Going(q[i]) /\ q[i].of = "result" => q[i].text = Typed(s.version)
  BY DEF JobsKept, ResultInv, SameJob
<1>3. s.translation # NoText =>
          s.translation.by \in 1..Len(q) /\ q[s.translation.by].text = Typed(s.version)
  BY DEF JobsKept, ResultInv, SameJob
<1> QED
  BY <1>1, <1>2, <1>3 DEF ResultInv

LEMMA BoxStays ==
  ASSUME NEW rs \in Seq(Jobs), NEW q, JobsKept(rs, q), NEW c, NEW text, BoxInv(c, text, rs),
         NEW d, NEW t, d.run = c.run, Works(d.status, d.run, q), UndoInv(d, t, rs)
  PROVE  BoxInv(d, t, q)
<1>1. Current("box", d.run, q)
  BY DEF JobsKept, BoxInv, Current, SameJob
<1>2. UndoInv(d, t, q)
  BY DEF JobsKept, UndoInv, SameJob
<1> QED
  BY <1>1, <1>2 DEF BoxInv

LEMMA WorksOn ==
  ASSUME NEW rs \in Seq(Jobs), NEW i \in 1..Len(rs), NEW q, GoesOn(i, rs, q), NEW k \in 0..Len(rs),
         NEW status, Works(status, k, rs), k # i \/ ~rs[i].live
  PROVE  Works(status, k, q)
<1>1. CASE k = i
  BY <1>1 DEF Works, Going
<1>2. CASE k # i /\ k # 0
  <2>1. k \in 1..Len(rs)
    BY <1>2
  <2>2. q[k] = rs[k]
    BY <1>2, <2>1 DEF GoesOn
  <2> QED
    BY <2>2 DEF Works
<1>3. CASE k = 0
  BY <1>3 DEF Works
<1> QED
  BY <1>1, <1>2, <1>3

\* A step of an aborted run, which is silent, and one of a live run, which says
\* how it is.
LEMMA SilentStep ==
  ASSUME TranslateIInv, NEW i \in 1..Len(jobs), ~jobs[i].live, GoesOn(i, jobs, jobs')
  PROVE  /\ ResultInv(result, jobs') /\ BoxInv(compose, box.text, jobs')
         /\ JobsKept(jobs, jobs')
<1>1. JobsKept(jobs, jobs')
  BY DEF JobsKept, GoesOn
<1>2. jobs \in Seq(Jobs)
  BY DEF TranslateIInv, TranslateTypes
<1>3. /\ result.run \in 0..Len(jobs) /\ Works(result.status, result.run, jobs)
      /\ compose.run \in 0..Len(jobs) /\ Works(compose.status, compose.run, jobs)
      /\ UndoInv(compose, box.text, jobs) /\ (result.showing => result.translation # NoText)
  BY DEF TranslateIInv, ResultInv, BoxInv, Current
<1>4. Works(result.status, result.run, jobs') /\ Works(compose.status, compose.run, jobs')
  BY <1>2, <1>3, WorksOn
<1> QED
  BY <1>1, <1>2, <1>3, <1>4, ResultStays, BoxStays DEF TranslateIInv

LEMMA SayingStep ==
  ASSUME TranslateIInv, NEW i \in 1..Len(jobs), Going(jobs[i]), GoesOn(i, jobs, jobs'),
         NEW status \in Status, Says(i, status), jobs'[i].at # "end" \/ ~Busy(status)
  PROVE  /\ ResultInv(result', jobs') /\ BoxInv(compose', box.text, jobs')
         /\ JobsKept(jobs, jobs') /\ result' \in ResultBoxes /\ compose' \in Composers
<1>1. JobsKept(jobs, jobs')
  BY DEF JobsKept, GoesOn
<1>2. jobs \in Seq(Jobs) /\ result \in ResultBoxes /\ compose \in Composers /\ jobs[i] \in Jobs
  BY DEF TranslateIInv, TranslateTypes
<1>3. /\ result.run \in 0..Len(jobs) /\ Works(result.status, result.run, jobs)
      /\ compose.run \in 0..Len(jobs) /\ Works(compose.status, compose.run, jobs)
      /\ UndoInv(compose, box.text, jobs) /\ (result.showing => result.translation # NoText)
      /\ Current("result", result.run, jobs) /\ Current("box", compose.run, jobs)
  BY DEF TranslateIInv, ResultInv, BoxInv, Current
<1>4. Works(status, i, jobs')
  BY <1>2 DEF Works, Going, GoesOn
<1>5. CASE jobs[i].of = "result"
  <2>1. result.run = i /\ compose.run # i
    BY <1>2, <1>3, <1>5 DEF Current
  <2>2. result' = [result EXCEPT !.status = status] /\ compose' = compose
    BY <1>5 DEF Says
  <2>3. /\ result' \in ResultBoxes /\ result'.status = status /\ result'.version = result.version
        /\ result'.run = result.run /\ result'.translation = result.translation
        /\ result'.showing = result.showing
    BY <1>2, <2>2 DEF ResultBoxes
  <2>4. Works(compose.status, compose.run, jobs')
    BY <1>2, <1>3, <2>1, WorksOn
  <2>5. ResultInv(result', jobs')
    BY <1>1, <1>2, <1>3, <1>4, <2>1, <2>3, ResultStays DEF TranslateIInv
  <2>6. BoxInv(compose, box.text, jobs')
    BY <1>1, <1>2, <1>3, <2>4, BoxStays DEF TranslateIInv
  <2> QED
    BY <1>1, <1>2, <2>2, <2>3, <2>5, <2>6
<1>6. CASE jobs[i].of # "result"
  <2>1. compose.run = i /\ result.run # i
    BY <1>2, <1>3, <1>6 DEF Current, Jobs
  <2>2. compose' = [compose EXCEPT !.status = status] /\ result' = result
    BY <1>6 DEF Says
  <2>3. /\ compose' \in Composers /\ compose'.status = status /\ compose'.run = compose.run
        /\ compose'.original = compose.original /\ compose'.written = compose.written
        /\ compose'.canUndo = compose.canUndo
    BY <1>2, <2>2 DEF Composers
  <2>4. Works(result.status, result.run, jobs')
    BY <1>2, <1>3, <2>1, WorksOn
  <2>5. ResultInv(result, jobs')
    BY <1>1, <1>2, <1>3, <2>4, ResultStays DEF TranslateIInv
  <2>6. UndoInv(compose', box.text, jobs)
    BY <1>3, <2>3 DEF UndoInv
  <2>7. BoxInv(compose', box.text, jobs')
    BY <1>1, <1>2, <1>4, <2>1, <2>3, <2>6, BoxStays DEF TranslateIInv
  <2> QED
    BY <1>1, <1>2, <2>2, <2>3, <2>5, <2>7
<1> QED
  BY <1>5, <1>6

\* The chain: as it was, joined, entered, left.
LEMMA ChainStays ==
  ASSUME NEW rs \in Seq(Jobs), NEW q \in Seq(Jobs), NEW ch, ChainInv(ch, rs), Len(q) >= Len(rs),
         \A j \in 1..Len(rs) :
             \/ q[j].at = rs[j].at /\ q[j].checked = rs[j].checked
             \/ ~Waits(rs[j]) /\ ~Waits(q[j]),
         \A j \in 1..Len(q) : j > Len(rs) => ~Waits(q[j])
  PROVE  ChainInv(ch, q)
<1>1. ch \in Seq(1..Len(rs)) /\ ch \in Seq(1..Len(q))
  BY DEF ChainInv
<1>2. \A a \in 1..Len(ch) : ch[a] \in 1..Len(rs) /\ Waits(q[ch[a]])
  BY <1>1 DEF ChainInv, Waits
<1>3. ASSUME NEW i \in 1..Len(q), Waits(q[i])
      PROVE  i \in 1..Len(rs) /\ Waits(rs[i]) /\ q[i].at = rs[i].at /\ q[i].checked = rs[i].checked
  <2>1. i \in 1..Len(rs)
    <3>1. Len(rs) \in Nat /\ Len(q) \in Nat
      OBVIOUS
    <3> QED
      BY <1>3, <3>1
  <2> QED
    BY <1>3, <2>1 DEF Waits
<1>4. \A i \in 1..Len(q) : Waits(q[i]) => q[i].checked /\ \E a \in 1..Len(ch) : ch[a] = i
  BY <1>3 DEF ChainInv
<1>5. \A i \in 1..Len(q) : q[i].at = "session" => ch[1] = i
  BY <1>3 DEF ChainInv, Waits
<1> QED
  BY <1>1, <1>2, <1>4, <1>5 DEF ChainInv

LEMMA ChainJoined ==
  ASSUME NEW rs \in Seq(Jobs), NEW q, NEW i \in 1..Len(rs), GoesOn(i, rs, q), NEW ch,
         ChainInv(ch, rs), ~Waits(rs[i]), q[i].at = "queued", q[i].checked
  PROVE  ChainInv(Append(ch, i), q)
<1> DEFINE new == Append(ch, i)
<1>1. ch \in Seq(1..Len(rs)) /\ Len(q) = Len(rs)
  BY DEF ChainInv, GoesOn
<1>2. PICK n \in Nat : n = Len(ch)
  BY <1>1
<1>3. new \in Seq(1..Len(q)) /\ Len(new) = n + 1 /\ new[n + 1] = i
  BY <1>1, <1>2
<1>4. \A a \in 1..n : new[a] = ch[a] /\ ch[a] \in 1..Len(rs)
  BY <1>1, <1>2
<1>5. /\ \A a \in 1..n : Waits(rs[ch[a]])
      /\ \A a, b \in 1..n : ch[a] = ch[b] => a = b
      /\ \A j \in 1..Len(rs) : Waits(rs[j]) => rs[j].checked /\ \E a \in 1..n : ch[a] = j
      /\ \A j \in 1..Len(rs) : rs[j].at = "session" => ch[1] = j
  BY <1>2 DEF ChainInv
<1>6. \A a \in 1..n + 1 : a \in 1..n \/ a = n + 1
  BY <1>2
<1>7. \A j \in 1..Len(rs) : j # i => q[j] = rs[j]
  BY DEF GoesOn
<1> HIDE DEF new
<1>8. \A a \in 1..n : new[a] # i
  BY <1>4, <1>5
<1>9. \A a \in 1..n + 1 : Waits(q[new[a]])
  BY <1>3, <1>4, <1>5, <1>6, <1>7, <1>8 DEF Waits
<1>10. \A a, b \in 1..n + 1 : new[a] = new[b] => a = b
  <2> SUFFICES ASSUME NEW a \in 1..n + 1, NEW b \in 1..n + 1, new[a] = new[b] PROVE a = b
    OBVIOUS
  <2>1. CASE a \in 1..n /\ b \in 1..n
    <3>1. ch[a] = ch[b]
      BY <1>4, <2>1
    <3> QED
      BY <1>5, <2>1, <3>1, Zenon
  <2>2. CASE a = n + 1 /\ b = n + 1
    BY <2>2
  <2>3. ~(a \in 1..n /\ b = n + 1) /\ ~(a = n + 1 /\ b \in 1..n)
    BY <1>3, <1>8, Zenon
  <2> QED
    BY <1>6, <2>1, <2>2, <2>3, Zenon
<1>11. \A j \in 1..Len(q) : Waits(q[j]) => q[j].checked /\ \E a \in 1..n + 1 : new[a] = j
  <2> SUFFICES ASSUME NEW j \in 1..Len(rs), Waits(q[j])
               PROVE  q[j].checked /\ \E a \in 1..n + 1 : new[a] = j
    BY <1>1
  <2>1. CASE j = i
    BY <1>3, <2>1
  <2>2. CASE j # i
    <3>1. PICK a \in 1..n : ch[a] = j
      BY <1>5, <1>7, <2>2
    <3>2. new[a] = j
      BY <1>4, <3>1
    <3>3. a \in 1..n + 1
      BY <1>2
    <3> QED
      BY <1>5, <1>7, <2>2, <3>2, <3>3
  <2> QED
    BY <2>1, <2>2
<1>12. \A j \in 1..Len(q) : q[j].at = "session" => new[1] = j
  <2> SUFFICES ASSUME NEW j \in 1..Len(rs), q[j].at = "session" PROVE new[1] = j
    BY <1>1
  <2>1. j # i /\ q[j] = rs[j]
    BY <1>7
  <2>2. ch[1] = j /\ \E a \in 1..n : ch[a] = j
    BY <1>5, <2>1 DEF Waits
  <2>3. 1 \in 1..n
    BY <1>2, <2>2
  <2> QED
    BY <1>4, <2>2, <2>3
<1>13. ChainInv(new, q)
  BY <1>3, <1>9, <1>10, <1>11, <1>12 DEF ChainInv
<1> QED
  BY <1>13 DEF new

LEMMA ChainLeft ==
  ASSUME NEW rs \in Seq(Jobs), NEW q, NEW i \in 1..Len(rs), GoesOn(i, rs, q), NEW ch,
         ChainInv(ch, rs), Waits(rs[i]), ch[1] = i, q[i].at = "end"
  PROVE  ChainInv(Tail(ch), q)
<1> DEFINE new == Tail(ch)
<1>1. ch \in Seq(1..Len(rs)) /\ Len(q) = Len(rs)
  BY DEF ChainInv, GoesOn
<1>2. PICK n \in Nat : n = Len(ch)
  BY <1>1
<1>3. /\ \A a \in 1..n : Waits(rs[ch[a]])
      /\ \A a, b \in 1..n : ch[a] = ch[b] => a = b
      /\ \A j \in 1..Len(rs) : Waits(rs[j]) => rs[j].checked /\ \E a \in 1..n : ch[a] = j
      /\ \A j \in 1..Len(rs) : rs[j].at = "session" => ch[1] = j
  BY <1>2 DEF ChainInv
<1>4. ch # <<>> /\ n >= 1
  BY <1>1, <1>2, <1>3
<1>5. new \in Seq(1..Len(q)) /\ Len(new) = n - 1
  BY <1>1, <1>2, <1>4
<1>6. \A a \in 1..n - 1 : new[a] = ch[a + 1]
  BY <1>1, <1>2, <1>4
<1>7. \A a \in 1..n - 1 : a + 1 \in 1..n /\ a + 1 # 1
  BY <1>2, <1>4
<1>8. \A a \in 1..n : ch[a] \in 1..Len(rs)
  BY <1>1, <1>2
<1>9. \A j \in 1..Len(rs) : j # i => q[j] = rs[j]
  BY DEF GoesOn
<1> HIDE DEF new
<1>10. \A a \in 1..n - 1 : new[a] \in 1..Len(rs) /\ new[a] # i
  <2> SUFFICES ASSUME NEW a \in 1..n - 1 PROVE new[a] \in 1..Len(rs) /\ new[a] # i
    OBVIOUS
  <2>1. 1 \in 1..n /\ a + 1 \in 1..n /\ a + 1 # 1
    BY <1>4, <1>7
  <2> QED
    BY <1>3, <1>6, <1>8, <2>1
<1>11. \A a \in 1..n - 1 : Waits(q[new[a]])
  <2> SUFFICES ASSUME NEW a \in 1..n - 1 PROVE Waits(q[new[a]])
    OBVIOUS
  <2>1. q[new[a]] = rs[new[a]] /\ new[a] = ch[a + 1] /\ a + 1 \in 1..n
    BY <1>6, <1>7, <1>9, <1>10
  <2>2. Waits(rs[ch[a + 1]])
    BY <1>3, <2>1, Zenon
  <2> QED
    BY <2>1, <2>2, Zenon
<1>12. \A a, b \in 1..n - 1 : new[a] = new[b] => a = b
  <2> SUFFICES ASSUME NEW a \in 1..n - 1, NEW b \in 1..n - 1, new[a] = new[b] PROVE a = b
    OBVIOUS
  <2>1. ch[a + 1] = ch[b + 1] /\ a + 1 \in 1..n /\ b + 1 \in 1..n
    BY <1>6, <1>7
  <2>2. a + 1 = b + 1
    BY <1>3, <2>1, Zenon
  <2> QED
    BY <2>2
<1>13. \A j \in 1..Len(q) : Waits(q[j]) => q[j].checked /\ \E a \in 1..n - 1 : new[a] = j
  <2> SUFFICES ASSUME NEW j \in 1..Len(rs), Waits(q[j])
               PROVE  q[j].checked /\ \E a \in 1..n - 1 : new[a] = j
    BY <1>1
  <2>1. j # i /\ q[j] = rs[j]
    BY <1>9 DEF Waits
  <2>2. PICK a \in 1..n : ch[a] = j
    BY <1>3, <2>1
  <2>3. a - 1 \in 1..n - 1 /\ (a - 1) + 1 = a
    BY <2>1, <2>2
  <2>4. new[a - 1] = j
    BY <1>6, <2>2, <2>3
  <2> QED
    BY <1>3, <2>1, <2>3, <2>4
<1>14. \A j \in 1..Len(q) : q[j].at = "session" => new[1] = j
  BY <1>1, <1>3, <1>9
<1>15. ChainInv(new, q)
  BY <1>5, <1>11, <1>12, <1>13, <1>14 DEF ChainInv
<1> QED
  BY <1>15 DEF new

LEMMA ChainEntered ==
  ASSUME NEW rs \in Seq(Jobs), NEW q, NEW i \in 1..Len(rs), GoesOn(i, rs, q), NEW ch,
         ChainInv(ch, rs), Waits(rs[i]), ch[1] = i, q[i].at = "session", q[i].checked
  PROVE  ChainInv(ch, q)
<1>1. ch \in Seq(1..Len(rs)) /\ Len(q) = Len(rs)
  BY DEF ChainInv, GoesOn
<1>2. \A j \in 1..Len(rs) : j # i => q[j] = rs[j]
  BY DEF GoesOn
<1>3. \A a \in 1..Len(ch) : Waits(q[ch[a]])
  <2> TAKE a \in 1..Len(ch)
  <2>1. ch[a] \in 1..Len(rs) /\ Waits(rs[ch[a]])
    BY <1>1 DEF ChainInv
  <2>2. CASE ch[a] = i
    BY <2>2 DEF Waits
  <2>3. CASE ch[a] # i
    BY <1>2, <2>1, <2>3
  <2> QED
    BY <2>2, <2>3
<1>4. \A j \in 1..Len(q) : Waits(q[j]) => q[j].checked /\ \E a \in 1..Len(ch) : ch[a] = j
  BY <1>1, <1>2 DEF ChainInv
<1>5. \A j \in 1..Len(q) : q[j].at = "session" => ch[1] = j
  BY <1>1, <1>2 DEF ChainInv
<1> QED
  BY <1>1, <1>3, <1>4, <1>5 DEF ChainInv

\* A step of a run that stays out of the chain.
LEMMA OutOfTheChain ==
  ASSUME NEW rs \in Seq(Jobs), NEW q, NEW i \in 1..Len(rs), GoesOn(i, rs, q), NEW ch,
         ChainInv(ch, rs), ~Waits(rs[i]), ~Waits(q[i])
  PROVE  ChainInv(ch, q)
<1>1. q \in Seq(Jobs) /\ Len(q) = Len(rs) /\ \A j \in 1..Len(rs) : j # i => q[j] = rs[j]
  BY DEF GoesOn
<1>2. \A j \in 1..Len(rs) : \/ q[j].at = rs[j].at /\ q[j].checked = rs[j].checked
                            \/ ~Waits(rs[j]) /\ ~Waits(q[j])
  BY <1>1
<1>3. \A j \in 1..Len(q) : ~(j > Len(rs))
  BY <1>1
<1> QED
  BY <1>1, <1>2, <1>3, ChainStays

\* Where a run goes on or ends, silent or with a status.
LEMMA RunGoesOn ==
  ASSUME TranslateIInv, NEW i \in 1..Len(jobs), jobs[i].at # "end", NEW stage \in Stages,
         At(i, stage), NEW status \in Status, stage # "end" \/ ~Busy(status),
         IF jobs[i].live THEN Says(i, status) ELSE UNCHANGED <<result, compose>>
  PROVE  /\ GoesOn(i, jobs, jobs') /\ jobs'[i].at = stage /\ jobs'[i].checked = jobs[i].checked
         /\ ResultInv(result', jobs') /\ BoxInv(compose', box.text, jobs')
         /\ JobsKept(jobs, jobs') /\ result' \in ResultBoxes /\ compose' \in Composers
<1>1. jobs \in Seq(Jobs) /\ result \in ResultBoxes /\ compose \in Composers
  BY DEF TranslateIInv, TranslateTypes
<1>2. jobs' = MovedTo(jobs, i, stage)
  BY DEF At, MovedTo
<1>3. GoesOn(i, jobs, jobs') /\ jobs'[i].at = stage /\ jobs'[i].checked = jobs[i].checked
  BY <1>1, <1>2, RunMoves
<1>4. CASE jobs[i].live
  <2>1. Going(jobs[i]) /\ Says(i, status)
    BY <1>4 DEF Going
  <2> QED
    BY <1>3, <2>1, SayingStep
<1>5. CASE ~jobs[i].live
  BY <1>1, <1>3, <1>5, SilentStep
<1> QED
  BY <1>4, <1>5

LEMMA SilentlyEnds ==
  ASSUME TranslateIInv, NEW i \in 1..Len(jobs), ~jobs[i].live, jobs[i].at # "end", Drops(i)
  PROVE  /\ GoesOn(i, jobs, jobs') /\ jobs'[i].at = "end"
         /\ ResultInv(result', jobs') /\ BoxInv(compose', box.text, jobs')
         /\ JobsKept(jobs, jobs') /\ result' \in ResultBoxes /\ compose' \in Composers
<1>1. At(i, "end") /\ UNCHANGED <<result, compose>> /\ "end" \in Stages /\ "idle" \in Status
      /\ ~Busy("idle")
  BY DEF Drops, Stages, Status, Busy
<1> QED
  BY <1>1, RunGoesOn

\* Steps that change no more than the runs, the chain and what they report to.
LEMMA StepKeeps ==
  ASSUME TranslateIInv, ResultInv(result', jobs'), BoxInv(compose', box.text, jobs'),
         JobsKept(jobs, jobs'), result' \in ResultBoxes, compose' \in Composers,
         ChainInv(chain', jobs'), fetched' \subseteq fetched \union {"ensure", "evicted"},
         UNCHANGED <<box, moves>>
  PROVE  TranslateIInv'
<1>1. TranslateTypes'
  BY DEF TranslateIInv, TranslateTypes, JobsKept
<1> QED
  BY <1>1 DEF TranslateIInv

Moving == {"start", "detecting", "detected", "download", "ready"}

\* Up to the chain: detecting, fetching the pack, checking for it.
LEMMA BeforeTheChain ==
  ASSUME TranslateIInv, NEW i \in 1..Len(jobs), jobs[i].at \in Moving,
         NEW stage \in Moving \union {"end"}, NEW status \in Status, stage # "end" \/ ~Busy(status),
         \/ Continue(i, stage, status)
         \/ jobs[i].live /\ At(i, stage) /\ Says(i, status)
         \/ ~jobs[i].live /\ Drops(i),
         fetched' \subseteq fetched \union {"ensure"}, UNCHANGED <<box, chain, moves>>
  PROVE  TranslateIInv'
<1>1. jobs[i].at # "end" /\ ~Waits(jobs[i]) /\ stage \in Stages
  BY DEF Moving, Waits, Stages
<1>2. jobs \in Seq(Jobs) /\ ChainInv(chain, jobs)
  BY DEF TranslateIInv, TranslateTypes
<1>3. CASE jobs[i].live /\ At(i, stage) /\ Says(i, status)
  <2>1. /\ GoesOn(i, jobs, jobs') /\ jobs'[i].at = stage
        /\ ResultInv(result', jobs') /\ BoxInv(compose', box.text, jobs')
        /\ JobsKept(jobs, jobs') /\ result' \in ResultBoxes /\ compose' \in Composers
    BY <1>1, <1>3, RunGoesOn
  <2>2. ChainInv(chain, jobs')
    <3>1. ~Waits(jobs'[i])
      BY <2>1 DEF Waits, Moving
    <3> QED
      BY <1>1, <1>2, <2>1, <3>1, OutOfTheChain
  <2> QED
    BY <2>1, <2>2, StepKeeps
<1>4. CASE ~jobs[i].live /\ Drops(i)
  <2>1. /\ GoesOn(i, jobs, jobs') /\ jobs'[i].at = "end"
        /\ ResultInv(result', jobs') /\ BoxInv(compose', box.text, jobs')
        /\ JobsKept(jobs, jobs') /\ result' \in ResultBoxes /\ compose' \in Composers
    BY <1>1, <1>4, SilentlyEnds
  <2>2. ChainInv(chain, jobs')
    <3>1. ~Waits(jobs'[i])
      BY <2>1 DEF Waits
    <3> QED
      BY <1>1, <1>2, <2>1, <3>1, OutOfTheChain
  <2> QED
    BY <2>1, <2>2, StepKeeps
<1> QED
  BY <1>3, <1>4 DEF Continue

LEMMA DetectingKeeps ==
  ASSUME TranslateIInv, NEW i \in 1..MaxRuns,
         EnsureDetector(i) \/ (i \in DOMAIN jobs /\ Detect(i)) \/ EnsurePack(i) \/ Download(i)
  PROVE  TranslateIInv'
<1>1. jobs \in Seq(Jobs)
  BY DEF TranslateIInv, TranslateTypes
<1>2. i \in 1..Len(jobs) /\ jobs[i].at \in Moving
  BY <1>1 DEF EnsureDetector, Detect, EnsurePack, Download, Here, Moving
<1>3. {"working", "downloading", "unavailable", "error"} \union (Detections \ {"detected"})
        \subseteq Status
  BY DEF Status, Detections
<1>4. ~Busy("unavailable") /\ ~Busy("error")
  BY DEF Busy
<1>5. CASE EnsureDetector(i)
  <2>1. CASE \E s \in {"working", "downloading"} : Continue(i, "detecting", s)
    BY <1>2, <1>3, <1>5, <2>1, BeforeTheChain DEF EnsureDetector, Moving
  <2>2. CASE jobs[i].live /\ FailsAs(i, "unavailable")
    BY <1>2, <1>3, <1>4, <1>5, <2>2, BeforeTheChain DEF EnsureDetector, FailsAs
  <2> QED
    BY <1>5, <2>1, <2>2 DEF EnsureDetector
<1>6. CASE Detect(i)
  <2>1. PICK d \in Detections : IF d = "detected" THEN Continue(i, "detected", "working")
                                ELSE jobs[i].live /\ FailsAs(i, d)
    BY <1>6 DEF Detect, Detections, KnownLanguage
  <2>2. UNCHANGED <<box, chain, pack, fetched, moves>>
    BY <1>6 DEF Detect
  <2>3. CASE d = "detected"
    BY <1>2, <1>3, <2>1, <2>2, <2>3, BeforeTheChain DEF Moving
  <2>4. CASE d # "detected"
    <3>1. d \in Status /\ ~Busy(d)
      BY <2>4 DEF Detections, Busy, Status
    <3> QED
      BY <1>2, <2>1, <2>2, <2>4, <3>1, BeforeTheChain DEF FailsAs
  <2> QED
    BY <2>3, <2>4
<1>7. CASE EnsurePack(i)
  <2>1. UNCHANGED <<box, chain, moves>> /\ fetched' \subseteq fetched \union {"ensure"}
    BY <1>7 DEF EnsurePack
  <2>2. \/ ~jobs[i].live /\ Drops(i)
        \/ jobs[i].live /\ At(i, "end") /\ Says(i, "unavailable")
        \/ jobs[i].live /\ At(i, "ready") /\ Says(i, "working")
        \/ jobs[i].live /\ At(i, "download") /\ Says(i, "downloading")
    BY <1>7 DEF EnsurePack, FailsAs
  <2> QED
    BY <1>2, <1>3, <1>4, <2>1, <2>2, BeforeTheChain DEF Moving
<1>8. CASE Download(i)
  <2>1. UNCHANGED <<box, chain, moves, fetched>>
    BY <1>8 DEF Download
  <2>2. \/ Continue(i, "ready", "working")
        \/ jobs[i].live /\ At(i, "end") /\ Says(i, "error")
        \/ ~jobs[i].live /\ Drops(i)
    BY <1>8 DEF Download, FailsAs
  <2> QED
    BY <1>2, <1>3, <1>4, <2>1, <2>2, BeforeTheChain DEF Moving
<1> QED
  BY <1>5, <1>6, <1>7, <1>8

\* In the chain: joining it, the turn, the end of the session.
LEMMA CheckKeeps ==
  ASSUME TranslateIInv, NEW i \in 1..MaxRuns, Check(i) PROVE TranslateIInv'
<1>1. jobs \in Seq(Jobs) /\ ChainInv(chain, jobs) /\ result \in ResultBoxes /\ compose \in Composers
  BY DEF TranslateIInv, TranslateTypes
<1>2. i \in 1..Len(jobs) /\ jobs[i].at = "ready" /\ UNCHANGED <<box, pack, fetched, moves>>
  BY <1>1 DEF Check, Here
<1>3. CASE NeedsPack
  <2>1. UNCHANGED chain
    BY <1>2, <1>3 DEF Check
  <2>2. \/ jobs[i].live /\ At(i, "end") /\ (Says(i, "unavailable") \/ Says(i, "error"))
        \/ ~jobs[i].live /\ Drops(i)
    BY <1>2, <1>3 DEF Check, FailsAs
  <2>3. "unavailable" \in Status /\ "error" \in Status /\ ~Busy("unavailable") /\ ~Busy("error")
    BY DEF Status, Busy
  <2> QED
    BY <1>2, <2>1, <2>2, <2>3, BeforeTheChain DEF Moving
<1>4. CASE ~NeedsPack
  <2>1. /\ jobs' = [jobs EXCEPT ![i].at = "queued", ![i].checked = (pack = "available")]
        /\ chain' = Append(chain, i) /\ UNCHANGED <<result, compose>> /\ pack = "available"
    BY <1>2, <1>4 DEF Check, NeedsPack
  <2>2. jobs' = Queued(jobs, i, TRUE) /\ TRUE \in BOOLEAN /\ jobs[i].at # "end"
    BY <1>2, <2>1 DEF Queued
  <2>3. GoesOn(i, jobs, jobs') /\ jobs'[i].at = "queued" /\ jobs'[i].checked = TRUE
    BY <1>1, <1>2, <2>2, RunQueues, Zenon
  <2>4. ~Waits(jobs[i])
    BY <1>2 DEF Waits
  <2>5. ChainInv(chain', jobs')
    BY <1>1, <1>2, <2>1, <2>3, <2>4, ChainJoined
  <2>6. /\ ResultInv(result', jobs') /\ BoxInv(compose', box.text, jobs')
        /\ JobsKept(jobs, jobs')
    <3>1. JobsKept(jobs, jobs')
      BY <2>3 DEF JobsKept, GoesOn
    <3>2. /\ result.run \in 0..Len(jobs) /\ Works(result.status, result.run, jobs)
          /\ compose.run \in 0..Len(jobs) /\ Works(compose.status, compose.run, jobs)
          /\ UndoInv(compose, box.text, jobs) /\ (result.showing => result.translation # NoText)
      BY DEF TranslateIInv, ResultInv, BoxInv, Current
    <3>3. \A j \in 1..Len(jobs) : Going(jobs[j]) => Going(jobs'[j])
      BY <1>2, <2>3 DEF GoesOn, Going
    <3>4. Works(result.status, result.run, jobs') /\ Works(compose.status, compose.run, jobs')
      BY <3>2, <3>3 DEF Works
    <3> QED
      BY <1>1, <2>1, <3>1, <3>2, <3>4, ResultStays, BoxStays DEF TranslateIInv
  <2> QED
    BY <1>1, <1>2, <2>1, <2>5, <2>6, StepKeeps
<1> QED
  BY <1>3, <1>4

LEMMA InTheChain ==
  ASSUME TranslateIInv, NEW i \in 1..Len(jobs), jobs[i].at = "queued"
  PROVE  Waits(jobs[i]) /\ jobs[i].checked
  BY DEF TranslateIInv, ChainInv, Waits

LEMMA HasTheModel ==
  ASSUME TranslateIInv, NEW i \in 1..Len(jobs), jobs[i].at = "session"
  PROVE  Waits(jobs[i]) /\ chain[1] = i
  BY DEF TranslateIInv, ChainInv, Waits

LEMMA TurnKeeps ==
  ASSUME TranslateIInv, NEW i \in 1..MaxRuns, Turn(i) PROVE TranslateIInv'
<1>1. jobs \in Seq(Jobs) /\ ChainInv(chain, jobs) /\ result \in ResultBoxes /\ compose \in Composers
  BY DEF TranslateIInv, TranslateTypes
<1>2. /\ i \in 1..Len(jobs) /\ jobs[i].at = "queued" /\ chain[1] = i
      /\ UNCHANGED <<result, compose, box, moves>>
  BY <1>1 DEF Turn, Here
<1>3. Waits(jobs[i]) /\ jobs[i].checked
  BY <1>2, InTheChain
<1>4. CASE jobs[i].live
  <2>1. At(i, "session") /\ UNCHANGED chain /\ fetched' \subseteq fetched \union {"evicted"}
    BY <1>2, <1>3, <1>4 DEF Turn
  <2>2. jobs' = MovedTo(jobs, i, "session") /\ "session" \in Stages /\ jobs[i].at # "end"
    BY <1>2, <2>1 DEF At, Stages, MovedTo
  <2>3. GoesOn(i, jobs, jobs') /\ jobs'[i].at = "session" /\ jobs'[i].checked = jobs[i].checked
    BY <1>1, <1>2, <2>2, RunMoves
  <2>4. ChainInv(chain, jobs')
    BY <1>1, <1>2, <1>3, <2>3, ChainEntered
  <2>5. JobsKept(jobs, jobs')
    BY <2>3 DEF JobsKept, GoesOn
  <2>6. /\ result.run \in 0..Len(jobs) /\ Works(result.status, result.run, jobs)
        /\ compose.run \in 0..Len(jobs) /\ Works(compose.status, compose.run, jobs)
        /\ UndoInv(compose, box.text, jobs) /\ (result.showing => result.translation # NoText)
    BY DEF TranslateIInv, ResultInv, BoxInv, Current
  <2>7. \A j \in 1..Len(jobs) : Going(jobs[j]) => Going(jobs'[j])
    BY <1>2, <2>3 DEF GoesOn, Going
  <2>8. Works(result.status, result.run, jobs') /\ Works(compose.status, compose.run, jobs')
    BY <2>6, <2>7 DEF Works
  <2>9. ResultInv(result', jobs') /\ BoxInv(compose', box.text, jobs')
    BY <1>1, <1>2, <2>5, <2>6, <2>8, ResultStays, BoxStays DEF TranslateIInv
  <2> QED
    BY <1>1, <1>2, <2>1, <2>4, <2>5, <2>9, StepKeeps
<1>5. CASE ~jobs[i].live
  <2>1. Drops(i) /\ chain' = Tail(chain) /\ UNCHANGED fetched
    BY <1>2, <1>5 DEF Turn, Drops
  <2>2. /\ GoesOn(i, jobs, jobs') /\ jobs'[i].at = "end"
        /\ ResultInv(result', jobs') /\ BoxInv(compose', box.text, jobs')
        /\ JobsKept(jobs, jobs') /\ result' \in ResultBoxes /\ compose' \in Composers
    BY <1>2, <1>5, <2>1, SilentlyEnds
  <2>3. ChainInv(chain', jobs')
    BY <1>1, <1>2, <1>3, <2>1, <2>2, ChainLeft
  <2> QED
    BY <1>2, <2>1, <2>2, <2>3, StepKeeps
<1> QED
  BY <1>4, <1>5

LEMMA SessionFailsKeeps ==
  ASSUME TranslateIInv, NEW i \in 1..MaxRuns, SessionFails(i) PROVE TranslateIInv'
<1>1. jobs \in Seq(Jobs) /\ ChainInv(chain, jobs)
  BY DEF TranslateIInv, TranslateTypes
<1>2. /\ i \in 1..Len(jobs) /\ jobs[i].at = "session" /\ chain' = Tail(chain)
      /\ UNCHANGED <<box, fetched, moves>>
  BY <1>1 DEF SessionFails, Here, Leaves
<1>3. Waits(jobs[i]) /\ chain[1] = i
  BY <1>2, HasTheModel
<1>4. /\ GoesOn(i, jobs, jobs') /\ jobs'[i].at = "end"
      /\ ResultInv(result', jobs') /\ BoxInv(compose', box.text, jobs')
      /\ JobsKept(jobs, jobs') /\ result' \in ResultBoxes /\ compose' \in Composers
  <2>1. At(i, "end") /\ IF jobs[i].live THEN Says(i, "error") ELSE UNCHANGED <<result, compose>>
    BY DEF SessionFails, FailsAs, Drops
  <2>2. "error" \in Status /\ ~Busy("error") /\ "end" \in Stages
    BY DEF Status, Busy, Stages
  <2> QED
    BY <1>2, <2>1, <2>2, RunGoesOn
<1>5. ChainInv(chain', jobs')
  BY <1>1, <1>2, <1>3, <1>4, ChainLeft
<1> QED
  BY <1>2, <1>4, <1>5, StepKeeps

LEMMA TextsAre ==
  /\ NoText \in Texts /\ \A n \in Nat : Typed(n) \in Texts /\ Output(n) \in Texts
  /\ \A n \in Nat : Typed(n).by = 0 /\ Output(n).by = n /\ (n # 0 => Output(n) # NoText)
  /\ NoText.by = 0
  BY DEF Texts, NoText, Typed, Output

\* The answer of the model: a result is of the run's text, a text is replaced only
\* if it is the one that was read, and what it was is kept.
LEMMA TranslatedKeeps ==
  ASSUME TranslateIInv, NEW i \in 1..MaxRuns, Translated(i)
  PROVE  /\ TranslateIInv'
         /\ box' # box => box.text = jobs[box'.text.by].text /\ compose'.original = box.text
<1>1. /\ jobs \in Seq(Jobs) /\ ChainInv(chain, jobs) /\ result \in ResultBoxes
      /\ compose \in Composers /\ box \in [text : Texts, edits : BOOLEAN, n : Nat]
  BY DEF TranslateIInv, TranslateTypes
<1>2. /\ i \in 1..Len(jobs) /\ jobs[i].at = "session" /\ chain' = Tail(chain)
      /\ UNCHANGED <<fetched, moves>> /\ jobs' = MovedTo(jobs, i, "end")
  BY <1>1 DEF Translated, Here, Leaves, At, MovedTo
<1>3. Waits(jobs[i]) /\ chain[1] = i
  BY <1>2, HasTheModel
<1>4. GoesOn(i, jobs, jobs') /\ jobs'[i].at = "end"
  <2>1. "end" \in Stages /\ jobs[i].at # "end"
    BY <1>2 DEF Stages
  <2> QED
    BY <1>1, <1>2, <2>1, RunMoves
<1>5. ChainInv(chain', jobs')
  BY <1>1, <1>2, <1>3, <1>4, ChainLeft
<1>6. JobsKept(jobs, jobs') /\ jobs[i] \in Jobs
  BY <1>1, <1>2, <1>4 DEF JobsKept, GoesOn
<1>7. /\ result.run \in 0..Len(jobs) /\ Works(result.status, result.run, jobs)
      /\ compose.run \in 0..Len(jobs) /\ Works(compose.status, compose.run, jobs)
      /\ UndoInv(compose, box.text, jobs) /\ (result.showing => result.translation # NoText)
      /\ Current("result", result.run, jobs) /\ Current("box", compose.run, jobs)
  BY DEF TranslateIInv, ResultInv, BoxInv, Current
<1>8. "done" \in Status /\ ~Busy("done")
  BY DEF Status, Busy
<1>9. Output(i) \in Texts /\ Output(i).by = i /\ Output(i) # NoText
  BY <1>2, TextsAre
<1>10. jobs'[i].text = jobs[i].text /\ jobs'[i].of = jobs[i].of
  BY <1>2, <1>6 DEF JobsKept, SameJob
<1>11. CASE ~jobs[i].live
  <2>1. UNCHANGED <<result, compose, box>>
    BY <1>11 DEF Translated
  <2>2. ResultInv(result, jobs') /\ BoxInv(compose, box.text, jobs')
    BY <1>2, <1>4, <1>11, SilentStep
  <2> QED
    BY <1>1, <1>2, <1>5, <1>6, <2>1, <2>2, StepKeeps
<1>12. CASE jobs[i].live /\ jobs[i].of = "result"
  <2>1. /\ result' = [result EXCEPT !.status = "done", !.translation = Output(i), !.showing = TRUE]
        /\ UNCHANGED <<compose, box>>
    BY <1>12 DEF Translated
  <2>2. /\ result' \in ResultBoxes /\ result'.status = "done" /\ result'.run = result.run
        /\ result'.version = result.version /\ result'.translation = Output(i)
    BY <1>1, <1>8, <1>9, <2>1 DEF ResultBoxes
  <2>3. result.run = i /\ compose.run # i /\ jobs[i].text = Typed(result.version)
    BY <1>2, <1>7, <1>12 DEF Current, Going, TranslateIInv, ResultInv
  <2>4. Works(compose.status, compose.run, jobs')
    BY <1>1, <1>2, <1>4, <1>7, <2>3, WorksOn
  <2>5. BoxInv(compose, box.text, jobs')
    BY <1>1, <1>6, <1>7, <2>4, BoxStays DEF TranslateIInv
  <2>6. Current("result", result.run, jobs')
    BY <1>6, <1>7 DEF JobsKept, Current, SameJob
  <2>7. \A j \in 1..Len(jobs') : Going(jobs'[j]) /\ jobs'[j].of = "result" =>
            jobs'[j].text = Typed(result.version)
    BY <1>6 DEF JobsKept, SameJob, TranslateIInv, ResultInv
  <2>8. i \in 1..Len(jobs')
    BY <1>2, <1>6 DEF JobsKept
  <2>9. ResultInv(result', jobs')
    BY <1>8, <1>9, <1>10, <2>2, <2>3, <2>6, <2>7, <2>8 DEF ResultInv, Works
  <2> QED
    BY <1>1, <1>2, <1>5, <1>6, <2>1, <2>2, <2>5, <2>9, StepKeeps
<1>13. CASE jobs[i].live /\ jobs[i].of = "box"
  <2>1. compose.run = i /\ result.run # i
    BY <1>2, <1>7, <1>13 DEF Current, Going
  <2>2. UNCHANGED result /\ ResultInv(result, jobs')
    <3>1. Works(result.status, result.run, jobs')
      BY <1>1, <1>2, <1>4, <1>7, <2>1, WorksOn
    <3> QED
      BY <1>1, <1>6, <1>7, <1>13, <3>1, ResultStays DEF TranslateIInv, Translated
  <2>3. CASE StillReads(i)
    <3>1. /\ compose' = [compose EXCEPT !.status = "done", !.original = jobs[i].text,
                                        !.written = Output(i), !.canUndo = TRUE]
          /\ box' = [box EXCEPT !.text = Output(i)]
      BY <1>13, <2>3 DEF Translated
    <3>2. jobs[i].text \in Texts
      BY <1>6 DEF Jobs
    <3>3. /\ compose' \in Composers /\ compose'.status = "done" /\ compose'.run = compose.run
          /\ compose'.original = jobs[i].text /\ compose'.written = Output(i) /\ compose'.canUndo
      BY <1>1, <1>8, <1>9, <3>1, <3>2 DEF Composers
    <3>4. box'.text = Output(i) /\ box' \in [text : Texts, edits : BOOLEAN, n : Nat]
      BY <1>1, <1>9, <3>1
    <3>5. UndoInv(compose', box'.text, jobs)
      BY <1>2, <1>9, <3>3, <3>4 DEF UndoInv
    <3>6. BoxInv(compose', box'.text, jobs')
      BY <1>1, <1>6, <1>8, <3>3, <3>5, BoxStays DEF TranslateIInv, Works
    <3>7. TranslateTypes'
      BY <1>1, <1>2, <1>6, <2>2, <3>3, <3>4 DEF TranslateIInv, TranslateTypes, JobsKept
    <3>8. box.text = jobs[box'.text.by].text /\ compose'.original = box.text
      BY <1>9, <2>3, <3>3, <3>4 DEF StillReads
    <3> QED
      BY <1>5, <2>2, <3>6, <3>7, <3>8 DEF TranslateIInv
  <2>4. CASE ~StillReads(i)
    <3>1. compose' = [compose EXCEPT !.status = "done"] /\ UNCHANGED box
      BY <1>13, <2>4 DEF Translated
    <3>2. /\ compose' \in Composers /\ compose'.status = "done" /\ compose'.run = compose.run
          /\ compose'.original = compose.original /\ compose'.written = compose.written
          /\ compose'.canUndo = compose.canUndo
      BY <1>1, <1>8, <3>1 DEF Composers
    <3>3. UndoInv(compose', box.text, jobs)
      BY <1>7, <3>2 DEF UndoInv
    <3>4. BoxInv(compose', box.text, jobs')
      BY <1>1, <1>6, <1>8, <3>2, <3>3, BoxStays DEF TranslateIInv, Works
    <3> QED
      BY <1>1, <1>2, <1>5, <1>6, <2>2, <3>1, <3>2, <3>4, StepKeeps
  <2> QED
    BY <2>3, <2>4
<1> QED
  BY <1>6, <1>11, <1>12, <1>13 DEF Jobs

---------------------------------------------------------------------------
\* What the user does, and the lock.
LEMMA AbortKeeps ==
  ASSUME NEW rs \in Seq(Jobs), NEW k \in 0..Len(rs), NEW q, Aborts(k, rs, q)
  PROVE  /\ JobsKept(rs, q)
         /\ \A ch : ChainInv(ch, rs) => ChainInv(ch, q)
         /\ \A status : \A run \in 0..Len(rs) :
                Works(status, run, rs) /\ (run # 0 => run # k) => Works(status, run, q)
<1>1. JobsKept(rs, q)
  BY DEF JobsKept, Aborts
<1>2. ASSUME NEW ch, ChainInv(ch, rs) PROVE ChainInv(ch, q)
  <2>1. q \in Seq(Jobs) /\ Len(q) = Len(rs)
    BY DEF Aborts
  <2>2. \A j \in 1..Len(rs) : q[j].at = rs[j].at /\ q[j].checked = rs[j].checked
    BY DEF Aborts
  <2>3. \A j \in 1..Len(q) : ~(j > Len(rs))
    BY <2>1
  <2>4. Len(q) >= Len(rs)
    BY <2>1
  <2> QED
    BY <1>2, <2>1, <2>2, <2>3, <2>4, ChainStays
<1>3. ASSUME NEW status, NEW run \in 0..Len(rs), Works(status, run, rs), run # 0 => run # k
      PROVE  Works(status, run, q)
  <2>1. run # 0 => q[run] = rs[run]
    BY <1>3 DEF Aborts
  <2> QED
    BY <1>3, <2>1 DEF Works
<1> QED
  BY <1>1, <1>2, <1>3

LEMMA IdleBoxes ==
  ASSUME NEW n \in Nat, NEW has \in BOOLEAN
  PROVE  /\ IdleResult(n) \in ResultBoxes /\ IdleResult(n).version = n /\ IdleResult(n).run = 0
         /\ IdleResult(n).translation = NoText /\ ~IdleResult(n).showing
         /\ ~Busy(IdleResult(n).status)
         /\ LET r == [IdleResult(n) EXCEPT !.has = has] IN
            /\ r \in ResultBoxes /\ r.version = n /\ r.run = 0 /\ r.translation = NoText
            /\ ~r.showing /\ ~Busy(r.status)
         /\ IdleCompose \in Composers /\ IdleCompose.run = 0 /\ IdleCompose.original = NoText
         /\ ~Busy(IdleCompose.status)
<1>1. NoText \in Texts /\ "idle" \in Status /\ ~Busy("idle")
  BY TextsAre DEF Status, Busy
<1> QED
  BY <1>1 DEF IdleResult, IdleCompose, ResultBoxes, Composers

\* A new result, when the run of the old one has been aborted.
LEMMA FreshResult ==
  ASSUME NEW rs \in Seq(Jobs), NEW r, Current("result", r.run, rs), NEW q,
         Aborts(r.run, rs, q), NEW s, s.run = 0, s.translation = NoText, ~s.showing,
         ~Busy(s.status)
  PROVE  ResultInv(s, q)
<1>1. \A i \in 1..Len(q) : ~(Going(q[i]) /\ q[i].of = "result")
  BY DEF Aborts, Current, SameJob
<1>2. Current("result", 0, q)
  BY <1>1 DEF Current, Aborts
<1> QED
  BY <1>1, <1>2 DEF ResultInv, Works

LEMMA FreshComposer ==
  ASSUME NEW rs \in Seq(Jobs), NEW c, Current("box", c.run, rs), NEW q,
         Aborts(c.run, rs, q), NEW d, NEW t, d.run = 0, UndoInv(d, t, rs), ~Busy(d.status)
  PROVE  BoxInv(d, t, q)
<1>1. \A i \in 1..Len(q) : ~(Going(q[i]) /\ q[i].of = "box")
  BY DEF Aborts, Current, SameJob
<1>2. Current("box", 0, q)
  BY <1>1 DEF Current, Aborts
<1>3. UndoInv(d, t, q)
  BY DEF UndoInv, Aborts, SameJob
<1> QED
  BY <1>2, <1>3 DEF BoxInv, Works

LEMMA BeginsForIts ==
  ASSUME NEW rs \in Seq(Jobs), NEW kind, NEW k, Current(kind, k, rs), NEW job \in Jobs,
         job.of = kind, Going(job), NEW q, Begins(k, job, rs, q), NEW status
  PROVE  Current(kind, Len(rs) + 1, q) /\ Works(status, Len(rs) + 1, q)
<1>1. PICK n \in Nat : n = Len(rs)
  OBVIOUS
<1>2. Len(q) = n + 1 /\ q[n + 1] = job
  BY <1>1 DEF Begins
<1>3. \A j \in 1..n : ~(Going(q[j]) /\ q[j].of = kind)
  BY <1>1 DEF Begins, Current, SameJob
<1>4. \A j \in 1..n + 1 : j \in 1..n \/ j = n + 1
  BY <1>1
<1>5. n + 1 \in 0..Len(q) /\ n + 1 # 0
  BY <1>1, <1>2
<1> QED
  BY <1>1, <1>2, <1>3, <1>4, <1>5 DEF Current, Works

LEMMA BeginsForOthers ==
  ASSUME NEW rs \in Seq(Jobs), NEW kind, NEW run, Current(kind, run, rs), NEW job \in Jobs,
         job.of # kind, NEW k, NEW q, Begins(k, job, rs, q), NEW status,
         Works(status, run, rs), run # 0 => run # k
  PROVE  Current(kind, run, q) /\ Works(status, run, q)
<1>1. PICK n \in Nat : n = Len(rs)
  OBVIOUS
<1>2. Len(q) = n + 1 /\ q[n + 1] = job
  BY <1>1 DEF Begins
<1>3. \A j \in 1..n : SameJob(rs[j], q[j]) /\ (j # k => q[j] = rs[j])
  BY <1>1 DEF Begins
<1>4. \A j \in 1..n + 1 : j \in 1..n \/ j = n + 1
  BY <1>1
<1>5. run \in 0..n /\ run \in 0..n + 1 /\ (run # 0 => run \in 1..n)
  BY <1>1 DEF Current
<1>6. \A j \in 1..n + 1 : Going(q[j]) /\ q[j].of = kind => j = run
  <2> SUFFICES ASSUME NEW j \in 1..n, Going(q[j]), q[j].of = kind PROVE j = run
    BY <1>2, <1>4
  <2> QED
    BY <1>1, <1>3 DEF Current, SameJob
<1>7. run # 0 => q[run] = rs[run]
  BY <1>3, <1>5
<1> QED
  BY <1>1, <1>2, <1>5, <1>6, <1>7 DEF Current, Works

LEMMA ChainAtBeginning ==
  ASSUME NEW rs \in Seq(Jobs), NEW job, job.at = "start", NEW k, NEW q, Begins(k, job, rs, q),
         NEW ch, ChainInv(ch, rs)
  PROVE  ChainInv(ch, q)
<1>1. PICK n \in Nat : n = Len(rs)
  OBVIOUS
<1>2. q \in Seq(Jobs) /\ Len(q) = n + 1 /\ ~Waits(q[n + 1])
  BY <1>1 DEF Begins, Waits
<1>3. \A j \in 1..Len(q) : j > Len(rs) => ~Waits(q[j])
  <2>1. \A j \in 1..n + 1 : j > n => j = n + 1
    BY <1>1
  <2> QED
    BY <1>1, <1>2, <2>1
<1>4. \A j \in 1..Len(rs) : q[j].at = rs[j].at /\ q[j].checked = rs[j].checked
  BY DEF Begins
<1>5. Len(q) >= Len(rs)
  BY <1>1, <1>2
<1> QED
  BY <1>2, <1>3, <1>4, <1>5, ChainStays

\* The two kinds of runs are apart.
LEMMA RunsApart ==
  ASSUME TranslateIInv
  PROVE  /\ Current("result", result.run, jobs) /\ Current("box", compose.run, jobs)
         /\ result.run \in 0..Len(jobs) /\ compose.run \in 0..Len(jobs)
         /\ result.run # 0 => result.run # compose.run
         /\ compose.run # 0 => compose.run # result.run
         /\ Works(result.status, result.run, jobs) /\ Works(compose.status, compose.run, jobs)
         /\ UndoInv(compose, box.text, jobs) /\ (result.showing => result.translation # NoText)
  BY DEF TranslateIInv, ResultInv, BoxInv, Current

LEMMA NewResultKeeps ==
  ASSUME TranslateIInv, NEW has \in BOOLEAN, NewResult(has) PROVE TranslateIInv'
<1>1. /\ jobs \in Seq(Jobs) /\ ChainInv(chain, jobs) /\ result \in ResultBoxes /\ moves \in 0..MaxMoves
      /\ result.version + 1 \in Nat
  BY DEF TranslateIInv, TranslateTypes, ResultBoxes
<1>2. /\ result' = [IdleResult(result.version + 1) EXCEPT !.has = has]
      /\ jobs' = Aborted(result.run, jobs) /\ UNCHANGED <<box, compose, chain, fetched>>
      /\ moves' \in 0..MaxMoves
  BY <1>1, TranslateAssumption DEF NewResult, Cancelled, Move
<1>3. /\ result' \in ResultBoxes /\ result'.run = 0 /\ result'.translation = NoText
      /\ ~result'.showing /\ ~Busy(result'.status)
  BY <1>1, <1>2, IdleBoxes
<1>4. Aborts(result.run, jobs, jobs')
  BY <1>1, <1>2, RunsApart, AbortAborts
<1>5. JobsKept(jobs, jobs') /\ ChainInv(chain, jobs') /\ Works(compose.status, compose.run, jobs')
  BY <1>1, <1>4, RunsApart, AbortKeeps
<1>6. ResultInv(result', jobs')
  BY <1>1, <1>3, <1>4, RunsApart, FreshResult
<1>7. BoxInv(compose, box.text, jobs')
  BY <1>1, <1>5, RunsApart, BoxStays DEF TranslateIInv
<1>8. TranslateTypes'
  BY <1>2, <1>3, <1>5 DEF TranslateIInv, TranslateTypes, JobsKept
<1> QED
  BY <1>2, <1>5, <1>6, <1>7, <1>8 DEF TranslateIInv

LEMMA EditKeeps == TranslateIInv /\ Edit => TranslateIInv'
<1> SUFFICES ASSUME TranslateIInv, Edit PROVE TranslateIInv'
  OBVIOUS
<1>1. /\ jobs \in Seq(Jobs) /\ compose \in Composers /\ moves \in 0..MaxMoves
      /\ box \in [text : Texts, edits : BOOLEAN, n : Nat]
  BY DEF TranslateIInv, TranslateTypes
<1>2. PICK t \in {Typed(box.n + 1), NoText} :
          box' = [box EXCEPT !.text = t, !.n = @ + 1] /\ compose' = Noted(compose, t)
  BY DEF Edit
<1>3. UNCHANGED <<result, jobs, chain, fetched>> /\ moves' \in 0..MaxMoves
  BY <1>1, TranslateAssumption DEF Edit, Move
<1>4. t \in Texts /\ t.by = 0
  BY <1>1, TextsAre
<1>5. box' \in [text : Texts, edits : BOOLEAN, n : Nat] /\ box'.text = t
  <2>1. box' = [text |-> t, edits |-> box.edits, n |-> box.n + 1]
    BY <1>1, <1>2
  <2> QED
    BY <1>1, <1>4, <2>1
<1>6. /\ compose' \in Composers /\ compose'.run = compose.run
      /\ Busy(compose'.status) => compose'.status = compose.status
      /\ compose'.original \in {compose.original, NoText}
      /\ compose.written # NoText /\ t # compose.written => compose'.original = NoText
  BY <1>1, <1>2, TextsAre DEF Noted, Composers, Status, Busy
<1>7. compose'.original = NoText
  <2> SUFFICES ASSUME compose.original # NoText PROVE compose'.original = NoText
    BY <1>6
  <2>1. compose.written = box.text /\ box.text.by \in 1..Len(jobs)
    BY RunsApart DEF UndoInv
  <2>2. compose.written # NoText /\ t # compose.written
    BY <1>4, <2>1, TextsAre
  <2> QED
    BY <1>6, <2>2
<1>8. BoxInv(compose', box'.text, jobs')
  BY <1>3, <1>6, <1>7, RunsApart DEF BoxInv, UndoInv, Works
<1>9. TranslateTypes'
  BY <1>3, <1>5, <1>6 DEF TranslateIInv, TranslateTypes
<1> QED
  BY <1>3, <1>8, <1>9 DEF TranslateIInv

LEMMA SwitchKeeps == TranslateIInv /\ SwitchMode => TranslateIInv'
<1> SUFFICES ASSUME TranslateIInv, SwitchMode PROVE TranslateIInv'
  OBVIOUS
<1>1. /\ jobs \in Seq(Jobs) /\ ChainInv(chain, jobs) /\ compose \in Composers
      /\ moves \in 0..MaxMoves /\ box \in [text : Texts, edits : BOOLEAN, n : Nat]
  BY DEF TranslateIInv, TranslateTypes
<1>2. box' = [box EXCEPT !.edits = ~@] /\ UNCHANGED <<result, chain, fetched>> /\ moves' \in 0..MaxMoves
  BY <1>1, TranslateAssumption DEF SwitchMode, Move
<1>3. box' \in [text : Texts, edits : BOOLEAN, n : Nat] /\ box'.text = box.text
  BY <1>1, <1>2
<1>4. CASE box.edits
  <2>1. /\ compose' = [compose EXCEPT !.run = 0, !.status = Settled(@)]
        /\ jobs' = Aborted(compose.run, jobs)
    BY <1>4 DEF SwitchMode
  <2>2. /\ compose' \in Composers /\ compose'.run = 0 /\ ~Busy(compose'.status)
        /\ compose'.original = compose.original /\ compose'.written = compose.written
        /\ compose'.canUndo = compose.canUndo
    BY <1>1, <2>1 DEF Composers, Settled, Busy, Status
  <2>3. Aborts(compose.run, jobs, jobs')
    BY <1>1, <2>1, RunsApart, AbortAborts
  <2>4. JobsKept(jobs, jobs') /\ ChainInv(chain, jobs') /\ Works(result.status, result.run, jobs')
    BY <1>1, <2>3, RunsApart, AbortKeeps
  <2>5. UndoInv(compose', box.text, jobs)
    BY <2>2, RunsApart DEF UndoInv
  <2>6. BoxInv(compose', box.text, jobs')
    BY <1>1, <2>2, <2>3, <2>5, RunsApart, FreshComposer
  <2>7. ResultInv(result, jobs')
    BY <1>1, <2>4, RunsApart, ResultStays DEF TranslateIInv
  <2>8. TranslateTypes'
    BY <1>2, <1>3, <2>2, <2>4 DEF TranslateIInv, TranslateTypes, JobsKept
  <2> QED
    BY <1>2, <1>3, <2>4, <2>6, <2>7, <2>8 DEF TranslateIInv
<1>5. CASE ~box.edits
  <2>1. UNCHANGED <<compose, jobs>>
    BY <1>5 DEF SwitchMode
  <2>2. TranslateTypes'
    BY <1>2, <1>3, <2>1 DEF TranslateIInv, TranslateTypes
  <2> QED
    BY <1>2, <1>3, <2>1, <2>2 DEF TranslateIInv
<1> QED
  BY <1>4, <1>5

LEMMA LockKeeps == TranslateIInv /\ LockWhile => TranslateIInv'
<1> SUFFICES ASSUME TranslateIInv, LockWhile PROVE TranslateIInv'
  OBVIOUS
<1>1. /\ jobs \in Seq(Jobs) /\ ChainInv(chain, jobs) /\ result.version + 1 \in Nat
      /\ moves \in 0..MaxMoves /\ box \in [text : Texts, edits : BOOLEAN, n : Nat]
  BY DEF TranslateIInv, TranslateTypes, ResultBoxes
<1>2. /\ result' = IdleResult(result.version + 1) /\ compose' = IdleCompose
      /\ box' = [box EXCEPT !.text = NoText] /\ UNCHANGED <<chain, fetched>> /\ moves' \in 0..MaxMoves
  BY <1>1, TranslateAssumption DEF LockWhile, Move
<1>3. box' \in [text : Texts, edits : BOOLEAN, n : Nat]
  BY <1>1, <1>2, TextsAre
<1>4. PICK q : q = Aborted(result.run, jobs) /\ jobs' = Aborted(compose.run, q)
  BY DEF LockWhile
<1>5. Aborts(result.run, jobs, q)
  BY <1>1, <1>4, RunsApart, AbortAborts
<1>6. JobsKept(jobs, q) /\ ChainInv(chain, q) /\ q \in Seq(Jobs) /\ Len(q) = Len(jobs)
  BY <1>1, <1>5, RunsApart, AbortKeeps DEF JobsKept
<1>7. Aborts(compose.run, q, jobs')
  BY <1>4, <1>6, RunsApart, AbortAborts
<1>8. JobsKept(q, jobs') /\ ChainInv(chain, jobs')
  BY <1>6, <1>7, RunsApart, AbortKeeps
<1>9. /\ result' \in ResultBoxes /\ result'.run = 0 /\ result'.translation = NoText
      /\ ~result'.showing /\ ~Busy(result'.status)
      /\ compose' \in Composers /\ compose'.run = 0 /\ compose'.original = NoText
      /\ ~Busy(compose'.status)
  BY <1>1, <1>2, IdleBoxes
<1>10. ResultInv(result', q)
  BY <1>1, <1>5, <1>9, RunsApart, FreshResult
<1>11. ResultInv(result', jobs')
  BY <1>6, <1>8, <1>9, <1>10, ResultStays DEF Works
<1>12. Current("box", compose.run, q)
  BY <1>6, RunsApart DEF Current, JobsKept, SameJob
<1>13. BoxInv(compose', box'.text, jobs')
  BY <1>6, <1>7, <1>9, <1>12, FreshComposer DEF UndoInv
<1>14. TranslateTypes'
  BY <1>2, <1>3, <1>6, <1>8, <1>9 DEF TranslateIInv, TranslateTypes, JobsKept
<1> QED
  BY <1>2, <1>8, <1>11, <1>13, <1>14 DEF TranslateIInv

LEMMA TranslateResultKeeps == TranslateIInv /\ TranslateResult => TranslateIInv'
<1> SUFFICES ASSUME TranslateIInv, TranslateResult PROVE TranslateIInv'
  OBVIOUS
<1>1. /\ jobs \in Seq(Jobs) /\ ChainInv(chain, jobs) /\ result \in ResultBoxes
      /\ Len(jobs) <= MaxRuns /\ Len(jobs) \in Nat
  BY DEF TranslateIInv, TranslateTypes
<1>2. PICK job : job = [of |-> "result", text |-> Typed(result.version), at |-> "start",
                        live |-> TRUE, checked |-> FALSE]
  OBVIOUS
<1>3. job \in Jobs /\ Going(job) /\ job.of = "result" /\ job.at = "start"
      /\ job.text = Typed(result.version)
  <2>1. Typed(result.version) \in Texts
    BY <1>1, TextsAre DEF ResultBoxes
  <2> QED
    BY <1>2, <2>1 DEF Jobs, Going, Stages
<1>4. /\ jobs' = Aborted(result.run, Append(jobs, job))
      /\ result' = [result EXCEPT !.status = "working", !.run = Len(jobs) + 1]
      /\ UNCHANGED <<box, compose, chain, fetched, moves>> /\ Len(jobs) < MaxRuns
  BY <1>2 DEF TranslateResult, Begun
<1>5. Begins(result.run, job, jobs, jobs')
  BY <1>1, <1>3, <1>4, RunsApart, RunBegins
<1>0. PICK m \in Nat : m = Len(jobs) + 1 /\ m <= MaxRuns
  BY <1>1, <1>4, TranslateAssumption
<1>6. /\ result' \in ResultBoxes /\ result'.run = Len(jobs) + 1 /\ result'.version = result.version
      /\ result'.translation = result.translation /\ result'.showing = result.showing
  BY <1>0, <1>1, <1>4 DEF ResultBoxes, Status
<1>7. Current("result", result'.run, jobs') /\ Works(result'.status, result'.run, jobs')
  BY <1>1, <1>3, <1>5, <1>6, RunsApart, BeginsForIts
<1>8. Current("box", compose.run, jobs') /\ Works(compose.status, compose.run, jobs')
  BY <1>1, <1>3, <1>5, RunsApart, BeginsForOthers
<1>9. /\ jobs' \in Seq(Jobs) /\ Len(jobs') = Len(jobs) + 1 /\ jobs'[Len(jobs) + 1] = job
      /\ \A j \in 1..Len(jobs) : j \in 1..Len(jobs') /\ jobs'[j].text = jobs[j].text
  BY <1>1, <1>5 DEF Begins, SameJob
<1>10. ChainInv(chain, jobs')
  BY <1>1, <1>3, <1>5, ChainAtBeginning
<1>11. \A i \in 1..Len(jobs') : Going(jobs'[i]) /\ jobs'[i].of = "result" =>
           jobs'[i].text = Typed(result.version)
  BY <1>3, <1>6, <1>7, <1>9 DEF Current
<1>12. result.translation # NoText =>
           /\ result.translation.by \in 1..Len(jobs')
           /\ jobs'[result.translation.by].text = Typed(result.version)
  BY <1>9 DEF TranslateIInv, ResultInv
<1>13. ResultInv(result', jobs')
  BY <1>6, <1>7, <1>11, <1>12, RunsApart DEF ResultInv
<1>14. UndoInv(compose, box.text, jobs')
  BY <1>9, RunsApart DEF UndoInv
<1>15. TranslateTypes'
  BY <1>0, <1>4, <1>6, <1>9 DEF TranslateIInv, TranslateTypes
<1> QED
  BY <1>4, <1>8, <1>10, <1>13, <1>14, <1>15 DEF TranslateIInv, BoxInv

LEMMA TranslateBoxKeeps == TranslateIInv /\ TranslateBox => TranslateIInv'
<1> SUFFICES ASSUME TranslateIInv, TranslateBox PROVE TranslateIInv'
  OBVIOUS
<1>1. /\ jobs \in Seq(Jobs) /\ ChainInv(chain, jobs) /\ compose \in Composers
      /\ box \in [text : Texts, edits : BOOLEAN, n : Nat]
      /\ Len(jobs) <= MaxRuns /\ Len(jobs) \in Nat
  BY DEF TranslateIInv, TranslateTypes
<1>2. PICK job : job = [of |-> "box", text |-> box.text, at |-> "start",
                        live |-> TRUE, checked |-> FALSE]
  OBVIOUS
<1>3. job \in Jobs /\ Going(job) /\ job.of = "box" /\ job.at = "start"
  BY <1>1, <1>2 DEF Jobs, Going, Stages
<1>4. /\ jobs' = Aborted(compose.run, Append(jobs, job))
      /\ compose' = [compose EXCEPT !.status = "working", !.run = Len(jobs) + 1]
      /\ UNCHANGED <<box, result, chain, fetched, moves>> /\ Len(jobs) < MaxRuns
  BY <1>2 DEF TranslateBox, Begun
<1>5. Begins(compose.run, job, jobs, jobs')
  BY <1>1, <1>3, <1>4, RunsApart, RunBegins
<1>0. PICK m \in Nat : m = Len(jobs) + 1 /\ m <= MaxRuns
  BY <1>1, <1>4, TranslateAssumption
<1>6. /\ compose' \in Composers /\ compose'.run = Len(jobs) + 1
      /\ compose'.original = compose.original /\ compose'.written = compose.written
      /\ compose'.canUndo = compose.canUndo
  BY <1>0, <1>1, <1>4 DEF Composers, Status
<1>7. Current("box", compose'.run, jobs') /\ Works(compose'.status, compose'.run, jobs')
  BY <1>1, <1>3, <1>5, <1>6, RunsApart, BeginsForIts
<1>8. Current("result", result.run, jobs') /\ Works(result.status, result.run, jobs')
  BY <1>1, <1>3, <1>5, RunsApart, BeginsForOthers
<1>9. /\ jobs' \in Seq(Jobs) /\ Len(jobs') = Len(jobs) + 1 /\ jobs'[Len(jobs) + 1] = job
      /\ \A j \in 1..Len(jobs) : j \in 1..Len(jobs') /\ SameJob(jobs[j], jobs'[j])
  BY <1>1, <1>5 DEF Begins
<1>10. ChainInv(chain, jobs')
  BY <1>1, <1>3, <1>5, ChainAtBeginning
<1>11. \A i \in 1..Len(jobs') : Going(jobs'[i]) /\ jobs'[i].of = "result" =>
           jobs'[i].text = Typed(result.version)
  <2> SUFFICES ASSUME NEW i \in 1..Len(jobs'), Going(jobs'[i]), jobs'[i].of = "result"
               PROVE  jobs'[i].text = Typed(result.version)
    OBVIOUS
  <2>1. i \in 1..Len(jobs)
    BY <1>1, <1>3, <1>9
  <2> QED
    BY <1>9, <2>1 DEF SameJob, TranslateIInv, ResultInv
<1>12. result.translation # NoText =>
           /\ result.translation.by \in 1..Len(jobs')
           /\ jobs'[result.translation.by].text = Typed(result.version)
  BY <1>9 DEF TranslateIInv, ResultInv, SameJob
<1>13. ResultInv(result, jobs')
  BY <1>8, <1>11, <1>12, RunsApart DEF ResultInv
<1>14. UndoInv(compose', box.text, jobs')
  BY <1>6, <1>9, RunsApart DEF UndoInv, SameJob
<1>15. TranslateTypes'
  BY <1>0, <1>4, <1>6, <1>9 DEF TranslateIInv, TranslateTypes
<1> QED
  BY <1>4, <1>7, <1>10, <1>13, <1>14, <1>15 DEF TranslateIInv, BoxInv

LEMMA UndoKeeps == TranslateIInv /\ UndoTranslation => TranslateIInv'
<1> SUFFICES ASSUME TranslateIInv, UndoTranslation PROVE TranslateIInv'
  OBVIOUS
<1>1. compose \in Composers /\ box \in [text : Texts, edits : BOOLEAN, n : Nat]
  BY DEF TranslateIInv, TranslateTypes
<1>2. /\ compose' = [compose EXCEPT !.original = NoText, !.written = compose.original,
                                    !.canUndo = FALSE, !.status = "idle"]
      /\ box' = IF compose.original # NoText THEN [box EXCEPT !.text = compose.original] ELSE box
      /\ UNCHANGED <<result, jobs, chain, fetched, moves>>
  BY DEF UndoTranslation
<1>3. /\ compose' \in Composers /\ compose'.run = compose.run /\ compose'.original = NoText
      /\ ~Busy(compose'.status)
  BY <1>1, <1>2, TextsAre DEF Composers, Status, Busy
<1>4. box' \in [text : Texts, edits : BOOLEAN, n : Nat]
  BY <1>1, <1>2 DEF Composers
<1>5. BoxInv(compose', box'.text, jobs')
  BY <1>2, <1>3, RunsApart DEF BoxInv, UndoInv, Works
<1>6. TranslateTypes'
  BY <1>2, <1>3, <1>4 DEF TranslateIInv, TranslateTypes
<1> QED
  BY <1>2, <1>5, <1>6 DEF TranslateIInv

LEMMA TranslateInitially == translateInit => TranslateIInv
<1> SUFFICES ASSUME translateInit PROVE TranslateIInv
  OBVIOUS
<1>1. /\ result = IdleResult(0) /\ box = [text |-> Typed(1), edits |-> TRUE, n |-> 1]
      /\ compose = IdleCompose /\ jobs = <<>> /\ chain = <<>> /\ fetched = {} /\ moves = 0
  BY DEF translateInit
<1>2. /\ result \in ResultBoxes /\ result.run = 0 /\ result.translation = NoText
      /\ ~result.showing /\ ~Busy(result.status)
      /\ compose \in Composers /\ compose.run = 0 /\ compose.original = NoText
      /\ ~Busy(compose.status)
  BY <1>1, IdleBoxes
<1>3. TranslateTypes
  BY <1>1, <1>2, TextsAre, TranslateAssumption DEF TranslateTypes
<1>4. ResultInv(result, jobs) /\ BoxInv(compose, box.text, jobs)
  BY <1>1, <1>2 DEF ResultInv, BoxInv, UndoInv, Current, Works
<1>5. ChainInv(chain, jobs)
  BY <1>1 DEF ChainInv
<1> QED
  BY <1>3, <1>4, <1>5 DEF TranslateIInv

LEMMA TranslateKept == TranslateIInv /\ [translateNext]_translateVars => TranslateIInv'
<1> SUFFICES ASSUME TranslateIInv, [translateNext]_translateVars PROVE TranslateIInv'
  OBVIOUS
<1>1. CASE UNCHANGED translateVars
  BY <1>1 DEF translateVars, TranslateIInv, TranslateTypes
<1>2. ASSUME NEW i \in 1..MaxRuns, RunStep(i) PROVE TranslateIInv'
  BY <1>2, DetectingKeeps, CheckKeeps, TurnKeeps, TranslatedKeeps, SessionFailsKeeps DEF RunStep
<1>3. CASE ShowOriginal
  <2>1. /\ result' = [result EXCEPT !.showing = ~@] /\ result.translation # NoText
        /\ UNCHANGED <<box, compose, jobs, chain, fetched, moves>>
    BY <1>3 DEF ShowOriginal
  <2>2. /\ result' \in ResultBoxes /\ result'.run = result.run /\ result'.status = result.status
        /\ result'.version = result.version /\ result'.translation = result.translation
    BY <2>1 DEF TranslateIInv, TranslateTypes, ResultBoxes
  <2>3. ResultInv(result', jobs)
    BY <2>1, <2>2 DEF TranslateIInv, ResultInv
  <2> QED
    BY <2>1, <2>2, <2>3 DEF TranslateIInv, TranslateTypes
<1>4. CASE Evict
  BY <1>4, TranslateAssumption DEF Evict, Move, TranslateIInv, TranslateTypes
<1> QED
  BY <1>1, <1>2, <1>3, <1>4, NewResultKeeps, EditKeeps, SwitchKeeps, LockKeeps,
     TranslateResultKeeps, TranslateBoxKeeps, UndoKeeps DEF translateNext

\* What the invariant says of the properties.
LEMMA TranslationsHold ==
  ASSUME TranslateIInv
  PROVE  /\ translateTypeOK /\ TranslationIsOfTheResult /\ UndoIsOfThisText /\ WorkingHasARun
         /\ DownloadsAreShown
<1>1. translateTypeOK
  <2>1. /\ result.status \in Status /\ compose.status \in Status /\ fetched \subseteq {"ensure", "evicted", "silently"}
        /\ moves \in 0..MaxMoves /\ Len(jobs) \in Nat /\ Len(jobs) <= MaxRuns
    BY DEF TranslateIInv, TranslateTypes, ResultBoxes, Composers
  <2>2. result.run \in 0..MaxRuns /\ compose.run \in 0..MaxRuns
    BY <2>1, RunsApart, TranslateAssumption
  <2>3. \A a \in DOMAIN chain : chain[a] \in DOMAIN jobs /\ jobs[chain[a]].at \in {"queued", "session"}
    <3>1. chain \in Seq(1..Len(jobs)) /\ \A a \in 1..Len(chain) : Waits(jobs[chain[a]])
      BY DEF TranslateIInv, ChainInv
    <3>2. jobs \in Seq(Jobs)
      BY DEF TranslateIInv, TranslateTypes
    <3> QED
      BY <3>1, <3>2 DEF Waits
  <2> QED
    BY <2>1, <2>2, <2>3 DEF translateTypeOK
<1>2. TranslationIsOfTheResult
  BY DEF TranslateIInv, ResultInv, TranslationIsOfTheResult
<1>3. UndoIsOfThisText
  BY DEF TranslateIInv, BoxInv, UndoInv, UndoIsOfThisText
<1>4. WorkingHasARun
  BY RunsApart DEF Works, Going, WorkingHasARun
<1>5. DownloadsAreShown
  BY DEF TranslateIInv, TranslateTypes, DownloadsAreShown
<1> QED
  BY <1>1, <1>2, <1>3, <1>4, <1>5

(* For any number of translations started, aborted and overtaken, packs that *)
(* come and go, and texts edited meanwhile: what is shown as a translation   *)
(* is of the result on the screen, a text is replaced only by its own        *)
(* translation and Undo brings back what that replaced, "working" has a run  *)
(* behind it, and no download begins without being shown, but for a pack     *)
(* that was dropped while the run waited its turn.                           *)
THEOREM TranslationsStayTrue == translateSpec => TranslationsAreTrue
<1>1. TranslateIInv /\ [translateNext]_translateVars =>
          [(\E i \in 1..MaxRuns : Translated(i)) /\ box' # box =>
               box.text = jobs[box'.text.by].text /\ compose'.original = box.text]_translateVars
  BY TranslatedKeeps
<1>2. TranslateIInv => /\ translateTypeOK /\ TranslationIsOfTheResult /\ UndoIsOfThisText
                       /\ WorkingHasARun /\ DownloadsAreShown
  BY TranslationsHold
<1> QED
  BY <1>1, <1>2, TranslateInitially, TranslateKept, PTL
     DEF translateSpec, TranslationsAreTrue, NothingTypedIsLost

-----------------------------------------------------------------------------
(* Selections of the context menu.  Numbers are given out once, so a sweep  *)
(* that finds its number again finds the selection it saw, stale since.     *)

Removals == [at : {"remove"}, op : Op]
PendTypes ==
    /\ clicks \in 0..MaxClicks /\ slot \in Op \cup {NoOp}
    /\ panel \in [PanelWindow -> [ready : BOOLEAN, pending : Op \cup {NoOp}, polls : 0..2]]
    /\ reads \in [PanelWindow -> [Task -> Removals \cup {NoTask}]]
    /\ sweep \in [at : {"idle", "again", "remove"}, id : 0..MaxClicks]
ReadsAreOwn == \A w \in PanelWindow, k \in Task : reads[w][k] # NoTask => reads[w][k].op.window = w
NumbersAreGiven == slot.id <= clicks /\ (sweep.at # "idle" => sweep.id \in 1..clicks)
SweepIsOfTheStale == sweep.at # "idle" /\ slot.id = sweep.id => slot # NoOp /\ ~slot.fresh
PendIInv == PendTypes /\ ReadsAreOwn /\ NumbersAreGiven /\ SweepIsOfTheStale /\ SelectionsAreOwnAndFresh

LEMMA InitPend == ASSUME pendInit PROVE PendIInv
<1>1. PendTypes
  BY ClickAssumption DEF pendInit, PendTypes
<1>2. ReadsAreOwn
  BY DEF pendInit, ReadsAreOwn
<1>3. NumbersAreGiven /\ SweepIsOfTheStale
  BY DEF pendInit, NumbersAreGiven, SweepIsOfTheStale, NoOp
<1>4. SelectionsAreOwnAndFresh
  BY DEF pendInit, SelectionsAreOwnAndFresh
<1> QED
  BY <1>1, <1>2, <1>3, <1>4 DEF PendIInv

LEMMA IdsAreNumbers == \A o \in Op : o # NoOp /\ o.id \in 1..MaxClicks /\ o.window \in PanelWindow /\ o.fresh \in BOOLEAN
<1>1. NoOp.id = 0
  BY DEF NoOp
<1> QED
  BY <1>1 DEF Op

LEMMA ClickKept == ASSUME PendIInv, NEW w \in PanelWindow, Click(w) PROVE PendIInv'
<1>1. /\ clicks \in 0..MaxClicks /\ clicks < MaxClicks /\ clicks' = clicks + 1
      /\ panel' = panel /\ reads' = reads /\ sweep' = sweep
      /\ slot' = [id |-> clicks + 1, window |-> w, fresh |-> TRUE]
  BY DEF Click, PendIInv, PendTypes
<1>2. clicks' \in 1..MaxClicks /\ clicks + 1 \in 1..MaxClicks
  BY <1>1, ClickAssumption
<1>3. slot' \in Op /\ slot'.id = clicks'
  BY <1>1, <1>2 DEF Op
<1>4. PendTypes'
  BY <1>1, <1>2, <1>3 DEF PendIInv, PendTypes, Removals, Op
<1>5. ReadsAreOwn' /\ SelectionsAreOwnAndFresh'
  BY <1>1 DEF PendIInv, ReadsAreOwn, SelectionsAreOwnAndFresh
<1>6. sweep.at # "idle" => sweep.id \in 1..clicks
  BY DEF PendIInv, NumbersAreGiven
<1>7. NumbersAreGiven' /\ SweepIsOfTheStale'
  BY <1>1, <1>2, <1>3, <1>6 DEF NumbersAreGiven, SweepIsOfTheStale
<1> QED
  BY <1>4, <1>5, <1>7 DEF PendIInv

\* A step that leaves the panels alone and the item alone, stale or gone.
LEMMA SlotOnly ==
  ASSUME PendIInv, UNCHANGED <<panel, clicks>>, slot' \in {slot, NoOp} \/ slot' \in Op,
         slot'.id \in {slot.id, 0}, slot' # NoOp => slot'.fresh \in {slot.fresh, FALSE},
         slot' # NoOp => slot # NoOp,
         reads' \in [PanelWindow -> [Task -> Removals \cup {NoTask}]], ReadsAreOwn',
         sweep' = [at |-> sweep'.at, id |-> sweep'.id], sweep'.at \in {"idle", "again", "remove"},
         sweep'.id \in 0..MaxClicks,
         \/ sweep'.at = "idle"
         \/ sweep.at # "idle" /\ sweep'.id = sweep.id
         \/ slot' = slot /\ slot # NoOp /\ ~slot.fresh /\ sweep'.id = slot.id
  PROVE  PendIInv'
<1>1. slot \in Op \cup {NoOp} /\ clicks \in Nat /\ NoOp.id = 0
  BY ClickAssumption DEF PendIInv, PendTypes, NoOp
<1>2. PendTypes'
  BY <1>1 DEF PendIInv, PendTypes, Removals, Op
<1>3. SelectionsAreOwnAndFresh'
  BY DEF PendIInv, SelectionsAreOwnAndFresh
<1>4. slot.id \in 0..clicks
  BY <1>1, IdsAreNumbers DEF PendIInv, NumbersAreGiven
<1>5. slot # NoOp => slot.id # 0
  BY <1>1, IdsAreNumbers
<1>6. sweep.at # "idle" => sweep.id \in 1..clicks
  BY DEF PendIInv, NumbersAreGiven
<1>7. NumbersAreGiven'
  BY <1>1, <1>4, <1>5, <1>6 DEF NumbersAreGiven
<1>8. SweepIsOfTheStale'
  <2> SUFFICES ASSUME sweep'.at # "idle", slot'.id = sweep'.id PROVE slot' # NoOp /\ ~slot'.fresh
    BY DEF SweepIsOfTheStale
  <2>1. sweep'.id # 0
    BY <1>1, <1>5, <1>6, <1>7 DEF NumbersAreGiven
  <2>2. slot' # NoOp /\ slot'.id = slot.id
    BY <1>1, <2>1
  <2>3. slot # NoOp /\ ~slot.fresh
    BY <2>2 DEF PendIInv, SweepIsOfTheStale
  <2> QED
    BY <2>2, <2>3
<1> QED
  BY <1>2, <1>3, <1>7, <1>8 DEF PendIInv

\* A step of the panels that leaves the item alone.
LEMMA PanelsOnly ==
  ASSUME PendIInv, UNCHANGED <<slot, sweep, clicks>>, PendTypes', ReadsAreOwn', SelectionsAreOwnAndFresh'
  PROVE  PendIInv'
  BY DEF PendIInv, NumbersAreGiven, SweepIsOfTheStale

LEMMA FoundIsOwn ==
  ASSUME PendIInv, NEW w \in PanelWindow
  PROVE  /\ Found(w) \in Removals \cup {NoTask}
         /\ Found(w) # NoTask => Found(w).op.window = w
<1>1. slot \in Op \cup {NoOp}
  BY DEF PendIInv, PendTypes
<1>2. CASE slot # NoOp /\ ForWindow(slot, w)
  <2>1. Found(w) = [at |-> "remove", op |-> slot]
    BY <1>2 DEF Found
  <2> QED
    BY <1>1, <1>2, <2>1 DEF Removals, ForWindow
<1>3. CASE ~(slot # NoOp /\ ForWindow(slot, w))
  BY <1>3 DEF Found
<1> QED
  BY <1>2, <1>3

\* A call of the panel begins, or none of it goes on.
LEMMA OneReadKept ==
  ASSUME PendIInv, NEW w \in PanelWindow, NEW k \in Task, NEW t \in Removals \cup {NoTask},
         t # NoTask => t.op.window = w, reads' = [reads EXCEPT ![w][k] = t]
  PROVE  reads' \in [PanelWindow -> [Task -> Removals \cup {NoTask}]] /\ ReadsAreOwn'
<1>1. reads \in [PanelWindow -> [Task -> Removals \cup {NoTask}]]
  BY DEF PendIInv, PendTypes
<1>2. reads' \in [PanelWindow -> [Task -> Removals \cup {NoTask}]]
  BY <1>1
<1>3. \A v \in PanelWindow, j \in Task : reads'[v][j] = IF v = w /\ j = k THEN t ELSE reads[v][j]
  BY <1>1
<1>4. ReadsAreOwn'
  BY <1>3 DEF PendIInv, ReadsAreOwn
<1> QED
  BY <1>2, <1>4

LEMMA ReadyKept == ASSUME PendIInv, NEW w \in PanelWindow, Ready(w) PROVE PendIInv'
<1>1. UNCHANGED <<slot, sweep, clicks, reads>> /\ panel' = [panel EXCEPT ![w] = [ready |-> TRUE, pending |-> @.pending, polls |-> 2]]
  BY DEF Ready
<1> DEFINE Panels == [PanelWindow -> [ready : BOOLEAN, pending : Op \cup {NoOp}, polls : 0..2]]
<1>2. panel \in Panels
  BY DEF PendIInv, PendTypes
<1>3. panel' \in Panels /\ \A v \in PanelWindow : panel'[v].pending = panel[v].pending
  <2> DEFINE p == [ready |-> TRUE, pending |-> panel[w].pending, polls |-> 2]
  <2>1. p \in [ready : BOOLEAN, pending : Op \cup {NoOp}, polls : 0..2]
    BY <1>2
  <2>2. panel' = [panel EXCEPT ![w] = p]
    BY <1>1
  <2>3. p.pending = panel[w].pending
    OBVIOUS
  <2> HIDE DEF p
  <2> QED
    BY <1>2, <2>1, <2>2, <2>3
<1>5. PendTypes'
  BY <1>1, <1>3 DEF PendIInv, PendTypes, Removals, Op
<1>4. ReadsAreOwn' /\ SelectionsAreOwnAndFresh'
  BY <1>1, <1>3 DEF PendIInv, ReadsAreOwn, SelectionsAreOwnAndFresh
<1> QED
  BY <1>1, <1>5, <1>4, PanelsOnly

LEMMA NotReadyKept == ASSUME PendIInv, NEW w \in PanelWindow, NotReady(w) PROVE PendIInv'
<1> DEFINE p == [ready |-> FALSE, pending |-> NoOp, polls |-> 0]
<1>1. UNCHANGED <<slot, sweep, clicks>> /\ panel' = [panel EXCEPT ![w] = p]
  BY DEF NotReady
<1>2. PICK t \in {reads[w][k] : k \in Task} \cup {NoTask} :
          reads' = [reads EXCEPT ![w] = [k \in Task |-> IF k = "stray" THEN t ELSE NoTask]]
  BY DEF NotReady
<1>3. reads \in [PanelWindow -> [Task -> Removals \cup {NoTask}]]
  BY DEF PendIInv, PendTypes
<1>4. t \in Removals \cup {NoTask} /\ (t # NoTask => t.op.window = w)
  BY <1>2, <1>3 DEF PendIInv, ReadsAreOwn
<1>5. reads' \in [PanelWindow -> [Task -> Removals \cup {NoTask}]]
  BY <1>2, <1>3, <1>4
<1>6. \A v \in PanelWindow, k \in Task : reads'[v][k] \in IF v = w THEN {t, NoTask} ELSE {reads[v][k]}
  BY <1>2, <1>3
<1>7. ReadsAreOwn'
  <2> SUFFICES ASSUME NEW v \in PanelWindow, NEW k \in Task, reads'[v][k] # NoTask
               PROVE  reads'[v][k].op.window = v
    BY DEF ReadsAreOwn
  <2>1. CASE v = w
    BY <1>4, <1>6, <2>1
  <2>2. CASE v # w
    <3>1. reads'[v][k] = reads[v][k]
      BY <1>6, <2>2
    <3> QED
      BY <3>1 DEF PendIInv, ReadsAreOwn
  <2> QED
    BY <2>1, <2>2
<1>8. p \in [ready : BOOLEAN, pending : Op \cup {NoOp}, polls : 0..2]
  OBVIOUS
<1>9. PendTypes'
  <2> HIDE DEF p
  <2> QED
    BY <1>1, <1>5, <1>8 DEF PendIInv, PendTypes
<1>10. \A v \in PanelWindow : panel'[v].pending \in {panel[v].pending, NoOp}
  BY <1>1 DEF PendIInv, PendTypes
<1>11. SelectionsAreOwnAndFresh'
  <2> SUFFICES ASSUME NEW v \in PanelWindow, panel'[v].pending # NoOp
               PROVE  panel'[v].pending.window = v /\ panel'[v].pending.fresh
    BY DEF SelectionsAreOwnAndFresh
  <2>1. panel'[v].pending = panel[v].pending
    BY <1>10
  <2> QED
    BY <2>1 DEF PendIInv, SelectionsAreOwnAndFresh
<1> QED
  BY <1>1, <1>7, <1>9, <1>11, PanelsOnly

LEMMA PollKept == ASSUME PendIInv, NEW w \in PanelWindow, Poll(w) PROVE PendIInv'
<1>1. /\ UNCHANGED <<slot, sweep, clicks>> /\ panel' = [panel EXCEPT ![w].polls = @ - 1]
      /\ reads' = [reads EXCEPT ![w]["mount"] = Found(w)] /\ panel[w].polls > 0
  BY DEF Poll
<1>2. reads' \in [PanelWindow -> [Task -> Removals \cup {NoTask}]] /\ ReadsAreOwn'
  BY <1>1, FoundIsOwn, OneReadKept DEF Task
<1>3. panel \in [PanelWindow -> [ready : BOOLEAN, pending : Op \cup {NoOp}, polls : 0..2]]
  BY DEF PendIInv, PendTypes
<1>4. panel[w].polls - 1 \in 0..2
  <2>1. panel[w].polls \in 0..2
    BY <1>3
  <2> QED
    BY <1>1, <2>1
<1>5. panel' \in [PanelWindow -> [ready : BOOLEAN, pending : Op \cup {NoOp}, polls : 0..2]]
  BY <1>1, <1>3, <1>4, Zenon
<1>6. \A v \in PanelWindow : panel'[v].pending = panel[v].pending
  BY <1>1, <1>3
<1>7. PendTypes' /\ SelectionsAreOwnAndFresh'
  BY <1>1, <1>2, <1>5, <1>6 DEF PendIInv, PendTypes, Removals, Op, SelectionsAreOwnAndFresh
<1> QED
  BY <1>1, <1>2, <1>7, PanelsOnly

LEMMA HearKept == ASSUME PendIInv, NEW w \in PanelWindow, Hear(w) PROVE PendIInv'
<1>1. UNCHANGED <<slot, panel, sweep, clicks>> /\ reads' = [reads EXCEPT ![w]["change"] = Found(w)]
  BY DEF Hear, OnChange
<1>2. reads' \in [PanelWindow -> [Task -> Removals \cup {NoTask}]] /\ ReadsAreOwn'
  BY <1>1, FoundIsOwn, OneReadKept DEF Task
<1>3. PendTypes' /\ SelectionsAreOwnAndFresh'
  BY <1>1, <1>2 DEF PendIInv, PendTypes, Removals, Op, SelectionsAreOwnAndFresh
<1> QED
  BY <1>1, <1>2, <1>3, PanelsOnly

LEMMA RouteKept == ASSUME PendIInv, NEW w \in PanelWindow, Route(w) PROVE PendIInv'
<1>1. UNCHANGED <<slot, sweep, clicks, reads>> /\ panel' = [panel EXCEPT ![w].pending = NoOp]
  BY DEF Route
<1>2. PendTypes'
  BY <1>1 DEF PendIInv, PendTypes
<1>3. \A v \in PanelWindow : panel'[v].pending = IF v = w THEN NoOp ELSE panel[v].pending
  BY <1>1 DEF PendIInv, PendTypes
<1>4. ReadsAreOwn' /\ SelectionsAreOwnAndFresh'
  BY <1>1, <1>3 DEF PendIInv, ReadsAreOwn, SelectionsAreOwnAndFresh
<1> QED
  BY <1>1, <1>2, <1>4, PanelsOnly

LEMMA RemoveKept ==
  ASSUME PendIInv, NEW w \in PanelWindow, NEW k \in Task, RemoveOp(w, k) PROVE PendIInv'
<1> DEFINE Panels == [PanelWindow -> [ready : BOOLEAN, pending : Op \cup {NoOp}, polls : 0..2]]
<1>1. slot' = NoOp /\ UNCHANGED <<sweep, clicks>> /\ reads' = [reads EXCEPT ![w][k] = NoTask]
      /\ reads[w][k] # NoTask
  BY DEF RemoveOp
<1>2. reads' \in [PanelWindow -> [Task -> Removals \cup {NoTask}]] /\ ReadsAreOwn'
  BY <1>1, OneReadKept
<1>3. reads[w][k].op \in Op /\ reads[w][k].op.window = w
  BY <1>1 DEF PendIInv, PendTypes, ReadsAreOwn, Removals
<1>4. panel \in Panels
  BY DEF PendIInv, PendTypes
<1>5. panel' \in Panels /\ SelectionsAreOwnAndFresh'
  <2>1. CASE panel' = panel
    BY <1>4, <2>1 DEF PendIInv, SelectionsAreOwnAndFresh
  <2>2. CASE panel' # panel
    <3>1. PICK aged \in BOOLEAN :
             LET taken == [reads[w][k].op EXCEPT !.fresh = @ /\ ~aged]
             IN  panel' = [panel EXCEPT ![w].pending = Take(taken, w),
                                        ![w].polls = IF k = "mount" /\ taken.fresh THEN 0 ELSE @]
      BY <2>2 DEF RemoveOp
    <3> DEFINE taken == [reads[w][k].op EXCEPT !.fresh = @ /\ ~aged]
               polls == IF k = "mount" /\ taken.fresh THEN 0 ELSE panel[w].polls
    <3>2. taken \in Op /\ taken.window = w
      BY <1>3 DEF Op
    <3>3. polls \in 0..2 /\ panel[w].pending \in Op \cup {NoOp}
      BY <1>4
    <3>4. panel' = [panel EXCEPT ![w].pending = Take(taken, w), ![w].polls = polls]
      BY <3>1
    <3> HIDE DEF taken, polls
    <3>5. Take(taken, w) \in Op \cup {NoOp} /\ ((Take(taken, w) = taken /\ taken.fresh) \/ Take(taken, w) = panel[w].pending)
      BY <3>2, <3>3 DEF Take
    <3>6. panel' \in Panels
      BY <1>4, <3>3, <3>4, <3>5
    <3>7. \A v \in PanelWindow : panel'[v].pending = IF v = w THEN Take(taken, w) ELSE panel[v].pending
      BY <1>4, <3>4
    <3>8. SelectionsAreOwnAndFresh'
      BY <3>2, <3>5, <3>7 DEF PendIInv, SelectionsAreOwnAndFresh
    <3> QED
      BY <3>6, <3>8
  <2> QED
    BY <2>1, <2>2
<1>6. slot.id \in 0..MaxClicks /\ clicks \in Nat /\ NoOp.id = 0
  BY IdsAreNumbers, ClickAssumption DEF PendIInv, PendTypes, NoOp
<1>7. PendTypes'
  BY <1>1, <1>2, <1>5 DEF PendIInv, PendTypes, Removals, Op
<1>8. NumbersAreGiven' /\ SweepIsOfTheStale'
  BY <1>1, <1>6 DEF PendIInv, NumbersAreGiven, SweepIsOfTheStale
<1> QED
  BY <1>2, <1>5, <1>7, <1>8 DEF PendIInv

\* Time passes, and the worker's sweep.
LEMMA SweepKept == ASSUME PendIInv, Expire \/ SweepNext \/ WorkerStops PROVE PendIInv'
<1>1. /\ slot \in Op \cup {NoOp} /\ slot.id \in 0..MaxClicks /\ NoOp.id = 0
      /\ sweep \in [at : {"idle", "again", "remove"}, id : 0..MaxClicks] /\ 0 \in 0..MaxClicks
  BY IdsAreNumbers, ClickAssumption DEF PendIInv, PendTypes, NoOp
<1>2. /\ UNCHANGED <<panel, clicks, reads>>
  BY DEF Expire, SweepNext, SweepRead, SweepAgain, SweepRemove, WorkerStops
<1>3. reads' \in [PanelWindow -> [Task -> Removals \cup {NoTask}]] /\ ReadsAreOwn'
  BY <1>2 DEF PendIInv, PendTypes, ReadsAreOwn
<1>4. CASE Expire
  <2>1. slot' \in Op /\ slot'.id = slot.id /\ slot'.fresh = FALSE /\ slot # NoOp /\ sweep' = sweep
    BY <1>1, <1>4 DEF Expire, Op
  <2> QED
    BY <1>1, <1>2, <1>3, <2>1, SlotOnly
<1>5. CASE SweepRead
  BY <1>1, <1>2, <1>3, <1>5, SlotOnly DEF SweepRead
<1>6. CASE SweepAgain
  <2>1. slot' = slot /\ sweep'.at \in {"remove", "idle"} /\ sweep'.id = sweep.id /\ sweep.at = "again"
        /\ sweep' = [at |-> sweep'.at, id |-> sweep'.id]
    BY <1>1, <1>6 DEF SweepAgain
  <2> QED
    BY <1>1, <1>2, <1>3, <2>1, SlotOnly
<1>7. CASE SweepRemove \/ WorkerStops
  <2>1. slot' \in {slot, NoOp} /\ sweep' = [at |-> "idle", id |-> 0]
    BY <1>7 DEF SweepRemove, WorkerStops
  <2> QED
    BY <1>1, <1>2, <1>3, <2>1, SlotOnly
<1> QED
  BY <1>4, <1>5, <1>6, <1>7 DEF SweepNext

LEMMA SweepComesBack ==
  ASSUME PendIInv, [pendNext]_pendVars, sweep'.at = "remove", sweep.at = "again"
  PROVE  slot # NoOp /\ ~slot.fresh
<1>1. SweepAgain
  <2>1. sweep' # sweep
    OBVIOUS
  <2>2. Expire \/ SweepNext \/ WorkerStops
    BY <2>1 DEF pendNext, PanelNext, Click, Ready, NotReady, Poll, Hear, Route, RemoveOp, pendVars
  <2> QED
    BY <2>2 DEF Expire, SweepNext, SweepRead, SweepRemove, WorkerStops
<1>2. slot.id = sweep.id
  <2>1. sweep \in [at : {"idle", "again", "remove"}, id : 0..MaxClicks]
    BY DEF PendIInv, PendTypes
  <2>2. sweep'.at = IF SameOp THEN "remove" ELSE "idle"
    BY <1>1, <2>1 DEF SweepAgain
  <2> QED
    BY <2>2 DEF SameOp
<1> QED
  BY <1>2 DEF PendIInv, SweepIsOfTheStale

(* For any windows and any number of selections, sent, read, expired and swept *)
(* in any order, with panels that lock and workers that stop: a panel takes    *)
(* its own window's fresh selections only, and a sweep comes back for the one  *)
(* it found stale.                                                             *)
THEOREM SelectionsStayOwn == pendSpec => SelectionsArrive
<1>1. pendInit => PendIInv
  BY InitPend
<1>2. PendIInv /\ [pendNext]_pendVars => PendIInv'
  <2> SUFFICES ASSUME PendIInv, [pendNext]_pendVars PROVE PendIInv'
    OBVIOUS
  <2>1. CASE UNCHANGED pendVars
    BY <2>1 DEF pendVars, PendIInv, PendTypes, ReadsAreOwn, NumbersAreGiven, SweepIsOfTheStale,
                SelectionsAreOwnAndFresh
  <2> QED
    BY <2>1, ClickKept, ReadyKept, NotReadyKept, PollKept, HearKept, RouteKept, RemoveKept, SweepKept
       DEF pendNext, PanelNext
<1>3. PendIInv => pendTypeOK /\ SelectionsAreOwnAndFresh
  <2> SUFFICES ASSUME PendIInv PROVE pendTypeOK /\ SelectionsAreOwnAndFresh
    OBVIOUS
  <2>1. \A w \in PanelWindow, k \in Task : reads[w][k].at \in {"idle", "remove"}
    BY DEF PendIInv, PendTypes, Removals, NoTask
  <2> QED
    BY <2>1 DEF pendTypeOK, PendIInv, PendTypes
<1>4. PendIInv /\ [pendNext]_pendVars =>
          [sweep'.at = "remove" /\ sweep.at = "again" => slot # NoOp /\ ~slot.fresh]_pendVars
  BY SweepComesBack
<1> QED
  BY <1>1, <1>2, <1>3, <1>4, PTL DEF pendSpec, SelectionsArrive, SweepsComeBackForTheSame
=============================================================================
