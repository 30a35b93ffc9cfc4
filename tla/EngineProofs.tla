----------------------------- MODULE EngineProofs -----------------------------
(***************************************************************************)
(* Over the engine: taking private keys out of the app, for any keys and   *)
(* however often they are opened, locked and exported; the engine's        *)
(* session keys, for any stores, passwords and drafts; the private keys    *)
(* between the disk and the engine, whatever calls interleave; the pages   *)
(* that make and delete keys, whatever is clicked while a page slides out; *)
(* what is said of messages, signed packages and age files, however they   *)
(* are put together; and the engine as a whole.                            *)
(***************************************************************************)
EXTENDS MCEngine, FiniteSetTheorems, SequenceTheorems, WellFoundedInduction,
        NaturalsInduction, TLAPS

---------------------------------------------------------------------------
(* Numbers.                                                                *)

LEMMA Least == ASSUME NEW S, S \subseteq Nat, S # {} PROVE \E i \in S : \A j \in S : i <= j
<1>1. \E x \in S : \A y \in S : ~(<<y, x>> \in OpToRel(<, Nat))
  BY NatLessThanWellFounded, WFMin
<1>2. PICK x \in S : \A y \in S : ~(y < x)
  BY <1>1 DEF OpToRel
<1> QED
  BY <1>2

LEMMA Greatest ==
  ASSUME NEW n \in Nat, NEW S, S \subseteq 1..n, S # {} PROVE \E i \in S : \A j \in S : i >= j
<1> DEFINE T == {n - i : i \in S}
<1>1. \A y \in T : \E x \in S : y = n - x
  OBVIOUS
<1>2. \A x \in S : n - x \in T
  OBVIOUS
<1>3. T \subseteq Nat
  <2> SUFFICES ASSUME NEW y \in T PROVE y \in Nat
    OBVIOUS
  <2>1. PICK x \in S : y = n - x
    BY <1>1
  <2>2. x \in 1..n
    OBVIOUS
  <2> HIDE DEF T
  <2> QED
    BY <2>1, <2>2
<1>0. T # {}
  BY <1>2
<1> HIDE DEF T
<1>4. PICK y \in T : \A z \in T : y <= z
  BY <1>3, <1>0, Least
<1>5. PICK x \in S : y = n - x
  BY <1>1
<1>6. \A j \in S : x >= j
  <2> SUFFICES ASSUME NEW j \in S PROVE x >= j
    OBVIOUS
  <2>1. y <= n - j
    BY <1>2, <1>4
  <2> QED
    BY <1>5, <2>1
<1> QED
  BY <1>6

---------------------------------------------------------------------------
(* Export.                                                                 *)

\* Unless something was hasty, the page tracks what is live, no unlock in flight
\* is of a key it tracks, and nothing outlives it; and all it ever reaches is of
\* the keys it was asked for.
TracksTheLive ==
    hasty \/ /\ live \subseteq tracked /\ opening \notin KeysOf(tracked)
             /\ visible = "gone" => live = {}
StaysWithTheAsked ==
    /\ opening \in asked.keys \union {NoId}
    /\ KeysOf(tracked) \subseteq asked.keys /\ KeysOf(drawn.crx) \subseteq asked.keys
ExportIInv ==
    /\ session \subseteq PgpIds /\ NoId \notin asked.keys
    /\ TracksTheLive /\ StaysWithTheAsked /\ ExportsAreSealed /\ ExportsAreOfTheChosen

LEMMA KeysAreDistinct == NoId \notin PgpIds \union CrxIds /\ PgpIds \intersect CrxIds = {}
  BY ExportConstants

LEMMA InitExport == ExportInit => ExportIInv
<1> SUFFICES ASSUME ExportInit PROVE ExportIInv
  OBVIOUS
<1>1. NoId \notin asked.keys
  BY KeysAreDistinct DEF ExportInit, Pages
<1>2. session \subseteq PgpIds /\ StaysWithTheAsked /\ TracksTheLive
  BY <1>1 DEF ExportInit, StaysWithTheAsked, TracksTheLive, KeysOf
<1>3. ExportsAreSealed /\ ExportsAreOfTheChosen
  BY DEF ExportInit, ExportsAreSealed, ExportsAreOfTheChosen, Nothing
<1> QED
  BY <1>1, <1>2, <1>3 DEF ExportIInv

\* A step that writes no file and opens and closes nothing.
LEMMA NothingIsWritten ==
    ASSUME ExportIInv, UNCHANGED <<asked, written, tracked, live>>,
           session' \subseteq PgpIds, hasty => hasty',
           drawn' \in {drawn, Fresh},
           \/ opening' \in {opening, NoId}
           \/ opening' \in asked.keys /\ (opening' \in KeysOf(tracked) => hasty'),
           visible' = "gone" => visible = "gone"
    PROVE  ExportIInv'
<1>1. TracksTheLive'
  BY DEF ExportIInv, TracksTheLive, KeysOf, StaysWithTheAsked
<1>2. StaysWithTheAsked'
  BY DEF ExportIInv, StaysWithTheAsked, Fresh, KeysOf
<1>3. ExportsAreSealed' /\ ExportsAreOfTheChosen'
  BY DEF ExportIInv, ExportsAreSealed, ExportsAreOfTheChosen
<1> QED
  BY <1>1, <1>2, <1>3 DEF ExportIInv

LEMMA UnmountKeeps == ExportIInv /\ Unmount => ExportIInv'
<1> SUFFICES ASSUME ExportIInv, Unmount PROVE ExportIInv'
  OBVIOUS
<1>1. TracksTheLive'
  BY DEF Unmount, ExportIInv, TracksTheLive, KeysOf
<1>2. StaysWithTheAsked' /\ ExportsAreSealed' /\ ExportsAreOfTheChosen'
  BY DEF Unmount, ExportIInv, StaysWithTheAsked, KeysOf, ExportsAreSealed, ExportsAreOfTheChosen
<1> QED
  BY <1>1, <1>2 DEF Unmount, ExportIInv

LEMMA CrxUnlockedKeeps == ExportIInv /\ CrxUnlocked => ExportIInv'
<1> SUFFICES ASSUME ExportIInv, CrxUnlocked PROVE ExportIInv'
  OBVIOUS
<1> DEFINE new == [key |-> opening, handle |-> opened + 1]
           others == {entry \in tracked : entry.key # opening}
<1>1. opening # NoId /\ opening' = NoId /\ opening \in asked.keys /\ UNCHANGED <<asked, visible, drawn, written, hasty, session>>
  BY KeysAreDistinct DEF CrxUnlocked, ExportIInv, StaysWithTheAsked
<1>2. \/ UNCHANGED <<tracked, live>>
      \/ visible # "gone" /\ tracked' = others \union {new} /\ live' = live \union {new}
  BY DEF CrxUnlocked
<1>3. StaysWithTheAsked'
  <2>1. NoId \notin KeysOf(tracked) /\ new.key = opening
    BY DEF ExportIInv, StaysWithTheAsked
  <2> HIDE DEF new
  <2> QED
    BY <1>1, <1>2, <2>1 DEF ExportIInv, StaysWithTheAsked, KeysOf
<1>4. TracksTheLive'
  <2> SUFFICES ASSUME ~hasty
               PROVE  /\ live' \subseteq tracked' /\ NoId \notin KeysOf(tracked')
                      /\ visible = "gone" => live' = {}
    BY <1>1 DEF TracksTheLive
  <2>1. NoId \notin KeysOf(tracked')
    BY <1>1, <1>3 DEF StaysWithTheAsked, ExportIInv
  <2>2. others = tracked
    BY DEF ExportIInv, TracksTheLive, KeysOf
  <2> HIDE DEF new, others
  <2> QED
    BY <1>2, <2>1, <2>2 DEF ExportIInv, TracksTheLive
<1>5. ExportsAreSealed' /\ ExportsAreOfTheChosen'
  BY <1>1 DEF ExportIInv, ExportsAreSealed, ExportsAreOfTheChosen
<1> QED
  BY <1>1, <1>3, <1>4, <1>5 DEF ExportIInv

\* Both ways of writing leave the page without handles or as it was.
LEMMA WritingKeepsHandles ==
    ASSUME ExportIInv, ResetAndClose \/ UNCHANGED <<visible, tracked, live>>,
           visible # "gone", hasty' = (hasty \/ UnlockedSince), RenderedAt(pane),
           UNCHANGED <<asked, session, opened, opening>>
    PROVE  TracksTheLive' /\ StaysWithTheAsked'
<1>1. TracksTheLive'
  <2> SUFFICES ASSUME ~hasty'
               PROVE  /\ live' \subseteq tracked' /\ opening \notin KeysOf(tracked')
                      /\ visible' = "gone" => live' = {}
    BY DEF TracksTheLive
  <2>1. ~hasty /\ tracked = drawn.crx
    BY DEF UnlockedSince
  <2> QED
    BY <2>1 DEF ExportIInv, TracksTheLive, ResetAndClose, KeysOf
<1>2. StaysWithTheAsked'
  <2>1. drawn'.crx = tracked /\ (tracked' = {} \/ tracked' = tracked)
    BY DEF RenderedAt, Fresh, ResetAndClose
  <2> QED
    BY <2>1 DEF ExportIInv, StaysWithTheAsked, KeysOf
<1> QED
  BY <1>1, <1>2

LEMMA SealedKeeps == ExportIInv /\ ExportEncrypted => ExportIInv'
<1> SUFFICES ASSUME ExportIInv, ExportEncrypted PROVE ExportIInv'
  OBVIOUS
<1> DEFINE keys == Reached \union KeysOf(drawn.crx)
<1>1. /\ written' = [Nothing EXCEPT !.sealed = keys, !.under = phrase]
      /\ hasty' = (hasty \/ UnlockedSince) /\ UNCHANGED <<asked, session, opened, opening>>
      /\ IF NeedsPhrase THEN phrase = "valid" ELSE asked.contacts
      /\ RenderedAt(pane) /\ visible # "gone"
      /\ ResetAndClose \/ UNCHANGED <<visible, tracked, live>>
  BY DEF ExportEncrypted, StaysOpen
<1> HIDE DEF keys
<1>2. written'.sealed = keys /\ written'.plain = {} /\ written'.under = phrase
  BY <1>1 DEF Nothing
<1> USE DEF keys
<1>3. TracksTheLive' /\ StaysWithTheAsked'
  BY <1>1, WritingKeepsHandles
<1>4. ExportsAreSealed'
  <2> SUFFICES ASSUME ~hasty', ~NeedsPhrase PROVE keys = {}
    BY <1>1, <1>2 DEF ExportsAreSealed
  <2>1. drawn.pgp = {} /\ KeysOf(drawn.crx) = {}
    BY DEF NeedsPhrase, ShownUnlocked
  <2>2. Reached \subseteq drawn.pgp
    BY <1>1 DEF UnlockedSince
  <2> QED
    BY <2>1, <2>2
<1>5. ExportsAreOfTheChosen'
  BY <1>1, <1>2 DEF ExportIInv, ExportsAreOfTheChosen, StaysWithTheAsked, Reached
<1> QED
  BY <1>1, <1>3, <1>4, <1>5 DEF ExportIInv

LEMMA PlainKeeps == ExportIInv /\ ExportPlaintext => ExportIInv'
<1> SUFFICES ASSUME ExportIInv, ExportPlaintext PROVE ExportIInv'
  OBVIOUS
<1> DEFINE keys == IF asked.kind = "many" THEN Reached ELSE asked.keys
<1>1. /\ written' = [Nothing EXCEPT !.plain = keys, !.confirmed = word] /\ word
      /\ hasty' = (hasty \/ UnlockedSince) /\ UNCHANGED <<asked, session, opened, opening>>
      /\ RenderedAt(pane) /\ visible # "gone"
      /\ ResetAndClose \/ UNCHANGED <<visible, tracked, live>>
  BY DEF ExportPlaintext, StaysOpen
<1> HIDE DEF keys
<1>2. written'.sealed = {} /\ written'.plain = keys
  BY <1>1 DEF Nothing
<1>3. written'.confirmed
  <2>1. written'.confirmed = word
    BY <1>1 DEF Nothing
  <2> QED
    BY <1>1, <2>1
<1> USE DEF keys
<1>4. TracksTheLive' /\ StaysWithTheAsked'
  BY <1>1, WritingKeepsHandles
<1>5. ExportsAreSealed'
  BY <1>1, <1>2, <1>3, KeysAreDistinct DEF ExportIInv, ExportsAreSealed, Reached
<1>6. ExportsAreOfTheChosen'
  BY <1>1, <1>2 DEF ExportsAreOfTheChosen, Reached
<1> QED
  BY <1>1, <1>4, <1>5, <1>6 DEF ExportIInv

LEMMA NextExport == ExportIInv /\ [ExportNext]_exportVars => ExportIInv'
<1> SUFFICES ASSUME ExportIInv, [ExportNext]_exportVars PROVE ExportIInv'
  OBVIOUS
<1>1. CASE Draw \/ Dismiss \/ SkipLocked \/ GoBackToUnlock \/ TypeWord
  BY <1>1, NothingIsWritten
  DEF Draw, Dismiss, SkipLocked, GoBackToUnlock, TypeWord, RenderedAt, ExportIInv
<1>2. CASE LockKeys \/ UnlockFails \/ PgpUnlocked
  BY <1>2, NothingIsWritten DEF LockKeys, UnlockFails, PgpUnlocked, ExportIInv
<1>3. ASSUME NEW key \in PgpIds \union CrxIds, BeginUnlock(key) PROVE ExportIInv'
  BY <1>3, NothingIsWritten DEF BeginUnlock, RenderedAt, ExportIInv
<1>4. ASSUME NEW p \in {"short", "valid"}, TypePhrase(p) PROVE ExportIInv'
  BY <1>4, NothingIsWritten DEF TypePhrase, RenderedAt, ExportIInv
<1>5. CASE UNCHANGED exportVars
  BY <1>5, NothingIsWritten DEF exportVars, ExportIInv
<1> QED
  BY <1>1, <1>2, <1>3, <1>4, <1>5, UnmountKeeps, CrxUnlockedKeeps, SealedKeeps, PlainKeeps
  DEF ExportNext

\* For any keys, however often they are opened, locked or exported: the handles a
\* page opened are closed when it goes, keys leave sealed or confirmed, and only
\* those that were chosen (ExportKeysPage.tsx, ExportPrivateKeyPage.tsx).
THEOREM ExportsStayKept == ExportSpec => []ExportsAreKept
<1>1. ExportIInv => ExportsAreKept
  BY DEF ExportIInv, ExportsAreKept, HandlesAreClosed, TracksTheLive
<1> QED
  BY <1>1, InitExport, NextExport, PTL DEF ExportSpec

---------------------------------------------------------------------------
(* The session keys and what is sealed under them.                         *)

\* A blob bound to a slot was sealed for that slot; the rest are an older build's
\* or a canary.
OldAads == {CONTACTS_AAD, CANARY_AAD}
IsMade(blob) ==
    blob.aad \in OldAads \/ \E s \in Slots : blob.aad = StoreAad(s) /\ blob.holds = s
DraftIsOfItsKey ==
    /\ draftKeys \in Nat /\ (draftKey = Unset \/ draftKey \in 1 .. draftKeys)
    /\ draft # Unset =>
          /\ draft = [under |-> draft.under, kept |-> draft.kept] /\ draft.under \in 1 .. draftKeys
          /\ draft.kept \in BOOLEAN /\ (draft.kept <=> DraftOpens)
SessionsIInv ==
    /\ slots = [s \in Slots |-> slots[s]]
    /\ \A s \in Slots : slots[s] # Unset => IsMade(slots[s])
    /\ canary # Unset => canary.aad \in OldAads
    /\ DraftIsOfItsKey /\ StoresStayApart /\ RightMeansRight

LEMMA Boxes ==
    /\ \A under, aad, holds : /\ Box(under, aad, holds).under = under
                              /\ Box(under, aad, holds).aad = aad
                              /\ Box(under, aad, holds).holds = holds
    /\ \A s, t : StoreAad(s) = StoreAad(t) => s = t
    /\ \A s : StoreAad(s) \notin OldAads
    /\ CONTACTS_AAD # CANARY_AAD
  BY DEF Box, StoreAad, OldAads, CONTACTS_AAD, CANARY_AAD

LEMMA SilenceIsTrue == Quiet => StoresStayApart' /\ RightMeansRight'
  BY DEF Quiet, NothingRead, NothingSaid, StoresStayApart, RightMeansRight

LEMMA InitSessions == SessionsInit => SessionsIInv
<1> SUFFICES ASSUME SessionsInit PROVE SessionsIInv
  OBVIOUS
<1>1. slots = [s \in Slots |-> slots[s]]
  BY DEF SessionsInit
<1>2. \A s \in Slots : slots[s] # Unset => IsMade(slots[s])
  BY Boxes DEF SessionsInit, LegacyStore, IsMade, OldAads
<1>3. canary # Unset => canary.aad \in OldAads
  BY Boxes DEF SessionsInit, LegacyCanary, OldAads
<1>4. DraftIsOfItsKey
  BY DEF SessionsInit, DraftIsOfItsKey
<1>5. StoresStayApart /\ RightMeansRight
  BY DEF SessionsInit, NothingRead, NothingSaid, StoresStayApart, RightMeansRight
<1> QED
  BY <1>1, <1>2, <1>3, <1>4, <1>5 DEF SessionsIInv

LEMMA StoresKeep ==
    ASSUME SessionsIInv, NEW s \in Slots, SealEnvelope(s) \/ OpenEnvelope(s) \/ Misplaced(s)
    PROVE  SessionsIInv'
<1>1. DraftIsOfItsKey' /\ canary' = canary
  BY DEF SealEnvelope, OpenEnvelope, Misplaced, SessionsIInv, DraftIsOfItsKey, DraftOpens
<1>2. CASE SealEnvelope(s)
  <2> DEFINE blob == Box(DeriveStoreSubkey(contactsKey, s), StoreAad(s), s)
  <2>1. IsMade(blob)
    BY Boxes DEF IsMade
  <2> HIDE DEF blob
  <2>2. slots' = [slots EXCEPT ![s] = blob]
    BY <1>2 DEF SealEnvelope, blob
  <2>3. slots' = [t \in Slots |-> slots'[t]] /\ \A t \in Slots : slots'[t] # Unset => IsMade(slots'[t])
    BY <2>1, <2>2 DEF SessionsIInv
  <2> QED
    BY <1>1, <1>2, <2>3, SilenceIsTrue DEF SealEnvelope, SessionsIInv, IsMade
<1>3. CASE Misplaced(s)
  <2>1. PICK blob : blob # Unset /\ slots' = [slots EXCEPT ![s] = blob]
                    /\ (blob = canary \/ \E t \in Slots : blob = slots[t])
    BY <1>3 DEF Misplaced
  <2>2. IsMade(blob)
    BY <2>1 DEF SessionsIInv, IsMade
  <2>3. slots' = [t \in Slots |-> slots'[t]] /\ \A t \in Slots : slots'[t] # Unset => IsMade(slots'[t])
    BY <2>1, <2>2 DEF SessionsIInv
  <2> QED
    BY <1>1, <1>3, <2>3, SilenceIsTrue DEF Misplaced, SessionsIInv, IsMade
<1>4. CASE OpenEnvelope(s)
  <2>1. StoresStayApart'
    <3>1. CASE DecryptStore(s, slots[s]) /\ Reads("bound", s, slots[s])
      <4>1. slots[s].aad = StoreAad(s) /\ IsMade(slots[s])
        BY <1>4, <3>1 DEF OpenEnvelope, DecryptStore, Opens, SessionsIInv
      <4>2. slots[s].holds = s /\ slots[s].aad # CONTACTS_AAD
        BY <4>1, Boxes DEF IsMade, OldAads
      <4> QED
        BY <3>1, <4>2 DEF Reads, StoresStayApart
    <3>2. CASE DecryptContacts(slots[s]) /\ Reads("legacy", s, slots[s])
      BY <3>2 DEF DecryptContacts, Opens, Reads, StoresStayApart
    <3>3. CASE Reads("failed", s, Unset)
      BY <3>3 DEF Reads, StoresStayApart
    <3> QED
      BY <1>4, <3>1, <3>2, <3>3 DEF OpenEnvelope
  <2>2. RightMeansRight' /\ slots' = slots
    BY <1>4 DEF OpenEnvelope, NothingSaid, RightMeansRight
  <2> QED
    BY <1>1, <2>1, <2>2 DEF SessionsIInv, IsMade
<1> QED
  BY <1>2, <1>3, <1>4

LEMMA MasterKeeps ==
    ASSUME SessionsIInv, NEW m \in Masters,
           InitContactsSessionWithPrf(m) \/ EncryptCanaryAndInitSession(m) \/ VerifyCanaryAndInitSession(m)
    PROVE  SessionsIInv'
<1>1. DraftIsOfItsKey' /\ slots' = slots
  BY DEF InitContactsSessionWithPrf, EncryptCanaryAndInitSession, VerifyCanaryAndInitSession,
         SessionsIInv, DraftIsOfItsKey, DraftOpens
<1>2. canary' # Unset => canary'.aad \in OldAads
  BY Boxes DEF InitContactsSessionWithPrf, EncryptCanaryAndInitSession, VerifyCanaryAndInitSession,
         SessionsIInv, OldAads
<1>3. StoresStayApart'
  <2>1. read' = NothingRead
    BY DEF InitContactsSessionWithPrf, EncryptCanaryAndInitSession, VerifyCanaryAndInitSession, Quiet
  <2> QED
    BY <2>1 DEF NothingRead, StoresStayApart
<1>4. RightMeansRight'
  <2>1. CASE InitContactsSessionWithPrf(m) \/ EncryptCanaryAndInitSession(m)
    BY <2>1, SilenceIsTrue DEF InitContactsSessionWithPrf, EncryptCanaryAndInitSession
  <2>2. CASE VerifyCanaryAndInitSession(m) /\ CanaryOpens(m)
    BY <2>2 DEF VerifyCanaryAndInitSession, CanaryOpens, Opens, Says, RightMeansRight
  <2>3. CASE VerifyCanaryAndInitSession(m) /\ ~CanaryOpens(m)
    <3>1. canary.under # DeriveContactsKey(m)
      BY <2>3 DEF VerifyCanaryAndInitSession, CanaryOpens, Opens, SessionsIInv, OldAads
    <3> QED
      BY <2>3, <3>1 DEF VerifyCanaryAndInitSession, Says, RightMeansRight
  <2> QED
    BY <2>1, <2>2, <2>3
<1> QED
  BY <1>1, <1>2, <1>3, <1>4 DEF SessionsIInv, IsMade

LEMMA DraftsKeep ==
    ASSUME SessionsIInv,
           InitDraftSessionIfUnset \/ DropDraftSession \/ EncryptDraft \/ DecryptDraft
    PROVE  SessionsIInv'
<1> USE SessionConstants
<1>1. UNCHANGED <<slots, canary, contactsKey>>
  BY DEF InitDraftSessionIfUnset, DropDraftSession, EncryptDraft, DecryptDraft
<1>2. DraftIsOfItsKey'
  <2>1. CASE InitDraftSessionIfUnset
    BY <2>1 DEF InitDraftSessionIfUnset, SessionsIInv, DraftIsOfItsKey, DraftOpens
  <2>2. CASE DropDraftSession
    <3>1. CASE draft = Unset
      BY <2>2, <3>1 DEF DropDraftSession, SessionsIInv, DraftIsOfItsKey
    <3>2. CASE draft # Unset
      <4>1. draft' = [under |-> draft.under, kept |-> FALSE] /\ draft.under \in 1 .. draftKeys
        BY <2>2, <3>2 DEF DropDraftSession, SessionsIInv, DraftIsOfItsKey
      <4>2. draft.under # Unset
        BY <4>1 DEF SessionsIInv, DraftIsOfItsKey
      <4> QED
        BY <2>2, <4>1, <4>2 DEF DropDraftSession, SessionsIInv, DraftIsOfItsKey, DraftOpens
    <3> QED
      BY <3>1, <3>2
  <2>3. CASE EncryptDraft
    BY <2>3 DEF EncryptDraft, SessionsIInv, DraftIsOfItsKey, DraftOpens
  <2>4. CASE DecryptDraft
    BY <2>4 DEF DecryptDraft, SessionsIInv, DraftIsOfItsKey, DraftOpens
  <2> QED
    BY <2>1, <2>2, <2>3, <2>4
<1>3. StoresStayApart' /\ RightMeansRight'
  <2>1. CASE DecryptDraft
    BY <2>1 DEF DecryptDraft, Reads, NothingSaid, StoresStayApart, RightMeansRight
  <2> QED
    BY <2>1, SilenceIsTrue DEF InitDraftSessionIfUnset, DropDraftSession, EncryptDraft
<1> QED
  BY <1>1, <1>2, <1>3 DEF SessionsIInv, IsMade

LEMMA NextSessions == SessionsIInv /\ [SessionsNext]_sessionVars => SessionsIInv'
<1> SUFFICES ASSUME SessionsIInv, [SessionsNext]_sessionVars PROVE SessionsIInv'
  OBVIOUS
<1>1. CASE DropContactsSession
  <2>1. DraftIsOfItsKey' /\ UNCHANGED <<slots, canary>>
    BY <1>1 DEF DropContactsSession, SessionsIInv, DraftIsOfItsKey, DraftOpens
  <2> QED
    BY <1>1, <2>1, SilenceIsTrue DEF DropContactsSession, SessionsIInv, IsMade
<1>2. CASE UNCHANGED sessionVars
  BY <1>2 DEF sessionVars, SessionsIInv, IsMade, DraftIsOfItsKey, DraftOpens, StoresStayApart,
     RightMeansRight
<1> QED
  BY <1>1, <1>2, StoresKeep, MasterKeeps, DraftsKeep DEF SessionsNext

\* For any stores, passwords and draft keys, whatever blobs are moved about and
\* whatever an older build left: a store reads only what was sealed for it, a
\* password told right is the canary's and one told wrong is not, and a draft
\* opens exactly as long as its session (sessions.rs, envelope.ts).
THEOREM SlotsStayApartAlways == SessionsSpec => []SlotsStayApart
<1>1. SessionsIInv => SlotsStayApart
  BY DEF SessionsIInv, SlotsStayApart, DraftIsOfItsKey, DraftsComeBack
<1> QED
  BY <1>1, InitSessions, NextSessions, PTL DEF SessionsSpec


---------------------------------------------------------------------------
(* Private keys between the disk and the engine.                           *)

Credentials == Passwords \union Outputs
WithHandle == {"held", "signed", "resealed", "cached"}
Unheld == {"opening", "protecting", "sealed"}

StoresOK(held, next) ==
    /\ next \in 1 .. MAX_HANDLE
    /\ held = [kind \in Stores |-> held[kind]]
    /\ \A kind \in Stores : held[kind] = [h \in Handles |-> held[kind][h]]
    /\ \A kind \in Stores : \A h \in Handles : h >= next => held[kind][h] = Absent
RingIsWritten ==
    /\ keyring = [id \in Ids |-> keyring[id]] /\ wrote = [id \in Ids |-> wrote[id]]
    /\ \A id \in Ids : wrote[id] # Absent =>
          wrote[id] \in Credentials /\ keyring[id] = SealFor(KindOf[id], id, wrote[id])

\* What a flow is at, by its step, when the stores are `held`.
Shaped(x) ==
    x = [step |-> x.step, id |-> x.id, cred |-> x.cred, entry |-> x.entry,
         handle |-> x.handle, opened |-> x.opened, got |-> x.got]
InStep(x, next) ==
    /\ x.step \in {"idle"} \union Unheld \union WithHandle
    /\ x.step = "idle" => x.handle = Absent
    /\ x.step # "idle" => x.id \in Ids
    /\ x.step \in Unheld => x.handle = Absent /\ x.got = Absent
    /\ x.step \in WithHandle => x.handle \in 1 .. next - 1
    /\ x.step \in {"protecting", "sealed", "cached"} => x.cred \in Credentials
    /\ x.step \in {"sealed", "cached"} => x.entry = SealFor(KindOf[x.id], x.id, x.cred)
    /\ x.step = "resealed" =>
          x.entry = Entry("passkey", MasterOutput, SealWithPrf(KindOf[x.id], x.got, x.got, MasterOutput))
ReachesItsKey(x, held) ==
    x.handle # Absent =>
        /\ held[KindOf[x.id]][x.handle] \in {Absent, x.opened}
        /\ x.got \in {Absent, "locked", x.opened}
        /\ \A kind \in Stores \ {KindOf[x.id]} : held[kind][x.handle] = Absent
IsItself(x) ==
    x.handle # Absent =>
        /\ KindOf[x.id] \in {"ssh", "crx"} => x.opened = x.id
        /\ KindOf[x.opened] = KindOf[x.id]
FlowOK(x, held, next) ==
    Shaped(x) /\ InStep(x, next) /\ ReachesItsKey(x, held) /\ IsItself(x)
SecretIInv ==
    /\ StoresOK(stores, nextHandle) /\ RingIsWritten
    /\ flows = [f \in Flows |-> flows[f]] /\ \A f \in Flows : FlowOK(flows[f], stores, nextHandle)

LEMMA SecretFacts ==
    /\ \A id \in Ids : KindOf[id] \in Stores
    /\ Absent \notin Nat /\ MAX_HANDLE \in Nat /\ MAX_HANDLE > 0
    /\ MasterOutput \in Credentials /\ MasterOutput \notin Passwords
    /\ Handles = 1 .. MAX_HANDLE - 1
  BY SecretConstants DEF Stores, Credentials, Handles

LEMMA RestingIsFine == \A held, next : FlowOK(Resting, held, next)
<1>1. Shaped(Resting) /\ Resting.step = "idle" /\ Resting.handle = Absent
  BY DEF Resting, Begun, Shaped
<1> QED
  BY <1>1 DEF FlowOK, InStep, ReachesItsKey, IsItself, Unheld, WithHandle

LEMMA InitSecret == SecretInit => SecretIInv
<1> SUFFICES ASSUME SecretInit PROVE SecretIInv
  OBVIOUS
<1>1. StoresOK(stores, nextHandle)
  BY SecretFacts DEF SecretInit, StoresOK
<1>2. RingIsWritten
  BY SecretConstants DEF SecretInit, RingIsWritten
<1>3. flows = [f \in Flows |-> flows[f]] /\ \A f \in Flows : FlowOK(flows[f], stores, nextHandle)
  BY RestingIsFine DEF SecretInit
<1> QED
  BY <1>1, <1>2, <1>3 DEF SecretIInv

SetAt(held, kind, h, value) == [held EXCEPT ![kind][h] = value]

\* Dropping what a handle reaches, and issuing the next handle.
LEMMA Removing ==
    ASSUME NEW held, NEW next, StoresOK(held, next), NEW kind \in Stores, NEW h \in 1 .. next - 1,
           NEW rest, rest = SetAt(held, kind, h, Absent)
    PROVE  /\ StoresOK(rest, next)
           /\ \A x : FlowOK(x, held, next) => FlowOK(x, rest, next)
<1>1. h \in Handles
  BY SecretFacts DEF StoresOK
<1>2. /\ rest = [k \in Stores |-> rest[k]]
      /\ \A k \in Stores : rest[k] = [j \in Handles |-> rest[k][j]]
      /\ \A k \in Stores : \A j \in Handles :
            rest[k][j] = IF k = kind /\ j = h THEN Absent ELSE held[k][j]
  BY <1>1 DEF StoresOK, SetAt
<1>3. StoresOK(rest, next)
  <2>1. ASSUME NEW k \in Stores, NEW j \in Handles, j >= next PROVE rest[k][j] = Absent
    BY <1>2, <2>1 DEF StoresOK
  <2> QED
    BY <1>2, <2>1 DEF StoresOK
<1>4. ASSUME NEW x, FlowOK(x, held, next) PROVE FlowOK(x, rest, next)
  <2>1. x.handle # Absent => x.handle \in Handles /\ x.id \in Ids
    BY <1>4, SecretFacts DEF FlowOK, InStep, StoresOK, Unheld, WithHandle
  <2>2. ReachesItsKey(x, rest)
    BY <1>2, <1>4, <2>1, SecretFacts DEF FlowOK, ReachesItsKey
  <2> QED
    BY <1>4, <2>2 DEF FlowOK
<1> QED
  BY <1>3, <1>4

LEMMA Issuing ==
    ASSUME NEW held, NEW next, StoresOK(held, next), NEW kind \in Stores, NEW payload,
           next < MAX_HANDLE, NEW more, more = SetAt(held, kind, next, payload)
    PROVE  /\ StoresOK(more, next + 1)
           /\ \A x : FlowOK(x, held, next) => FlowOK(x, more, next + 1)
           /\ more[kind][next] = payload /\ \A k \in Stores \ {kind} : more[k][next] = Absent
<1>1. next \in Handles /\ next + 1 \in 1 .. MAX_HANDLE
  BY SecretFacts DEF StoresOK
<1>2. /\ more = [k \in Stores |-> more[k]]
      /\ \A k \in Stores : more[k] = [j \in Handles |-> more[k][j]]
      /\ \A k \in Stores : \A j \in Handles :
            more[k][j] = IF k = kind /\ j = next THEN payload ELSE held[k][j]
  BY <1>1 DEF StoresOK, SetAt
<1>3. StoresOK(more, next + 1)
  <2>1. ASSUME NEW k \in Stores, NEW h \in Handles, h >= next + 1 PROVE more[k][h] = Absent
    <3>1. h >= next /\ h # next
      BY <1>1, <2>1, SecretFacts
    <3> QED
      BY <1>2, <3>1 DEF StoresOK
  <2> QED
    BY <1>1, <1>2, <2>1 DEF StoresOK
<1>4. ASSUME NEW x, FlowOK(x, held, next) PROVE FlowOK(x, more, next + 1)
  <2>1. x.handle # Absent => x.handle \in Handles /\ x.id \in Ids /\ x.handle # next
    BY <1>1, <1>4, SecretFacts DEF FlowOK, InStep, StoresOK, Unheld, WithHandle
  <2>2. ReachesItsKey(x, more)
    BY <1>2, <1>4, <2>1, SecretFacts DEF FlowOK, ReachesItsKey
  <2>3. InStep(x, next + 1)
    BY <1>1, <1>4, SecretFacts DEF FlowOK, InStep
  <2> QED
    BY <1>4, <2>2, <2>3 DEF FlowOK
<1>5. more[kind][next] = payload /\ \A k \in Stores \ {kind} : more[k][next] = Absent
  BY <1>1, <1>2 DEF StoresOK
<1> QED
  BY <1>3, <1>4, <1>5

\* A step of one flow, after which it stands as x.
LEMMA FlowMoves ==
    ASSUME SecretIInv, NEW f \in Flows, NEW x, flows' = [flows EXCEPT ![f] = x],
           StoresOK(stores', nextHandle'), RingIsWritten', FlowOK(x, stores', nextHandle'),
           \A y : FlowOK(y, stores, nextHandle) => FlowOK(y, stores', nextHandle')
    PROVE  SecretIInv'
<1>1. flows' = [g \in Flows |-> flows'[g]] /\ flows'[f] = x
      /\ \A g \in Flows \ {f} : flows'[g] = flows[g]
  BY DEF SecretIInv
<1>2. \A g \in Flows : FlowOK(flows'[g], stores', nextHandle')
  BY <1>1 DEF SecretIInv
<1> QED
  BY <1>1, <1>2 DEF SecretIInv

\* The way out of every call that fails, and of every handle given back.
LEMMA Rests ==
    ASSUME SecretIInv, NEW f \in Flows, flows' = [flows EXCEPT ![f] = Resting],
           UNCHANGED <<keyring, stores, nextHandle, wrote>>
    PROVE  SecretIInv'
<1>1. StoresOK(stores', nextHandle') /\ RingIsWritten'
  BY DEF SecretIInv, RingIsWritten
<1>2. FlowOK(Resting, stores', nextHandle')
  BY RestingIsFine
<1>3. \A y : FlowOK(y, stores, nextHandle) => FlowOK(y, stores', nextHandle')
  OBVIOUS
<1> QED
  BY <1>1, <1>2, <1>3, FlowMoves

LEMMA Beginning ==
    ASSUME SecretIInv, NEW f \in Flows, NEW id \in Ids, NEW cred, NEW entry,
           NEW step \in {"opening", "protecting"}, step = "protecting" => cred \in Credentials,
           flows' = [flows EXCEPT ![f] = Begun(step, id, cred, entry)],
           UNCHANGED <<keyring, stores, nextHandle, wrote>>
    PROVE  SecretIInv'
<1> DEFINE x == Begun(step, id, cred, entry)
<1>1. StoresOK(stores', nextHandle') /\ RingIsWritten'
  BY DEF SecretIInv, RingIsWritten
<1>2. FlowOK(x, stores', nextHandle')
  BY DEF Begun, FlowOK, Shaped, InStep, ReachesItsKey, IsItself, Unheld, WithHandle
<1>3. \A y : FlowOK(y, stores, nextHandle) => FlowOK(y, stores', nextHandle')
  OBVIOUS
<1> HIDE DEF x
<1> QED
  BY <1>1, <1>2, <1>3, FlowMoves DEF x

LEMMA OpenKeeps ==
    ASSUME SecretIInv, NEW f \in Flows, NEW id \in Ids,
           \/ OpenTyped(f, id) \/ OpenByPasskey(f, id) \/ OpenWithMasterPrf(f, id)
           \/ \E cred \in Credentials : BeginProtect(f, id, cred)
    PROVE  SecretIInv'
<1>1. ASSUME NEW cred, BeginOpen(f, id, cred) PROVE SecretIInv'
  BY <1>1, Beginning DEF BeginOpen
<1>2. ASSUME NEW cred \in Credentials, BeginProtect(f, id, cred) PROVE SecretIInv'
  BY <1>2, Beginning DEF BeginProtect
<1> QED
  BY <1>1, <1>2 DEF OpenTyped, OpenByPasskey, OpenWithMasterPrf

\* A handle is issued for what was opened.
LEMMA IssuedKeeps ==
    ASSUME SecretIInv, NEW f \in Flows, NEW payload, NEW then \in {"held", "cached"},
           flows[f].step \in Unheld, then = "cached" => flows[f].step = "sealed",
           KindOf[payload] = KindOf[flows[f].id],
           KindOf[flows[f].id] \in {"ssh", "crx"} => payload = flows[f].id,
           Issued(f, KindOf[flows[f].id], payload, then), UNCHANGED <<keyring, wrote>>
    PROVE  SecretIInv'
<1> DEFINE x == [step |-> then, id |-> flows[f].id,
                 cred |-> IF then = "held" THEN Absent ELSE flows[f].cred,
                 entry |-> IF then = "held" /\ ~NeedsMasterReseal(flows[f].entry) THEN Absent
                           ELSE flows[f].entry,
                 handle |-> nextHandle, opened |-> payload, got |-> flows[f].got]
<1>1. FlowOK(flows[f], stores, nextHandle) /\ StoresOK(stores, nextHandle)
  BY DEF SecretIInv
<1>2. PICK kind \in Stores : kind = KindOf[flows[f].id]
  BY <1>1, SecretFacts DEF FlowOK, InStep, Unheld
<1>3. stores' = SetAt(stores, kind, nextHandle, payload) /\ nextHandle' = nextHandle + 1
  BY <1>2 DEF Issued, SetAt
<1>4. flows' = [flows EXCEPT ![f] = x]
  BY DEF Issued
<1>5. /\ StoresOK(stores', nextHandle')
      /\ \A y : FlowOK(y, stores, nextHandle) => FlowOK(y, stores', nextHandle')
      /\ stores'[kind][nextHandle] = payload
      /\ \A k \in Stores \ {kind} : stores'[k][nextHandle] = Absent
  <2>1. nextHandle < MAX_HANDLE
    BY DEF Issued, CanIssue
  <2> QED
    BY <1>1, <1>3, <2>1, Issuing
<1>6. RingIsWritten'
  BY DEF SecretIInv, RingIsWritten
<1>7. Shaped(x) /\ ReachesItsKey(x, stores') /\ IsItself(x)
  <2>1. x.handle = nextHandle /\ x.id = flows[f].id /\ x.opened = payload /\ x.got = Absent
    BY <1>1 DEF FlowOK, InStep
  <2>2. Shaped(x)
    BY DEF Shaped
  <2> HIDE DEF x
  <2> QED
    BY <1>2, <1>5, <2>1, <2>2 DEF ReachesItsKey, IsItself
<1>8. InStep(x, nextHandle')
  <2>1. nextHandle \in 1 .. nextHandle' - 1
    BY <1>1, <1>3, SecretFacts DEF StoresOK
  <2>2. /\ x.step = then /\ x.id = flows[f].id /\ x.handle = nextHandle
        /\ then = "cached" => x.cred = flows[f].cred /\ x.entry = flows[f].entry
    OBVIOUS
  <2> HIDE DEF x
  <2> QED
    BY <1>1, <2>1, <2>2 DEF FlowOK, InStep, Unheld, WithHandle
<1> HIDE DEF x
<1> QED
  BY <1>4, <1>5, <1>6, <1>7, <1>8, FlowMoves DEF FlowOK

LEMMA UnlockKeeps ==
    ASSUME SecretIInv, NEW f \in Flows,
           \/ UnlockWithPassword(f) \/ UnlockWithPrf(f)
           \/ UnlockSshIdentityWithPassword(f) \/ UnlockSshIdentityWithPrf(f)
           \/ UnlockCrxWithPassword(f) \/ UnlockCrxWithPrf(f)
    PROVE  SecretIInv'
<1>1. flows[f].step = "opening" /\ UNCHANGED <<keyring, wrote>>
  BY DEF UnlockWithPassword, UnlockWithPrf, UnlockSshIdentityWithPassword, UnlockSshIdentityWithPrf,
     UnlockCrxWithPassword, UnlockCrxWithPrf, OpeningKey, OpeningSsh, OpeningCrx, Opening, At
<1>2. CASE Refused(f)
  BY <1>1, <1>2, Rests DEF Refused
<1>3. ASSUME ~Refused(f)
      PROVE  /\ Issued(f, KindOf[flows[f].id], TheSeal(f).holds, "held")
             /\ KindOf[TheSeal(f).holds] = KindOf[flows[f].id]
             /\ KindOf[flows[f].id] \in {"ssh", "crx"} => TheSeal(f).holds = flows[f].id
  <2>1. CASE UnlockWithPassword(f) \/ UnlockWithPrf(f)
    BY <1>3, <2>1 DEF UnlockWithPassword, UnlockWithPrf, OpeningKey, Opening, At, Issue, ParsesAsPrivateKey
  <2>2. CASE UnlockSshIdentityWithPassword(f) \/ UnlockSshIdentityWithPrf(f)
    BY <1>3, <2>2 DEF UnlockSshIdentityWithPassword, UnlockSshIdentityWithPrf, OpeningSsh, Opening, At,
       StoreNormalizedIdentity, Issue, ValidateIdentity
  <2>3. CASE UnlockCrxWithPassword(f) \/ UnlockCrxWithPrf(f)
    BY <1>3, <2>3 DEF UnlockCrxWithPassword, UnlockCrxWithPrf, OpeningCrx, Opening, At,
       StoreDecryptedDer, Issue, BelongsToExtension
  <2> QED
    BY <2>1, <2>2, <2>3
<1> QED
  BY <1>1, <1>2, <1>3, IssuedKeeps DEF Unheld

LEMMA CacheKeeps ==
    ASSUME SecretIInv, NEW f \in Flows, CachePassword(f) \/ CachePrf(f)
    PROVE  SecretIInv'
<1>1. flows[f].step = "sealed" /\ UNCHANGED <<keyring, wrote>>
  BY DEF CachePassword, CachePrf
<1>2. CASE Refused(f)
  BY <1>1, <1>2, Rests DEF Refused
<1>3. CASE ~Refused(f)
  <2>1. Issued(f, KindOf[flows[f].id], TheSeal(f).holds, "cached")
    BY <1>3 DEF CachePassword, CachePrf, Issue
  <2>2. TheSeal(f).holds = flows[f].id
    <3>1. flows[f].entry = SealFor(KindOf[flows[f].id], flows[f].id, flows[f].cred)
      BY <1>1 DEF SecretIInv, FlowOK, InStep
    <3>2. \A kind, id, cred : SealFor(kind, id, cred).seal.holds = id
      BY DEF SealFor, Entry, SealWithPassword, SealWithPrf, AesGcmEncrypt
    <3> QED
      BY <3>1, <3>2 DEF TheSeal
  <2>3. PICK payload : payload = TheSeal(f).holds
    OBVIOUS
  <2>4. /\ flows[f].step \in Unheld /\ KindOf[payload] = KindOf[flows[f].id] /\ payload = flows[f].id
        /\ Issued(f, KindOf[flows[f].id], payload, "cached")
    BY <1>1, <2>1, <2>2, <2>3 DEF Unheld
  <2> QED
    BY <1>1, <2>4, IssuedKeeps
<1> QED
  BY <1>2, <1>3

---------------------------------------------------------------------------

\* A step of one flow that touches neither the stores nor the keyring.
LEMMA MovesAlone ==
    ASSUME SecretIInv, NEW f \in Flows, NEW x, flows' = [flows EXCEPT ![f] = x],
           FlowOK(x, stores, nextHandle), UNCHANGED <<keyring, stores, nextHandle, wrote>>
    PROVE  SecretIInv'
<1>1. StoresOK(stores', nextHandle') /\ RingIsWritten'
  BY DEF SecretIInv, RingIsWritten
<1>2. FlowOK(x, stores', nextHandle')
  OBVIOUS
<1>3. \A y : FlowOK(y, stores, nextHandle) => FlowOK(y, stores', nextHandle')
  OBVIOUS
<1> QED
  BY <1>1, <1>2, <1>3, FlowMoves

\* A call that answers from what its handle reaches, or that writes what it read.
LEMMA MovedIsFine ==
    ASSUME SecretIInv, NEW f \in Flows, NEW step, NEW cred, NEW entry, NEW got,
           flows[f].step \in WithHandle,
           got \in {Absent, "locked", flows[f].opened},
           \/ step \in {"held", "signed"}
           \/ step = "resealed" /\ entry = Entry("passkey", MasterOutput,
                  SealWithPrf(KindOf[flows[f].id], got, got, MasterOutput))
    PROVE  FlowOK(Moved(f, step, cred, entry, got), stores, nextHandle)
<1> DEFINE x == Moved(f, step, cred, entry, got)
<1>1. FlowOK(flows[f], stores, nextHandle)
  BY DEF SecretIInv
<1>2. /\ x.step = step /\ x.id = flows[f].id /\ x.entry = entry /\ x.handle = flows[f].handle
      /\ x.opened = flows[f].opened /\ x.got = got /\ Shaped(x)
  BY DEF Moved, Shaped
<1> HIDE DEF x
<1>3. InStep(x, nextHandle)
  BY <1>1, <1>2 DEF FlowOK, InStep, Unheld, WithHandle
<1>4. ReachesItsKey(x, stores)
  BY <1>1, <1>2 DEF FlowOK, ReachesItsKey
<1>5. IsItself(x)
  BY <1>1, <1>2 DEF FlowOK, IsItself
<1> QED
  BY <1>2, <1>3, <1>4, <1>5 DEF FlowOK, x

LEMMA HeldReaches ==
    ASSUME SecretIInv, NEW f \in Flows, flows[f].handle # Absent \/ flows[f].step \in WithHandle
    PROVE  /\ flows[f].handle \in 1 .. nextHandle - 1 /\ flows[f].id \in Ids
           /\ flows[f].handle # Absent /\ flows[f].step \in WithHandle
           /\ Behind(f) \in {Absent, flows[f].opened}
           /\ flows[f].got \in {Absent, "locked", flows[f].opened}
<1>1. FlowOK(flows[f], stores, nextHandle) /\ StoresOK(stores, nextHandle)
  BY DEF SecretIInv
<1>2. /\ flows[f].handle \in 1 .. nextHandle - 1 /\ flows[f].id \in Ids
      /\ flows[f].step \in WithHandle
  BY <1>1 DEF FlowOK, InStep, Unheld, WithHandle
<1>3. flows[f].handle # Absent
  BY <1>1, <1>2, SecretFacts DEF StoresOK
<1> QED
  BY <1>1, <1>2, <1>3 DEF FlowOK, ReachesItsKey, Behind

LEMMA AnswerKeeps ==
    ASSUME SecretIInv, NEW f \in Flows,
           \/ GetKeyArmored(f) \/ RevocationCertificate(f) \/ EncryptKeyForExport(f)
           \/ DecryptAgeWithHandle(f)
           \/ ReprotectCrxKey(f) \/ ExportCrxPrivateKeyPem(f) \/ SignCrxWithHandle(f)
    PROVE  SecretIInv'
<1>1. flows[f].step = "held" /\ UNCHANGED <<keyring, stores, nextHandle, wrote>>
  BY DEF GetKeyArmored, RevocationCertificate, EncryptKeyForExport, DecryptAgeWithHandle,
     ReprotectCrxKey, ExportCrxPrivateKeyPem, SignCrxWithHandle, At, Answered
<1>2. PICK then \in {"held", "signed"} : Answered(f, then)
  BY DEF GetKeyArmored, RevocationCertificate, EncryptKeyForExport, DecryptAgeWithHandle,
     ReprotectCrxKey, ExportCrxPrivateKeyPem, SignCrxWithHandle
<1>3. PICK got : got = IF Behind(f) = Absent THEN "locked" ELSE Behind(f)
  OBVIOUS
<1>4. got \in {Absent, "locked", flows[f].opened}
  BY <1>1, <1>3, HeldReaches DEF WithHandle
<1>5. flows' = [flows EXCEPT ![f] = Moved(f, then, flows[f].cred, flows[f].entry, got)]
  BY <1>2, <1>3 DEF Answered
<1>6. FlowOK(Moved(f, then, flows[f].cred, flows[f].entry, got), stores, nextHandle)
  BY <1>1, <1>4, MovedIsFine DEF WithHandle
<1> QED
  BY <1>1, <1>5, <1>6, MovesAlone

LEMMA LetGoKeeps ==
    ASSUME SecretIInv, NEW f \in Flows, DropKey(f) \/ DropSshIdentity(f) \/ DropCrxKey(f)
    PROVE  SecretIInv'
<1>1. PICK kind \in Stores : LetGo(f, kind)
  BY DEF DropKey, DropSshIdentity, DropCrxKey, Stores
<1>2. flows[f].step \in WithHandle /\ UNCHANGED <<keyring, wrote, nextHandle>>
  BY <1>1 DEF LetGo, At, WithHandle
<1>3. flows[f].handle \in 1 .. nextHandle - 1
  BY <1>2, HeldReaches
<1>4. stores' = SetAt(stores, kind, flows[f].handle, Absent)
  BY <1>1 DEF LetGo, RemoveHandle, SetAt
<1>5. flows' = [flows EXCEPT ![f] = Resting]
  BY <1>1 DEF LetGo
<1>6. StoresOK(stores, nextHandle) /\ RingIsWritten'
  BY <1>2 DEF SecretIInv, RingIsWritten
<1>7. /\ StoresOK(stores', nextHandle')
      /\ \A y : FlowOK(y, stores, nextHandle) => FlowOK(y, stores', nextHandle')
  BY <1>2, <1>3, <1>4, <1>6, Removing
<1> QED
  BY <1>5, <1>6, <1>7, RestingIsFine, FlowMoves

LEMMA LockKeeps == ASSUME SecretIInv, NEW f \in Flows, LockKey(f) PROVE SecretIInv'
<1>1. UNCHANGED <<keyring, wrote, nextHandle, flows>>
  BY DEF LockKey
<1>2. flows[f].handle \in 1 .. nextHandle - 1 /\ flows[f].id \in Ids
  BY HeldReaches DEF LockKey
<1>3. PICK kind \in Stores : kind = KindOf[flows[f].id]
  BY <1>2, SecretFacts
<1>4. stores' = SetAt(stores, kind, flows[f].handle, Absent)
  BY <1>3 DEF LockKey, RemoveHandle, SetAt
<1>5. StoresOK(stores, nextHandle) /\ RingIsWritten'
  BY <1>1 DEF SecretIInv, RingIsWritten
<1>6. /\ StoresOK(stores', nextHandle')
      /\ \A y : FlowOK(y, stores, nextHandle) => FlowOK(y, stores', nextHandle')
  BY <1>1, <1>2, <1>4, <1>5, Removing
<1> QED
  BY <1>1, <1>5, <1>6 DEF SecretIInv

LEMMA ReprotectKeeps ==
    ASSUME SecretIInv, NEW f \in Flows, ReprotectKeyWithPrf(f) \/ ReprotectSshIdentityWithPrf(f)
    PROVE  SecretIInv'
<1>1. PICK kind : ReprotectWithPrf(f, kind)
  BY DEF ReprotectKeyWithPrf, ReprotectSshIdentityWithPrf
<1>2. /\ flows[f].step = "held" /\ kind = KindOf[flows[f].id]
      /\ UNCHANGED <<keyring, stores, nextHandle, wrote>>
  BY <1>1 DEF ReprotectWithPrf, At
<1>3. /\ Behind(f) \in {Absent, flows[f].opened}
      /\ flows[f].got \in {Absent, "locked", flows[f].opened}
  BY <1>2, HeldReaches DEF WithHandle
<1>4. CASE Behind(f) = Absent
  <2>1. flows' = [flows EXCEPT ![f] = Moved(f, "held", flows[f].cred, Absent, flows[f].got)]
    BY <1>1, <1>2, <1>4 DEF ReprotectWithPrf
  <2>2. FlowOK(Moved(f, "held", flows[f].cred, Absent, flows[f].got), stores, nextHandle)
    BY <1>2, <1>3, MovedIsFine DEF WithHandle
  <2> QED
    BY <1>2, <2>1, <2>2, MovesAlone
<1>5. CASE Behind(f) # Absent
  <2>1. PICK got : got = Behind(f)
    OBVIOUS
  <2>2. PICK entry : entry = Entry("passkey", MasterOutput,
                        SealWithPrf(KindOf[flows[f].id], got, got, MasterOutput))
    OBVIOUS
  <2>3. flows' = [flows EXCEPT ![f] = Moved(f, "resealed", flows[f].cred, entry, got)]
    BY <1>1, <1>2, <1>5, <2>1, <2>2 DEF ReprotectWithPrf
  <2>4. FlowOK(Moved(f, "resealed", flows[f].cred, entry, got), stores, nextHandle)
    BY <1>2, <1>3, <2>1, <2>2, MovedIsFine DEF WithHandle
  <2> QED
    BY <1>2, <2>3, <2>4, MovesAlone
<1> QED
  BY <1>4, <1>5

\* A re-seal is of the entry's own key, and it opens with the master's output.
LEMMA ResealUnderMasterKeeps == ASSUME SecretIInv, NEW f \in Flows, ResealUnderMaster(f) PROVE SecretIInv'
<1>1. flows[f].step = "resealed" /\ UNCHANGED <<stores, nextHandle>>
  BY DEF ResealUnderMaster
<1>2. flows[f].got \in {Absent, "locked", flows[f].opened} /\ flows[f].id \in Ids
  BY <1>1, HeldReaches DEF WithHandle
<1>3. flows' = [flows EXCEPT ![f] = Moved(f, "held", flows[f].cred, Absent, flows[f].got)]
  BY DEF ResealUnderMaster
<1>4. FlowOK(Moved(f, "held", flows[f].cred, Absent, flows[f].got), stores, nextHandle)
  BY <1>1, <1>2, MovedIsFine DEF WithHandle
<1>5. RingIsWritten'
  <2>1. CASE UNCHANGED <<keyring, wrote>>
    BY <2>1 DEF SecretIInv, RingIsWritten
  <2>2. CASE ~UNCHANGED <<keyring, wrote>>
    <3> DEFINE entry == flows[f].entry
    <3>1. PICK id \in Ids : id = flows[f].id
      BY <1>2
    <3>2. /\ flows[f].got = id
          /\ keyring' = [keyring EXCEPT ![id] = entry]
          /\ wrote' = [wrote EXCEPT ![id] = MasterOutput]
      BY <2>2, <3>1 DEF ResealUnderMaster, ResealFits
    <3>3. entry = SealFor(KindOf[id], id, MasterOutput)
      BY <1>1, <3>1, <3>2, SecretFacts DEF SecretIInv, FlowOK, InStep, SealFor
    <3> QED
      BY <3>2, <3>3, SecretFacts DEF SecretIInv, RingIsWritten
  <2> QED
    BY <2>1, <2>2
<1>6. StoresOK(stores', nextHandle') /\ \A y : FlowOK(y, stores, nextHandle) => FlowOK(y, stores', nextHandle')
  BY <1>1 DEF SecretIInv
<1> QED
  BY <1>1, <1>3, <1>4, <1>5, <1>6, FlowMoves

LEMMA ProtectKeeps ==
    ASSUME SecretIInv, NEW f \in Flows, ProtectKey(f) \/ ProtectSshIdentity(f) \/ ProtectCrxKey(f)
    PROVE  SecretIInv'
<1>1. /\ flows[f].step = "protecting" /\ UNCHANGED <<keyring, stores, nextHandle, wrote>>
      /\ \/ Protected(f, KindOf[flows[f].id], TRUE) \/ Protected(f, KindOf[flows[f].id], FALSE)
  <2>1. flows[f].step = "protecting" /\ UNCHANGED <<keyring, stores, nextHandle, wrote>>
    BY DEF ProtectKey, ProtectSshIdentity, ProtectCrxKey, ProtectingKey, ProtectingSsh, ProtectingCrx,
       At, Protected
  <2>2. PICK kind : \E usable \in BOOLEAN : KindOf[flows[f].id] = kind /\ Protected(f, kind, usable)
    <3>1. \A source, passphrase : /\ DecryptCertSecrets(source, passphrase) \in BOOLEAN
                                  /\ NormalizeOpensshIdentity(source, passphrase) \in BOOLEAN
                                  /\ ParseRsaPrivatePem(source) \in BOOLEAN
      BY DEF DecryptCertSecrets, NormalizeOpensshIdentity, ParseRsaPrivatePem
    <3> QED
      BY <3>1 DEF ProtectKey, ProtectSshIdentity, ProtectCrxKey, ProtectingKey, ProtectingSsh,
         ProtectingCrx, At
  <2> QED
    BY <2>1, <2>2
<1>2. CASE Protected(f, KindOf[flows[f].id], FALSE)
  BY <1>1, <1>2, Rests DEF Protected
<1>3. CASE Protected(f, KindOf[flows[f].id], TRUE)
  <2>1. FlowOK(flows[f], stores, nextHandle)
    BY DEF SecretIInv
  <2> DEFINE x == Moved(f, "sealed", flows[f].cred,
                        SealFor(KindOf[flows[f].id], flows[f].id, flows[f].cred), flows[f].got)
  <2>2. flows' = [flows EXCEPT ![f] = x]
    BY <1>3 DEF Protected
  <2>3. /\ x.step = "sealed" /\ x.id = flows[f].id /\ x.cred = flows[f].cred
        /\ x.entry = SealFor(KindOf[x.id], x.id, x.cred)
        /\ x.handle = flows[f].handle /\ x.got = flows[f].got /\ Shaped(x)
    BY DEF Moved, Shaped
  <2> HIDE DEF x
  <2>4. FlowOK(x, stores, nextHandle)
    BY <1>1, <2>1, <2>3 DEF FlowOK, InStep, ReachesItsKey, IsItself, Unheld, WithHandle
  <2> QED
    BY <1>1, <2>2, <2>4, MovesAlone
<1> QED
  BY <1>1, <1>2, <1>3

LEMMA KeepKeeps == ASSUME SecretIInv, NEW f \in Flows, Keep(f) PROVE SecretIInv'
<1>1. flows[f].step \in {"sealed", "cached"} /\ UNCHANGED <<stores, nextHandle>>
  BY DEF Keep
<1>2. FlowOK(flows[f], stores, nextHandle)
  BY DEF SecretIInv
<1>3. PICK id \in Ids, cred \in Credentials :
          /\ id = flows[f].id /\ cred = flows[f].cred
          /\ flows[f].entry = SealFor(KindOf[id], id, cred)
  BY <1>1, <1>2 DEF FlowOK, InStep, Unheld, WithHandle
<1>4. RingIsWritten'
  <2> DEFINE entry == SealFor(KindOf[id], id, cred)
  <2>1. keyring' = [keyring EXCEPT ![id] = entry] /\ wrote' = [wrote EXCEPT ![id] = cred]
    BY <1>3 DEF Keep
  <2> QED
    BY <1>3, <2>1 DEF SecretIInv, RingIsWritten
<1>5. PICK x : x = IF flows[f].step = "cached" THEN Moved(f, "held", Absent, Absent, flows[f].got)
                   ELSE Resting
  OBVIOUS
<1>6. flows' = [flows EXCEPT ![f] = x]
  BY <1>5 DEF Keep
<1>7. FlowOK(x, stores, nextHandle)
  <2>1. CASE flows[f].step = "cached"
    BY <1>5, <2>1, HeldReaches, MovedIsFine DEF WithHandle
  <2>2. CASE flows[f].step # "cached"
    BY <1>5, <2>2, RestingIsFine
  <2> QED
    BY <2>1, <2>2
<1>8. StoresOK(stores', nextHandle') /\ \A y : FlowOK(y, stores, nextHandle) => FlowOK(y, stores', nextHandle')
  BY <1>1 DEF SecretIInv
<1> QED
  BY <1>1, <1>4, <1>6, <1>7, <1>8, FlowMoves

LEMMA DeleteKeeps == ASSUME SecretIInv, NEW id \in Ids, Delete(id) PROVE SecretIInv'
<1>1. RingIsWritten'
  BY DEF Delete, SecretIInv, RingIsWritten
<1> QED
  BY <1>1 DEF Delete, SecretIInv

LEMMA SecretStep == SecretIInv /\ [SecretNext]_secretVars => SecretIInv'
<1> SUFFICES ASSUME SecretIInv, [SecretNext]_secretVars PROVE SecretIInv'
  OBVIOUS
<1>1. CASE UNCHANGED secretVars
  BY <1>1 DEF secretVars, SecretIInv, RingIsWritten
<1>2. CASE SecretNext
  BY <1>2, OpenKeeps, UnlockKeeps, AnswerKeeps, LetGoKeeps, LockKeeps, ReprotectKeeps,
     ResealUnderMasterKeeps, ProtectKeeps, CacheKeeps, KeepKeeps, DeleteKeeps DEF SecretNext, Credentials
<1> QED
  BY <1>1, <1>2

LEMMA SecretsFollow == SecretIInv => SecretsStayTheirs
<1> SUFFICES ASSUME SecretIInv PROVE SecretsStayTheirs
  OBVIOUS
<1>1. HandlesReachOneKey
  BY DEF SecretIInv, FlowOK, ReachesItsKey, HandlesReachOneKey, IsHolding, Behind
<1>2. OpenedAsItself
  BY DEF SecretIInv, FlowOK, IsItself, OpenedAsItself, IsHolding
<1>3. NothingIsSealedAway
  <2> SUFFICES ASSUME NEW id \in Ids, wrote[id] # Absent,
                      NEW cred, cred = wrote[id], NEW e, e = keyring[id]
               PROVE  /\ e # Absent /\ e.way = WayOf(cred) /\ e.seal.holds = id
                      /\ IF e.way = "password"
                         THEN OpenWithPassword(e.seal, KindOf[id], id, cred)
                         ELSE e.output = cred /\ OpenWithPrf(e.seal, KindOf[id], id, e.output)
    BY DEF NothingIsSealedAway
  <2>1. cred \in Credentials /\ e = SealFor(KindOf[id], id, cred)
    BY DEF SecretIInv, RingIsWritten
  <2>2. e # Absent
    BY <2>1, SealsArePresent DEF Credentials
  <2>3. CASE cred \in Passwords
    BY <2>1, <2>2, <2>3 DEF SealFor, Entry, SealWithPassword, AesGcmEncrypt, OpenWithPassword,
       AesGcmDecrypt, WayOf
  <2>4. CASE cred \notin Passwords
    BY <2>1, <2>2, <2>4 DEF SealFor, Entry, SealWithPrf, AesGcmEncrypt, OpenWithPrf, AesGcmDecrypt,
       WayOf
  <2> QED
    BY <2>3, <2>4
<1> QED
  BY <1>1, <1>2, <1>3 DEF SecretsStayTheirs

\* However the calls, the session's locks and the deletions interleave, and
\* whatever the keyrings found on disk hold: a handle reaches the key it was
\* issued for or nothing, an SSH or CRX key is opened under its own id only, and
\* what the app wrote opens with what it was written for.
THEOREM SecretsStayTheirsAlways == SecretSpec => []SecretsStayTheirs
<1>1. SecretIInv => SecretsStayTheirs
  BY SecretsFollow
<1> QED
  BY InitSecret, SecretStep, <1>1, PTL DEF SecretSpec

---------------------------------------------------------------------------
(* Making and deleting keys.                                               *)

Everything == Pgp \union Crx \union PeopleIds
PageEntries == [id : Nat, page : {"details", "delete", "bulk", "generate"},
                about : SUBSET Everything, closing : BOOLEAN]
DeletionRuns == [page : Nat, todo : SUBSET Everything, standard : Pgp \union {NoKey},
                 offers : SUBSET PeopleIds]
Forms == [type : {"pgp", "crx"}, option : {"never", "fixed", "custom"}, date : Nat,
          use : {"master passkey", "new passkey", "password"}]
KeyTypes ==
    /\ stored \in SUBSET Everything /\ standard \in Pgp \union {NoKey}
    /\ deletions \in SUBSET DeletionRuns /\ taken \in SUBSET PeopleIds
    /\ lastPage \in Nat

\* A page stands alone, or the deletion of what the page below shows on it.
OfOne(entry) == entry.page # "bulk" => \A x, y \in entry.about : x = y
Shallow(s, last) ==
    /\ s \in Seq(PageEntries) /\ Len(s) <= 2
    /\ \A i \in 1..Len(s) : s[i].id <= last /\ OfOne(s[i])
    /\ Len(s) = 2 =>
          /\ s[1].page = "details" /\ s[2].page = "delete"
          /\ s[2].about = s[1].about /\ s[1].id # s[2].id
\* Unless one was rushed, the page on top is that of the one deletion under way.
RunsOnTop ==
    \A d \in deletions :
        /\ stack # <<>> /\ Top.id = d.page /\ Top.page \in {"delete", "bulk"}
        /\ d.todo \subseteq Top.about /\ deletions = {d}
ViewsAreTrue ==
    \A i \in DOMAIN stack : stack[i].page = "details" =>
        stack[i].about \subseteq stored \/ \E d \in deletions : d.todo = {}
DefaultIsSeen ==
    /\ standard \in stored \union {NoKey}
    /\ \A d \in deletions : standard \in {NoKey, d.standard} \/ standard \notin d.todo
NotYetMade ==
    ~made => /\ NewPgp \notin stored
             /\ \A i \in DOMAIN stack : NewPgp \notin stack[i].about
             /\ \A d \in deletions : NewPgp \notin d.todo
TakenAreGone ==
    /\ \A d \in deletions : d.offers # {} => d.todo \subseteq d.offers
    /\ taken \intersect stored = {}
MakingIsOfTheForm ==
    /\ making.stage \in {"none", "painting", "adding"}
    /\ making.stage # "none" => ~made /\ making.form \in Forms
    /\ making.stage = "none" => making = Idle
ExpiryIsKnown ==
    /\ choices.type = "pgp" /\ choices.option = "custom" => earliest # Never
    /\ leaf = "expiry" => choices.option = "custom"

\* Where a page went, what is left shows nothing new, and the top one is the same.
Alike(e, f) == e.id = f.id /\ e.page = f.page /\ e.about = f.about
NothingNew(t, s) == \A i \in 1..Len(t) : \E j \in 1..Len(s) : Alike(t[i], s[j])
SameTop(t, s) == s # <<>> => t # <<>> /\ Alike(t[Len(t)], s[Len(s)])

\* The form and the key that is made of it, whatever the pages do.
MakingIInv ==
    /\ choices \in Forms /\ earliest \in Nat /\ clock \in Nat /\ made \in BOOLEAN
    /\ MakingIsOfTheForm /\ MadeAsChosen /\ ExpiryIsKnown
PagesIInv ==
    /\ KeyTypes /\ Shallow(stack, lastPage)
    /\ rushed \/ (RunsOnTop /\ ViewsAreTrue /\ DefaultIsSeen)
    /\ NotYetMade /\ TakenAreGone /\ UndoIsWhole

---------------------------------------------------------------------------
(* Making.                                                                 *)

LEMMA FormsBegin == FirstForm \in Forms /\ FirstForm.option # "custom"
  BY DEF FirstForm, Forms, Never

LEMMA InitMaking == KeysInit => MakingIInv
<1> SUFFICES ASSUME KeysInit PROVE MakingIInv
  OBVIOUS
<1>1. choices = FirstForm /\ leaf = "identity" /\ earliest = 0 /\ clock = 0 /\ made = FALSE
  BY DEF KeysInit, Never
<1>2. making = Idle
  BY DEF KeysInit
<1>3. MakingIsOfTheForm /\ MadeAsChosen
  BY <1>2 DEF MakingIsOfTheForm, MadeAsChosen, Idle
<1>4. ExpiryIsKnown
  BY <1>1, FormsBegin DEF ExpiryIsKnown
<1> QED
  BY <1>1, <1>3, <1>4, FormsBegin DEF MakingIInv

\* The generation starts from the choices, and the form stays or is new.
LEMMA FormChanges ==
    ASSUME MakingIInv, UNCHANGED <<protected, making, made>>, clock' \in Nat,
           UNCHANGED <<choices, leaf, earliest>> \/ NewForm
    PROVE  MakingIInv'
<1>1. CASE UNCHANGED <<choices, leaf, earliest>>
  BY <1>1 DEF MakingIInv, MakingIsOfTheForm, MadeAsChosen, ExpiryIsKnown
<1>2. CASE NewForm
  <2>1. choices' = FirstForm /\ leaf' = "identity" /\ earliest' = 0
    BY <1>2 DEF NewForm, Never
  <2>2. MakingIsOfTheForm' /\ MadeAsChosen'
    BY DEF MakingIInv, MakingIsOfTheForm, MadeAsChosen
  <2>3. ExpiryIsKnown'
    BY <2>1, FormsBegin DEF ExpiryIsKnown
  <2> QED
    BY <2>1, <2>2, <2>3, FormsBegin DEF MakingIInv
<1> QED
  BY <1>1, <1>2

LEMMA StartsMaking ==
    ASSUME MakingIInv, HandleGenerate, UNCHANGED <<protected, made, clock>>, choices' \in Forms,
           choices'.type = "pgp" /\ choices'.option = "custom" => earliest # Never
    PROVE  MakingIInv'
<1>1. MakingIsOfTheForm'
  BY DEF HandleGenerate, MakingIsOfTheForm
<1>2. MadeAsChosen'
  BY DEF HandleGenerate, MadeAsChosen
<1>3. ExpiryIsKnown'
  BY DEF HandleGenerate, ExpiryIsKnown
<1> QED
  BY <1>1, <1>2, <1>3 DEF MakingIInv, HandleGenerate

LEMMA Stepping ==
    ASSUME MakingIInv, NEW step, ToStep(step), UNCHANGED <<protected, made, clock>>,
           choices' \in Forms,
           choices'.type = "pgp" /\ choices'.option = "custom" => earliest # Never,
           step = "expiry" => choices'.option = "custom"
    PROVE  MakingIInv'
<1>1. MakingIsOfTheForm' /\ MadeAsChosen'
  BY DEF MakingIInv, ToStep, MakingIsOfTheForm, MadeAsChosen
<1>2. ExpiryIsKnown'
  BY DEF ToStep, ExpiryIsKnown
<1> QED
  BY <1>1, <1>2 DEF MakingIInv, ToStep

LEMMA HandleNextKeeps ==
    ASSUME MakingIInv, NEW type \in {"pgp", "crx"}, NEW option \in {"never", "fixed", "custom"},
           HandleNext(type, option)
    PROVE  MakingIInv'
<1>1. /\ choices' = [choices EXCEPT !.type = type, !.option = option]
      /\ UNCHANGED <<protected, made, clock>> /\ making = Idle
  BY DEF HandleNext, OnForm, listVars, navVars, deleteVars
<1>2. choices' \in Forms /\ choices'.type = type /\ choices'.option = option
  BY <1>1 DEF MakingIInv, Forms
<1>3. CASE type = "pgp" /\ option = "custom"
  <2>1. earliest' = clock + DAY /\ leaf' = "expiry" /\ UNCHANGED making
    BY <1>3 DEF HandleNext
  <2>2. earliest' \in Nat /\ earliest' # Never
    BY <2>1, KeyPagesConstants DEF MakingIInv, Never
  <2>3. MakingIsOfTheForm' /\ MadeAsChosen' /\ ExpiryIsKnown'
    BY <1>1, <1>2, <1>3, <2>1, <2>2 DEF MakingIInv, MakingIsOfTheForm, MadeAsChosen, ExpiryIsKnown, Idle
  <2> QED
    BY <1>1, <1>2, <2>2, <2>3 DEF MakingIInv
<1>4. CASE ~(type = "pgp" /\ option = "custom")
  BY <1>1, <1>2, <1>4, StartsMaking, Stepping DEF HandleNext, OnToProtection
<1> QED
  BY <1>3, <1>4

LEMMA MultiplesAreLater ==
    ASSUME NEW x, NEW a, NEW b, x \in a..b, NEW y \in Nat, NEW z \in Nat, x * y >= z
    PROVE  x * y \in Nat
<1>1. x \in Int
  OBVIOUS
<1>2. x * y \in Int
  BY <1>1
<1> QED
  BY <1>2

LEMMA FormStepsKeep ==
    ASSUME MakingIInv,
           HandleExpiryNext \/ HandleBack \/ \E use \in {"master passkey", "new passkey", "password"} : SubmitProtection(use)
    PROVE  MakingIInv'
<1>1. CASE HandleExpiryNext
  <2>1. PICK date \in Nat : choices' = [choices EXCEPT !.date = date]
    <3>1. PICK day :
              /\ day \in (earliest \div DAY) .. ((MaxClock \div DAY) + 1)
              /\ day * DAY >= earliest
              /\ choices' = [choices EXCEPT !.date = day * DAY]
      BY <1>1 DEF HandleExpiryNext
    <3>2. DAY \in Nat /\ earliest \in Nat
      BY KeyPagesConstants DEF MakingIInv
    <3>3. day * DAY \in Nat
      BY ONLY <3>1, <3>2, MultiplesAreLater
    <3> QED
      BY <3>1, <3>3
  <2>2. /\ choices' \in Forms /\ choices'.type = choices.type /\ choices'.option = choices.option
        /\ earliest # Never /\ UNCHANGED <<protected, made, clock>>
    BY <1>1, <2>1 DEF HandleExpiryNext, MakingIInv, Forms, OnForm
  <2> QED
    BY <1>1, <2>2, StartsMaking, Stepping DEF HandleExpiryNext, OnToProtection
<1>2. CASE HandleBack
  <2>1. UNCHANGED <<choices, protected, made, clock>>
    BY <1>2 DEF HandleBack, OnForm
  <2>2. choices \in Forms /\ (choices.type = "pgp" /\ choices.option = "custom" => earliest # Never)
    BY DEF MakingIInv, ExpiryIsKnown
  <2>3. CASE ToStep("identity")
    BY <2>1, <2>2, <2>3, Stepping
  <2>4. CASE ToStep(IF choices.option = "custom" THEN "expiry" ELSE "identity")
    <3>1. CASE choices.option = "custom"
      BY <2>1, <2>2, <2>4, <3>1, Stepping
    <3>2. CASE choices.option # "custom"
      BY <2>1, <2>2, <2>4, <3>2, Stepping
    <3> QED
      BY <3>1, <3>2
  <2> QED
    BY <1>2, <2>3, <2>4 DEF HandleBack
<1>3. ASSUME NEW use \in {"master passkey", "new passkey", "password"}, SubmitProtection(use)
      PROVE  MakingIInv'
  <2>1. /\ choices' = [choices EXCEPT !.use = use] /\ HandleGenerate
        /\ UNCHANGED <<protected, made, clock>>
    BY <1>3 DEF SubmitProtection, OnForm
  <2>2. choices' \in Forms /\ choices'.type = choices.type /\ choices'.option = choices.option
    BY <2>1 DEF MakingIInv, Forms
  <2> QED
    BY <2>1, <2>2, StartsMaking DEF MakingIInv, ExpiryIsKnown
<1> QED
  BY <1>1, <1>2, <1>3

LEMMA SealKeeps == MakingIInv /\ Seal => MakingIInv'
<1> SUFFICES ASSUME MakingIInv, Seal PROVE MakingIInv'
  OBVIOUS
<1> DEFINE f == making.form
           span == ExpiryToSeconds(f.option, f.date, clock)
<1>1. f \in Forms /\ ~made /\ UNCHANGED <<protected, choices, leaf, earliest, made, clock>>
  BY DEF Seal, MakingIInv, MakingIsOfTheForm
<1>2. /\ making'.stage = "adding" /\ making'.form = f /\ making'.at = clock
      /\ making'.under = SealedUnder(f)
      /\ making'.expires = IF f.type = "crx" \/ span = Never THEN Never ELSE clock + span
  BY DEF Seal
<1>3. MakingIsOfTheForm'
  BY <1>1, <1>2 DEF MakingIsOfTheForm
<1>4. SealedUnder(f) = "master seal" =>
          f.type = "pgp" /\ f.use = "master passkey" /\ protected = "sealing"
  BY <1>1 DEF SealedUnder, Forms
<1>5. ASSUME f.type = "pgp", f.option = "custom"
      PROVE  making'.expires = IF f.date > clock THEN f.date ELSE Never
  <2>1. span = IF f.date > clock THEN f.date - clock ELSE 0
    BY <1>5 DEF ExpiryToSeconds, Never
  <2>2. making'.expires = IF span = 0 THEN 0 ELSE clock + span
    BY <1>2, <1>5 DEF Never
  <2>3. f.date \in Nat /\ clock \in Nat
    BY <1>1 DEF MakingIInv, Forms
  <2> QED
    BY <2>1, <2>2, <2>3 DEF Never
<1>6. MadeAsChosen'
  BY <1>1, <1>2, <1>4, <1>5 DEF MadeAsChosen
<1> QED
  BY <1>1, <1>3, <1>6 DEF MakingIInv, ExpiryIsKnown

LEMMA MakingEnds ==
    ASSUME MakingIInv, making' = Idle, made' \in BOOLEAN, clock' \in Nat,
           UNCHANGED <<choices, earliest>>, leaf' \in {leaf, "protection"}
    PROVE  MakingIInv'
  BY DEF MakingIInv, MakingIsOfTheForm, MadeAsChosen, ExpiryIsKnown, Idle

\* What the list, the deletions and the stack do leaves it, but for the new form.
LEMMA MakingKept == MakingIInv /\ [KeysNext]_keyVars => MakingIInv'
<1> SUFFICES ASSUME MakingIInv, [KeysNext]_keyVars PROVE MakingIInv'
  OBVIOUS
<1>1. clock \in Nat
  BY DEF MakingIInv
<1>2. CASE UNCHANGED makeVars
  BY <1>1, <1>2, FormChanges DEF makeVars
<1>3. ASSUME NEW id \in 1..MaxPages, RemovePage(id) PROVE MakingIInv'
  <2>1. UNCHANGED <<protected, making, made>> /\ clock' \in Nat
    BY <1>1, <1>3 DEF RemovePage
  <2> QED
    BY <1>3, <2>1, FormChanges DEF RemovePage
<1>4. CASE \E type \in {"pgp", "crx"}, option \in {"never", "fixed", "custom"} : HandleNext(type, option)
  BY <1>4, HandleNextKeeps
<1>5. CASE HandleExpiryNext \/ HandleBack \/ \E use \in {"master passkey", "new passkey", "password"} : SubmitProtection(use)
  BY <1>5, FormStepsKeep
<1>6. CASE Added \/ MakingFails
  <2>1. making' = Idle /\ UNCHANGED <<choices, earliest>> /\ made' \in BOOLEAN
    BY <1>6 DEF Added, MakingFails, MakingIInv
  <2>2. clock' \in Nat /\ leaf' \in {leaf, "protection"}
    BY <1>1, <1>6 DEF Added, MakingFails
  <2> QED
    BY <2>1, <2>2, MakingEnds
<1>7. CASE TimePasses
  BY <1>1, <1>7, FormChanges DEF TimePasses
<1> QED
  BY <1>2, <1>3, <1>4, <1>5, <1>6, <1>7, SealKeeps
     DEF KeysNext, keyVars, OpenDetails, OpenConfirmDelete, OpenBulkDelete, OpenGenerate, DismissTop,
         SetDefault, Confirm, DeleteOne, DeleteFails, Deleted, Undo, OfferExpires

---------------------------------------------------------------------------
(* The stack of pages.                                                     *)

LEMMA PageAlone ==
    ASSUME NEW e \in PageEntries, NEW last, e.id <= last, OfOne(e)
    PROVE  Shallow(<<e>>, last)
  BY DEF Shallow

LEMMA SmallNumbers ==
    ASSUME NEW n \in Nat, n <= 2
    PROVE  n = 0 \/ n = 1 \/ n = 2
  OBVIOUS

LEMMA SmallCounts ==
    ASSUME NEW n \in Nat, n <= 2, NEW i \in 1..n
    PROVE  (n = 1 \/ n = 2) /\ (i = 1 \/ i = 2) /\ (i # n => n = 2 /\ i = 1)
<1>1. n = 1 \/ n = 2
  OBVIOUS
<1>2. i = 1 \/ i = 2
  OBVIOUS
<1>3. i # n => n = 2 /\ i = 1
  OBVIOUS
<1> QED
  BY <1>1, <1>2, <1>3

LEMMA OneAsTuple ==
    ASSUME NEW S, NEW s \in Seq(S), Len(s) = 1
    PROVE  s = <<s[1]>> /\ s[1] \in S
<1>1. s[1] \in S
  BY ElementOfSeq
<1>2. <<s[1]>> \in Seq(S) /\ Len(<<s[1]>>) = 1 /\ <<s[1]>>[1] = s[1]
  BY <1>1
<1>3. \A i \in 1..Len(s) : s[i] = <<s[1]>>[i]
  OBVIOUS
<1> QED
  BY <1>1, <1>2, <1>3, SeqEqual, Zenon

LEMMA AppendedAfter ==
    ASSUME NEW S, NEW s \in Seq(S), NEW e \in S
    PROVE  /\ Append(s, e) \in Seq(S) /\ Len(Append(s, e)) = Len(s) + 1
           /\ Append(s, e)[Len(s) + 1] = e
  BY AppendProperties, Zenon

LEMMA AppendedKeeps ==
    ASSUME NEW S, NEW s \in Seq(S), NEW e \in S, NEW i \in 1..Len(s)
    PROVE  Append(s, e)[i] = s[i]
  OBVIOUS

LEMMA TwoAsTuple ==
    ASSUME NEW S, NEW a \in S, NEW e \in S
    PROVE  Append(<<a>>, e) = <<a, e>>
<1> DEFINE s == <<a>>
           t == Append(s, e)
           u == <<a, e>>
<1>1. <<a>> \in Seq(S) /\ Len(<<a>>) = 1 /\ <<a>>[1] = a
  OBVIOUS
<1>2. <<a, e>> \in Seq(S) /\ Len(<<a, e>>) = 2 /\ <<a, e>>[1] = a /\ <<a, e>>[2] = e
  OBVIOUS
<1> HIDE DEF s, u
<1>3. s \in Seq(S) /\ Len(s) = 1 /\ s[1] = a
  BY <1>1 DEF s
<1>4. u \in Seq(S) /\ Len(u) = 2 /\ u[1] = a /\ u[2] = e
  BY <1>2 DEF u
<1>5. t \in Seq(S) /\ Len(t) = Len(s) + 1 /\ t[Len(s) + 1] = e
  BY <1>3, AppendedAfter, Zenon
<1>6. \A i \in 1..Len(s) : t[i] = s[i]
  BY <1>3, AppendedKeeps
<1> HIDE DEF t
<1>7. Len(t) = Len(u)
  BY <1>3, <1>4, <1>5
<1>8. \A i \in 1..Len(t) : t[i] = u[i]
  BY <1>3, <1>4, <1>5, <1>6
<1>9. t = u
  BY <1>4, <1>5, <1>7, <1>8, SeqEqual, Zenon
<1> QED
  BY <1>9 DEF t, s, u

LEMMA PageCovered ==
    ASSUME NEW a \in PageEntries, NEW last \in Nat, Shallow(<<a>>, last), a.page = "details",
           NEW e \in PageEntries, e.id = last + 1, e.page = "delete", e.about = a.about
    PROVE  Shallow(<<a, e>>, last + 1)
<1>1. a.id \in Nat /\ a.id <= last /\ OfOne(a)
  BY DEF Shallow, PageEntries
<1>2. OfOne(e)
  BY <1>1 DEF OfOne
<1>3. \A i \in 1..2 : <<a, e>>[i].id <= last + 1 /\ OfOne(<<a, e>>[i])
  BY <1>1, <1>2
<1>4. <<a, e>> \in Seq(PageEntries) /\ Len(<<a, e>>) = 2
  OBVIOUS
<1>5. a.id # e.id
  BY <1>1
<1> QED
  BY <1>3, <1>4, <1>5 DEF Shallow

LEMMA ClosingIsAlike ==
    ASSUME NEW e \in PageEntries
    PROVE  Closing(e) \in PageEntries /\ Alike(Closing(e), e)
  BY DEF Closing, PageEntries, Alike

\* Pages that begin to close leave the stack as it is.
LEMMA ClosingKeeps ==
    ASSUME NEW s, NEW last, Shallow(s, last), NEW t \in Seq(PageEntries), Len(t) = Len(s),
           \A i \in 1..Len(s) : Alike(t[i], s[i])
    PROVE  Shallow(t, last) /\ NothingNew(t, s) /\ SameTop(t, s)
<1>1. s \in Seq(PageEntries) /\ Len(s) \in Nat
  BY LenProperties DEF Shallow
<1>2. NothingNew(t, s)
  BY <1>1 DEF NothingNew
<1>3. SameTop(t, s)
  BY <1>1, EmptySeq DEF SameTop
<1>4. \A i \in 1..Len(t) : t[i].id <= last /\ OfOne(t[i])
  BY DEF Shallow, Alike, OfOne
<1>5. Len(t) = 2 => /\ t[1].page = "details" /\ t[2].page = "delete"
                    /\ t[2].about = t[1].about /\ t[1].id # t[2].id
  BY DEF Shallow, Alike
<1> QED
  BY <1>2, <1>3, <1>4, <1>5 DEF Shallow

LEMMA OnePage ==
    ASSUME NEW S, NEW s \in Seq(S), NEW k \in 1..Len(s)
    PROVE  SubSeq(s, k, k) = <<s[k]>>
<1>1. s[k] \in S /\ k \in Int
  BY ElementOfSeq
<1>2. SubSeq(s, k, k) = <<s[k]>> \o SubSeq(s, k + 1, k)
  BY SubSeqRecursiveFirst, <1>1
<1>3. SubSeq(s, k + 1, k) = <<>>
  BY SubSeqEmpty, <1>1
<1>4. <<s[k]>> \in Seq(S)
  BY <1>1
<1>5. <<s[k]>> \o <<>> = <<s[k]>>
  BY <1>4, ConcatEmptySeq, Zenon
<1> QED
  BY <1>2, <1>3, <1>5, Zenon

\* What is left when the i-th of two pages at most goes.
Left(s, i) == SubSeq(s, 1, i - 1) \o SubSeq(s, i + 1, Len(s))

LEMMA NextToNothing ==
    ASSUME NEW S, NEW e \in S
    PROVE  <<>> \o <<e>> = <<e>> /\ <<e>> \o <<>> = <<e>> /\ <<>> \o <<>> = <<>>
<1>1. <<e>> \in Seq(S) /\ <<>> \in Seq(S)
  OBVIOUS
<1> QED
  BY <1>1, ConcatEmptySeq, Zenon

LEMMA PageLeft ==
    ASSUME NEW S, NEW s \in Seq(S), Len(s) <= 2, NEW i \in 1..Len(s)
    PROVE  \/ Len(s) = 1 /\ i = 1 /\ Left(s, i) = <<>>
           \/ Len(s) = 2 /\ i = 1 /\ Left(s, i) = <<s[2]>>
           \/ Len(s) = 2 /\ i = 2 /\ Left(s, i) = <<s[1]>>
<1>1. Len(s) \in Nat
  BY LenProperties
<1>2. CASE Len(s) = 1
  <2>1. i = 1 /\ i - 1 = 0 /\ i + 1 = 2
    BY <1>2
  <2>2. SubSeq(s, 1, 0) = <<>> /\ SubSeq(s, 2, 1) = <<>>
    BY SubSeqEmpty
  <2>3. s[1] \in S
    BY <1>2, ElementOfSeq
  <2>4. Left(s, i) = <<>>
    BY <1>2, <2>1, <2>2, <2>3, NextToNothing, Zenon DEF Left
  <2> QED
    BY <1>2, <2>1, <2>4
<1>3. CASE Len(s) = 2 /\ i = 1
  <2>1. i - 1 = 0 /\ i + 1 = 2
    BY <1>3
  <2>2. 2 \in 1..Len(s)
    BY <1>3
  <2>3. SubSeq(s, 1, 0) = <<>>
    BY SubSeqEmpty
  <2>4. SubSeq(s, 2, 2) = <<s[2]>> /\ s[2] \in S
    BY <2>2, OnePage, ElementOfSeq, Zenon
  <2>5. Left(s, i) = <<s[2]>>
    BY <1>3, <2>1, <2>3, <2>4, NextToNothing, Zenon DEF Left
  <2> QED
    BY <1>3, <2>5
<1>4. CASE Len(s) = 2 /\ i = 2
  <2>1. i - 1 = 1 /\ i + 1 = 3
    BY <1>4
  <2>2. 1 \in 1..Len(s)
    BY <1>4
  <2>3. SubSeq(s, 3, 2) = <<>>
    BY SubSeqEmpty
  <2>4. SubSeq(s, 1, 1) = <<s[1]>> /\ s[1] \in S
    BY <2>2, OnePage, ElementOfSeq, Zenon
  <2>5. Left(s, i) = <<s[1]>>
    BY <1>4, <2>1, <2>3, <2>4, NextToNothing, Zenon DEF Left
  <2> QED
    BY <1>4, <2>5
<1>5. (Len(s) = 1 \/ Len(s) = 2) /\ (i = 1 \/ i = 2)
  BY <1>1, SmallCounts, Zenon
<1> QED
  BY <1>2, <1>3, <1>4, <1>5

LEMMA PageTakenOut ==
    ASSUME NEW s, NEW last, Shallow(s, last), NEW i \in DOMAIN s
    PROVE  /\ Shallow(Left(s, i), last) /\ NothingNew(Left(s, i), s)
           /\ s[i].id # s[Len(s)].id => SameTop(Left(s, i), s)
<1>1. s \in Seq(PageEntries) /\ Len(s) <= 2 /\ i \in 1..Len(s)
  BY LenProperties DEF Shallow
<1>2. CASE Len(s) = 1 /\ i = 1 /\ Left(s, i) = <<>>
  <2>1. Shallow(<<>>, last) /\ NothingNew(<<>>, s)
    BY DEF Shallow, NothingNew
  <2> QED
    BY <1>2, <2>1
<1>3. ASSUME NEW k \in 1..2, Len(s) = 2, Left(s, i) = <<s[k]>>
      PROVE  Shallow(Left(s, i), last) /\ NothingNew(Left(s, i), s)
  <2>1. s[k] \in PageEntries /\ s[k].id <= last /\ OfOne(s[k])
    BY <1>1, <1>3, ElementOfSeq DEF Shallow
  <2>2. Shallow(<<s[k]>>, last)
    BY <2>1, PageAlone
  <2>3. NothingNew(<<s[k]>>, s)
    BY <1>3 DEF NothingNew, Alike
  <2> QED
    BY <1>3, <2>2, <2>3
<1>4. Len(s) = 2 /\ Left(s, i) = <<s[2]>> => SameTop(Left(s, i), s)
  BY DEF SameTop, Alike
<1> QED
  BY <1>1, <1>2, <1>3, <1>4, PageLeft

---------------------------------------------------------------------------
(* The pages over the list.                                                *)

\* No page shows what is not, and no deletion deletes what is not, listed.
LEMMA KeysAreNew == NewPgp \notin OwnIds \union SigningIds \union PeopleIds /\ NewPgp # NewCrx
  BY KeyPagesConstants

LEMMA TopIsAPage ==
    ASSUME Shallow(stack, lastPage), stack # <<>>
    PROVE  /\ Len(stack) \in DOMAIN stack /\ DOMAIN stack = 1..Len(stack)
           /\ Top \in PageEntries /\ Top.id <= lastPage /\ OfOne(Top)
<1>1. stack \in Seq(PageEntries)
  BY DEF Shallow
<1>2. Len(stack) \in Nat \ {0}
  BY <1>1, EmptySeq
<1>3. Len(stack) \in 1..Len(stack) /\ DOMAIN stack = 1..Len(stack)
  BY <1>1, <1>2, LenProperties
<1>4. Top \in PageEntries
  BY <1>1, <1>3, ElementOfSeq DEF Top
<1> QED
  BY <1>3, <1>4 DEF Shallow, Top

\* A step of the stack: what was true stays so, if the pages left showed it before or
\* no deletion runs and the pages show what is stored.
LEMMA StackMoves ==
    ASSUME PagesIInv, UNCHANGED <<listVars, deletions, offered, failed, taken, made>>,
           lastPage' \in Nat, Shallow(stack', lastPage'), rushed => rushed',
           \/ rushed'
           \/ SameTop(stack', stack) /\ NothingNew(stack', stack)
           \/ deletions = {} /\ \A i \in 1..Len(stack') :
                  stack'[i].page = "details" => stack'[i].about \subseteq stored,
           \/ NothingNew(stack', stack)
           \/ \A i \in 1..Len(stack') : NewPgp \in stack'[i].about =>
                  NewPgp \in stored \/ \E j \in 1..Len(stack) : NewPgp \in stack[j].about
    PROVE  PagesIInv'
<1>1. DOMAIN stack = 1..Len(stack) /\ DOMAIN stack' = 1..Len(stack')
  BY LenProperties DEF PagesIInv, Shallow
<1>2. KeyTypes' /\ TakenAreGone'
  BY DEF PagesIInv, KeyTypes, TakenAreGone, listVars
<1>3. UndoIsWhole'
  BY DEF PagesIInv, UndoIsWhole, listVars
<1>4. NotYetMade'
  <2> SUFFICES ASSUME ~made PROVE NotYetMade'
    BY DEF NotYetMade
  <2>1. NewPgp \notin stored /\ (\A i \in 1..Len(stack) : NewPgp \notin stack[i].about)
        /\ \A d \in deletions : NewPgp \notin d.todo
    BY <1>1 DEF PagesIInv, NotYetMade
  <2>2. \A i \in 1..Len(stack') : NewPgp \notin stack'[i].about
    BY <2>1 DEF NothingNew, Alike
  <2> QED
    BY <1>1, <2>1, <2>2 DEF NotYetMade, listVars
<1>5. ASSUME ~rushed' PROVE RunsOnTop' /\ ViewsAreTrue' /\ DefaultIsSeen'
  <2>1. RunsOnTop /\ ViewsAreTrue /\ DefaultIsSeen
    BY <1>5 DEF PagesIInv
  <2>2. DefaultIsSeen'
    BY <2>1 DEF DefaultIsSeen, listVars
  <2>3. CASE SameTop(stack', stack) /\ NothingNew(stack', stack)
    <3>1. RunsOnTop'
      BY <2>1, <2>3 DEF RunsOnTop, SameTop, Alike, Top
    <3>2. ViewsAreTrue'
      BY <1>1, <2>1, <2>3 DEF ViewsAreTrue, NothingNew, Alike, listVars
    <3> QED
      BY <2>2, <3>1, <3>2
  <2>4. CASE deletions = {} /\ \A i \in 1..Len(stack') :
                  stack'[i].page = "details" => stack'[i].about \subseteq stored
    BY <1>1, <2>2, <2>4 DEF RunsOnTop, ViewsAreTrue, listVars
  <2> QED
    BY <1>5, <2>2, <2>3, <2>4
<1> QED
  BY <1>2, <1>3, <1>4, <1>5 DEF PagesIInv

LEMMA NothingRuns == PagesIInv /\ ~rushed /\ stack = <<>> => deletions = {}
  BY DEF PagesIInv, RunsOnTop

LEMMA OpenOnTheList ==
    ASSUME PagesIInv, stack = <<>>, NEW page, NEW about \in SUBSET stored, Push(page, about),
           UNCHANGED <<listVars, deleteVars, made>>, page \in {"details", "bulk", "generate"},
           page = "bulk" \/ \A x, y \in about : x = y
    PROVE  PagesIInv'
<1> DEFINE e == Opened(page, about)
<1>1. lastPage \in Nat /\ lastPage' = lastPage + 1 /\ lastPage' \in Nat
  BY DEF PagesIInv, KeyTypes, Push
<1>2. e \in PageEntries /\ e.id = lastPage' /\ e.about = about /\ e.page = page
  BY <1>1 DEF PagesIInv, KeyTypes, PageEntries, Opened
<1>3. stack' = <<e>>
  BY DEF Push
<1> HIDE DEF e
<1>4. Shallow(<<e>>, lastPage')
  BY <1>1, <1>2, PageAlone DEF OfOne
<1>5. Len(<<e>>) = 1 /\ <<e>>[1] = e
  OBVIOUS
<1>6. rushed' \/ (deletions = {} /\ \A i \in 1..Len(stack') :
                      stack'[i].page = "details" => stack'[i].about \subseteq stored)
  BY <1>2, <1>3, <1>5, NothingRuns DEF deleteVars
<1>7. \A i \in 1..Len(stack') : NewPgp \in stack'[i].about => NewPgp \in stored
  BY <1>2, <1>3, <1>5
<1> QED
  BY <1>1, <1>3, <1>4, <1>6, <1>7, StackMoves DEF deleteVars

LEMMA OpeningKeeps ==
    PagesIInv /\ (OpenBulkDelete \/ OpenGenerate \/ \E id \in Pgp \union Crx \union PeopleIds : OpenDetails(id))
        => PagesIInv'
<1> SUFFICES ASSUME PagesIInv,
                    OpenBulkDelete \/ OpenGenerate \/ \E id \in Pgp \union Crx \union PeopleIds : OpenDetails(id)
             PROVE  PagesIInv'
  OBVIOUS
<1>1. stack = <<>> /\ UNCHANGED <<listVars, deleteVars, made>>
  BY DEF OpenBulkDelete, OpenGenerate, OpenDetails, makeVars
<1>2. CASE OpenBulkDelete
  BY <1>1, <1>2, OpenOnTheList DEF OpenBulkDelete
<1>3. CASE OpenGenerate
  <2>1. {} \in SUBSET stored /\ \A x, y \in {} : x = y
    OBVIOUS
  <2> QED
    BY <1>1, <1>3, <2>1, OpenOnTheList DEF OpenGenerate
<1>4. ASSUME NEW id, OpenDetails(id) PROVE PagesIInv'
  <2>1. {id} \in SUBSET stored /\ \A x, y \in {id} : x = y
    BY <1>4 DEF OpenDetails
  <2> QED
    BY <1>1, <1>4, <2>1, OpenOnTheList DEF OpenDetails
<1> QED
  BY <1>2, <1>3, <1>4

LEMMA ConfirmPageOpens == PagesIInv /\ OpenConfirmDelete => PagesIInv'
<1> SUFFICES ASSUME PagesIInv, OpenConfirmDelete PROVE PagesIInv'
  OBVIOUS
<1> DEFINE e == Opened("delete", Top.about)
<1>1. /\ UNCHANGED <<listVars, deleteVars, made>> /\ stack # <<>> /\ Top.page = "details"
      /\ stack' = Append(stack, e) /\ lastPage' = lastPage + 1
  BY DEF OpenConfirmDelete, OnTop, Push, makeVars
<1>2. Shallow(stack, lastPage) /\ lastPage \in Nat /\ stack \in Seq(PageEntries)
  BY DEF PagesIInv, KeyTypes, Shallow
<1>3. Len(stack) = 1
  <2>1. Len(stack) \in Nat /\ Len(stack) # 0 /\ Len(stack) <= 2
    BY <1>1, <1>2, EmptySeq DEF Shallow
  <2>2. Len(stack) # 2
    BY <1>1, <1>2 DEF Shallow, Top
  <2> QED
    BY <2>1, <2>2, SmallNumbers, Zenon
<1>4. Top = stack[1] /\ stack = <<Top>> /\ Top \in PageEntries
  BY <1>2, <1>3, OneAsTuple, Zenon DEF Top
<1>5. e \in PageEntries /\ e.id = lastPage + 1 /\ e.page = "delete" /\ e.about = Top.about
  BY <1>2, <1>4 DEF Opened, PageEntries
<1> HIDE DEF e
<1>6. stack' = <<Top, e>>
  BY <1>1, <1>4, <1>5, TwoAsTuple, Zenon
<1>7. Shallow(<<Top, e>>, lastPage')
  BY <1>1, <1>2, <1>4, <1>5, PageCovered
<1>8. \A i \in 1..Len(stack') : stack'[i].about = Top.about
  <2>1. \A i \in 1..Len(<<Top, e>>) : <<Top, e>>[i].about = Top.about
    BY <1>5
  <2> QED
    BY <1>6, <2>1, Zenon
<1>9. rushed' \/ (deletions = {} /\ \A i \in 1..Len(stack') :
                      stack'[i].page = "details" => stack'[i].about \subseteq stored)
  <2> SUFFICES ASSUME ~rushed PROVE deletions = {} /\ Top.about \subseteq stored
    BY <1>1, <1>8 DEF deleteVars
  <2>1. deletions = {}
    BY <1>1 DEF PagesIInv, RunsOnTop
  <2>2. 1 \in DOMAIN stack
    BY <1>2, <1>3, LenProperties
  <2> QED
    BY <1>1, <1>4, <2>1, <2>2 DEF PagesIInv, ViewsAreTrue
<1>10. \A i \in 1..Len(stack') : NewPgp \in stack'[i].about =>
           NewPgp \in stored \/ \E j \in 1..Len(stack) : NewPgp \in stack[j].about
  <2>1. 1 \in 1..Len(stack)
    BY <1>3
  <2> QED
    BY <1>4, <1>8, <2>1
<1>11. lastPage' \in Nat /\ (rushed => rushed')
  BY <1>1, <1>2 DEF deleteVars
<1> QED
  BY <1>1, <1>6, <1>7, <1>9, <1>10, <1>11, StackMoves DEF deleteVars

\* The topmost page, or every page for making keys, begins to close.
LEMMA DismissKeeps == PagesIInv /\ DismissTop => PagesIInv'
<1> SUFFICES ASSUME PagesIInv, DismissTop PROVE PagesIInv'
  OBVIOUS
<1>1. Shallow(stack, lastPage) /\ stack \in Seq(PageEntries) /\ stack # <<>>
  BY DEF PagesIInv, Shallow, DismissTop
<1>2. Len(stack) \in 1..Len(stack) /\ Top \in PageEntries
  BY <1>1, TopIsAPage
<1>3. Closing(Top) \in PageEntries /\ Alike(Closing(Top), Top)
  BY <1>2, ClosingIsAlike
<1>4. stack' = [stack EXCEPT ![Len(stack)] = Closing(Top)]
  BY DEF DismissTop, Top
<1>5. /\ stack' \in Seq(PageEntries) /\ Len(stack') = Len(stack)
      /\ \A j \in 1..Len(stack) : stack'[j] = IF j = Len(stack) THEN Closing(Top) ELSE stack[j]
  BY <1>1, <1>2, <1>3, <1>4, ExceptSeq
<1>6. \A j \in 1..Len(stack) : Alike(stack'[j], stack[j])
  BY <1>3, <1>5 DEF Top, Alike
<1>7. Shallow(stack', lastPage) /\ NothingNew(stack', stack) /\ SameTop(stack', stack)
  BY <1>1, <1>5, <1>6, ClosingKeeps
<1>8. lastPage' = lastPage /\ lastPage' \in Nat /\ UNCHANGED <<listVars, deleteVars, made>>
  BY DEF PagesIInv, KeyTypes, DismissTop, makeVars
<1> QED
  BY <1>7, <1>8, StackMoves DEF deleteVars

LEMMA RemoveKeeps == ASSUME PagesIInv, NEW id, RemovePage(id) PROVE PagesIInv'
<1>1. Shallow(stack, lastPage)
  BY DEF PagesIInv
<1>2. PICK i \in DOMAIN stack : stack[i].id = id /\ stack' = Left(stack, i)
  BY DEF RemovePage, Left
<1>3. /\ Shallow(stack', lastPage) /\ NothingNew(stack', stack)
      /\ id # stack[Len(stack)].id => SameTop(stack', stack)
  BY <1>1, <1>2, PageTakenOut
<1>4. /\ lastPage' = lastPage /\ lastPage' \in Nat
      /\ UNCHANGED <<listVars, deletions, offered, failed, taken, made>>
  BY DEF PagesIInv, KeyTypes, RemovePage
<1>5. rushed => rushed'
  BY DEF RemovePage
<1>6. \A d \in deletions : d.page = id => rushed'
  BY DEF RemovePage
<1>7. \/ rushed' \/ SameTop(stack', stack)
      \/ deletions = {} /\ \A j \in 1..Len(stack') :
             stack'[j].page = "details" => stack'[j].about \subseteq stored
  <2> SUFFICES ASSUME ~rushed', id = stack[Len(stack)].id
               PROVE  deletions = {} /\ \A j \in 1..Len(stack') :
                          stack'[j].page = "details" => stack'[j].about \subseteq stored
    BY <1>3
  <2>1. RunsOnTop /\ ViewsAreTrue
    BY <1>5 DEF PagesIInv
  <2>2. deletions = {}
    BY <1>6, <2>1 DEF RunsOnTop, Top
  <2>3. DOMAIN stack = 1..Len(stack)
    BY <1>1, LenProperties DEF Shallow
  <2> QED
    BY <1>3, <2>1, <2>2, <2>3 DEF ViewsAreTrue, NothingNew, Alike
<1> QED
  BY <1>3, <1>4, <1>5, <1>7, StackMoves

LEMMA ClosedIsBelow ==
    ASSUME PagesIInv, stack # <<>>, NEW e \in {Closing(Top), Top}
    PROVE  /\ Shallow(<<e>>, lastPage) /\ Alike(e, Top) /\ NothingNew(<<e>>, stack)
           /\ Len(<<e>>) = 1 /\ <<e>>[1] = e
<1>1. /\ Shallow(stack, lastPage) /\ Top \in PageEntries /\ Top.id <= lastPage /\ OfOne(Top)
      /\ Len(stack) \in 1..Len(stack)
  BY TopIsAPage DEF PagesIInv
<1>2. e \in PageEntries /\ Alike(e, Top)
  BY <1>1, ClosingIsAlike DEF Alike
<1>3. Shallow(<<e>>, lastPage)
  BY <1>1, <1>2, PageAlone DEF Alike, OfOne
<1>4. Len(<<e>>) = 1 /\ <<e>>[1] = e
  OBVIOUS
<1>5. NothingNew(<<e>>, stack)
  BY <1>1, <1>2, <1>4 DEF NothingNew, Top
<1> QED
  BY <1>2, <1>3, <1>4, <1>5

---------------------------------------------------------------------------
(* Deleting.                                                               *)

LEMMA ConfirmKeeps == PagesIInv /\ Confirm => PagesIInv'
<1> SUFFICES ASSUME PagesIInv, Confirm PROVE PagesIInv'
  OBVIOUS
<1> DEFINE chosen == IF Top.page = "bulk" THEN Top.about \intersect stored ELSE Top.about
           d == [page |-> Top.id, todo |-> chosen, standard |-> standard,
                 offers |-> IF chosen \subseteq PeopleIds THEN chosen ELSE {}]
<1>1. /\ stack # <<>> /\ Top.page \in {"delete", "bulk"}
      /\ ~\E r \in deletions : r.page = Top.id
      /\ deletions' = deletions \union {d}
      /\ UNCHANGED <<stored, standard, stack, lastPage, offered, rushed, failed, taken, made>>
  BY DEF Confirm, OnTop, listVars, navVars, makeVars
<1>2. Top \in PageEntries /\ DOMAIN stack = 1..Len(stack) /\ Len(stack) \in DOMAIN stack
  BY <1>1, TopIsAPage DEF PagesIInv
<1>3. chosen \subseteq Top.about /\ chosen \subseteq Everything
  BY <1>2 DEF PageEntries
<1>4. /\ d.page = Top.id /\ d.todo = chosen /\ d.standard = standard
      /\ d.offers \in {chosen, {}} /\ d.offers \subseteq PeopleIds
  OBVIOUS
<1>5. d \in DeletionRuns
  BY <1>2, <1>3 DEF DeletionRuns, PageEntries, PagesIInv, KeyTypes
<1> HIDE DEF chosen, d
<1>6. KeyTypes' /\ Shallow(stack, lastPage)'
  BY <1>1, <1>5 DEF PagesIInv, KeyTypes
<1>7. NotYetMade'
  BY <1>1, <1>2, <1>3, <1>4 DEF PagesIInv, NotYetMade, Top
<1>8. TakenAreGone'
  BY <1>1, <1>4 DEF PagesIInv, TakenAreGone
<1>9. UndoIsWhole'
  BY <1>1 DEF PagesIInv, UndoIsWhole
<1>10. ASSUME ~rushed' PROVE RunsOnTop' /\ ViewsAreTrue' /\ DefaultIsSeen'
  <2>1. RunsOnTop /\ ViewsAreTrue /\ DefaultIsSeen
    BY <1>1, <1>10 DEF PagesIInv
  <2>2. deletions = {} /\ deletions' = {d}
    BY <1>1, <2>1 DEF RunsOnTop
  <2>3. RunsOnTop'
    BY <1>1, <1>3, <1>4, <2>2 DEF RunsOnTop, Top
  <2>4. ViewsAreTrue'
    BY <1>1, <2>1, <2>2 DEF ViewsAreTrue
  <2>5. DefaultIsSeen'
    BY <1>1, <1>4, <2>1, <2>2 DEF DefaultIsSeen
  <2> QED
    BY <2>3, <2>4, <2>5
<1> QED
  BY <1>6, <1>7, <1>8, <1>9, <1>10 DEF PagesIInv

LEMMA DeleteFailsKeeps ==
    ASSUME PagesIInv, NEW d \in deletions, DeleteFails(d)
    PROVE  PagesIInv'
<1>1. /\ d.todo # {} /\ deletions' = deletions \ {d} /\ failed'
      /\ UNCHANGED <<stored, standard, stack, lastPage, offered, rushed, taken, made>>
  BY DEF DeleteFails, listVars, navVars, makeVars
<1>2. KeyTypes' /\ Shallow(stack, lastPage)'
  BY <1>1 DEF PagesIInv, KeyTypes
<1>3. NotYetMade' /\ TakenAreGone'
  BY <1>1 DEF PagesIInv, NotYetMade, TakenAreGone
<1>4. UndoIsWhole'
  BY <1>1 DEF PagesIInv, UndoIsWhole
<1>5. ASSUME ~rushed' PROVE RunsOnTop' /\ ViewsAreTrue' /\ DefaultIsSeen'
  <2>1. RunsOnTop /\ ViewsAreTrue /\ DefaultIsSeen /\ deletions = {d} /\ deletions' = {}
    BY <1>1, <1>5 DEF PagesIInv, RunsOnTop
  <2>2. RunsOnTop'
    BY <2>1 DEF RunsOnTop
  <2>3. ViewsAreTrue'
    BY <1>1, <2>1 DEF ViewsAreTrue
  <2>4. DefaultIsSeen'
    BY <1>1, <2>1 DEF DefaultIsSeen
  <2> QED
    BY <2>2, <2>3, <2>4
<1> QED
  BY <1>2, <1>3, <1>4, <1>5 DEF PagesIInv

LEMMA DeleteOneKeeps ==
    ASSUME PagesIInv, NEW d \in deletions, DeleteOne(d)
    PROVE  PagesIInv'
<1> DEFINE rest(id) == [d EXCEPT !.todo = @ \ {id}]
<1>1. PICK id \in d.todo :
          /\ stored' = stored \ {id} /\ standard' = IF d.standard = id THEN NoKey ELSE standard
          /\ deletions' = (deletions \ {d}) \union {rest(id)}
          /\ taken' = IF d.offers = {} THEN taken ELSE taken \union {id}
  BY DEF DeleteOne, Foremost
<1>2. UNCHANGED <<stack, lastPage, offered, rushed, failed, made>>
  BY DEF DeleteOne, navVars, makeVars
<1>3. d \in DeletionRuns
  BY DEF PagesIInv, KeyTypes
<1>4. /\ rest(id) \in DeletionRuns /\ rest(id).todo = d.todo \ {id} /\ rest(id).page = d.page
      /\ rest(id).offers = d.offers /\ rest(id).standard = d.standard
  BY <1>3 DEF DeletionRuns
<1> DEFINE e == rest(id)
<1> HIDE DEF rest, e
<1>5. /\ deletions' = (deletions \ {d}) \union {e} /\ e \in DeletionRuns /\ e.todo = d.todo \ {id}
      /\ e.page = d.page /\ e.offers = d.offers /\ e.standard = d.standard
  BY <1>1, <1>4 DEF e
<1>6. KeyTypes'
  <2>1. d.offers # {} => id \in PeopleIds
    BY <1>3 DEF PagesIInv, TakenAreGone, DeletionRuns
  <2> QED
    BY <1>1, <1>2, <1>5, <2>1 DEF PagesIInv, KeyTypes
<1>7. NotYetMade'
  BY <1>1, <1>2, <1>5 DEF PagesIInv, NotYetMade
<1>8. TakenAreGone'
  BY <1>1, <1>5 DEF PagesIInv, TakenAreGone
<1>9. UndoIsWhole'
  <2>1. d.offers # {} => id \in e.offers
    BY <1>5 DEF PagesIInv, TakenAreGone
  <2>2. ASSUME ~failed', NEW gone \in taken'
        PROVE  gone \in stored' \union offered' \/ \E r \in deletions' : gone \in r.offers
    <3>1. CASE gone \in taken
      <4>1. gone \notin stored
        BY <3>1 DEF PagesIInv, TakenAreGone
      <4>2. gone \in offered \/ \E r \in deletions : gone \in r.offers
        BY <1>2, <2>2, <3>1, <4>1 DEF PagesIInv, UndoIsWhole
      <4> QED
        BY <1>2, <1>5, <4>2
    <3>2. CASE gone \notin taken
      BY <1>1, <1>5, <2>1, <2>2, <3>2
    <3> QED
      BY <3>1, <3>2
  <2> QED
    BY <1>2, <2>2 DEF PagesIInv, UndoIsWhole
<1>10. ASSUME ~rushed' PROVE RunsOnTop' /\ ViewsAreTrue' /\ DefaultIsSeen'
  <2>1. RunsOnTop /\ ViewsAreTrue /\ DefaultIsSeen /\ deletions = {d} /\ deletions' = {e}
    BY <1>2, <1>5, <1>10 DEF PagesIInv, RunsOnTop
  <2>2. stack # <<>> /\ Top.id = d.page /\ Top.page \in {"delete", "bulk"} /\ d.todo \subseteq Top.about
    BY <2>1 DEF RunsOnTop
  <2>3. RunsOnTop'
    BY <1>2, <1>5, <2>1, <2>2 DEF RunsOnTop, Top
  <2>4. ViewsAreTrue'
    <3> SUFFICES ASSUME NEW i \in DOMAIN stack, stack[i].page = "details"
                 PROVE  stack[i].about \subseteq stored \ {id} \/ e.todo = {}
      BY <1>1, <1>2, <2>1 DEF ViewsAreTrue
    <3>1. stack[i].about \subseteq stored
      BY <2>1 DEF ViewsAreTrue
    <3>2. CASE id \in stack[i].about
      <4>1. Shallow(stack, lastPage) /\ i \in 1..Len(stack) /\ stack \in Seq(PageEntries)
        BY TopIsAPage, <2>2 DEF PagesIInv, Shallow
      <4>2. i # Len(stack)
        BY <2>2 DEF Top
      <4>3. Len(stack) = 2 /\ i = 1
        <5>1. Len(stack) \in Nat /\ Len(stack) <= 2
          BY <4>1, LenProperties DEF Shallow
        <5> QED
          BY <4>1, <4>2, <5>1, SmallCounts, Zenon
      <4>4. Top.about = stack[1].about /\ OfOne(stack[1])
        BY <4>1, <4>3 DEF Shallow, Top
      <4>5. d.todo \subseteq {id}
        BY <2>2, <3>2, <4>3, <4>4 DEF OfOne
      <4> QED
        BY <1>5, <4>5
    <3> QED
      BY <3>1, <3>2
  <2>5. DefaultIsSeen'
    BY <1>1, <1>5, <2>1 DEF DefaultIsSeen
  <2> QED
    BY <2>3, <2>4, <2>5
<1>11. Shallow(stack, lastPage)'
  BY <1>2 DEF PagesIInv
<1> QED
  BY <1>6, <1>7, <1>8, <1>9, <1>10, <1>11 DEF PagesIInv

LEMMA DeletedKeeps ==
    ASSUME PagesIInv, NEW d \in deletions, Deleted(d)
    PROVE  PagesIInv'
<1>1. /\ d.todo = {} /\ deletions' = deletions \ {d}
      /\ UNCHANGED <<stored, standard, lastPage, rushed, failed, made>>
  BY DEF Deleted, makeVars
<1>2. \/ d.offers = {} /\ UNCHANGED <<offered, taken>>
      \/ offered' = d.offers /\ taken' = taken \intersect d.offers
  BY DEF Deleted
<1>3. d.offers \subseteq PeopleIds
  BY DEF PagesIInv, KeyTypes, DeletionRuns
<1>4. Shallow(stack', lastPage') /\ NothingNew(stack', stack)
  <2>1. CASE stack = <<>>
    BY <1>1, <2>1 DEF Deleted, PagesIInv, NothingNew
  <2>2. CASE stack # <<>>
    BY <1>1, <2>2, ClosedIsBelow DEF Deleted
  <2> QED
    BY <2>1, <2>2
<1>5. DOMAIN stack = 1..Len(stack) /\ DOMAIN stack' = 1..Len(stack')
  BY <1>4, LenProperties DEF PagesIInv, Shallow
<1>6. KeyTypes'
  BY <1>1, <1>2, <1>3 DEF PagesIInv, KeyTypes
<1>7. NotYetMade'
  BY <1>1, <1>4, <1>5 DEF PagesIInv, NotYetMade, NothingNew, Alike
<1>8. TakenAreGone'
  BY <1>1, <1>2 DEF PagesIInv, TakenAreGone
<1>9. UndoIsWhole'
  BY <1>1, <1>2, <1>3 DEF PagesIInv, UndoIsWhole
<1>10. ASSUME ~rushed' PROVE RunsOnTop' /\ ViewsAreTrue' /\ DefaultIsSeen'
  <2>1. RunsOnTop /\ ViewsAreTrue /\ DefaultIsSeen
    BY <1>1, <1>10 DEF PagesIInv
  <2>2. /\ deletions = {d} /\ deletions' = {}
        /\ stack # <<>> /\ Top.page \in {"delete", "bulk"}
    BY <1>1, <2>1 DEF RunsOnTop
  <2>3. RunsOnTop' /\ DefaultIsSeen'
    BY <1>1, <2>1, <2>2 DEF RunsOnTop, DefaultIsSeen
  <2>4. PICK e : e \in {Closing(Top), Top} /\ stack' = <<e>>
    BY <2>2 DEF Deleted
  <2>5. Len(<<e>>) = 1 /\ <<e>>[1] = e /\ e.page = Top.page
    BY <2>2, <2>4, ClosedIsBelow DEF Alike
  <2>6. \A i \in 1..Len(stack') : stack'[i].page # "details"
    BY <2>2, <2>4, <2>5
  <2>7. ViewsAreTrue'
    BY <1>5, <2>6 DEF ViewsAreTrue
  <2> QED
    BY <2>3, <2>7
<1> QED
  BY <1>4, <1>6, <1>7, <1>8, <1>9, <1>10 DEF PagesIInv

\* The default is set on the page of a key that is there, and what is taken back is there.
LEMMA SetDefaultKeeps == PagesIInv /\ SetDefault => PagesIInv'
<1> SUFFICES ASSUME PagesIInv, SetDefault PROVE PagesIInv'
  OBVIOUS
<1>1. PICK id \in Top.about \intersect Pgp : standard' = IF standard = id THEN NoKey ELSE id
  BY DEF SetDefault
<1>2. /\ stack # <<>> /\ Top.page = "details"
      /\ UNCHANGED <<stored, stack, lastPage, deletions, offered, rushed, failed, taken, made>>
  BY DEF SetDefault, OnTop, navVars, deleteVars, makeVars
<1>3. KeyTypes' /\ Shallow(stack, lastPage)'
  BY <1>1, <1>2 DEF PagesIInv, KeyTypes
<1>4. NotYetMade' /\ TakenAreGone' /\ UndoIsWhole'
  BY <1>2 DEF PagesIInv, NotYetMade, TakenAreGone, UndoIsWhole
<1>5. ASSUME ~rushed' PROVE RunsOnTop' /\ ViewsAreTrue' /\ DefaultIsSeen'
  <2>1. RunsOnTop /\ ViewsAreTrue /\ DefaultIsSeen /\ deletions = {}
    BY <1>2, <1>5 DEF PagesIInv, RunsOnTop
  <2>2. id \in stored
    BY <1>1, <1>2, <2>1, TopIsAPage DEF ViewsAreTrue, Top, PagesIInv
  <2>3. RunsOnTop' /\ ViewsAreTrue'
    BY <1>2, <2>1 DEF RunsOnTop, ViewsAreTrue
  <2>4. DefaultIsSeen'
    BY <1>1, <1>2, <2>1, <2>2 DEF DefaultIsSeen
  <2> QED
    BY <2>3, <2>4
<1> QED
  BY <1>3, <1>4, <1>5 DEF PagesIInv

LEMMA UndoKeeps == PagesIInv /\ (Undo \/ OfferExpires) => PagesIInv'
<1> SUFFICES ASSUME PagesIInv, Undo \/ OfferExpires PROVE PagesIInv'
  OBVIOUS
<1>1. /\ UNCHANGED <<standard, stack, lastPage, deletions, rushed, failed, made>>
      /\ offered' = {} /\ stored \subseteq stored' /\ stored' \subseteq stored \union offered
      /\ taken' \subseteq taken /\ taken' \intersect (stored' \union offered) = {}
  <2>1. CASE Undo
    BY <2>1 DEF Undo, navVars, makeVars
  <2>2. CASE OfferExpires
    BY <2>2 DEF OfferExpires, navVars, listVars, makeVars, PagesIInv, TakenAreGone
  <2> QED
    BY <2>1, <2>2
<1>2. KeyTypes' /\ Shallow(stack, lastPage)'
  BY <1>1 DEF PagesIInv, KeyTypes, UndoIsWhole, Everything
<1>3. NotYetMade'
  BY <1>1, KeysAreNew DEF PagesIInv, NotYetMade, UndoIsWhole
<1>4. TakenAreGone' /\ UndoIsWhole'
  BY <1>1 DEF PagesIInv, TakenAreGone, UndoIsWhole
<1>5. ASSUME ~rushed' PROVE RunsOnTop' /\ ViewsAreTrue' /\ DefaultIsSeen'
  <2>1. RunsOnTop /\ ViewsAreTrue /\ DefaultIsSeen
    BY <1>1, <1>5 DEF PagesIInv
  <2>2. RunsOnTop'
    BY <1>1, <2>1 DEF RunsOnTop, Top
  <2>3. ViewsAreTrue'
    BY <1>1, <2>1 DEF ViewsAreTrue
  <2>4. DefaultIsSeen'
    BY <1>1, <2>1 DEF DefaultIsSeen
  <2> QED
    BY <2>2, <2>3, <2>4
<1> QED
  BY <1>2, <1>3, <1>4, <1>5 DEF PagesIInv

LEMMA AddedKeeps == PagesIInv /\ MakingIInv /\ Added => PagesIInv'
<1> SUFFICES ASSUME PagesIInv, MakingIInv, Added PROVE PagesIInv'
  OBVIOUS
<1> DEFINE new == IF making.form.type = "pgp" THEN NewPgp ELSE NewCrx
<1>1. /\ ~made /\ made' /\ stored' = stored \union {new} /\ new \in {NewPgp, NewCrx}
      /\ \/ standard' = standard
         \/ new = NewPgp /\ standard' = NewPgp
      /\ UNCHANGED <<lastPage, deletions, offered, rushed, failed, taken>>
  BY DEF Added, deleteVars, MakingIInv, MakingIsOfTheForm
<1> HIDE DEF new
<1>2. Shallow(stack, lastPage) /\ stack \in Seq(PageEntries) /\ DOMAIN stack = 1..Len(stack)
  BY LenProperties DEF PagesIInv, Shallow
<1> DEFINE next(i) == IF stack[i].page = "generate" THEN Closing(stack[i]) ELSE stack[i]
<1>3. stack' = [i \in 1..Len(stack) |-> next(i)]
  BY <1>2 DEF Added
<1>4. \A i \in 1..Len(stack) : next(i) \in PageEntries /\ Alike(next(i), stack[i])
  BY <1>2, ElementOfSeq, ClosingIsAlike DEF Alike
<1> HIDE DEF next
<1>5. stack' \in Seq(PageEntries) /\ Len(stack') = Len(stack)
  <2>1. Len(stack) \in Nat
    BY <1>2, LenProperties
  <2> QED
    BY <1>3, <1>4, <2>1
<1>6. \A i \in 1..Len(stack) : Alike(stack'[i], stack[i])
  BY <1>3, <1>4
<1>7. Shallow(stack', lastPage') /\ NothingNew(stack', stack) /\ SameTop(stack', stack)
  BY <1>1, <1>2, <1>5, <1>6, ClosingKeeps
<1>8. DOMAIN stack' = 1..Len(stack')
  BY <1>5, LenProperties
<1>9. KeyTypes'
  BY <1>1 DEF PagesIInv, KeyTypes, Everything, Pgp, Crx
<1>10. NotYetMade'
  BY <1>1 DEF NotYetMade
<1>11. TakenAreGone'
  BY <1>1, KeyPagesConstants DEF PagesIInv, KeyTypes, TakenAreGone
<1>12. UndoIsWhole'
  BY <1>1 DEF PagesIInv, UndoIsWhole
<1>13. ASSUME ~rushed' PROVE RunsOnTop' /\ ViewsAreTrue' /\ DefaultIsSeen'
  <2>1. RunsOnTop /\ ViewsAreTrue /\ DefaultIsSeen
    BY <1>1, <1>13 DEF PagesIInv
  <2>2. RunsOnTop'
    BY <1>1, <1>7, <2>1 DEF RunsOnTop, SameTop, Alike, Top
  <2>3. ViewsAreTrue'
    BY <1>1, <1>2, <1>7, <1>8, <2>1 DEF ViewsAreTrue, NothingNew, Alike
  <2>4. DefaultIsSeen'
    BY <1>1, <2>1 DEF DefaultIsSeen, PagesIInv, NotYetMade
  <2> QED
    BY <2>2, <2>3, <2>4
<1> QED
  BY <1>7, <1>9, <1>10, <1>11, <1>12, <1>13 DEF PagesIInv

LEMMA InitPages == KeysInit => PagesIInv
<1> SUFFICES ASSUME KeysInit PROVE PagesIInv
  OBVIOUS
<1>1. /\ stored \subseteq OwnIds \union SigningIds \union PeopleIds
      /\ standard \in (stored \intersect OwnIds) \union {NoKey}
      /\ stack = <<>> /\ lastPage = 0 /\ deletions = {} /\ offered = {} /\ taken = {}
  BY KeyPagesConstants DEF KeysInit
<1>2. KeyTypes
  BY <1>1 DEF KeyTypes, Everything, Pgp, Crx
<1>3. Shallow(stack, lastPage) /\ DOMAIN stack = {}
  BY <1>1 DEF Shallow
<1>4. NewPgp \notin stored
  BY <1>1, KeysAreNew
<1> QED
  BY <1>1, <1>2, <1>3, <1>4
     DEF PagesIInv, RunsOnTop, ViewsAreTrue, DefaultIsSeen, NotYetMade, TakenAreGone, UndoIsWhole

LEMMA PagesKept == PagesIInv /\ MakingIInv /\ [KeysNext]_keyVars => PagesIInv'
<1> SUFFICES ASSUME PagesIInv, MakingIInv, [KeysNext]_keyVars PROVE PagesIInv'
  OBVIOUS
<1>1. CASE UNCHANGED <<listVars, navVars, deleteVars, made>>
  BY <1>1 DEF listVars, navVars, deleteVars, PagesIInv, KeyTypes, RunsOnTop, ViewsAreTrue,
              DefaultIsSeen, NotYetMade, TakenAreGone, UndoIsWhole, Top
<1>2. ASSUME NEW d \in deletions, DeleteOne(d) \/ DeleteFails(d) \/ Deleted(d)
      PROVE  PagesIInv'
  BY <1>2, DeleteOneKeeps, DeleteFailsKeeps, DeletedKeeps
<1>3. ASSUME NEW id \in 1..MaxPages, RemovePage(id) PROVE PagesIInv'
  BY <1>3, RemoveKeeps
<1>4. CASE \/ \E type \in {"pgp", "crx"}, option \in {"never", "fixed", "custom"} : HandleNext(type, option)
           \/ \E use \in {"master passkey", "new passkey", "password"} : SubmitProtection(use)
           \/ HandleExpiryNext \/ HandleBack
  BY <1>1, <1>4 DEF HandleNext, SubmitProtection, HandleExpiryNext, HandleBack, OnForm
<1>5. CASE Seal \/ MakingFails \/ TimePasses \/ UNCHANGED keyVars
  BY <1>1, <1>5 DEF Seal, MakingFails, TimePasses, keyVars, makeVars
<1> QED
  BY <1>2, <1>3, <1>4, <1>5, OpeningKeeps, ConfirmPageOpens, DismissKeeps, SetDefaultKeeps,
     ConfirmKeeps, UndoKeeps, AddedKeeps
     DEF KeysNext

(* For any keys, pages opened and dismissed in any order and deletions and       *)
(* generations that outlive theirs, no page is left on what a deletion took, the *)
(* default is a key that is stored, an Undo gives back all it offers, and a key  *)
(* is made as it was chosen; but for a deletion whose page was gone before it.   *)
THEOREM KeyPagesStayTrue == KeysSpec => []KeyPagesAreTrue
<1>1. KeysInit => PagesIInv /\ MakingIInv
  BY InitPages, InitMaking
<1>2. PagesIInv /\ MakingIInv /\ [KeysNext]_keyVars => PagesIInv' /\ MakingIInv'
  BY PagesKept, MakingKept
<1>3. PagesIInv /\ MakingIInv => KeyPagesAreTrue
  <2> SUFFICES ASSUME PagesIInv, MakingIInv PROVE KeyPagesAreTrue
    OBVIOUS
  <2>1. NoStaleView
    BY DEF PagesIInv, NoStaleView, ViewsAreTrue
  <2>2. DefaultIsOwned
    BY DEF PagesIInv, DefaultIsOwned, DefaultIsSeen
  <2>3. ExpiryIsShown
    BY DEF MakingIInv, ExpiryIsShown, ExpiryIsKnown
  <2> QED
    BY <2>1, <2>2, <2>3 DEF KeyPagesAreTrue, PagesIInv, MakingIInv
<1> QED
  BY <1>1, <1>2, <1>3, PTL DEF KeysSpec

---------------------------------------------------------------------------
(* Opening a message.                                                      *)

\* What was walked over holds no container; what the walk found is what is there;
\* and it stops at the first container, or where it may not step further.
WalkedOver == \A i \in 1..(at - 1) : i \in DOMAIN packets /\ WalkGoesOn(packets[i])
FoundSoFar(n) == seen.password <=> \E i \in 1..n : packets[i].tag = "SKESK"
Stopped ==
    at \in DOMAIN packets =>
        /\ ~WalkGoesOn(packets[at])
        /\ packets[at].tag \in ContainerTags => seen.container = packets[at].tag
WalkIsTrue ==
    /\ at \in Nat \ {0}
    /\ seen = [password |-> seen.password, publicKey |-> seen.publicKey,
               container |-> seen.container, handles |-> seen.handles]
    /\ \A k \in seen.handles : OpensTo(k)
    /\ phase = "walk" => WalkedOver /\ FoundSoFar(at - 1) /\ request.entry # "verify"
    /\ (phase # "walk" /\ request.entry # "verify") =>
           WalkedOver /\ Stopped /\ FoundSoFar(Lesser(at, Len(packets)))

\* Who is where on the way to an answer.
WaysAreKept ==
    /\ phase \in {"walk", "asked", "frame", "parse", "read", "done"}
    /\ phase = "asked" => request.entry # "verify"
    /\ phase = "frame" => request.entry \in {"verify", "openUnencrypted"}
    /\ phase \in {"parse", "read"} =>
           request.entry \in {"verify", "openUnencrypted", "decryptWithHandle", "decryptWithPassword"}
    /\ IsDecrypt => framing = None
    /\ (phase = "parse" /\ request.entry = "decryptWithPassword") => ~RefusesFormat

\* What is read was parsed as what it is, by the credential it was asked with.
LayerIsOpened ==
    phase = "read" =>
        /\ layer \in {"plain", "encrypted"}
        /\ layer = "encrypted" =>
               IsDecrypt /\ FirstContent.tag = "SEIP" /\ Credential(request.key, request.password)
        /\ layer = "plain" /\ WellFormed => FirstContent.tag \notin ContainerTags

\* A cleartext frame is of one run of words, behind the first line and before the
\* one signature.
FrameIsOfTheText(f) ==
    f.kind = "cleartext" =>
        LET words == {i \in DOMAIN lines : lines[i] \in Words}
            sigs == {i \in DOMAIN lines : lines[i] = "sig"}
        IN /\ Cardinality(sigs) = 1
           /\ \A i \in words : \A s \in sigs : i < s
           /\ \A i \in words : \E j \in 1..(i - 1) : lines[j] = "begin"
           /\ Cardinality(words) <= Len(f.shown)
           /\ ~Holds({"hidden", "dash"})
FrameIsTrue == framing # None => FrameIsOfTheText(framing)

NotYet == phase # "done" => answer = Unanswered
OpenIInv ==
    /\ request \in Requests
    /\ WalkIsTrue /\ WaysAreKept /\ LayerIsOpened /\ FrameIsTrue /\ NotYet
    /\ OpenedHonestly



\* How many lines at the front are of a kind: so many, and the next one is not.
LEMMA LeadingIsLeading ==
  ASSUME NEW S, NEW s \in Seq(S), NEW kind
  PROVE  /\ Leading(s, kind) \in 0..Len(s)
         /\ \A i \in 1..Leading(s, kind) : s[i] = kind
         /\ Leading(s, kind) < Len(s) => s[Leading(s, kind) + 1] # kind
<1> DEFINE P(n) == /\ \A i \in 1..n : s[i] = kind
                   /\ n < Len(s) => s[n + 1] # kind
<1> DEFINE others == {i \in 1..Len(s) : s[i] # kind}
<1>1. Len(s) \in Nat
  BY LenProperties
<1>2. \E n \in 0..Len(s) : P(n)
  <2>1. CASE others = {}
    <3>1. P(Len(s))
      BY <1>1, <2>1
    <3> QED
      BY <1>1, <3>1
  <2>2. CASE others # {}
    <3>1. others \subseteq Nat
      BY <1>1
    <3>2. PICK i \in others : \A j \in others : i <= j
      <4> HIDE DEF others
      <4> QED
        BY <2>2, <3>1, Least
    <3>3. i \in 1..Len(s) /\ s[i] # kind
      OBVIOUS
    <3>4. \A j \in 1..(i - 1) : s[j] = kind
      BY <1>1, <3>2, <3>3
    <3>5. P(i - 1)
      BY <1>1, <3>3, <3>4
    <3>6. i - 1 \in 0..Len(s)
      BY <1>1, <3>3
    <3> HIDE DEF P
    <3> QED
      BY <3>5, <3>6
  <2> QED
    BY <2>1, <2>2
<1>3. Leading(s, kind) = CHOOSE n \in 0..Len(s) : P(n)
  BY DEF Leading
<1>4. Leading(s, kind) \in 0..Len(s) /\ P(Leading(s, kind))
  <2> HIDE DEF P
  <2> QED
    BY <1>2, <1>3
<1> QED
  BY <1>4

\* What is left when the front is taken away.
LEMMA DropIsTheRest ==
  ASSUME NEW S, NEW s \in Seq(S), NEW n \in 0..Len(s)
  PROVE  /\ Drop(s, n) \in Seq(S) /\ Len(Drop(s, n)) = Len(s) - n
         /\ \A i \in 1..(Len(s) - n) : Drop(s, n)[i] = s[n + i]
<1>1. Len(s) \in Nat /\ \A i \in (n + 1)..Len(s) : s[i] \in S
  BY LenProperties, ElementOfSeq
<1>2. /\ SubSeq(s, n + 1, Len(s)) \in Seq(S)
      /\ Len(SubSeq(s, n + 1, Len(s))) = IF n + 1 <= Len(s) THEN Len(s) - (n + 1) + 1 ELSE 0
      /\ \A i \in 1..(Len(s) - (n + 1) + 1) : SubSeq(s, n + 1, Len(s))[i] = s[(n + 1) + i - 1]
  <2>1. n + 1 \in Int /\ Len(s) \in Int
    BY <1>1
  <2> QED
    BY <1>1, <2>1, SubSeqProperties
<1> QED
  BY <1>1, <1>2 DEF Drop

\* Armored lines are of headers, a blank line and base64, up to the last.
LEMMA ArmorHoldsNoText ==
  ASSUME NEW S, NEW s \in Seq(S), NEW end, ArmoredOk(s, end)
  PROVE  \A i \in 1..Len(s) : s[i] \in {"header", "blank", "base64", end}
<1> DEFINE body == SubSeq(s, 1, Len(s) - 1)
           n == Leading(body, "header")
           rest == Drop(body, n)
           data == IF rest # <<>> /\ rest[1] = "blank" THEN Tail(rest) ELSE rest
<1>1. s # <<>> /\ s[Len(s)] = end /\ \A i \in DOMAIN data : data[i] = "base64"
  BY DEF ArmoredOk
<1>2. Len(s) \in Nat /\ Len(s) >= 1
  BY <1>1, LenProperties, EmptySeq
<1>3. /\ body \in Seq(S) /\ Len(body) = Len(s) - 1
      /\ \A i \in 1..(Len(s) - 1) : body[i] = s[i]
  <2>1. \A i \in 1..(Len(s) - 1) : s[i] \in S
    BY <1>2, ElementOfSeq
  <2>2. 1 \in Int /\ Len(s) - 1 \in Int
    BY <1>2
  <2>3. /\ body \in Seq(S)
        /\ \A i \in 1..((Len(s) - 1) - 1 + 1) : body[i] = s[1 + i - 1]
    BY <2>1, <2>2, SubSeqProperties
  <2>4. Len(body) = Len(s) - 1
    <3>1. Len(body) = IF 1 <= Len(s) - 1 THEN (Len(s) - 1) - 1 + 1 ELSE 0
      BY <2>1, <2>2, SubSeqProperties
    <3> HIDE DEF body
    <3> QED
      BY <1>2, <3>1
  <2> HIDE DEF body
  <2>5. \A i \in 1..(Len(s) - 1) : 1 + i - 1 = i /\ i \in 1..((Len(s) - 1) - 1 + 1)
    BY <1>2
  <2> QED
    BY <2>3, <2>4, <2>5
<1>4. n \in 0..Len(body) /\ \A i \in 1..n : body[i] = "header"
  <2> HIDE DEF body
  <2> QED
    BY <1>3, LeadingIsLeading
<1>5. /\ rest \in Seq(S) /\ Len(rest) = Len(body) - n
      /\ \A i \in 1..(Len(body) - n) : rest[i] = body[n + i]
  <2> HIDE DEF body, n
  <2> QED
    BY <1>3, <1>4, DropIsTheRest
<1>6. \A i \in 1..Len(rest) : rest[i] \in {"blank", "base64"}
  <2> HIDE DEF rest
  <2>1. CASE rest # <<>> /\ rest[1] = "blank"
    <3>1. Len(rest) \in Nat /\ Len(Tail(rest)) = Len(rest) - 1 /\ Tail(rest) \in Seq(S)
          /\ \A i \in 1..Len(Tail(rest)) : Tail(rest)[i] = rest[i + 1]
      BY <1>5, <2>1, HeadTailProperties, LenProperties
    <3>2. \A i \in 1..(Len(rest) - 1) : Tail(rest)[i] = "base64"
      BY <1>1, <2>1, <3>1, LenProperties
    <3>3. \A i \in 2..Len(rest) : rest[i] = "base64"
      <4> SUFFICES ASSUME NEW i \in 2..Len(rest) PROVE rest[i] = "base64"
        OBVIOUS
      <4>1. i - 1 \in 1..(Len(rest) - 1) /\ (i - 1) + 1 = i
        BY <3>1
      <4> QED
        BY <3>1, <3>2, <4>1
    <3> QED
      BY <2>1, <3>1, <3>3
  <2>2. CASE ~(rest # <<>> /\ rest[1] = "blank")
    BY <1>1, <1>5, <2>2, LenProperties
  <2> QED
    BY <2>1, <2>2
<1> HIDE DEF body, n, rest, data
<1>7. \A i \in 1..(Len(s) - 1) : s[i] \in {"header", "blank", "base64"}
  <2> SUFFICES ASSUME NEW i \in 1..(Len(s) - 1) PROVE s[i] \in {"header", "blank", "base64"}
    OBVIOUS
  <2>1. CASE i <= n
    BY <1>2, <1>3, <1>4, <2>1
  <2>2. CASE i > n
    <3>1. i - n \in 1..(Len(body) - n) /\ n + (i - n) = i
      BY <1>2, <1>3, <1>4, <2>2
    <3> QED
      BY <1>3, <1>5, <1>6, <3>1
  <2> QED
    BY <1>2, <1>3, <1>4, <2>1, <2>2
<1> QED
  BY <1>1, <1>2, <1>7

\* What a cleartext frame finds: hash headers, a blank line, words without a bare
\* dash, the signature, and armor to the end.
LEMMA CleartextIsOneRun ==
  ASSUME NEW S, NEW s \in Seq(S), CleartextFraming(s).kind = "cleartext"
  PROVE  \E p \in Nat, g \in 1..Len(s) :
             /\ p + 2 <= g /\ Len(CleartextFraming(s).shown) = g - p - 2
             /\ \A i \in 1..p : s[i] = "hash"
             /\ s[p + 1] = "blank" /\ s[g] = "sig"
             /\ \A i \in (p + 2)..(g - 1) : s[i] \notin BareDash
             /\ \A i \in (g + 1)..Len(s) : s[i] \in {"header", "blank", "base64", "end"}
<1> DEFINE n == Leading(s, "hash")
           rest == Drop(s, n + 1)
           sigs == {i \in DOMAIN rest : rest[i] = "sig"}
           sig == CHOOSE i \in sigs : \A j \in sigs : i <= j
           body == SubSeq(rest, 1, sig - 1)
           Shown == [i \in DOMAIN body |-> Unescaped(body[i])]
           Fine == /\ n < Len(s) /\ sigs # {}
                   /\ s[n + 1] = "blank"
                   /\ ArmoredOk(Drop(rest, sig), "end")
                   /\ \A i \in DOMAIN body : body[i] \notin BareDash
<1>1. CleartextFraming(s) = IF Fine THEN [kind |-> "cleartext", shown |-> Shown]
                            ELSE [kind |-> "refused", code |-> "TextOutsideSignature"]
  BY DEF CleartextFraming
<1>2. Fine /\ CleartextFraming(s).shown = Shown
  <2> HIDE DEF Fine, Shown
  <2> QED
    BY <1>1
<1>3. n \in 0..Len(s) /\ Len(s) \in Nat /\ \A i \in 1..n : s[i] = "hash"
  BY LeadingIsLeading, LenProperties
<1>4. n + 1 \in 0..Len(s)
  BY <1>2, <1>3
<1>5. /\ rest \in Seq(S) /\ Len(rest) = Len(s) - (n + 1)
      /\ \A i \in 1..(Len(s) - (n + 1)) : rest[i] = s[n + 1 + i]
  <2> HIDE DEF n
  <2> QED
    BY <1>4, DropIsTheRest
<1>6. DOMAIN rest = 1..Len(rest) /\ Len(rest) \in Nat
  <2> HIDE DEF rest
  <2> QED
    BY <1>5, LenProperties
<1>7. sig \in sigs /\ \A j \in sigs : sig <= j
  <2>1. sigs \subseteq Nat /\ sigs # {}
    BY <1>2, <1>6
  <2> HIDE DEF sigs
  <2>2. \E i \in sigs : \A j \in sigs : i <= j
    BY <2>1, Least
  <2> QED
    BY <2>2
<1>8. sig \in 1..Len(rest) /\ rest[sig] = "sig"
  <2> HIDE DEF sig, rest
  <2> QED
    BY <1>6, <1>7
<1>9. Len(body) = sig - 1 /\ DOMAIN body = 1..(sig - 1) /\ \A i \in 1..(sig - 1) : body[i] = rest[i]
  <2> HIDE DEF sig, rest
  <2>1. \A i \in 1..(sig - 1) : rest[i] \in S
    BY <1>5, <1>6, <1>8, ElementOfSeq
  <2>2. 1 \in Int /\ sig - 1 \in Int /\ sig \in Nat /\ sig >= 1
    BY <1>6, <1>8
  <2>3. body \in Seq(S) /\ \A i \in 1..((sig - 1) - 1 + 1) : body[i] = rest[1 + i - 1]
    BY <2>1, <2>2, SubSeqProperties
  <2>4. Len(body) = sig - 1
    <3>1. Len(body) = IF 1 <= sig - 1 THEN (sig - 1) - 1 + 1 ELSE 0
      BY <2>1, <2>2, SubSeqProperties
    <3> HIDE DEF body
    <3> QED
      BY <2>2, <3>1
  <2> HIDE DEF body
  <2>5. \A i \in 1..(sig - 1) : 1 + i - 1 = i /\ i \in 1..((sig - 1) - 1 + 1)
    BY <2>2
  <2>6. DOMAIN body = 1..Len(body)
    BY <2>3, LenProperties
  <2> QED
    BY <2>3, <2>4, <2>5, <2>6
<1>10. Len(Shown) = sig - 1
  <2>1. DOMAIN Shown = 1..(sig - 1) /\ sig - 1 \in Nat
    <3> HIDE DEF sig, body, rest
    <3> QED
      BY <1>6, <1>8, <1>9
  <2>2. Shown \in Seq({Unescaped(body[i]) : i \in 1..(sig - 1)})
    <3> HIDE DEF sig, body, rest
    <3> QED
      BY <1>9, <2>1, IsASeq
  <2> HIDE DEF Shown, sig
  <2>3. DOMAIN Shown = 1..Len(Shown) /\ Len(Shown) \in Nat
    BY <2>2, LenProperties
  <2> QED
    BY <2>1, <2>3
<1>11. \A i \in 1..(Len(rest) - sig) : rest[sig + i] \in {"header", "blank", "base64", "end"}
  <2> DEFINE foot == Drop(rest, sig)
  <2>1. ArmoredOk(foot, "end")
    BY <1>2
  <2> HIDE DEF sig, rest
  <2>2. /\ foot \in Seq(S) /\ Len(foot) = Len(rest) - sig
        /\ \A i \in 1..(Len(rest) - sig) : foot[i] = rest[sig + i]
    <3>1. sig \in 0..Len(rest)
      BY <1>6, <1>8
    <3> QED
      BY <1>5, <3>1, DropIsTheRest
  <2> HIDE DEF foot
  <2>3. \A i \in 1..Len(foot) : foot[i] \in {"header", "blank", "base64", "end"}
    BY <2>1, <2>2, ArmorHoldsNoText
  <2> QED
    BY <2>2, <2>3
<1>12. \A i \in 1..(sig - 1) : rest[i] \notin BareDash
  <2>1. \A i \in DOMAIN body : body[i] \notin BareDash
    BY <1>2
  <2> HIDE DEF sig, body, rest
  <2> QED
    BY <1>9, <2>1
<1>13. s[n + 1] = "blank" /\ n \in Nat
  BY <1>2, <1>3
<1>14. CleartextFraming(s).shown = Shown
  BY <1>2
<1> HIDE DEF n, rest, sigs, sig, body, Shown, Fine
<1> DEFINE g == n + 1 + sig
<1>15. g \in 1..Len(s) /\ n + 2 <= g /\ g - n - 2 = sig - 1
  BY <1>3, <1>5, <1>6, <1>8
<1>16. s[g] = "sig"
  BY <1>5, <1>8
<1>17. \A i \in (n + 2)..(g - 1) : s[i] \notin BareDash
  <2> SUFFICES ASSUME NEW i \in (n + 2)..(g - 1) PROVE s[i] \notin BareDash
    OBVIOUS
  <2>1. i - (n + 1) \in 1..(sig - 1) /\ n + 1 + (i - (n + 1)) = i /\ i - (n + 1) \in 1..(Len(s) - (n + 1))
    BY <1>3, <1>5, <1>6, <1>8
  <2> QED
    BY <1>5, <1>12, <2>1
<1>18. \A i \in (g + 1)..Len(s) : s[i] \in {"header", "blank", "base64", "end"}
  <2> SUFFICES ASSUME NEW i \in (g + 1)..Len(s) PROVE s[i] \in {"header", "blank", "base64", "end"}
    OBVIOUS
  <2>1. /\ i - g \in 1..(Len(rest) - sig) /\ sig + (i - g) \in 1..(Len(s) - (n + 1))
        /\ n + 1 + (sig + (i - g)) = i
    BY <1>3, <1>5, <1>6, <1>8
  <2>2. rest[sig + (i - g)] \in {"header", "blank", "base64", "end"}
    BY <1>11, <2>1
  <2>3. rest[sig + (i - g)] = s[n + 1 + (sig + (i - g))]
    BY <1>5, <2>1
  <2> QED
    BY <2>1, <2>2, <2>3
<1> HIDE DEF g
<1> QED
  BY <1>3, <1>10, <1>13, <1>14, <1>15, <1>16, <1>17, <1>18

\* A paste found to be a cleartext block is one: its first line begins it, and what
\* stands around it is blank.
LEMMA CleartextIsTheWholePaste ==
  ASSUME IsSeq(lines), CheckSignedFraming.kind = "cleartext"
  PROVE  \E a \in DOMAIN lines, b \in DOMAIN lines, s \in Seq({lines[i] : i \in DOMAIN lines}) :
             /\ a <= b /\ Len(s) = b - a /\ \A i \in 1..Len(s) : s[i] = lines[a + i]
             /\ lines[a] = "begin" /\ ~Holds({"hidden"})
             /\ \A i \in DOMAIN lines : i < a \/ i > b => lines[i] = "blank"
             /\ CheckSignedFraming = CleartextFraming(s)
<1> DEFINE S == {lines[i] : i \in DOMAIN lines}
           a == CHOOSE i \in NotBlank : \A j \in NotBlank : i <= j
           b == CHOOSE i \in NotBlank : \A j \in NotBlank : i >= j
<1>1. lines \in Seq(S)
  BY DEF IsSeq
<1>2. DOMAIN lines = 1..Len(lines) /\ Len(lines) \in Nat
  BY <1>1, LenProperties
<1>3. /\ Holds({"begin", "mbegin", "indented"}) /\ ~Holds({"hidden"}) /\ Trimmed[1] = "begin"
      /\ CheckSignedFraming = CleartextFraming(Tail(Trimmed))
  <2>1. Holds({"begin", "mbegin", "indented"})
    BY DEF CheckSignedFraming
  <2>2. ~(Len(lines) > MAX_SIGNED_LINES + 1)
    BY <2>1 DEF CheckSignedFraming
  <2>3. ~(~Holds({"hidden"}) /\ Trimmed[1] = "mbegin" /\ ArmoredOk(Tail(Trimmed), "mend"))
    BY <2>1, <2>2 DEF CheckSignedFraming
  <2>4. ~Holds({"hidden"}) /\ Trimmed[1] = "begin"
    BY <2>1, <2>2, <2>3 DEF CheckSignedFraming
  <2>5. CheckSignedFraming = CleartextFraming(Tail(Trimmed))
    BY <2>1, <2>2, <2>3, <2>4 DEF CheckSignedFraming
  <2> QED
    BY <2>1, <2>4, <2>5
<1>4. NotBlank \subseteq 1..Len(lines) /\ NotBlank # {}
  BY <1>2, <1>3 DEF NotBlank, Holds
<1>5. a \in NotBlank /\ \A j \in NotBlank : a <= j
  <2>1. \E i \in NotBlank : \A j \in NotBlank : i <= j
    <3>1. NotBlank \subseteq Nat
      BY <1>2, <1>4
    <3> QED
      BY <1>4, <3>1, Least
  <2> QED
    BY <2>1
<1>6. b \in NotBlank /\ \A j \in NotBlank : b >= j
  <2>1. \E i \in NotBlank : \A j \in NotBlank : i >= j
    BY <1>2, <1>4, Greatest
  <2> QED
    BY <2>1
<1>7. Trimmed = SubSeq(lines, a, b)
  BY DEF Trimmed
<1>0. \A i \in DOMAIN lines : lines[i] \in S
  OBVIOUS
<1> HIDE DEF a, b, S
<1>8. a \in 1..Len(lines) /\ b \in 1..Len(lines) /\ a <= b
  BY <1>4, <1>5, <1>6
<1>9. \A i \in DOMAIN lines : i < a \/ i > b => lines[i] = "blank"
  <2> SUFFICES ASSUME NEW i \in DOMAIN lines, i < a \/ i > b, lines[i] # "blank" PROVE FALSE
    OBVIOUS
  <2>1. i \in NotBlank
    BY DEF NotBlank
  <2>2. a <= i /\ i <= b
    BY <1>5, <1>6, <2>1
  <2> QED
    BY <1>2, <1>8, <2>2
<1>10. /\ Trimmed \in Seq(S) /\ \A i \in 1..(b - a + 1) : Trimmed[i] = lines[a + i - 1]
  <2>1. \A i \in a..b : lines[i] \in S
    BY <1>0, <1>2, <1>8
  <2>2. a \in Int /\ b \in Int
    BY <1>2, <1>8
  <2> QED
    BY <1>7, <2>1, <2>2, SubSeqProperties
<1>11. Len(Trimmed) = b - a + 1
  <2>1. \A i \in a..b : lines[i] \in S
    BY <1>0, <1>2, <1>8
  <2>2. a \in Int /\ b \in Int
    BY <1>2, <1>8
  <2>3. Len(Trimmed) = IF a <= b THEN b - a + 1 ELSE 0
    BY <1>7, <2>1, <2>2, SubSeqProperties
  <2> QED
    BY <1>8, <2>3
<1> DEFINE s == Tail(Trimmed)
<1>12. Trimmed # <<>>
  BY <1>2, <1>8, <1>11, EmptySeq
<1>13. s \in Seq(S) /\ \A i \in 1..Len(s) : s[i] = Trimmed[i + 1]
  BY <1>10, <1>12, HeadTailProperties
<1>14. Len(s) = b - a
  <2>1. Len(s) = Len(Trimmed) - 1
    BY <1>10, <1>12, HeadTailProperties
  <2> HIDE DEF s
  <2> QED
    BY <1>2, <1>8, <1>11, <2>1
<1>15. CheckSignedFraming = CleartextFraming(s)
  BY <1>3
<1> HIDE DEF s
<1>16. \A i \in 1..Len(s) : s[i] = lines[a + i]
  <2> SUFFICES ASSUME NEW i \in 1..Len(s) PROVE s[i] = lines[a + i]
    OBVIOUS
  <2>1. i + 1 \in 1..(b - a + 1) /\ a + (i + 1) - 1 = a + i
    BY <1>2, <1>8, <1>14
  <2> QED
    BY <1>10, <1>13, <2>1
<1>17. lines[a] = "begin"
  <2>1. 1 \in 1..(b - a + 1) /\ a + 1 - 1 = a
    BY <1>2, <1>8
  <2> QED
    BY <1>3, <1>10, <2>1
<1>18. a \in DOMAIN lines /\ b \in DOMAIN lines
  BY <1>2, <1>8
<1>19. s \in Seq({lines[i] : i \in DOMAIN lines})
  BY <1>13 DEF S
<1> QED
  BY <1>3, <1>8, <1>9, <1>14, <1>15, <1>16, <1>17, <1>18, <1>19

LEMMA FramingIsOfTheText ==
  ASSUME IsSeq(lines) PROVE FrameIsOfTheText(CheckSignedFraming)
<1> DEFINE f == CheckSignedFraming
<1> SUFFICES ASSUME f.kind = "cleartext"
             PROVE  LET words == {i \in DOMAIN lines : lines[i] \in Words}
                        sigs == {i \in DOMAIN lines : lines[i] = "sig"}
                    IN /\ Cardinality(sigs) = 1
                       /\ \A i \in words : \A s \in sigs : i < s
                       /\ \A i \in words : \E j \in 1..(i - 1) : lines[j] = "begin"
                       /\ Cardinality(words) <= Len(f.shown)
                       /\ ~Holds({"hidden", "dash"})
  BY DEF FrameIsOfTheText
<1> DEFINE S == {lines[i] : i \in DOMAIN lines}
           words == {i \in DOMAIN lines : lines[i] \in Words}
           sigs == {i \in DOMAIN lines : lines[i] = "sig"}
<1>1. DOMAIN lines = 1..Len(lines) /\ Len(lines) \in Nat
  BY LenProperties DEF IsSeq
<1>2. PICK a \in DOMAIN lines, b \in DOMAIN lines, s \in Seq(S) :
             /\ a <= b /\ Len(s) = b - a /\ \A i \in 1..Len(s) : s[i] = lines[a + i]
             /\ lines[a] = "begin" /\ ~Holds({"hidden"})
             /\ \A i \in DOMAIN lines : i < a \/ i > b => lines[i] = "blank"
             /\ CheckSignedFraming = CleartextFraming(s)
  BY CleartextIsTheWholePaste
<1> HIDE DEF S
<1>3. PICK p \in Nat, q \in 1..Len(s) :
             /\ p + 2 <= q /\ Len(CleartextFraming(s).shown) = q - p - 2
             /\ \A i \in 1..p : s[i] = "hash"
             /\ s[p + 1] = "blank" /\ s[q] = "sig"
             /\ \A i \in (p + 2)..(q - 1) : s[i] \notin BareDash
             /\ \A i \in (q + 1)..Len(s) : s[i] \in {"header", "blank", "base64", "end"}
  <2>1. CleartextFraming(s).kind = "cleartext"
    BY <1>2
  <2> QED
    BY <2>1, CleartextIsOneRun
<1> DEFINE from == a + p + 2
           g == a + q
<1>4. /\ a \in Nat /\ a >= 1 /\ b \in Nat /\ p \in Nat /\ q \in Nat /\ Len(s) = b - a /\ a <= b
      /\ q <= b - a /\ p + 2 <= q
  BY <1>1, <1>2, <1>3
<1>5. \A i \in (a + 1)..b : i - a \in 1..Len(s) /\ lines[i] = s[i - a]
  <2> SUFFICES ASSUME NEW i \in (a + 1)..b PROVE i - a \in 1..Len(s) /\ lines[i] = s[i - a]
    OBVIOUS
  <2>1. i - a \in 1..Len(s) /\ a + (i - a) = i
    BY <1>4
  <2> QED
    BY <1>2, <2>1
\* Line by line.
<1>6. \A i \in DOMAIN lines :
          \/ i \in from..(g - 1) /\ lines[i] \notin BareDash
          \/ i = g /\ lines[i] = "sig"
          \/ i \notin from..g /\ lines[i] \in {"begin", "hash", "blank", "header", "base64", "end"}
  <2> SUFFICES ASSUME NEW i \in DOMAIN lines
               PROVE  \/ i \in from..(g - 1) /\ lines[i] \notin BareDash
                      \/ i = g /\ lines[i] = "sig"
                      \/ i \notin from..g /\ lines[i] \in {"begin", "hash", "blank", "header", "base64", "end"}
    OBVIOUS
  <2>0. i \in Nat
    BY <1>1
  <2>1. CASE i < a \/ i > b
    <3>1. lines[i] = "blank" /\ i \notin from..g
      BY <1>2, <1>4, <2>0, <2>1
    <3> QED
      BY <3>1
  <2>2. CASE i = a
    <3>1. lines[i] = "begin" /\ i \notin from..g
      BY <1>2, <1>4, <2>0, <2>2
    <3> QED
      BY <3>1
  <2>3. CASE i \in (a + 1)..b
    <3> DEFINE k == i - a
    <3>1. k \in 1..Len(s) /\ lines[i] = s[k] /\ k \in Nat /\ i = a + k
      BY <1>4, <1>5, <2>0, <2>3
    <3> HIDE DEF k
    <3>2. CASE k <= p
      <4>1. lines[i] = "hash" /\ i \notin from..g
        BY <1>3, <1>4, <3>1, <3>2
      <4> QED
        BY <4>1
    <3>3. CASE k = p + 1
      <4>1. lines[i] = "blank" /\ i \notin from..g
        BY <1>3, <1>4, <3>1, <3>3
      <4> QED
        BY <4>1
    <3>4. CASE k \in (p + 2)..(q - 1)
      BY <1>3, <1>4, <3>1, <3>4
    <3>5. CASE k = q
      BY <1>3, <1>4, <3>1, <3>5
    <3>6. CASE k \in (q + 1)..Len(s)
      <4>1. lines[i] \in {"header", "blank", "base64", "end"} /\ i \notin from..g
        BY <1>3, <1>4, <3>1, <3>6
      <4> QED
        BY <4>1
    <3> QED
      BY <1>4, <3>1, <3>2, <3>3, <3>4, <3>5, <3>6
  <2> QED
    BY <1>4, <2>0, <2>1, <2>2, <2>3
<1>7. g \in DOMAIN lines /\ from \in Nat /\ g \in Nat /\ from <= g /\ a < from
  BY <1>1, <1>2, <1>4
<1>8. Len(f.shown) = g - from
  BY <1>2, <1>3, <1>4
<1>9. lines[a] = "begin" /\ a \in Nat /\ a >= 1 /\ ~Holds({"hidden"})
  BY <1>2, <1>4
<1> HIDE DEF from, g, f
<1>10. sigs = {g}
  <2>1. lines[g] = "sig"
    BY <1>6, <1>7
  <2>2. \A i \in DOMAIN lines : lines[i] = "sig" => i = g
    BY <1>6 DEF BareDash
  <2> QED
    BY <1>7, <2>1, <2>2
<1>11. \A i \in words : i \in from..(g - 1)
  BY <1>6 DEF Words
<1>12. Cardinality(sigs) = 1
  BY <1>10, FS_Singleton
<1>13. \A i \in words : \A t \in sigs : i < t
  <2> HIDE DEF words, sigs
  <2> QED
    BY <1>7, <1>10, <1>11
<1>14. \A i \in words : \E j \in 1..(i - 1) : lines[j] = "begin"
  <2> HIDE DEF words
  <2> SUFFICES ASSUME NEW i \in words PROVE \E j \in 1..(i - 1) : lines[j] = "begin"
    OBVIOUS
  <2>1. a \in 1..(i - 1)
    BY <1>7, <1>9, <1>11
  <2> QED
    BY <1>9, <2>1
<1>15. Cardinality(words) <= Len(f.shown)
  <2> HIDE DEF words
  <2>1. IsFiniteSet(from..(g - 1)) /\ Cardinality(from..(g - 1)) = g - from
    <3>1. from \in Int /\ g - 1 \in Int
      BY <1>7
    <3>2. /\ IsFiniteSet(from..(g - 1))
          /\ Cardinality(from..(g - 1)) = IF from > g - 1 THEN 0 ELSE (g - 1) - from + 1
      BY <3>1, FS_Interval
    <3> QED
      BY <1>7, <3>2
  <2>2. words \subseteq from..(g - 1)
    BY <1>11
  <2>3. Cardinality(words) <= Cardinality(from..(g - 1))
    BY <2>1, <2>2, FS_Subset
  <2> QED
    BY <1>8, <2>1, <2>3
<1>16. ~Holds({"hidden", "dash"})
  <2>1. \A i \in DOMAIN lines : lines[i] # "dash"
    BY <1>6 DEF BareDash
  <2> QED
    BY <1>9, <2>1 DEF Holds
<1> HIDE DEF words, sigs
<1> QED
  BY <1>12, <1>13, <1>14, <1>15, <1>16 DEF words, sigs

---------------------------------------------------------------------------
(* The request never changes, and so neither does what is read off it.     *)

LEMMA RequestStays == OpenNext \/ UNCHANGED openVars => request' = request
<1>1. OpenNext => request' = request
  BY DEF OpenNext, WalkHeader, EndOfHeader, MessageEncryption, SelectDecryptionKey, DecryptWithHandle,
         DecryptWithPassword, OpenUnencrypted, CheckFraming, Parse, Read, WithOutputCap, Answer, GoTo,
         Parsed, Failed
<1> QED
  BY <1>1 DEF openVars

LEMMA ReadOff ==
  ASSUME request' = request
  PROVE  /\ packets' = packets /\ lines' = lines /\ message' = message
         /\ Contents' = Contents /\ FirstContent' = FirstContent /\ WellFormed' = WellFormed
         /\ Limit' = Limit /\ Capped' = Capped /\ IsDecrypt' = IsDecrypt
<1>1. message' = message /\ packets' = packets /\ lines' = lines
  BY DEF packets, lines, message
<1>2. Contents' = Contents
  BY <1>1 DEF Contents
<1>3. FirstContent' = FirstContent
  BY <1>1, <1>2 DEF FirstContent
<1>4. WellFormed' = WellFormed
  BY <1>1, <1>2, <1>3 DEF WellFormed
<1>5. Limit' = Limit
  BY <1>1 DEF Limit
<1>6. Capped' = Capped
  BY <1>5 DEF Capped
<1>7. IsDecrypt' = IsDecrypt
  BY DEF IsDecrypt
<1> QED
  BY <1>1, <1>2, <1>3, <1>4, <1>5, <1>6, <1>7

LEMMA CredentialStays ==
  ASSUME request' = request, NEW k
  PROVE  OpensTo(k)' = OpensTo(k) /\ AcceptsPassword(k)' = AcceptsPassword(k)
<1>1. packets' = packets
  BY ReadOff
<1> QED
  BY <1>1 DEF OpensTo, AcceptsPassword

LEMMA RequestIsWhole ==
  ASSUME request \in Requests
  PROVE  /\ DOMAIN packets = 1..Len(packets) /\ Len(packets) \in Nat
         /\ DOMAIN message.results = 1..Len(message.results) /\ Len(message.results) \in Nat
         /\ DOMAIN request.candidates = 1..Len(request.candidates) /\ Len(request.candidates) \in Nat
         /\ IsSeq(lines)
         /\ \A i \in DOMAIN packets : packets[i].deep => packets[i].tag \in SessionTags \union Content
         /\ message.len \in Nat /\ message.size \in Nat /\ request.cap \in Nat \union {None}
<1>1. /\ IsSeq(request.candidates) /\ IsSeq(packets) /\ IsSeq(lines) /\ IsSeq(message.results)
      /\ \A i \in DOMAIN packets : packets[i].deep => packets[i].tag \in SessionTags \union Content
      /\ message.len \in Nat /\ message.size \in Nat /\ request.cap \in Nat \union {None}
  BY RequestAssumption DEF packets, lines, message
<1>2. \A s : IsSeq(s) => DOMAIN s = 1..Len(s) /\ Len(s) \in Nat
  BY LenProperties DEF IsSeq
<1> QED
  BY <1>1, <1>2

\* The first piece of content, where there is one.
LEMMA FirstContentIsFirst ==
  ASSUME request \in Requests, Contents # {}
  PROVE  \E f \in DOMAIN packets :
             /\ FirstContent = packets[f] /\ packets[f].tag \in Content
             /\ \A i \in 1..(f - 1) : packets[i].tag \notin Content
<1>1. DOMAIN packets = 1..Len(packets) /\ Len(packets) \in Nat
  BY RequestIsWhole
<1> DEFINE f == CHOOSE i \in Contents : \A j \in Contents : i <= j
<1>2. Contents \subseteq Nat
  BY <1>1 DEF Contents
<1>3. f \in Contents /\ \A j \in Contents : f <= j
  <2>1. \E i \in Contents : \A j \in Contents : i <= j
    BY <1>2, Least
  <2> QED
    BY <2>1
<1>4. FirstContent = packets[f]
  BY DEF FirstContent
<1> HIDE DEF f
<1>5. f \in DOMAIN packets /\ packets[f].tag \in Content
  BY <1>3 DEF Contents
<1>6. \A i \in 1..(f - 1) : packets[i].tag \notin Content
  <2> SUFFICES ASSUME NEW i \in 1..(f - 1), packets[i].tag \in Content PROVE FALSE
    OBVIOUS
  <2>1. i \in Contents
    BY <1>1, <1>5 DEF Contents
  <2> QED
    BY <1>1, <1>3, <1>5, <2>1
<1> QED
  BY <1>4, <1>5, <1>6

---------------------------------------------------------------------------
(* The walk.                                                               *)

LEMMA InitWalk == OpenInit => WalkIsTrue
<1> SUFFICES ASSUME OpenInit PROVE WalkIsTrue
  OBVIOUS
<1>1. at = 1 /\ seen = [password |-> FALSE, publicKey |-> FALSE, container |-> "none", handles |-> {}]
  BY DEF OpenInit
<1>2. phase = "walk" => request.entry # "verify"
  BY DEF OpenInit
<1>3. phase # "walk" => request.entry = "verify"
  BY DEF OpenInit
<1>4. WalkedOver /\ FoundSoFar(at - 1)
  BY <1>1 DEF WalkedOver, FoundSoFar
<1> QED
  BY <1>1, <1>2, <1>3, <1>4 DEF WalkIsTrue

LEMMA WalkKept == OpenIInv /\ [OpenNext]_openVars => WalkIsTrue'
<1> SUFFICES ASSUME OpenIInv, [OpenNext]_openVars PROVE WalkIsTrue'
  OBVIOUS
<1>0. request' = request /\ request \in Requests /\ WalkIsTrue
  BY RequestStays DEF OpenIInv
<1>1. packets' = packets /\ \A k : OpensTo(k)' = OpensTo(k)
  BY <1>0, ReadOff, CredentialStays
<1>2. DOMAIN packets = 1..Len(packets) /\ Len(packets) \in Nat
  BY <1>0, RequestIsWhole
<1>3. CASE WalkHeader
  <2> DEFINE p == packets[at]
  <2>1. /\ phase = "walk" /\ at \in 1..Len(packets) /\ seen' = Visit(p)
        /\ WalkedOver /\ FoundSoFar(at - 1) /\ request.entry # "verify" /\ at \in Nat \ {0}
    BY <1>0, <1>3 DEF WalkHeader, WalkIsTrue
  <2>2. seen' = [password |-> seen.password \/ p.tag = "SKESK",
                 publicKey |-> seen.publicKey \/ p.tag = "PKESK",
                 container |-> IF p.tag \in ContainerTags THEN p.tag ELSE seen.container,
                 handles |-> IF p.tag = "PKESK" /\ p.known /\ p.named
                             THEN seen.handles \union {p.to} ELSE seen.handles]
    <3> DEFINE was == [password |-> seen.password, publicKey |-> seen.publicKey,
                       container |-> seen.container, handles |-> seen.handles]
    <3>1. seen = was
      BY <1>0 DEF WalkIsTrue
    <3> HIDE DEF p
    <3>2. seen' = [was EXCEPT
              !.password  = @ \/ p.tag = "SKESK",
              !.publicKey = @ \/ p.tag = "PKESK",
              !.container = IF p.tag \in ContainerTags THEN p.tag ELSE @,
              !.handles   = IF p.tag = "PKESK" /\ p.known /\ p.named THEN @ \union {p.to} ELSE @]
      BY <2>1, <3>1 DEF Visit
    <3> QED
      BY <3>2
  <2>3. \A k \in seen'.handles : OpensTo(k)'
    <3>1. \A k \in seen.handles : OpensTo(k)
      BY <1>0 DEF WalkIsTrue
    <3>2. p.tag = "PKESK" /\ p.known /\ p.named => OpensTo(p.to)
      BY <1>2, <2>1 DEF OpensTo
    <3>3. seen'.handles = IF p.tag = "PKESK" /\ p.known /\ p.named
                          THEN seen.handles \union {p.to} ELSE seen.handles
      BY <2>2
    <3> HIDE DEF p
    <3> QED
      BY <1>1, <3>1, <3>2, <3>3
  <2>4. seen' = [password |-> seen'.password, publicKey |-> seen'.publicKey,
                 container |-> seen'.container, handles |-> seen'.handles]
    <3> HIDE DEF p
    <3> QED
      BY <2>2
  <2>5. seen'.password <=> \E i \in 1..at : packets[i].tag = "SKESK"
    <3>1. seen.password <=> \E i \in 1..(at - 1) : packets[i].tag = "SKESK"
      BY <2>1 DEF FoundSoFar
    <3>2. seen'.password <=> (seen.password \/ p.tag = "SKESK")
      <4> HIDE DEF p
      <4> QED
        BY <2>2
    <3>3. (\E i \in 1..at : packets[i].tag = "SKESK")
              <=> (\E i \in 1..(at - 1) : packets[i].tag = "SKESK") \/ p.tag = "SKESK"
      BY <2>1
    <3> QED
      BY <3>1, <3>2, <3>3, Zenon
  <2>6. CASE WalkGoesOn(p)
    <3>1. at' = at + 1 /\ phase' = "walk"
      BY <1>3, <2>1, <2>6 DEF WalkHeader
    <3>2. WalkedOver'
      <4> SUFFICES ASSUME NEW i \in 1..at PROVE i \in DOMAIN packets /\ WalkGoesOn(packets[i])
        BY <1>1, <2>1, <3>1 DEF WalkedOver, WalkGoesOn
      <4>1. CASE i = at
        BY <1>2, <2>1, <2>6, <4>1
      <4>2. CASE i # at
        <5>1. i \in 1..(at - 1)
          BY <2>1, <4>2
        <5> QED
          BY <2>1, <5>1 DEF WalkedOver
      <4> QED
        BY <4>1, <4>2
    <3>3. FoundSoFar(at - 1)'
      <4>1. at' - 1 = at
        BY <2>1, <3>1
      <4> QED
        BY <1>1, <2>5, <4>1 DEF FoundSoFar
    <3> QED
      BY <1>0, <2>1, <2>3, <2>4, <3>1, <3>2, <3>3 DEF WalkIsTrue
  <2>7. CASE ~WalkGoesOn(p)
    <3>1. at' = at /\ phase' = "asked"
      BY <1>3, <2>1, <2>7 DEF WalkHeader
    <3>2. WalkedOver'
      BY <1>1, <2>1, <3>1 DEF WalkedOver, WalkGoesOn
    <3>3. Stopped'
      <4>1. p.tag \in ContainerTags => seen'.container = p.tag
        <5> HIDE DEF p
        <5> QED
          BY <2>2
      <4>2. ~WalkGoesOn(p)'
        BY <1>1, <2>7, <3>1 DEF WalkGoesOn
      <4> QED
        BY <1>1, <3>1, <4>1, <4>2 DEF Stopped
    <3>4. FoundSoFar(Lesser(at, Len(packets)))'
      <4>1. Lesser(at', Len(packets')) = at
        <5>1. at \in Nat /\ Len(packets) \in Nat /\ at <= Len(packets)
          BY <1>2, <2>1
        <5>2. Lesser(at, Len(packets)) = at
          BY <5>1 DEF Lesser
        <5> QED
          BY <1>1, <3>1, <5>2
      <4> QED
        BY <1>1, <2>5, <4>1 DEF FoundSoFar
    <3> QED
      BY <1>0, <2>1, <2>3, <2>4, <3>1, <3>2, <3>3, <3>4 DEF WalkIsTrue
  <2> QED
    BY <2>6, <2>7
<1>4. CASE EndOfHeader
  <2>1. /\ phase = "walk" /\ at > Len(packets) /\ at' = at /\ seen' = seen /\ phase' = "asked"
        /\ WalkedOver /\ FoundSoFar(at - 1) /\ request.entry # "verify" /\ at \in Nat \ {0}
    BY <1>0, <1>4 DEF EndOfHeader, WalkIsTrue
  <2>2. at = Len(packets) + 1
    <3>1. CASE at = 1
      BY <1>2, <2>1, <3>1
    <3>2. CASE at # 1
      <4>1. at - 1 \in 1..(at - 1)
        BY <2>1, <3>2
      <4>2. at - 1 \in DOMAIN packets
        BY <2>1, <4>1 DEF WalkedOver
      <4> QED
        BY <1>2, <2>1, <4>2
    <3> QED
      BY <3>1, <3>2
  <2>3. WalkedOver'
    BY <1>1, <2>1 DEF WalkedOver, WalkGoesOn
  <2>4. Stopped'
    BY <1>1, <1>2, <2>1, <2>2 DEF Stopped
  <2>5. FoundSoFar(Lesser(at, Len(packets)))'
    <3>1. Lesser(at', Len(packets')) = at - 1
      <4>1. Len(packets) \in Nat /\ at = Len(packets) + 1
        BY <1>2, <2>2
      <4>2. Lesser(at, Len(packets)) = at - 1
        BY <4>1 DEF Lesser
      <4> QED
        BY <1>1, <2>1, <4>2
    <3> QED
      BY <1>1, <2>1, <3>1 DEF FoundSoFar
  <2>6. \A k \in seen'.handles : OpensTo(k)'
    BY <1>0, <1>1, <2>1 DEF WalkIsTrue
  <2>7. seen' = [password |-> seen'.password, publicKey |-> seen'.publicKey,
                 container |-> seen'.container, handles |-> seen'.handles]
    BY <1>0, <2>1 DEF WalkIsTrue
  <2> QED
    BY <1>0, <2>1, <2>3, <2>4, <2>5, <2>6, <2>7 DEF WalkIsTrue
<1>5. CASE ~WalkHeader /\ ~EndOfHeader
  <2>1. at' = at /\ seen' = seen /\ (phase' = "walk" <=> phase = "walk")
    BY <1>5 DEF OpenNext, MessageEncryption, SelectDecryptionKey, DecryptWithHandle,
         DecryptWithPassword, OpenUnencrypted, CheckFraming, Parse, Read, WithOutputCap, Answer, GoTo,
         Parsed, Failed, Asked, openVars
  <2>2. WalkedOver' = WalkedOver /\ Stopped' = Stopped
    BY <1>1, <2>1 DEF WalkedOver, Stopped, WalkGoesOn
  <2>3. FoundSoFar(at - 1)' = FoundSoFar(at - 1)
    BY <1>1, <2>1 DEF FoundSoFar
  <2>4. FoundSoFar(Lesser(at, Len(packets)))' = FoundSoFar(Lesser(at, Len(packets)))
    <3>1. Lesser(at', Len(packets')) = Lesser(at, Len(packets))
      BY <1>1, <2>1
    <3> QED
      BY <1>1, <2>1, <3>1 DEF FoundSoFar
  <2>5. \A k \in seen'.handles : OpensTo(k)'
    BY <1>0, <1>1, <2>1 DEF WalkIsTrue
  <2>6. seen' = [password |-> seen'.password, publicKey |-> seen'.publicKey,
                 container |-> seen'.container, handles |-> seen'.handles]
    BY <1>0, <2>1 DEF WalkIsTrue
  <2> QED
    BY <1>0, <2>1, <2>2, <2>3, <2>4, <2>5, <2>6 DEF WalkIsTrue
<1> QED
  BY <1>3, <1>4, <1>5

---------------------------------------------------------------------------
(* From the entry point to the reading.                                    *)

LEMMA InitWays == OpenInit => WaysAreKept /\ LayerIsOpened /\ FrameIsTrue /\ NotYet
  BY DEF OpenInit, WaysAreKept, LayerIsOpened, FrameIsTrue, NotYet, IsDecrypt

LEMMA WaysKept == OpenIInv /\ [OpenNext]_openVars => WaysAreKept'
<1> SUFFICES ASSUME OpenIInv, [OpenNext]_openVars PROVE WaysAreKept'
  OBVIOUS
<1>0. request' = request /\ WaysAreKept /\ WalkIsTrue /\ IsDecrypt' = IsDecrypt
  BY RequestStays, ReadOff DEF OpenIInv
<1> DEFINE Walking == (phase = "walk") => request.entry # "verify"
<1>1. Walking
  BY <1>0 DEF WalkIsTrue
<1>2. CASE WalkHeader
  BY <1>0, <1>1, <1>2 DEF WalkHeader, WaysAreKept, IsDecrypt, RefusesFormat
<1>3. CASE EndOfHeader
  BY <1>0, <1>1, <1>3 DEF EndOfHeader, WaysAreKept, IsDecrypt, RefusesFormat
<1>4. CASE MessageEncryption \/ SelectDecryptionKey
  BY <1>0, <1>4 DEF MessageEncryption, SelectDecryptionKey, Answer, Asked, WaysAreKept, IsDecrypt, RefusesFormat
<1>5. CASE DecryptWithHandle
  BY <1>0, <1>5 DEF DecryptWithHandle, Answer, GoTo, Asked, WaysAreKept, IsDecrypt, RefusesFormat
<1>6. CASE DecryptWithPassword
  BY <1>0, <1>6 DEF DecryptWithPassword, Answer, GoTo, Asked, WaysAreKept, IsDecrypt, RefusesFormat
<1>7. CASE OpenUnencrypted
  BY <1>0, <1>7 DEF OpenUnencrypted, Answer, GoTo, Asked, WaysAreKept, IsDecrypt, RefusesFormat
<1>8. CASE CheckFraming
  <2>1. phase = "frame" /\ phase' \in {"done", "parse"}
    BY <1>8 DEF CheckFraming, Answer
  <2> QED
    BY <1>0, <2>1 DEF WaysAreKept, IsDecrypt
<1>9. CASE Parse
  <2>1. phase = "parse" /\ phase' \in {"done", "read"} /\ framing' = framing
    BY <1>9 DEF Parse, Parsed, Failed
  <2> QED
    BY <1>0, <2>1 DEF WaysAreKept, IsDecrypt
<1>10. CASE Read
  <2>1. phase' = "done" /\ framing' = framing
    BY <1>10 DEF Read, Answer, Failed
  <2> QED
    BY <1>0, <2>1 DEF WaysAreKept, IsDecrypt
<1>11. CASE WithOutputCap \/ UNCHANGED openVars
  BY <1>0, <1>11 DEF WithOutputCap, openVars, WaysAreKept, IsDecrypt, RefusesFormat
<1> QED
  BY <1>2, <1>3, <1>4, <1>5, <1>6, <1>7, <1>8, <1>9, <1>10, <1>11 DEF OpenNext

\* What the parser makes of a message when it goes on to read it.
LEMMA ParsedIsOpened ==
  ASSUME OpenIInv, Parse, phase' = "read"
  PROVE  /\ layer' \in {"plain", "encrypted"}
         /\ layer' = "encrypted" =>
                IsDecrypt /\ FirstContent.tag = "SEIP" /\ Credential(request.key, request.password)
         /\ layer' = "plain" /\ WellFormed => FirstContent.tag \notin ContainerTags
         /\ inflated' = Lesser(message.size, StreamBuffer) /\ answer' = answer
<1>1. WaysAreKept /\ phase = "parse"
  BY DEF OpenIInv, Parse
<1>2. PICK l \in Readings :
        \/ l = "plain" /\ Parsed(l, Lesser(message.size, StreamBuffer))
        \/ /\ l = "encrypted" /\ request.entry \notin {"verify", "openUnencrypted"}
           /\ FirstContent.tag = "SEIP" /\ Credential(request.key, request.password)
           /\ Parsed(l, Lesser(message.size, StreamBuffer))
  BY DEF Parse, Failed
<1>3. layer' = l /\ inflated' = Lesser(message.size, StreamBuffer) /\ answer' = answer
  BY <1>2 DEF Parsed
<1>4. l = "plain" /\ WellFormed => FirstContent.tag \notin ContainerTags
  BY DEF Readings
<1> QED
  BY <1>1, <1>2, <1>3, <1>4 DEF WaysAreKept, IsDecrypt

LEMMA LayerKept == OpenIInv /\ [OpenNext]_openVars => LayerIsOpened'
<1> SUFFICES ASSUME OpenIInv, [OpenNext]_openVars PROVE LayerIsOpened'
  OBVIOUS
<1>0. request' = request /\ LayerIsOpened
  BY RequestStays DEF OpenIInv
<1>1. IsDecrypt' = IsDecrypt /\ FirstContent' = FirstContent /\ WellFormed' = WellFormed
  BY <1>0, ReadOff
<1>2. Credential(request.key, request.password)' = Credential(request.key, request.password)
  BY <1>0, CredentialStays DEF Credential
<1>3. CASE Parse /\ phase' = "read"
  BY <1>1, <1>2, <1>3, ParsedIsOpened DEF LayerIsOpened
<1>4. CASE ~(Parse /\ phase' = "read")
  <2>1. phase' = "read" => phase = "read" /\ layer' = layer
    BY <1>4 DEF OpenNext, WalkHeader, EndOfHeader, MessageEncryption, SelectDecryptionKey, DecryptWithHandle,
         DecryptWithPassword, OpenUnencrypted, CheckFraming, Read, WithOutputCap, Answer, GoTo,
         Failed, Asked, openVars
  <2> QED
    BY <1>0, <1>1, <1>2, <2>1 DEF LayerIsOpened
<1> QED
  BY <1>3, <1>4

LEMMA FrameKept == OpenIInv /\ [OpenNext]_openVars => FrameIsTrue'
<1> SUFFICES ASSUME OpenIInv, [OpenNext]_openVars, framing' # None PROVE FrameIsOfTheText(framing)'
  BY DEF FrameIsTrue
<1>0. request' = request /\ FrameIsTrue /\ request \in Requests
  BY RequestStays DEF OpenIInv
<1>1. lines' = lines
  BY <1>0, ReadOff
<1>2. FrameIsOfTheText(framing)' <=> FrameIsOfTheText(framing')
  BY <1>1 DEF FrameIsOfTheText, Holds
<1>3. CASE framing' = framing
  BY <1>0, <1>2, <1>3 DEF FrameIsTrue
<1>4. CASE framing' # framing
  <2>1. framing' = CheckSignedFraming
    BY <1>4 DEF OpenNext, WalkHeader, EndOfHeader, MessageEncryption, SelectDecryptionKey, DecryptWithHandle,
         DecryptWithPassword, OpenUnencrypted, CheckFraming, Parse, Parsed, Read, WithOutputCap, Answer, GoTo,
         Failed, Asked, openVars
  <2>2. FrameIsOfTheText(CheckSignedFraming)
    BY <1>0, RequestIsWhole, FramingIsOfTheText
  <2> QED
    BY <1>2, <2>1, <2>2
<1> QED
  BY <1>3, <1>4

LEMMA NotYetKept == OpenIInv /\ [OpenNext]_openVars => NotYet'
  BY DEF OpenIInv, NotYet, OpenNext, WalkHeader, EndOfHeader, MessageEncryption, SelectDecryptionKey,
         DecryptWithHandle, DecryptWithPassword, OpenUnencrypted, CheckFraming, Parse, Parsed, Read,
         WithOutputCap, Answer, GoTo, Failed, Asked, openVars

---------------------------------------------------------------------------
(* The answers.                                                            *)

\* Nothing was read of what is answered, and nobody is blamed.
Blames(a) == a.kind = "error" /\ a.code = "SymmetricWrongPassword"
Plain(a) == a.kind \notin {"content", "shape", "selected"} /\ ~Blames(a)
WithinCap == Capped => inflated <= request.cap + 1

LEMMA PlainIsHonest == ASSUME Plain(answer), WithinCap PROVE OpenedHonestly
  BY DEF Plain, Blames, WithinCap, OpenedHonestly, DecryptedMeansEncrypted, OpenedMeansPlain,
     PasswordIsNotBlamed, ShapeIsWhole, SelectedKeyOpens, ValidMeansGood, ShownIsSigned, CeilingsHold,
     Contented

LEMMA UnansweredIsPlain == Plain(Unanswered)
  BY DEF Plain, Blames, Unanswered

LEMMA InitHonest == OpenInit => OpenedHonestly
<1> SUFFICES ASSUME OpenInit PROVE OpenedHonestly
  OBVIOUS
<1>1. Plain(answer)
  BY UnansweredIsPlain DEF OpenInit
<1>2. WithinCap
  <2>1. inflated = 0 /\ request.cap \in Nat \union {None}
    BY RequestIsWhole DEF OpenInit
  <2> QED
    BY <2>1 DEF WithinCap, Capped
<1> QED
  BY <1>1, <1>2, PlainIsHonest

LEMMA CapKept == OpenIInv /\ [OpenNext]_openVars => WithinCap'
<1> SUFFICES ASSUME OpenIInv, [OpenNext]_openVars PROVE WithinCap'
  OBVIOUS
<1>0. request' = request /\ request \in Requests /\ WithinCap
  BY RequestStays DEF OpenIInv, OpenedHonestly, CeilingsHold, WithinCap
<1>1. Capped' = Capped
  BY <1>0, ReadOff
<1>2. CASE inflated' = inflated
  BY <1>0, <1>1, <1>2 DEF WithinCap
<1>3. CASE inflated' # inflated
  <2>1. Parse /\ phase' = "read"
    BY <1>3 DEF OpenNext, WalkHeader, EndOfHeader, MessageEncryption, SelectDecryptionKey, DecryptWithHandle,
         DecryptWithPassword, OpenUnencrypted, CheckFraming, Parse, Parsed, Read, WithOutputCap, Answer, GoTo,
         Failed, Asked, openVars
  <2>2. inflated' = Lesser(message.size, StreamBuffer)
    BY <2>1, ParsedIsOpened
  <2>3. message.size \in Nat /\ request.cap \in Nat \union {None}
    BY <1>0, RequestIsWhole
  <2>4. Capped => Lesser(message.size, StreamBuffer) <= request.cap + 1
    BY <2>3 DEF Capped, StreamBuffer, Lesser
  <2> QED
    BY <1>0, <1>1, <2>2, <2>4 DEF WithinCap
<1> QED
  BY <1>2, <1>3

\* What the framing refuses with.
LEMMA FramingRefusals ==
  CheckSignedFraming.kind = "refused" =>
      CheckSignedFraming.code \in {"NotPgpData", "TooManyLines", "TextOutsideSignature"}
<1>1. \A s : CleartextFraming(s).kind = "refused" => CleartextFraming(s).code = "TextOutsideSignature"
  <2> SUFFICES ASSUME NEW s, CleartextFraming(s).kind = "refused"
               PROVE  CleartextFraming(s).code = "TextOutsideSignature"
    OBVIOUS
  <2> DEFINE n == Leading(s, "hash")
             rest == Drop(s, n + 1)
             sigs == {i \in DOMAIN rest : rest[i] = "sig"}
             sig == CHOOSE i \in sigs : \A j \in sigs : i <= j
             body == SubSeq(rest, 1, sig - 1)
             Shown == [i \in DOMAIN body |-> Unescaped(body[i])]
             Fine == /\ n < Len(s) /\ sigs # {}
                     /\ s[n + 1] = "blank"
                     /\ ArmoredOk(Drop(rest, sig), "end")
                     /\ \A i \in DOMAIN body : body[i] \notin BareDash
  <2>1. CleartextFraming(s) = IF Fine THEN [kind |-> "cleartext", shown |-> Shown]
                              ELSE [kind |-> "refused", code |-> "TextOutsideSignature"]
    BY DEF CleartextFraming
  <2> HIDE DEF n, rest, sigs, sig, body, Shown, Fine
  <2> QED
    BY <2>1
<1>2. \/ CheckSignedFraming = [kind |-> "refused", code |-> "NotPgpData"]
      \/ CheckSignedFraming = [kind |-> "refused", code |-> "TooManyLines"]
      \/ CheckSignedFraming = [kind |-> "inline"]
      \/ CheckSignedFraming = CleartextFraming(Tail(Trimmed))
      \/ CheckSignedFraming = [kind |-> "refused", code |-> "TextOutsideSignature"]
  BY DEF CheckSignedFraming
<1>3. CASE CheckSignedFraming = CleartextFraming(Tail(Trimmed))
  BY <1>1, <1>3
<1>4. CASE CheckSignedFraming # CleartextFraming(Tail(Trimmed))
  BY <1>2, <1>4
<1> QED
  BY <1>3, <1>4

\* A password is sent to the parser only where the header shows no format it
\* cannot read, and what comes first behind the header is what the walk found.
LEMMA PasswordMeetsNoAED ==
  ASSUME OpenIInv, phase = "parse", request.entry = "decryptWithPassword", Contents # {}
  PROVE  FirstContent.tag # "AED"
<1>0. request \in Requests /\ WalkIsTrue /\ ~RefusesFormat
  BY DEF OpenIInv, WaysAreKept
<1>1. PICK f \in DOMAIN packets :
         /\ FirstContent = packets[f] /\ packets[f].tag \in Content
         /\ \A i \in 1..(f - 1) : packets[i].tag \notin Content
  BY <1>0, FirstContentIsFirst
<1>2. DOMAIN packets = 1..Len(packets) /\ Len(packets) \in Nat
      /\ \A i \in DOMAIN packets : packets[i].deep => packets[i].tag \in SessionTags \union Content
  BY <1>0, RequestIsWhole
<1>3. WalkedOver /\ Stopped /\ at \in Nat \ {0}
  BY <1>0 DEF WalkIsTrue
<1> SUFFICES ASSUME packets[f].tag = "AED" PROVE FALSE
  BY <1>1
<1>4. ~WalkGoesOn(packets[f])
  BY DEF WalkGoesOn, ContainerTags
<1>5. \A i \in 1..(f - 1) : WalkGoesOn(packets[i])
  <2> SUFFICES ASSUME NEW i \in 1..(f - 1) PROVE WalkGoesOn(packets[i])
    OBVIOUS
  <2>1. i \in DOMAIN packets /\ packets[i].tag \notin Content
    BY <1>1, <1>2
  <2> QED
    BY <1>2, <2>1 DEF WalkGoesOn, ContainerTags, Content
<1>6. f \notin 1..(at - 1)
  BY <1>3, <1>4 DEF WalkedOver
<1>7. at \notin 1..(f - 1)
  <2> SUFFICES ASSUME at \in 1..(f - 1) PROVE FALSE
    OBVIOUS
  <2>1. at \in DOMAIN packets
    BY <1>2
  <2> QED
    BY <1>3, <1>5, <2>1 DEF Stopped
<1>8. f \in Nat \ {0}
  BY <1>2
<1>9. at = f
  BY <1>3, <1>6, <1>7, <1>8
<1>10. seen.container = "AED"
  BY <1>3, <1>9 DEF Stopped, ContainerTags
<1> QED
  BY <1>0, <1>10 DEF RefusesFormat

LEMMA SignaturesAreReported ==
  ASSUME request \in Requests, ProcessSignatures(message.results).status = "valid"
  PROVE  /\ \A i \in DOMAIN message.results : message.results[i].kind # "bad"
         /\ \E i \in DOMAIN message.results :
               /\ message.results[i].kind = "good"
               /\ message.results[i].by = ProcessSignatures(message.results).signer
               /\ ProcessSignatures(message.results).current => message.results[i].current
<1> DEFINE rs == message.results
           g == First(Good(rs))
           unknown == [status |-> IF Missing(rs) # {} THEN "unknown_key" ELSE "unsigned",
                       signer |-> IF Missing(rs) # {} THEN rs[First(Missing(rs))].by ELSE None,
                       current |-> FALSE, others |-> {}, unverified |-> 0]
           others == {rs[i].by : i \in Good(rs)} \ {rs[g].by}
           missing == Cardinality(Missing(rs))
           valid == [status |-> "valid", signer |-> rs[g].by, current |-> rs[g].current,
                     others |-> others, unverified |-> missing]
           bad == [status |-> "invalid", signer |-> None, current |-> FALSE, others |-> {}, unverified |-> 0]
<1>1. DOMAIN rs = 1..Len(rs) /\ Len(rs) \in Nat
  BY RequestIsWhole
<1>2. ProcessSignatures(rs) = IF AnyBad(rs) THEN bad ELSE IF Good(rs) # {} THEN valid ELSE unknown
  BY DEF ProcessSignatures
<1>3. bad.status # "valid" /\ unknown.status # "valid"
  OBVIOUS
<1> HIDE DEF bad, unknown
<1>4. ~AnyBad(rs) /\ Good(rs) # {} /\ ProcessSignatures(rs) = valid
  <2> HIDE DEF valid, rs
  <2>1. ProcessSignatures(rs).status = "valid"
    BY DEF rs
  <2> QED
    BY <1>2, <1>3, <2>1
<1>5. g \in Good(rs)
  <2>1. Good(rs) \subseteq Nat
    BY <1>1 DEF Good
  <2>2. \E i \in Good(rs) : \A j \in Good(rs) : i <= j
    BY <1>4, <2>1, Least
  <2> QED
    BY <2>2 DEF First
<1>6. ProcessSignatures(rs).signer = rs[g].by /\ ProcessSignatures(rs).current = rs[g].current
  <2> HIDE DEF rs, g, others, missing
  <2> QED
    BY <1>4
<1>7. g \in DOMAIN rs /\ rs[g].kind = "good"
  <2> HIDE DEF g
  <2> QED
    BY <1>5 DEF Good
<1>8. \A i \in DOMAIN rs : rs[i].kind # "bad"
  BY <1>4 DEF AnyBad
<1> HIDE DEF g
<1> QED
  BY <1>6, <1>7, <1>8

LEMMA ShapeIsTold ==
  ASSUME OpenIInv, [OpenNext]_openVars, MessageEncryption PROVE OpenedHonestly'
<1>0. request' = request /\ at' = at /\ phase = "asked" /\ request.entry # "verify"
  BY RequestStays DEF MessageEncryption, Asked, Answer
<1>1. packets' = packets
  BY <1>0, ReadOff
<1>2. FoundSoFar(Lesser(at, Len(packets)))
  BY <1>0 DEF OpenIInv, WalkIsTrue
<1>3. answer'.kind = "shape" /\ answer'.password = seen.password
  BY DEF MessageEncryption, Answer
<1>4. ShapeIsWhole'
  <2>1. Lesser(at', Len(packets')) = Lesser(at, Len(packets))
    BY <1>0, <1>1
  <2> QED
    BY <1>1, <1>2, <1>3, <2>1 DEF ShapeIsWhole, FoundSoFar
<1>5. WithinCap'
  BY CapKept
<1> QED
  BY <1>3, <1>4, <1>5 DEF OpenedHonestly, WithinCap, DecryptedMeansEncrypted, OpenedMeansPlain,
     PasswordIsNotBlamed, SelectedKeyOpens, ValidMeansGood, ShownIsSigned, CeilingsHold, Contented

LEMMA SelectionIsTold ==
  ASSUME OpenIInv, [OpenNext]_openVars, SelectDecryptionKey PROVE OpenedHonestly'
<1> DEFINE c == request.candidates
           hits == {i \in DOMAIN c : c[i] \in seen.handles}
           first == CHOOSE i \in hits : \A j \in hits : i <= j
<1>0. request' = request /\ request \in Requests /\ \A k \in seen.handles : OpensTo(k)
  BY RequestStays DEF OpenIInv, WalkIsTrue
<1>1. answer' = [kind |-> "selected", key |-> IF hits = {} THEN None ELSE c[first]]
  BY DEF SelectDecryptionKey, Answer
<1>2. hits # {} => first \in hits
  <2>1. hits \subseteq Nat
    BY <1>0, RequestIsWhole
  <2> HIDE DEF hits
  <2>2. hits # {} => \E i \in hits : \A j \in hits : i <= j
    BY <2>1, Least
  <2> QED
    BY <2>2
<1>3. hits # {} => OpensTo(c[first])
  <2> HIDE DEF first
  <2> QED
    BY <1>0, <1>2
<1> HIDE DEF first, hits, c
<1>4. answer'.kind = "selected" /\ (answer'.key # None => OpensTo(answer'.key))
  BY <1>1, <1>3
<1>5. SelectedKeyOpens'
  <2>1. OpensTo(answer.key)' <=> OpensTo(answer'.key)
    <3>1. packets' = packets
      BY <1>0, ReadOff
    <3> QED
      BY <3>1 DEF OpensTo
  <2> QED
    BY <1>4, <2>1 DEF SelectedKeyOpens
<1>6. WithinCap'
  BY CapKept
<1> QED
  BY <1>4, <1>5, <1>6 DEF OpenedHonestly, WithinCap, DecryptedMeansEncrypted, OpenedMeansPlain,
     PasswordIsNotBlamed, ShapeIsWhole, ValidMeansGood, ShownIsSigned, CeilingsHold, Contented

\* A refusal that blames nobody.
LEMMA RefusalIsPlain == \A code : code # "SymmetricWrongPassword" => Plain(Error(code))
  BY DEF Plain, Blames, Error

LEMMA PlainKept ==
  ASSUME OpenIInv, [OpenNext]_openVars, Plain(answer') PROVE OpenedHonestly'
<1>1. Plain(answer)' /\ WithinCap'
  BY CapKept DEF Plain, Blames
<1> QED
  BY <1>1, PlainIsHonest DEF Plain, Blames, WithinCap, OpenedHonestly, DecryptedMeansEncrypted,
     OpenedMeansPlain, PasswordIsNotBlamed, ShapeIsWhole, SelectedKeyOpens, ValidMeansGood,
     ShownIsSigned, CeilingsHold, Contented

\* Whoever is blamed for a failure has it coming.
LEMMA BlameIsTold ==
  ASSUME OpenIInv, [OpenNext]_openVars, answer'.kind = "error", PasswordIsNotBlamed'
  PROVE  OpenedHonestly'
<1>1. WithinCap'
  BY CapKept
<1> QED
  BY <1>1 DEF OpenedHonestly, WithinCap, DecryptedMeansEncrypted, OpenedMeansPlain,
     ShapeIsWhole, SelectedKeyOpens, ValidMeansGood, ShownIsSigned, CeilingsHold, Contented

LEMMA ParseIsHonest ==
  ASSUME OpenIInv, [OpenNext]_openVars, Parse PROVE OpenedHonestly'
<1>0. request' = request /\ request \in Requests /\ NotYet /\ phase = "parse"
  BY RequestStays DEF OpenIInv, Parse
<1>1. /\ message' = message /\ FirstContent' = FirstContent /\ WellFormed' = WellFormed
      /\ AcceptsPassword(request.password)' = AcceptsPassword(request.password)
  BY <1>0, ReadOff, CredentialStays
<1>2. CASE phase' = "read"
  <2>1. answer' = Unanswered
    BY <1>0, <1>2, ParsedIsOpened DEF NotYet
  <2> QED
    BY <2>1, PlainKept, UnansweredIsPlain
<1>3. CASE phase' # "read"
  <2>1. PICK l \in Readings :
          \/ l = "malformed" /\ Failed(l, "Malformed")
          \/ /\ l = "encrypted" /\ request.entry \in {"verify", "openUnencrypted"}
             /\ Failed(l, "Encrypted")
          \/ l = "encrypted" /\ FirstContent.tag = "AED" /\ Failed(l, "Malformed")
          \/ /\ l = "encrypted" /\ FirstContent.tag = "SEIP"
             /\ ~Credential(request.key, request.password) /\ Failed(l, "NoDecryptionKey")
    BY <1>3 DEF Parse, Parsed
  <2>2. PICK code \in {"Malformed", "Encrypted", "NoDecryptionKey"} : Failed(l, code)
    BY <2>1
  <2>3. layer' = l /\ answer' = Error(Wrapped(code)) /\ answer'.kind = "error"
        /\ answer'.code = Wrapped(code)
    BY <2>2 DEF Failed, Error
  <2>4. CASE request.entry # "decryptWithPassword"
    <3>1. Wrapped(code) # "SymmetricWrongPassword"
      BY <2>4 DEF Wrapped
    <3> QED
      BY <2>3, <3>1, PlainKept, RefusalIsPlain
  <2>5. CASE request.entry = "decryptWithPassword"
    <3>1. CASE l = "malformed"
      <4>1. ~WellFormed
        <5>1. Contents = {} => ~WellFormed
          BY FS_EmptySet DEF WellFormed
        <5>2. Contents # {} => ~WellFormed
          BY <3>1 DEF Readings, ContainerTags
        <5> QED
          BY <5>1, <5>2
      <4> QED
        BY <1>1, <2>3, <3>1, <4>1, BlameIsTold DEF PasswordIsNotBlamed
    <3>2. CASE l = "encrypted"
      <4>1. Contents # {}
        BY <3>2 DEF Readings
      <4>2. FirstContent.tag # "AED"
        BY <1>0, <2>5, <4>1, PasswordMeetsNoAED
      <4>3. ~AcceptsPassword(request.password)
        BY <2>1, <2>5, <3>2, <4>2 DEF Credential
      <4> QED
        BY <1>1, <2>3, <4>2, <4>3, BlameIsTold DEF PasswordIsNotBlamed
    <3> QED
      BY <2>1, <3>1, <3>2
  <2> QED
    BY <2>4, <2>5
<1> QED
  BY <1>2, <1>3

LEMMA ReadIsHonest ==
  ASSUME OpenIInv, [OpenNext]_openVars, Read PROVE OpenedHonestly'
<1>0. /\ request' = request /\ request \in Requests /\ phase = "read" /\ LayerIsOpened /\ WaysAreKept
      /\ FrameIsTrue /\ layer' = layer /\ framing' = framing /\ inflated' = inflated
  BY RequestStays DEF OpenIInv, Read, Answer, Failed
<1>1. /\ message' = message /\ FirstContent' = FirstContent /\ WellFormed' = WellFormed
      /\ lines' = lines /\ Limit' = Limit /\ Capped' = Capped /\ IsDecrypt' = IsDecrypt
  BY <1>0, ReadOff
<1>2. \A k : OpensTo(k)' = OpensTo(k) /\ AcceptsPassword(k)' = AcceptsPassword(k)
  BY <1>0, CredentialStays
<1>3. FirstContent.tag = "AED" => ~WellFormed
  BY <1>0 DEF LayerIsOpened, ContainerTags
<1>4. CASE \E code \in {"OutputCapReached", "TooLarge"} : Failed(layer, code)
  <2>1. PICK code \in {"OutputCapReached", "TooLarge"} : answer' = Error(Wrapped(code))
    BY <1>4 DEF Failed
  <2>2. Wrapped(code) # "SymmetricWrongPassword"
    BY DEF Wrapped
  <2> QED
    BY <2>1, <2>2, PlainKept, RefusalIsPlain
<1>5. CASE message.damaged /\ Failed(layer, "Damaged")
  <2>1. answer'.kind = "error"
    BY <1>5 DEF Failed, Error
  <2>2. PasswordIsNotBlamed'
    BY <1>1, <1>3, <1>5 DEF PasswordIsNotBlamed
  <2> QED
    BY <2>1, <2>2, BlameIsTold
<1>6. CASE ~ReadFails /\ ~message.damaged
           /\ \E body \in VerifiedBodies : ~BodyHolds(body) /\ Failed(layer, "TextOutsideSignature")
  <2>1. ~IsDecrypt
    BY <1>0, <1>6 DEF WaysAreKept, BodyHolds
  <2>2. Wrapped("TextOutsideSignature") = "TextOutsideSignature"
    BY <2>1 DEF IsDecrypt, Wrapped
  <2>3. answer' = Error("TextOutsideSignature")
    BY <1>6, <2>2 DEF Failed
  <2> QED
    BY <2>3, PlainKept, RefusalIsPlain
<1>7. CASE answer' = Error("NotEncrypted")
  BY <1>7, PlainKept, RefusalIsPlain
<1>8. ASSUME ~ReadFails, ~NeverEncrypted, NEW body, BodyHolds(body),
             answer' = [kind |-> "content", body |-> body, report |-> ProcessSignatures(message.results)]
      PROVE  OpenedHonestly'
  <2>1. /\ answer'.kind = "content" /\ answer'.body = body
        /\ answer'.report = ProcessSignatures(message.results)
    BY <1>8
  <2>2. DecryptedMeansEncrypted'
    <3>1. IsDecrypt => layer = "encrypted" /\ Credential(request.key, request.password)
      BY <1>0, <1>8 DEF LayerIsOpened, NeverEncrypted
    <3> QED
      BY <1>0, <1>1, <1>2, <3>1 DEF DecryptedMeansEncrypted, Credential, IsDecrypt
  <2>3. OpenedMeansPlain'
    BY <1>0, <1>1 DEF OpenedMeansPlain, LayerIsOpened
  <2>4. PasswordIsNotBlamed' /\ ShapeIsWhole' /\ SelectedKeyOpens'
    BY <2>1 DEF PasswordIsNotBlamed, ShapeIsWhole, SelectedKeyOpens
  <2>5. ValidMeansGood'
    BY <1>0, <1>1, <2>1, SignaturesAreReported DEF ValidMeansGood
  <2>6. ShownIsSigned'
    <3>1. framing # None /\ framing.kind = "cleartext" => body = framing.shown
      BY <1>8 DEF BodyHolds
    <3>2. framing # None => FrameIsOfTheText(framing)
      BY <1>0 DEF FrameIsTrue
    <3> QED
      BY <1>0, <1>1, <2>1, <3>1, <3>2 DEF ShownIsSigned, FrameIsOfTheText, Holds
  <2>7. CeilingsHold'
    <3>1. message.size <= (IF Capped THEN request.cap ELSE Limit)
      <4>1. message.size \in Nat /\ message.len \in Nat /\ request.cap \in Nat \union {None}
        BY <1>0, RequestIsWhole
      <4>2. Limit \in Nat
        BY <4>1, OpenLimits DEF Limit, DecryptLimit, Lesser, Greater
      <4>3. Capped /\ request.cap = None => FALSE
        BY DEF Capped
      <4> QED
        BY <1>8, <4>1, <4>2, <4>3 DEF ReadFails
    <3>2. WithinCap'
      BY CapKept
    <3> QED
      BY <1>0, <1>1, <3>1, <3>2 DEF CeilingsHold, WithinCap
  <2> QED
    BY <2>2, <2>3, <2>4, <2>5, <2>6, <2>7 DEF OpenedHonestly
<1>9. ReadError \in {"OutputCapReached", "TooLarge"}
  BY DEF ReadError
<1> QED
  BY <1>4, <1>5, <1>6, <1>7, <1>8, <1>9 DEF Read, Answer

LEMMA HonestKept == OpenIInv /\ [OpenNext]_openVars => OpenedHonestly'
<1> SUFFICES ASSUME OpenIInv, [OpenNext]_openVars PROVE OpenedHonestly'
  OBVIOUS
<1>0. NotYet /\ request' = request /\ OpenedHonestly
  BY RequestStays DEF OpenIInv
<1>1. CASE WalkHeader \/ EndOfHeader
  <2>1. answer' = Unanswered
    BY <1>0, <1>1 DEF WalkHeader, EndOfHeader, NotYet
  <2> QED
    BY <2>1, PlainKept, UnansweredIsPlain
<1>2. CASE DecryptWithHandle \/ DecryptWithPassword \/ OpenUnencrypted
  <2>1. answer' \in {Unanswered, Error("NotEncrypted"), Error("Locked"), Error("OcbUnsupported"),
                     Error("Encrypted"), Error("TextOutsideSignature")}
    BY <1>0, <1>2 DEF DecryptWithHandle, DecryptWithPassword, OpenUnencrypted, Answer, GoTo, Asked, NotYet
  <2> QED
    BY <2>1, PlainKept, UnansweredIsPlain, RefusalIsPlain
<1>3. CASE CheckFraming
  <2>1. \/ answer' = Unanswered \/ answer' = Error("TooLarge")
        \/ CheckSignedFraming.kind = "refused" /\ answer' = Error(CheckSignedFraming.code)
    BY <1>0, <1>3 DEF CheckFraming, Answer, NotYet
  <2> QED
    BY <2>1, PlainKept, UnansweredIsPlain, RefusalIsPlain, FramingRefusals
<1>4. CASE WithOutputCap
  <2>1. Plain(answer')
    BY <1>4 DEF WithOutputCap, Plain, Blames
  <2> QED
    BY <2>1, PlainKept
<1>5. CASE UNCHANGED openVars
  <2>1. /\ message' = message /\ FirstContent' = FirstContent /\ WellFormed' = WellFormed /\ packets' = packets
        /\ lines' = lines /\ Limit' = Limit /\ Capped' = Capped /\ IsDecrypt' = IsDecrypt
    BY <1>0, ReadOff
  <2>2. \A k : OpensTo(k)' = OpensTo(k) /\ AcceptsPassword(k)' = AcceptsPassword(k)
    BY <1>0, CredentialStays
  <2>3. /\ request' = request /\ phase' = phase /\ at' = at /\ layer' = layer /\ framing' = framing
        /\ inflated' = inflated /\ answer' = answer
    BY <1>5 DEF openVars
  <2>4. DecryptedMeansEncrypted' = DecryptedMeansEncrypted /\ OpenedMeansPlain' = OpenedMeansPlain
    BY <2>1, <2>2, <2>3 DEF DecryptedMeansEncrypted, OpenedMeansPlain, Contented
  <2>5. PasswordIsNotBlamed' = PasswordIsNotBlamed
    BY <2>1, <2>2, <2>3 DEF PasswordIsNotBlamed
  <2>6. ShapeIsWhole' = ShapeIsWhole
    <3>1. Lesser(at', Len(packets')) = Lesser(at, Len(packets))
      BY <2>1, <2>3
    <3> QED
      BY <2>1, <2>3, <3>1 DEF ShapeIsWhole
  <2>7. SelectedKeyOpens' = SelectedKeyOpens
    <3>1. OpensTo(answer.key)' = OpensTo(answer.key)
      BY <2>1, <2>3 DEF OpensTo
    <3> QED
      BY <2>3, <3>1 DEF SelectedKeyOpens
  <2>8. ValidMeansGood' = ValidMeansGood /\ CeilingsHold' = CeilingsHold
    BY <2>1, <2>3 DEF ValidMeansGood, CeilingsHold, Contented
  <2>9. ShownIsSigned' = ShownIsSigned
    BY <2>1, <2>3 DEF ShownIsSigned, Holds, Contented
  <2> QED
    BY <1>0, <2>4, <2>5, <2>6, <2>7, <2>8, <2>9 DEF OpenedHonestly
<1> QED
  BY <1>1, <1>2, <1>3, <1>4, <1>5, ShapeIsTold, SelectionIsTold, ParseIsHonest, ReadIsHonest DEF OpenNext

(* Whatever messages are asked about, of however many packets, lines and        *)
(* signatures, and however the parser reads what is malformed: what the engine  *)
(* says of a message is true of it.                                             *)
THEOREM MessagesAreOpenedHonestly == OpenSpec => []OpenedHonestly
<1>1. OpenInit => OpenIInv
  BY InitWalk, InitWays, InitHonest DEF OpenIInv, OpenInit
<1>2. OpenIInv /\ [OpenNext]_openVars => OpenIInv'
  <2> SUFFICES ASSUME OpenIInv, [OpenNext]_openVars PROVE OpenIInv'
    OBVIOUS
  <2>1. request' \in Requests
    BY RequestStays DEF OpenIInv
  <2> QED
    BY <2>1, WalkKept, WaysKept, LayerKept, FrameKept, NotYetKept, HonestKept DEF OpenIInv
<1>3. OpenIInv => OpenedHonestly
  BY DEF OpenIInv
<1> QED
  BY <1>1, <1>2, <1>3, PTL DEF OpenSpec

---------------------------------------------------------------------------


---------------------------------------------------------------------------
(* Signed packages.                                                        *)

\* What is in a file after n signatures: fields of fields of values, and a signature
\* that was made.
Value(n) == [is : {"id", "spki"}, value : SigningKeys] \union [is : {"sig"}, value : 1..n]
Part2(n) == [wire : Nat, field : Nat, bytes : Seq(Value(n))]
Part1(n) == [wire : Nat, field : Nat, bytes : Seq(Part2(n))]

SignaturesAreMade ==
    /\ signatures \in Seq({signatures[i] : i \in DOMAIN signatures})
    /\ \A i \in DOMAIN signatures :
           \E key \in SigningKeys, named \in SigningKeys, archive \in Archives :
               signatures[i] = Signature(key, named, archive)
FileIsOfFields ==
    /\ crx = Package(crx.start, crx.header, crx.archive)
    /\ crx.header \in Seq(Part1(Len(signatures)))
    /\ crx.archive \in Archives \union {<<>>}
CrxIInv == SignaturesAreMade /\ FileIsOfFields /\ CrxIsSigned

LEMMA SignatureParts ==
  ASSUME NEW key, NEW named, NEW archive
  PROVE  /\ Signature(key, named, archive).by = key
         /\ Signature(key, named, archive).named = named
         /\ Signature(key, named, archive).archive = archive
         /\ Signature(key, named, archive).over = SigningPayload(EncodeSignedData(named), archive)
<1> DEFINE over == SigningPayload(EncodeSignedData(named), archive)
<1>1. Signature(key, named, archive) = [by |-> key, named |-> named, archive |-> archive, over |-> over]
  BY DEF Signature
<1> HIDE DEF over
<1>2. Signature(key, named, archive).over = over
  BY <1>1
<1> QED
  BY <1>1, <1>2 DEF over

LEMMA SignaturesAreWhole ==
  ASSUME SignaturesAreMade
  PROVE  /\ DOMAIN signatures = 1..Len(signatures) /\ Len(signatures) \in Nat
         /\ \A i \in DOMAIN signatures :
               /\ signatures[i].by \in SigningKeys /\ signatures[i].named \in SigningKeys
               /\ signatures[i].archive \in Archives
               /\ signatures[i].over =
                      SigningPayload(EncodeSignedData(signatures[i].named), signatures[i].archive)
<1>1. DOMAIN signatures = 1..Len(signatures) /\ Len(signatures) \in Nat
  BY LenProperties DEF SignaturesAreMade
<1>2. ASSUME NEW i \in DOMAIN signatures
      PROVE  /\ signatures[i].by \in SigningKeys /\ signatures[i].named \in SigningKeys
             /\ signatures[i].archive \in Archives
             /\ signatures[i].over =
                    SigningPayload(EncodeSignedData(signatures[i].named), signatures[i].archive)
  <2>1. PICK key \in SigningKeys, named \in SigningKeys, archive \in Archives :
           signatures[i] = Signature(key, named, archive)
    BY <1>2 DEF SignaturesAreMade
  <2> QED
    BY <2>1, SignatureParts
<1> QED
  BY <1>1, <1>2

\* Two payloads are the same only when the archives are.
LEMMA PayloadTellsArchive ==
  ASSUME NEW S, NEW T, NEW s \in Seq(S), NEW t \in Seq(T), NEW A, NEW B, NEW a \in Seq(A), NEW b \in Seq(B),
         SigningPayload(s, a) = SigningPayload(t, b)
  PROVE  a = b
<1> DEFINE U == Nat \union S \union T \union A \union B
<1>1. s \in Seq(U) /\ t \in Seq(U) /\ a \in Seq(U) /\ b \in Seq(U)
  BY SeqMonotonic
<1>2. Len(s) \in Nat /\ Len(t) \in Nat /\ Len(a) \in Nat /\ Len(b) \in Nat
  BY LenProperties
<1>3. Len(s) \in U /\ Len(t) \in U
  BY <1>2
<1> HIDE DEF U
<1>4. <<Len(s)>> \in Seq(U) /\ <<Len(t)>> \in Seq(U)
  BY <1>3
<1>5. ASSUME NEW x \in Seq(U), NEW y \in Seq(U), Len(x) \in U
      PROVE  /\ SigningPayload(x, y) \in Seq(U) /\ Len(SigningPayload(x, y)) = 1 + Len(x) + Len(y)
             /\ SigningPayload(x, y)[1] = Len(x)
             /\ \A i \in 1..Len(y) : SigningPayload(x, y)[1 + Len(x) + i] = y[i]
  <2> DEFINE h == <<Len(x)>>
             hx == h \o x
  <2>0. h \in Seq(U) /\ Len(h) = 1 /\ h[1] = Len(x) /\ Len(x) \in Nat /\ Len(y) \in Nat
    BY <1>5, LenProperties
  <2>1. /\ hx \in Seq(U) /\ Len(hx) = Len(h) + Len(x)
        /\ \A i \in 1..(Len(h) + Len(x)) : hx[i] = IF i <= Len(h) THEN h[i] ELSE x[i - Len(h)]
    <3> HIDE DEF h
    <3> QED
      BY <1>5, <2>0, ConcatProperties
  <2>2. Len(hx) = 1 + Len(x) /\ hx[1] = Len(x)
    <3> HIDE DEF h, hx
    <3> QED
      BY <2>0, <2>1
  <2>3. SigningPayload(x, y) = hx \o y
    BY DEF SigningPayload
  <2> HIDE DEF hx
  <2>4. /\ hx \o y \in Seq(U) /\ Len(hx \o y) = Len(hx) + Len(y)
        /\ \A i \in 1..(Len(hx) + Len(y)) : (hx \o y)[i] = IF i <= Len(hx) THEN hx[i] ELSE y[i - Len(hx)]
    <3>1. hx \in Seq(U) /\ y \in Seq(U)
      BY <1>5, <2>1
    <3> QED
      BY <3>1, ConcatProperties
  <2> DEFINE p == hx \o y
  <2> HIDE DEF p
  <2>5. /\ p \in Seq(U) /\ Len(p) = Len(hx) + Len(y)
        /\ \A i \in 1..(Len(hx) + Len(y)) : p[i] = IF i <= Len(hx) THEN hx[i] ELSE y[i - Len(hx)]
    BY <2>4 DEF p
  <2>6. p[1] = Len(x) /\ Len(p) = 1 + Len(x) + Len(y)
    BY <2>0, <2>2, <2>5
  <2>7. \A i \in 1..Len(y) : p[1 + Len(x) + i] = y[i]
    <3> SUFFICES ASSUME NEW i \in 1..Len(y) PROVE p[1 + Len(x) + i] = y[i]
      OBVIOUS
    <3>1. /\ 1 + Len(x) + i \in 1..(Len(hx) + Len(y)) /\ ~(1 + Len(x) + i <= Len(hx))
          /\ 1 + Len(x) + i - Len(hx) = i
      BY <2>0, <2>2
    <3> QED
      BY <2>5, <3>1
  <2> QED
    BY <2>3, <2>5, <2>6, <2>7 DEF p
<1> DEFINE p == SigningPayload(s, a)
<1>6. /\ Len(p) = 1 + Len(s) + Len(a) /\ p[1] = Len(s)
      /\ \A i \in 1..Len(a) : p[1 + Len(s) + i] = a[i]
  BY <1>1, <1>3, <1>5
<1>7. /\ Len(p) = 1 + Len(t) + Len(b) /\ p[1] = Len(t)
      /\ \A i \in 1..Len(b) : p[1 + Len(t) + i] = b[i]
  <2>1. p = SigningPayload(t, b)
    OBVIOUS
  <2> HIDE DEF p
  <2> QED
    BY <1>1, <1>3, <1>5, <2>1
<1> HIDE DEF p
<1>8. Len(s) = Len(t)
  BY <1>6, <1>7
<1>9. Len(a) = Len(b)
  <2>1. 1 + Len(s) + Len(a) = 1 + Len(t) + Len(b)
    BY <1>6, <1>7
  <2> QED
    BY <1>2, <1>8, <2>1
<1>10. \A i \in 1..Len(a) : a[i] = b[i]
  BY <1>6, <1>7, <1>8, <1>9
<1> QED
  BY <1>1, <1>9, <1>10, SeqEqual

\* The last field of a kind is a field of the file.
LEMMA LastIsThere ==
  ASSUME NEW S, NEW buf \in Seq(S), NEW positions, positions \subseteq DOMAIN buf, positions # {}
  PROVE  LastIn(positions) \in positions /\ buf[LastIn(positions)] \in S
<1>1. DOMAIN buf = 1..Len(buf) /\ Len(buf) \in Nat
  BY LenProperties
<1>2. \E i \in positions : \A j \in positions : i >= j
  BY <1>1, Greatest
<1>3. LastIn(positions) \in positions
  BY <1>2 DEF LastIn
<1> QED
  BY <1>1, <1>3, ElementOfSeq

LEMMA AllOfIsWithin == ASSUME NEW buf, NEW n PROVE AllOf(buf, n) \subseteq DOMAIN buf
  BY DEF AllOf, FieldsRead

---------------------------------------------------------------------------
(* What is found valid was signed.                                         *)

LEMMA VerdictIsSaid ==
  ASSUME NEW header, NEW id, NEW payload, Verdict(header, id, payload).said = "valid"
  PROVE  /\ Verdict(header, id, payload).id = id
         /\ \E i \in AllOf(header, 2) : ProofVerifies(header[i].bytes, id, payload)
<1> DEFINE Valid == \E i \in {k \in AllOf(header, 2) : ProofVerifies(header[k].bytes, id, payload)} :
                       \A j \in AllOf(header, 2) : j <= i => Readable(header[j].bytes)
<1>1. Verdict(header, id, payload) =
        IF Valid THEN [said |-> "valid", id |-> id]
        ELSE IF \A i \in AllOf(header, 2) : Readable(header[i].bytes)
             THEN [said |-> "invalid", id |-> id] ELSE Failure
  BY DEF Verdict
<1>2. Failure.said # "valid"
  BY DEF Failure
<1>3. CASE Valid
  <2>1. Verdict(header, id, payload).id = id
    <3> HIDE DEF Valid
    <3> QED
      BY <1>1, <1>3
  <2> QED
    BY <1>3, <2>1
<1>4. CASE ~Valid
  <2> HIDE DEF Valid
  <2> QED
    BY <1>1, <1>2, <1>4
<1> QED
  BY <1>3, <1>4

LEMMA ValidIsSigned ==
  ASSUME SignaturesAreMade, FileIsOfFields, VerifyCrxChecked(crx).said = "valid"
  PROVE  \E i \in DOMAIN signatures :
             /\ signatures[i].by = VerifyCrxChecked(crx).id
             /\ signatures[i].archive = crx.archive
<1> DEFINE n == Len(signatures)
           header == crx.header
           signed == SignedHeader(header)
           id == SignedCrxId(signed)
           payload == SigningPayload(signed, crx.archive)
           verdict == Verdict(header, id, payload)
<1>1. header \in Seq(Part1(n))
  BY DEF FileIsOfFields
<1>2. AllOf(header, 10000) # {} /\ VerifyCrxChecked(crx) = verdict
  <2>1. Failure.said # "valid"
    BY DEF Failure
  <2>2. VerifyCrxChecked(crx) =
          IF ~WellStarted(crx) \/ AllOf(header, 10000) = {} THEN Failure
          ELSE IF ~Readable(signed) \/ SignedIds(signed) = {} \/ AllOf(header, 2) = {}
               THEN Failure ELSE verdict
    BY DEF VerifyCrxChecked
  <2> HIDE DEF header, signed, verdict
  <2> QED
    BY <2>1, <2>2
<1>3. verdict.said = "valid"
  BY <1>2
<1>4. signed \in Seq(Part2(n))
  <2>1. header[LastIn(AllOf(header, 10000))] \in Part1(n)
    BY <1>1, <1>2, AllOfIsWithin, LastIsThere
  <2> QED
    BY <2>1 DEF SignedHeader, LastOf, Part1
<1>5. verdict.id = id /\ \E i \in AllOf(header, 2) : ProofVerifies(header[i].bytes, id, payload)
  <2> HIDE DEF header, id, payload
  <2> QED
    BY <1>3, VerdictIsSaid
<1>6. PICK i \in AllOf(header, 2) : ProofVerifies(header[i].bytes, id, payload)
  BY <1>5
<1>7. header[i].bytes \in Seq(Part2(n))
  <2>1. i \in 1..Len(header)
    BY <1>1, AllOfIsWithin, LenProperties
  <2>2. header[i] \in Part1(n)
    BY <1>1, <2>1, ElementOfSeq
  <2> QED
    BY <2>2 DEF Part1
<1> DEFINE proof == header[i].bytes
           key == FromPublicKeyDer(LastOf(proof, 1))
           sig == LastOf(proof, 2)
<1>8. AllOf(proof, 2) # {} /\ key = id /\ SignatureVerifies(sig, key, payload)
  BY <1>6 DEF ProofVerifies, NamesExtension
<1>9. sig \in Seq(Value(n))
  <2> HIDE DEF proof
  <2>1. proof[LastIn(AllOf(proof, 2))] \in Part2(n)
    BY <1>7, <1>8, AllOfIsWithin, LastIsThere DEF proof
  <2> QED
    BY <2>1 DEF LastOf, Part2
<1> HIDE DEF header, signed, id, payload, verdict, proof, key, sig
<1>10. Len(sig) = 1 /\ sig[1].is = "sig"
  <2>1. HoldsOnly(sig, "sig")
    BY <1>8 DEF SignatureVerifies
  <2> QED
    BY <2>1 DEF HoldsOnly
<1>11. sig[1] \in Value(n)
  <2>1. 1 \in 1..Len(sig)
    BY <1>10
  <2> QED
    BY <1>9, <2>1, ElementOfSeq
<1>12. sig[1].value \in 1..n
  BY <1>10, <1>11 DEF Value
<1> DEFINE k == sig[1].value
<1>13. k \in DOMAIN signatures /\ signatures[k].by = key /\ signatures[k].over = payload
  BY <1>8, <1>12, SignaturesAreWhole DEF SignatureVerifies
<1> HIDE DEF k
<1>14. signatures[k].archive = crx.archive
  <2> DEFINE sd == EncodeSignedData(signatures[k].named)
             a == signatures[k].archive
  <2>1. a \in Archives /\ signatures[k].over = SigningPayload(sd, a)
    BY <1>13, SignaturesAreWhole
  <2>2. a \in Seq({a[j] : j \in DOMAIN a})
    BY <2>1, CrxConstants
  <2>3. crx.archive \in Seq({crx.archive[j] : j \in DOMAIN crx.archive})
    BY CrxConstants, EmptySeq DEF FileIsOfFields
  <2>4. sd \in Seq({Field(1, CrxId(signatures[k].named))})
    BY DEF EncodeSignedData
  <2>5. SigningPayload(sd, a) = SigningPayload(signed, crx.archive)
    BY <1>13, <2>1 DEF payload
  <2> HIDE DEF sd, a
  <2>6. a = crx.archive
    BY <1>4, <2>2, <2>3, <2>4, <2>5, PayloadTellsArchive
  <2> QED
    BY <2>6 DEF a
<1> QED
  BY <1>2, <1>5, <1>8, <1>13, <1>14

---------------------------------------------------------------------------
(* A package as it was assembled is found valid.                           *)

LEMMA OneField ==
  ASSUME NEW bytes, NEW k \in {1, 2, 10000}
  PROVE  /\ Field(k, bytes).wire = 2 /\ Field(k, bytes).field = k /\ Field(k, bytes).bytes = bytes
         /\ Field(k, bytes) \notin {CutScalar, TooLong, OddWire}
<1>1. Field(k, bytes).wire = 2 /\ Field(k, bytes).field = k /\ Field(k, bytes).bytes = bytes
  BY DEF Field
<1>2. CutScalar.wire = 5 /\ TooLong.field = 0 /\ OddWire.wire = 3
  BY DEF CutScalar, TooLong, OddWire
<1> QED
  BY <1>1, <1>2

\* A file with no cut or unknown field.
Whole(buf) == \A i \in DOMAIN buf : buf[i] \notin {CutScalar, TooLong, OddWire}
LEMMA LastOfOne == ASSUME NEW k \in Nat PROVE LastIn({k}) = k
  BY DEF LastIn

LEMMA PairIsRead ==
  ASSUME NEW first, NEW second, NEW k \in {1, 2}, NEW m \in {2, 10000}, k # m,
         NEW buf, buf = <<Field(k, first), Field(m, second)>>
  PROVE  /\ Readable(buf) /\ AllOf(buf, k) = {1} /\ AllOf(buf, m) = {2}
         /\ LastOf(buf, k) = first /\ LastOf(buf, m) = second
         /\ buf[1].bytes = first /\ buf[2].bytes = second
<1> DEFINE f == Field(k, first)
           g == Field(m, second)
<1>1. /\ f.wire = 2 /\ f.field = k /\ f.bytes = first /\ g.wire = 2 /\ g.field = m /\ g.bytes = second
      /\ f \notin {CutScalar, TooLong, OddWire} /\ g \notin {CutScalar, TooLong, OddWire}
  BY OneField
<1> HIDE DEF f, g
<1>2. DOMAIN buf = 1..2 /\ buf[1] = f /\ buf[2] = g
  <2>1. buf = <<f, g>>
    BY DEF f, g
  <2> QED
    BY <2>1
<1>3. FieldsRead(buf) = 1..2 /\ Readable(buf)
  <2>1. Whole(buf)
    BY <1>1, <1>2 DEF Whole
  <2>2. 2 \in Nat /\ DOMAIN buf = 1..2
    BY <1>2
  <2>3. FieldsRead(buf) = 1..2
    BY <2>1, <2>2 DEF FieldsRead, Whole
  <2>4. Readable(buf)
    BY <2>1, <2>2, <2>3 DEF Readable, Whole
  <2> QED
    BY <2>3, <2>4
<1>4. AllOf(buf, k) = {1}
  BY <1>1, <1>2, <1>3 DEF AllOf
<1>5. AllOf(buf, m) = {2}
  BY <1>1, <1>2, <1>3 DEF AllOf
<1>6. LastOf(buf, k) = first /\ LastOf(buf, m) = second
  BY <1>1, <1>2, <1>4, <1>5, LastOfOne DEF LastOf
<1> QED
  BY <1>1, <1>2, <1>3, <1>4, <1>5, <1>6

LEMMA AssembledIsValid ==
  ASSUME SignaturesAreMade, NEW i \in DOMAIN signatures,
         signatures[i].named = signatures[i].by
  PROVE  VerifyCrxChecked(Assembled(i)) = [said |-> "valid", id |-> signatures[i].by]
<1> DEFINE s == signatures[i]
           key == s.by
           spki == Bytes("spki", key)
           sig == Bytes("sig", i)
           proof == EncodeProof(spki, sig)
           sd == EncodeSignedData(key)
           header == EncodeHeader(proof, sd)
           payload == SigningPayload(sd, s.archive)
           file == Assembled(i)
<1>1. key \in SigningKeys /\ key # Nobody /\ s.over = payload
  BY SignaturesAreWhole, CrxConstants
<1>2. file = [start |-> "Cr24 3", header |-> header, archive |-> s.archive]
  BY DEF Assembled, Package
<1>3. /\ Readable(header) /\ AllOf(header, 2) = {1} /\ AllOf(header, 10000) = {2}
      /\ LastOf(header, 10000) = sd /\ header[1].bytes = proof
  <2>1. header = <<Field(2, proof), Field(10000, sd)>>
    BY DEF EncodeHeader
  <2> HIDE DEF header, proof, sd
  <2>2. 2 \in {1, 2} /\ 10000 \in {2, 10000} /\ 2 # 10000
    OBVIOUS
  <2>3. Readable(header) /\ AllOf(header, 2) = {1} /\ AllOf(header, 10000) = {2}
    BY <2>1, <2>2, PairIsRead
  <2>4. LastOf(header, 10000) = sd
    BY <2>1, <2>2, PairIsRead
  <2>5. header[1].bytes = proof
    <3>1. header[1] = Field(2, proof)
      BY <2>1
    <3> QED
      BY <3>1, OneField
  <2> QED
    BY <2>3, <2>4, <2>5
<1>4. /\ Readable(proof) /\ AllOf(proof, 1) = {1} /\ AllOf(proof, 2) = {2}
      /\ LastOf(proof, 1) = spki /\ LastOf(proof, 2) = sig
  <2>1. proof = <<Field(1, spki), Field(2, sig)>>
    BY DEF EncodeProof
  <2> HIDE DEF proof, spki, sig
  <2> QED
    BY <2>1, PairIsRead
<1>5. /\ Len(spki) = 1 /\ spki[1].is = "spki" /\ spki[1].value = key
      /\ Len(sig) = 1 /\ sig[1].is = "sig" /\ sig[1].value = i
  BY DEF Bytes
<1>6. Readable(sd) /\ SignedIds(sd) = {1} /\ SignedCrxId(sd) = key
  <2> DEFINE idBytes == CrxId(key)
             f == Field(1, idBytes)
  <2>1. f.wire = 2 /\ f.field = 1 /\ f.bytes = idBytes /\ f \notin {CutScalar, TooLong, OddWire}
    BY OneField
  <2>2. Len(idBytes) = 1 /\ idBytes[1].is = "id" /\ idBytes[1].value = key
    BY DEF CrxId, Bytes
  <2>3. sd = <<f>>
    BY DEF EncodeSignedData
  <2> HIDE DEF f, sd, idBytes
  <2>4. DOMAIN sd = 1..1 /\ sd[1] = f
    BY <2>3
  <2>5. FieldsRead(sd) = 1..1 /\ Readable(sd)
    <3>1. Whole(sd)
      BY <2>1, <2>4 DEF Whole
    <3>2. 1 \in Nat /\ DOMAIN sd = 1..1
      BY <2>4
    <3>3. FieldsRead(sd) = 1..1
      BY <3>1, <3>2 DEF FieldsRead, Whole
    <3>4. Readable(sd)
      BY <3>1, <3>2, <3>3 DEF Readable, Whole
    <3> QED
      BY <3>3, <3>4
  <2>6. AllOf(sd, 1) = {1}
    BY <2>1, <2>4, <2>5 DEF AllOf
  <2>7. SignedIds(sd) = {1}
    BY <2>1, <2>2, <2>4, <2>6 DEF SignedIds, SixteenBytes
  <2>8. SignedCrxId(sd) = key
    <3>1. LastIn(SignedIds(sd)) = 1
      BY <2>7, LastOfOne
    <3> QED
      BY <2>1, <2>2, <2>4, <3>1 DEF SignedCrxId
  <2> QED
    BY <2>5, <2>7, <2>8
<1> HIDE DEF spki, sig, proof, sd, header, payload, s, key, file
<1>7. ProofVerifies(proof, key, payload)
  <2>1. FromPublicKeyDer(LastOf(proof, 1)) = key
    BY <1>4, <1>5 DEF FromPublicKeyDer, HoldsOnly
  <2>2. SignatureVerifies(LastOf(proof, 2), key, payload)
    <3>1. signatures[i].by = key /\ signatures[i].over = payload
      BY <1>1 DEF s, key
    <3> QED
      BY <1>4, <1>5, <3>1 DEF SignatureVerifies, HoldsOnly
  <2> QED
    BY <1>1, <1>4, <2>1, <2>2 DEF ProofVerifies, NamesExtension
<1>8. Verdict(header, key, payload) = [said |-> "valid", id |-> key]
  <2>1. \E k \in {j \in AllOf(header, 2) : ProofVerifies(header[j].bytes, key, payload)} :
            \A j \in AllOf(header, 2) : j <= k => Readable(header[j].bytes)
    BY <1>3, <1>4, <1>7
  <2> QED
    BY <2>1 DEF Verdict
<1>9. file.header = header
  BY <1>2
<1>10. WellStarted(file)
  <2>1. file.start = "Cr24 3"
    BY <1>2
  <2>2. Readable(file.header)
    BY <1>3, <1>9
  <2> QED
    BY <2>1, <2>2 DEF WellStarted
<1>11. SigningPayload(sd, file.archive) = payload
  <2>1. file.archive = s.archive
    BY <1>2
  <2> QED
    BY <2>1 DEF payload
<1>12. SignedHeader(header) = sd
  BY <1>3 DEF SignedHeader
<1>13. AllOf(header, 10000) # {} /\ AllOf(header, 2) # {}
  BY <1>3
<1>14. VerifyCrxChecked(file) = Verdict(header, SignedCrxId(sd), SigningPayload(sd, file.archive))
  BY <1>6, <1>9, <1>10, <1>12, <1>13 DEF VerifyCrxChecked
<1>15. VerifyCrxChecked(file) = [said |-> "valid", id |-> key]
  BY <1>6, <1>8, <1>11, <1>14
<1> QED
  BY <1>15 DEF file, key, s

---------------------------------------------------------------------------
(* What is assembled, and what becomes of it outside, are fields.          *)

LEMMA OwnElements == ASSUME NEW S, NEW s \in Seq(S) PROVE s \in Seq({s[i] : i \in DOMAIN s})
<1> DEFINE T == {s[i] : i \in DOMAIN s}
<1>1. Len(s) \in Nat /\ s \in [1..Len(s) -> S] /\ DOMAIN s = 1..Len(s)
  BY LenProperties
<1>2. \A i \in DOMAIN s : s[i] \in T
  OBVIOUS
<1> HIDE DEF T
<1>3. s \in [1..Len(s) -> T]
  BY <1>1, <1>2
<1>4. s \in Seq(T)
  BY <1>1, <1>3
<1> QED
  BY <1>4 DEF T

LEMMA FewInSeq == ASSUME NEW S, NEW x \in S, NEW y \in S PROVE <<x>> \in Seq(S) /\ <<x, y>> \in Seq(S)
  OBVIOUS

LEMMA BytesAreValues ==
  ASSUME NEW n \in Nat
  PROVE  /\ \A key \in SigningKeys : Bytes("spki", key) \in Seq(Value(n)) /\ CrxId(key) \in Seq(Value(n))
         /\ \A i \in 1..n : Bytes("sig", i) \in Seq(Value(n))
         /\ <<>> \in Seq(Value(n)) /\ <<>> \in Seq(Part2(n))
<1>1. \A key \in SigningKeys : Bytes("spki", key) \in Seq(Value(n)) /\ CrxId(key) \in Seq(Value(n))
  <2> SUFFICES ASSUME NEW key \in SigningKeys
               PROVE  Bytes("spki", key) \in Seq(Value(n)) /\ CrxId(key) \in Seq(Value(n))
    OBVIOUS
  <2>1. [is |-> "spki", value |-> key] \in Value(n) /\ [is |-> "id", value |-> key] \in Value(n)
    BY DEF Value
  <2> QED
    BY <2>1, FewInSeq DEF Bytes, CrxId
<1>2. \A i \in 1..n : Bytes("sig", i) \in Seq(Value(n))
  <2> SUFFICES ASSUME NEW i \in 1..n PROVE Bytes("sig", i) \in Seq(Value(n))
    OBVIOUS
  <2>1. [is |-> "sig", value |-> i] \in Value(n)
    BY DEF Value
  <2> QED
    BY <2>1, FewInSeq DEF Bytes
<1> QED
  BY <1>1, <1>2, EmptySeq

LEMMA FieldsAreParts ==
  ASSUME NEW n \in Nat, NEW k \in Nat
  PROVE  /\ \A b \in Seq(Value(n)) : Field(k, b) \in Part2(n)
         /\ \A b \in Seq(Part2(n)) : Field(k, b) \in Part1(n)
  BY DEF Field, Part1, Part2

LEMMA ProofIsOfParts ==
  ASSUME NEW n \in Nat, NEW key \in SigningKeys, NEW i \in 1..n
  PROVE  EncodeProof(Bytes("spki", key), Bytes("sig", i)) \in Seq(Part2(n))
<1>1. Field(1, Bytes("spki", key)) \in Part2(n) /\ Field(2, Bytes("sig", i)) \in Part2(n)
  BY BytesAreValues, FieldsAreParts
<1> QED
  BY <1>1, FewInSeq DEF EncodeProof

LEMMA SignedDataIsOfParts ==
  ASSUME NEW n \in Nat, NEW key \in SigningKeys PROVE EncodeSignedData(key) \in Seq(Part2(n))
<1>1. Field(1, CrxId(key)) \in Part2(n)
  BY BytesAreValues, FieldsAreParts
<1> QED
  BY <1>1, FewInSeq DEF EncodeSignedData

LEMMA HeaderIsOfParts ==
  ASSUME NEW n \in Nat, NEW key \in SigningKeys, NEW named \in SigningKeys, NEW i \in 1..n
  PROVE  EncodeHeader(EncodeProof(Bytes("spki", key), Bytes("sig", i)), EncodeSignedData(named))
             \in Seq(Part1(n))
<1> DEFINE proof == EncodeProof(Bytes("spki", key), Bytes("sig", i))
           sd == EncodeSignedData(named)
<1>1. proof \in Seq(Part2(n)) /\ sd \in Seq(Part2(n))
  BY ProofIsOfParts, SignedDataIsOfParts
<1> HIDE DEF proof, sd
<1>2. Field(2, proof) \in Part1(n) /\ Field(10000, sd) \in Part1(n)
  BY <1>1, FieldsAreParts
<1>3. EncodeHeader(proof, sd) \in Seq(Part1(n))
  BY <1>2, FewInSeq DEF EncodeHeader
<1> QED
  BY <1>3 DEF proof, sd

LEMMA OddOnesAreParts ==
  ASSUME NEW n \in Nat
  PROVE  Before \subseteq Part1(n) /\ Before \subseteq Part2(n)
         /\ After \subseteq Part1(n) /\ After \subseteq Part2(n)
<1>1. ASSUME NEW w \in Nat PROVE /\ [wire |-> w, field |-> 0, bytes |-> <<>>] \in Part1(n)
                                 /\ [wire |-> w, field |-> 0, bytes |-> <<>>] \in Part2(n)
  BY <1>1, EmptySeq DEF Part1, Part2
<1>2. /\ Scalar \in Part1(n) /\ OddWire \in Part1(n) /\ CutScalar \in Part1(n) /\ TooLong \in Part1(n)
  BY <1>1 DEF Scalar, OddWire, CutScalar, TooLong
<1>3. /\ Scalar \in Part2(n) /\ OddWire \in Part2(n) /\ CutScalar \in Part2(n) /\ TooLong \in Part2(n)
  BY <1>1 DEF Scalar, OddWire, CutScalar, TooLong
<1> QED
  BY <1>2, <1>3 DEF Before, After

LEMMA EditedStays ==
  ASSUME NEW T, NEW buf \in Seq(T), NEW fields, fields \subseteq T, Before \subseteq T, After \subseteq T,
         NEW e \in Edited(buf, fields)
  PROVE  e \in Seq(T)
<1>1. ASSUME NEW f \in fields \union Before PROVE <<f>> \o buf \in Seq(T)
  <2>1. <<f>> \in Seq(T)
    BY FewInSeq
  <2> QED
    BY <2>1, ConcatProperties
<1>2. ASSUME NEW f \in fields \union After PROVE Append(buf, f) \in Seq(T)
  BY AppendProperties
<1>3. ASSUME buf # <<>> PROVE Tail(buf) \in Seq(T) /\ SubSeq(buf, 1, Len(buf) - 1) \in Seq(T)
  <2>1. Tail(buf) \in Seq(T)
    BY <1>3, HeadTailProperties
  <2>2. Len(buf) \in Nat
    BY LenProperties
  <2>3. \A i \in 1..(Len(buf) - 1) : buf[i] \in T
    <3> SUFFICES ASSUME NEW i \in 1..(Len(buf) - 1) PROVE buf[i] \in T
      OBVIOUS
    <3>1. i \in 1..Len(buf)
      BY <2>2
    <3> QED
      BY <3>1, ElementOfSeq
  <2>4. 1 \in Int /\ Len(buf) - 1 \in Int
    BY <2>2
  <2>5. SubSeq(buf, 1, Len(buf) - 1) \in Seq(T)
    BY <2>3, <2>4, SubSeqProperties
  <2> QED
    BY <2>1, <2>5
<1>4. \/ \E f \in fields \union Before : e = <<f>> \o buf
      \/ \E f \in fields \union After : e = Append(buf, f)
      \/ buf # <<>> /\ (e = Tail(buf) \/ e = SubSeq(buf, 1, Len(buf) - 1))
  BY DEF Edited
<1> QED
  BY <1>1, <1>2, <1>3, <1>4

LEMMA FieldsToAdd ==
  ASSUME SignaturesAreMade
  PROVE  /\ HeaderFields \subseteq Part1(Len(signatures))
         /\ KeyFields \union SignatureFields \subseteq Part2(Len(signatures))
         /\ IdFields \subseteq Part2(Len(signatures))
<1> DEFINE n == Len(signatures)
<1>1. n \in Nat /\ DOMAIN signatures = 1..n
  BY SignaturesAreWhole
<1> HIDE DEF n
<1>2. /\ \A key \in SigningKeys : Field(1, Bytes("spki", key)) \in Part2(n) /\ Field(1, CrxId(key)) \in Part2(n)
      /\ \A i \in 1..n : Field(2, Bytes("sig", i)) \in Part2(n)
      /\ Field(1, <<>>) \in Part2(n)
  BY <1>1, BytesAreValues, FieldsAreParts
<1>3. KeyFields \subseteq Part2(n)
  BY <1>2 DEF KeyFields
<1>4. SignatureFields \subseteq Part2(n)
  BY <1>1, <1>2 DEF SignatureFields
<1>5. IdFields \subseteq Part2(n)
  BY <1>2 DEF IdFields
<1>6. \A key \in SigningKeys : Field(10000, EncodeSignedData(key)) \in Part1(n)
  BY <1>1, SignedDataIsOfParts, FieldsAreParts
<1>7. \A proof \in Proofs : Field(2, proof) \in Part1(n)
  <2> SUFFICES ASSUME NEW proof \in Proofs PROVE Field(2, proof) \in Part1(n)
    OBVIOUS
  <2>1. PICK key \in SigningKeys, i \in 1..n : proof = EncodeProof(Bytes("spki", key), Bytes("sig", i))
    BY <1>1 DEF Proofs
  <2>2. proof \in Seq(Part2(n))
    BY <1>1, <2>1, ProofIsOfParts
  <2> QED
    BY <1>1, <2>2, FieldsAreParts
<1>8. HeaderFields \subseteq Part1(n)
  BY <1>6, <1>7 DEF HeaderFields
<1> QED
  BY <1>3, <1>4, <1>5, <1>8 DEF n

---------------------------------------------------------------------------
(* The steps.                                                              *)

LEMMA UncheckedIsSigned == ASSUME outcome' = Unchecked PROVE CrxIsSigned'
<1>1. outcome'.said # "valid"
  BY DEF Unchecked
<1> QED
  BY <1>1 DEF CrxIsSigned

LEMMA InitCrx == ASSUME CrxInit PROVE CrxIInv
<1>1. signatures = <<>> /\ outcome = Unchecked /\ crx = Package("none", <<>>, <<>>)
  BY DEF CrxInit
<1>2. DOMAIN signatures = {} /\ Len(signatures) = 0
  BY <1>1
<1>3. SignaturesAreMade
  BY <1>1, <1>2, EmptySeq DEF SignaturesAreMade
<1>4. crx.start = "none" /\ crx.header = <<>> /\ crx.archive = <<>>
  BY <1>1 DEF Package
<1>5. FileIsOfFields
  BY <1>1, <1>4, EmptySeq DEF FileIsOfFields
<1>6. outcome.said # "valid"
  BY <1>1 DEF Unchecked
<1>7. CrxIsSigned
  BY <1>2, <1>6 DEF CrxIsSigned
<1> QED
  BY <1>3, <1>5, <1>7 DEF CrxIInv

LEMMA SignsKept ==
  ASSUME CrxIInv, NEW key \in SigningKeys, NEW named \in SigningKeys, NEW archive \in Archives,
         Signs(key, named, archive)
  PROVE  CrxIInv'
<1> DEFINE n == Len(signatures)
           s == Signature(key, named, archive)
           S == {signatures[i] : i \in DOMAIN signatures} \union {s}
<1>1. signatures \in Seq(S) /\ s \in S
  <2>1. signatures \in Seq({signatures[i] : i \in DOMAIN signatures})
    BY DEF CrxIInv, SignaturesAreMade
  <2> QED
    BY <2>1, SeqMonotonic
<1>2. n \in Nat /\ DOMAIN signatures = 1..n
  BY SignaturesAreWhole DEF CrxIInv
<1>3. signatures' = Append(signatures, s) /\ outcome' = Unchecked /\ crx' = Assembled(Len(signatures))'
  BY DEF Signs
<1> HIDE DEF S, s
<1>4. /\ signatures' \in Seq(S) /\ Len(signatures') = n + 1
      /\ \A i \in 1..n : signatures'[i] = signatures[i]
      /\ signatures'[n + 1] = s
  BY <1>1, <1>3, AppendProperties
<1>5. DOMAIN signatures' = 1..(n + 1)
  BY <1>4, LenProperties
<1> HIDE DEF n
<1>6. signatures' \in Seq({signatures'[i] : i \in DOMAIN signatures'})
  BY <1>4, OwnElements
<1>7. \A i \in DOMAIN signatures' :
          \E k \in SigningKeys, m \in SigningKeys, a \in Archives : signatures'[i] = Signature(k, m, a)
  <2> SUFFICES ASSUME NEW i \in 1..(n + 1)
               PROVE  \E k \in SigningKeys, m \in SigningKeys, a \in Archives :
                          signatures'[i] = Signature(k, m, a)
    BY <1>5
  <2>1. CASE i = n + 1
    BY <1>4, <2>1 DEF s
  <2>2. CASE i # n + 1
    <3>1. i \in 1..n
      BY <1>2, <2>2
    <3>2. \E k \in SigningKeys, m \in SigningKeys, a \in Archives : signatures[i] = Signature(k, m, a)
      BY <1>2, <3>1 DEF CrxIInv, SignaturesAreMade
    <3> QED
      BY <1>4, <3>1, <3>2
  <2> QED
    BY <2>1, <2>2
<1>8. SignaturesAreMade'
  BY <1>6, <1>7 DEF SignaturesAreMade, Signature
<1> DEFINE header == EncodeHeader(EncodeProof(Bytes("spki", key), Bytes("sig", n + 1)),
                                  EncodeSignedData(named))
<1>9. crx' = Package("Cr24 3", header, archive)
  <2>1. s.by = key /\ s.named = named /\ s.archive = archive
    BY SignatureParts DEF s
  <2> QED
    BY <1>3, <1>4, <2>1 DEF Assembled
<1>10. header \in Seq(Part1(n + 1))
  BY <1>2, HeaderIsOfParts
<1> HIDE DEF header
<1>11. FileIsOfFields'
  <2>1. crx'.start = "Cr24 3" /\ crx'.header = header /\ crx'.archive = archive
    BY <1>9 DEF Package
  <2>2. crx' = Package(crx'.start, crx'.header, crx'.archive)
    BY <1>9, <2>1
  <2>3. crx'.header \in Seq(Part1(Len(signatures')))
    BY <1>4, <1>10, <2>1
  <2> QED
    BY <2>1, <2>2, <2>3 DEF FileIsOfFields, Package, Part1, Part2, Value
<1> QED
  BY <1>3, <1>8, <1>11, UncheckedIsSigned DEF CrxIInv

\* A file of the same signatures, of fields again and not checked yet.
LEMMA ChangedFileKept ==
  ASSUME CrxIInv, signatures' = signatures, outcome' = Unchecked,
         NEW start, NEW header \in Seq(Part1(Len(signatures))), NEW archive \in Archives \union {<<>>},
         crx' = Package(start, header, archive)
  PROVE  CrxIInv'
<1>1. SignaturesAreMade'
  BY DEF CrxIInv, SignaturesAreMade, Signature
<1>2. crx'.start = start /\ crx'.header = header /\ crx'.archive = archive
  BY DEF Package
<1>3. FileIsOfFields'
  BY <1>2 DEF FileIsOfFields, Package, Part1, Part2, Value
<1> QED
  BY <1>1, <1>3, UncheckedIsSigned DEF CrxIInv

LEMMA AlteredKept == ASSUME CrxIInv, Altered PROVE CrxIInv'
<1> DEFINE n == Len(signatures)
<1>1. signatures' = signatures /\ outcome' = Unchecked
  BY DEF Altered
<1>2. /\ crx = Package(crx.start, crx.header, crx.archive)
      /\ crx.header \in Seq(Part1(n)) /\ crx.archive \in Archives \union {<<>>}
  BY DEF CrxIInv, FileIsOfFields
<1>3. n \in Nat /\ Before \subseteq Part1(n) /\ Before \subseteq Part2(n)
      /\ After \subseteq Part1(n) /\ After \subseteq Part2(n)
  BY SignaturesAreWhole, OddOnesAreParts DEF CrxIInv
<1>4. HeaderFields \subseteq Part1(n) /\ KeyFields \union SignatureFields \subseteq Part2(n)
      /\ IdFields \subseteq Part2(n)
  BY FieldsToAdd DEF CrxIInv
<1>5. ASSUME NEW start, crx' = [crx EXCEPT !.start = start] PROVE CrxIInv'
  <2>1. crx' = Package(start, crx.header, crx.archive)
    BY <1>2, <1>5 DEF Package
  <2> QED
    BY <1>1, <1>2, <2>1, ChangedFileKept
<1>6. ASSUME NEW archive \in Archives, crx' = [crx EXCEPT !.archive = archive] PROVE CrxIInv'
  <2>1. crx' = Package(crx.start, crx.header, archive)
    BY <1>2, <1>6 DEF Package
  <2>2. archive \in Archives \union {<<>>}
    OBVIOUS
  <2> QED
    BY <1>1, <1>2, <2>1, <2>2, ChangedFileKept
<1>7. ASSUME NEW header \in Seq(Part1(n)), crx' = [crx EXCEPT !.header = header] PROVE CrxIInv'
  <2>1. crx' = Package(crx.start, header, crx.archive)
    BY <1>2, <1>7 DEF Package
  <2> QED
    BY <1>1, <1>2, <1>7, <2>1, ChangedFileKept
<1>8. \A header \in Edited(crx.header, HeaderFields) : header \in Seq(Part1(n))
  BY <1>2, <1>3, <1>4, EditedStays
<1>9. ASSUME NEW i \in DOMAIN crx.header, NEW bytes \in Edited(crx.header[i].bytes, Within(i)),
             crx' = [crx EXCEPT !.header[i].bytes = bytes]
      PROVE  CrxIInv'
  <2> DEFINE old == crx.header
             new == [old EXCEPT ![i] = [old[i] EXCEPT !.bytes = bytes]]
  <2>1. i \in 1..Len(old) /\ old[i] \in Part1(n)
    BY <1>2, LenProperties, ElementOfSeq
  <2>2. Within(i) \subseteq Part2(n)
    BY <1>4 DEF Within
  <2>3. old[i].bytes \in Seq(Part2(n))
    BY <2>1 DEF Part1
  <2>4. bytes \in Seq(Part2(n))
    BY <1>3, <2>2, <2>3, EditedStays
  <2>5. [old[i] EXCEPT !.bytes = bytes] \in Part1(n)
    BY <2>1, <2>4 DEF Part1
  <2>6. new \in Seq(Part1(n))
    BY <1>2, <2>1, <2>5, ExceptSeq
  <2>7. crx' = [crx EXCEPT !.header = new]
    BY <1>9
  <2> HIDE DEF new
  <2> QED
    BY <1>7, <2>6, <2>7
<1> QED
  BY <1>5, <1>6, <1>7, <1>8, <1>9 DEF Altered

LEMMA VerifyCrxKept == ASSUME CrxIInv, VerifyCrx PROVE CrxIInv'
<1>1. signatures' = signatures /\ crx' = crx /\ outcome' = VerifyCrxChecked(crx)
  BY DEF VerifyCrx
<1>2. SignaturesAreMade' /\ FileIsOfFields'
  BY <1>1 DEF CrxIInv, SignaturesAreMade, FileIsOfFields, Signature, Package, Part1, Part2, Value
<1>3. outcome'.said = "valid" =>
          \E i \in DOMAIN signatures : signatures[i].by = outcome'.id /\ signatures[i].archive = crx.archive
  BY <1>1, ValidIsSigned DEF CrxIInv
<1>4. \A i \in DOMAIN signatures :
          crx = Assembled(i) /\ signatures[i].named = signatures[i].by
          => outcome' = [said |-> "valid", id |-> signatures[i].by]
  BY <1>1, AssembledIsValid DEF CrxIInv
<1>5. \A i : Assembled(i)' = Assembled(i)
  BY <1>1 DEF Assembled
<1>6. CrxIsSigned'
  BY <1>1, <1>3, <1>4, <1>5 DEF CrxIsSigned
<1> QED
  BY <1>2, <1>6 DEF CrxIInv

(* Whatever archives are signed, by whatever keys and under whatever names, and *)
(* however often a package is cut, damaged or put together from others: what is *)
(* found valid was signed as it is, and what was assembled is found valid.      *)
THEOREM PackagesAreSigned == CrxSpec => []CrxIsSigned
<1>1. CrxInit => CrxIInv
  BY InitCrx
<1>2. CrxIInv /\ [CrxNext]_crxVars => CrxIInv'
  <2> SUFFICES ASSUME CrxIInv, [CrxNext]_crxVars PROVE CrxIInv'
    OBVIOUS
  <2>1. CASE UNCHANGED crxVars
    BY <2>1 DEF crxVars, CrxIInv, SignaturesAreMade, FileIsOfFields, Signature, Package,
                Part1, Part2, Value, CrxIsSigned, Assembled
  <2> QED
    BY <2>1, SignsKept, AlteredKept, VerifyCrxKept DEF CrxNext, AssembleCrx, AssembledElsewhere
<1>3. CrxIInv => CrxIsSigned
  BY DEF CrxIInv
<1> QED
  BY <1>1, <1>2, <1>3, PTL DEF CrxSpec

---------------------------------------------------------------------------
(* age files.                                                              *)

\* A file has so many stanzas, each with the tag of its key; what is no age file has
\* none.
TagsAreTrue(to) == \A i \in DOMAIN to : to[i].tag = AgeTag[to[i].key]
FileIsWhole(file) ==
    /\ file.to \in Seq({file.to[i] : i \in DOMAIN file.to}) /\ TagsAreTrue(file.to)
    /\ file.kind # "age" => file.to = <<>>
AgeIInv == FileIsWhole(ageFile) /\ AgeIsHonest

LEMMA LinesAreMany ==
  ASSUME NEW list \in LineLists
  PROVE  /\ DOMAIN list = 1..Len(list) /\ Len(list) \in Nat
         /\ \A i \in DOMAIN list : list[i] \in Lines
<1>1. PICK n \in 0..MaxLines : list \in [1..n -> Lines]
  BY DEF LineLists
<1>2. n \in Nat
  BY AgeConstants
<1>3. list \in Seq(Lines)
  BY <1>1, <1>2
<1> QED
  BY <1>3, LenProperties, ElementOfSeq

LEMMA InitAge == AgeInit => AgeIInv
<1> SUFFICES ASSUME AgeInit PROVE AgeIInv
  OBVIOUS
<1>1. ageFile.to = <<>> /\ ageAnswer.how = "none"
  BY DEF AgeInit, NoAge, NoAnswer, Gave
<1>2. FileIsWhole(ageFile)
  BY <1>1, EmptySeq DEF FileIsWhole, TagsAreTrue
<1>3. AgeIsHonest
  BY <1>1 DEF AgeIsHonest
<1> QED
  BY <1>2, <1>3 DEF AgeIInv

LEMMA SealingKept ==
  ASSUME AgeIInv, NEW list \in LineLists, EncryptAgeToRecipients(list) PROVE AgeIInv'
<1>1. DOMAIN list = 1..Len(list) /\ Len(list) \in Nat /\ \A i \in DOMAIN list : list[i] \in Lines
  BY LinesAreMany
<1>2. CASE ageAnswer' = Gave("refused", 0, list) /\ UNCHANGED ageFile
  <2>1. ageAnswer'.how = "refused"
    BY <1>2 DEF Gave
  <2>2. AgeIsHonest'
    BY <2>1 DEF AgeIsHonest
  <2>3. FileIsWhole(ageFile)'
    BY <1>2 DEF AgeIInv, FileIsWhole, TagsAreTrue
  <2> QED
    BY <2>2, <2>3 DEF AgeIInv
<1>3. CASE /\ ageFile' = [kind |-> "age", to |-> [i \in DOMAIN list |-> Stanza(list[i])]]
           /\ ageAnswer' = Gave("sealed", 0, list)
  <2> DEFINE to == [i \in DOMAIN list |-> Stanza(list[i])]
  <2>1. ageFile'.to = to /\ ageFile'.kind = "age"
    BY <1>3
  <2>2. ageAnswer'.how = "sealed" /\ ageAnswer'.lines = list
    BY <1>3 DEF Gave
  <2>3. \A i \in DOMAIN list : to[i].key = list[i].key /\ to[i].type = list[i].inner
                               /\ to[i].tag = AgeTag[list[i].key]
    BY DEF Stanza
  <2>4. DOMAIN to = DOMAIN list
    OBVIOUS
  <2>5. to \in Seq({to[i] : i \in DOMAIN to})
    <3>1. to \in [1..Len(list) -> {to[i] : i \in DOMAIN to}]
      BY <1>1
    <3> HIDE DEF to
    <3> QED
      BY <1>1, <3>1
  <2> HIDE DEF to
  <2>6. FileIsWhole(ageFile)'
    BY <2>1, <2>3, <2>4, <2>5 DEF FileIsWhole, TagsAreTrue
  <2>7. \A i \in DOMAIN list : \E s \in StanzasOf(to) : s.key = list[i].key /\ s.type = list[i].inner
    BY <2>3, <2>4 DEF StanzasOf
  <2>8. AgeIsHonest'
    BY <2>1, <2>2, <2>7 DEF AgeIsHonest, IsRecipient, StanzasOf
  <2> QED
    BY <2>6, <2>8 DEF AgeIInv
<1> QED
  BY <1>2, <1>3 DEF EncryptAgeToRecipients

LEMMA ElsewhereKept == ASSUME AgeIInv, FromElsewhere PROVE AgeIInv'
<1>1. ageAnswer'.how = "none"
  BY DEF FromElsewhere, NoAnswer, Gave
<1>2. FileIsWhole(ageFile)'
  <2>1. CASE ageFile' = [kind |-> "other", to |-> <<>>]
    BY <2>1, EmptySeq DEF FileIsWhole, TagsAreTrue
  <2>2. ASSUME NEW to \in ElsewhereStanzas, ageFile' = [kind |-> "age", to |-> to]
        PROVE  FileIsWhole(ageFile)'
    BY <2>2, AgeConstants DEF FileIsWhole, TagsAreTrue
  <2> QED
    BY <2>1, <2>2 DEF FromElsewhere
<1> QED
  BY <1>1, <1>2 DEF AgeIInv, AgeIsHonest

\* What the scan of a header sees is in the file, and all of it when it is short.
LEMMA ScanSees ==
  ASSUME NEW file, FileIsWhole(file)
  PROVE  /\ StanzasOf(AgeHeaderStanzas(file)) \subseteq StanzasOf(file.to)
         /\ Len(file.to) <= AGE_HEADER_SCAN_LIMIT =>
                StanzasOf(AgeHeaderStanzas(file)) = StanzasOf(file.to)
<1> DEFINE to == file.to
           S == {to[i] : i \in DOMAIN to}
           n == IF Len(to) < AGE_HEADER_SCAN_LIMIT THEN Len(to) ELSE AGE_HEADER_SCAN_LIMIT
           scan == SubSeq(to, 1, n)
<1>1. to \in Seq(S)
  BY DEF FileIsWhole
<1> HIDE DEF S, to
<1>2. DOMAIN to = 1..Len(to) /\ Len(to) \in Nat /\ \A i \in 1..Len(to) : to[i] \in S
  BY <1>1, LenProperties, ElementOfSeq
<1>3. AGE_HEADER_SCAN_LIMIT \in Nat
  BY AgeConstants
<1>4. n \in Nat /\ n <= Len(to) /\ (Len(to) <= AGE_HEADER_SCAN_LIMIT => n = Len(to))
  <2>1. Len(to) \in Nat
    BY <1>2
  <2> QED
    BY <1>3, <2>1
<1> HIDE DEF n
<1>0. \A i \in 1..n : i \in 1..Len(to) /\ 1 + i - 1 = i /\ i \in 1..(n - 1 + 1)
  <2>1. Len(to) \in Nat
    BY <1>2
  <2> QED
    BY <1>4, <2>1
<1>5. scan \in Seq(S) /\ \A i \in 1..(n - 1 + 1) : scan[i] = to[1 + i - 1]
  <2>1. \A i \in 1..n : to[i] \in S
    BY <1>0, <1>2
  <2>2. 1 \in Int /\ n \in Int
    BY <1>4
  <2> QED
    BY <2>1, <2>2, SubSeqProperties
<1>6. Len(scan) = n
  <2>1. \A i \in 1..n : to[i] \in S
    BY <1>0, <1>2
  <2>2. 1 \in Int /\ n \in Int
    BY <1>4
  <2>3. Len(scan) = IF 1 <= n THEN n - 1 + 1 ELSE 0
    BY <2>1, <2>2, SubSeqProperties
  <2> HIDE DEF scan
  <2> QED
    BY <1>4, <2>3
<1>7. AgeHeaderStanzas(file) = scan
  BY DEF AgeHeaderStanzas, n, to
<1> HIDE DEF scan
<1>8. DOMAIN scan = 1..n
  BY <1>5, <1>6, LenProperties
<1>9. \A i \in 1..n : scan[i] = to[i]
  BY <1>0, <1>5
<1>10. StanzasOf(scan) \subseteq StanzasOf(to)
  BY <1>0, <1>2, <1>8, <1>9 DEF StanzasOf
<1>11. n = Len(to) => StanzasOf(scan) = StanzasOf(to)
  BY <1>2, <1>8, <1>9 DEF StanzasOf
<1> QED
  BY <1>4, <1>7, <1>10, <1>11 DEF to

LEMMA SelectionKept ==
  ASSUME AgeIInv, NEW list \in LineLists, SelectAgeDecryptionKey(list) PROVE AgeIInv'
<1> DEFINE hits == Matches(list)
           first == CHOOSE i \in hits : \A j \in hits : i <= j
<1>1. DOMAIN list = 1..Len(list) /\ Len(list) \in Nat /\ \A i \in DOMAIN list : list[i] \in Lines
  BY LinesAreMany
<1>2. ageFile' = ageFile /\ FileIsWhole(ageFile)
  BY DEF SelectAgeDecryptionKey, AgeIInv
<1>3. FileIsWhole(ageFile)'
  BY <1>2 DEF FileIsWhole, TagsAreTrue
<1>4. \A i \in hits : /\ i \in DOMAIN list /\ ParsePublicKeyLine(list[i])
                      /\ \E s \in StanzasOf(ageFile.to) : MatchesStanza(list[i], s)
  BY <1>2, ScanSees DEF Matches
<1>5. CASE IsAgeMessage /\ hits # {}
  <2>1. ageAnswer' = Gave("selected", first, list)
    BY <1>5 DEF SelectAgeDecryptionKey
  <2>2. ageAnswer'.how = "selected" /\ ageAnswer'.who = first /\ ageAnswer'.lines = list
    <3> HIDE DEF first
    <3> QED
      BY <2>1 DEF Gave
  <2>3. first \in hits
    <3>1. hits \subseteq Nat
      BY <1>1 DEF Matches
    <3> HIDE DEF hits
    <3>2. \E i \in hits : \A j \in hits : i <= j
      BY <1>5, <3>1, Least
    <3> QED
      BY <3>2
  <2> HIDE DEF first, hits
  <2>4. PICK s \in StanzasOf(ageFile.to) : MatchesStanza(list[first], s)
    BY <1>4, <2>3
  <2>5. /\ s.type = list[first].label /\ s.tag = AgeTag[list[first].key]
        /\ list[first].key \in DOMAIN AgeTag
    BY <1>1, <1>4, <2>3, <2>4, AgeConstants DEF MatchesStanza, ParsePublicKeyLine
  <2>6. AgeIsHonest'
    BY <1>2, <2>2, <2>4, <2>5 DEF AgeIsHonest
  <2> QED
    BY <1>3, <2>6 DEF AgeIInv
<1>6. CASE ~(IsAgeMessage /\ hits # {})
  <2>1. ageAnswer' = Gave("nobody", 0, list)
    BY <1>6 DEF SelectAgeDecryptionKey
  <2>2. ageAnswer'.how = "nobody" /\ ageAnswer'.lines = list
    BY <2>1 DEF Gave
  <2>3. ASSUME Len(ageFile.to) <= AGE_HEADER_SCAN_LIMIT, NEW i \in DOMAIN list,
               ParsePublicKeyLine(list[i]), IsRecipient(list[i])
        PROVE  FALSE
    <3>1. PICK s \in StanzasOf(ageFile.to) : s.key = list[i].key /\ s.type = list[i].inner
      BY <2>3 DEF IsRecipient
    <3>2. PICK j \in DOMAIN ageFile.to : s = ageFile.to[j]
      BY <3>1 DEF StanzasOf
    <3>3. s.tag = AgeTag[list[i].key]
      BY <1>2, <3>1, <3>2 DEF FileIsWhole, TagsAreTrue
    <3>4. MatchesStanza(list[i], s) /\ s \in StanzasOf(AgeHeaderStanzas(ageFile))
      BY <1>2, <2>3, <3>1, <3>3, ScanSees DEF MatchesStanza
    <3>5. hits # {}
      BY <2>3, <3>4 DEF Matches
    <3>6. ageFile.kind = "age"
      BY <1>2, <3>2 DEF FileIsWhole
    <3> QED
      BY <1>6, <3>5, <3>6 DEF IsAgeMessage
  <2>4. AgeIsHonest'
    BY <1>2, <2>2, <2>3 DEF AgeIsHonest, IsRecipient
  <2> QED
    BY <1>3, <2>4 DEF AgeIInv
<1> QED
  BY <1>5, <1>6

LEMMA OpeningKept ==
  ASSUME AgeIInv, NEW line \in Lines, AgeDecrypt(line) PROVE AgeIInv'
<1>1. ageFile' = ageFile /\ FileIsWhole(ageFile)
  BY DEF AgeDecrypt, AgeIInv
<1>2. FileIsWhole(ageFile)'
  BY <1>1 DEF FileIsWhole, TagsAreTrue
<1>3. CASE Stanza(line) \in StanzasOf(ageFile.to) /\ ageAnswer' = Gave("opened", 0, <<line>>)
  <2>1. ageAnswer'.how = "opened" /\ ageAnswer'.lines[1] = line
    BY <1>3 DEF Gave
  <2>2. IsRecipient(line)
    BY <1>3 DEF IsRecipient, Stanza
  <2>3. AgeIsHonest'
    BY <1>1, <2>1, <2>2 DEF AgeIsHonest, IsRecipient
  <2> QED
    BY <1>2, <2>3 DEF AgeIInv
<1>4. CASE ageAnswer' = Gave("failed", 0, <<line>>)
  <2>1. ageAnswer'.how = "failed"
    BY <1>4 DEF Gave
  <2> QED
    BY <1>2, <2>1 DEF AgeIInv, AgeIsHonest
<1> QED
  BY <1>3, <1>4 DEF AgeDecrypt

(* Whatever lines are pasted, whatever headers other tools write and however    *)
(* many tags fall together: a file sealed opens for every line, the key selected*)
(* is one the header names, and only a recipient's key opens a file.            *)
THEOREM AgeStaysHonest == AgeSpec => []AgeIsHonest
<1>1. AgeInit => AgeIInv
  BY InitAge
<1>2. AgeIInv /\ [AgeNext]_ageVars => AgeIInv'
  <2> SUFFICES ASSUME AgeIInv, [AgeNext]_ageVars PROVE AgeIInv'
    OBVIOUS
  <2>1. CASE UNCHANGED ageVars
    BY <2>1 DEF ageVars, AgeIInv, FileIsWhole, TagsAreTrue, AgeIsHonest, IsRecipient
  <2> QED
    BY <2>1, SealingKept, ElsewhereKept, SelectionKept, OpeningKept DEF AgeNext
<1>3. AgeIInv => AgeIsHonest
  BY DEF AgeIInv
<1> QED
  BY <1>1, <1>2, <1>3, PTL DEF AgeSpec

---------------------------------------------------------------------------
(* The engine as a whole.                                                  *)

(* Whichever part of the engine a behaviour is of, what it keeps secret stays so:*)
(* handles and seals, session keys and drafts, exports, and the pages that make  *)
(* and delete keys.                                                              *)
THEOREM SecretsStayKept == EngineSpec => []SecretsAreKept
<1>1. EngineInit => SecretInit /\ SessionsInit /\ ExportInit /\ KeysInit
  BY DEF EngineInit
<1>2. [EngineNext]_EngineVars => [SecretNext]_secretVars
  BY DEF EngineNext, EngineVars
<1>3. [EngineNext]_EngineVars => [SessionsNext]_sessionVars
  BY DEF EngineNext, EngineVars
<1>4. [EngineNext]_EngineVars => [ExportNext]_exportVars
  BY DEF EngineNext, EngineVars
<1>5. [EngineNext]_EngineVars => [KeysNext]_keyVars
  BY DEF EngineNext, EngineVars
<1>6. SecretsStayTheirs /\ SlotsStayApart /\ ExportsAreKept /\ KeyPagesAreTrue => SecretsAreKept
  BY DEF SecretsAreKept
<1> QED
  BY <1>1, <1>2, <1>3, <1>4, <1>5, <1>6, SecretsStayTheirsAlways, SlotsStayApartAlways,
     ExportsStayKept, KeyPagesStayTrue, PTL
     DEF EngineSpec, SecretSpec, SessionsSpec, ExportSpec, KeysSpec

(* What the engine says of a message, a package or an age file stays true of it,*)
(* whatever the other parts do in between.                                      *)
THEOREM AnswersStayTrue == EngineSpec => []AnswersAreTrue
<1>1. EngineInit => OpenInit /\ CrxInit /\ AgeInit
  BY DEF EngineInit
<1>2. [EngineNext]_EngineVars => [OpenNext]_openVars
  BY DEF EngineNext, EngineVars
<1>3. [EngineNext]_EngineVars => [CrxNext]_crxVars
  BY DEF EngineNext, EngineVars
<1>4. [EngineNext]_EngineVars => [AgeNext]_ageVars
  BY DEF EngineNext, EngineVars
<1>5. OpenedHonestly /\ CrxIsSigned /\ AgeIsHonest => AnswersAreTrue
  BY DEF AnswersAreTrue
<1> QED
  BY <1>1, <1>2, <1>3, <1>4, <1>5, MessagesAreOpenedHonestly, PackagesAreSigned,
     AgeStaysHonest, PTL DEF EngineSpec, OpenSpec, CrxSpec, AgeSpec
===============================================================================
