------------------------------ MODULE Sessions ------------------------------
(***************************************************************************)
(* The session keys of the engine (gpg-wasm/src/sessions.rs) and the       *)
(* envelope the stores are written in (lib/storage/envelope.ts).  The      *)
(* master unlock sets the contacts key; every store is sealed under a      *)
(* subkey of its own slot, drafts under a key of their own that outlives   *)
(* the lock.  Blobs are what lies in storage: anyone who writes storage    *)
(* may leave one in another slot, and older builds left blobs and canaries *)
(* of their own kind.                                                      *)
(***************************************************************************)
EXTENDS Integers

CONSTANTS
    Slots,                   \* storage keys a store is kept under
    Masters,                 \* passwords and passkeys, right or wrong
    Unset,
    MaxDraftKeys             \* bound: draft keys generated

ASSUME SessionConstants == MaxDraftKeys \in Nat /\ Unset \notin Nat

CONTACTS_AAD == <<"contacts">>
CANARY_AAD == <<"master-canary">>

VARIABLES
    contactsKey,             \* CONTACTS_KEY
    draftKey, draftKeys,     \* DRAFT_KEY, and how many there were
    canary,                  \* the master record on disk
    slots,                   \* the stores on disk
    draft,                   \* the panel's last draft
    read,                    \* what the last read gave
    told                     \* what the last password was told

sessionVars == <<contactsKey, draftKey, draftKeys, canary, slots, draft, read, told>>

DeriveContactsKey(master) == <<"contacts", master>>
Box(under, aad, holds) == [under |-> under, aad |-> aad, holds |-> holds]
Opens(blob, under, aad) == blob # Unset /\ blob.under = under /\ blob.aad = aad

\* An older build sealed stores, and its canary, under the session key itself.
LegacyStore(master, slot) == Box(DeriveContactsKey(master), CONTACTS_AAD, slot)
LegacyCanary(master) == Box(DeriveContactsKey(master), CONTACTS_AAD, "canary")

NothingRead == [how |-> "none", slot |-> Unset, blob |-> Unset]
NothingSaid == [said |-> "none", master |-> Unset]
Reads(how, slot, blob) == read' = [how |-> how, slot |-> slot, blob |-> blob]
Says(said, master) == told' = [said |-> said, master |-> master]
Quiet == read' = NothingRead /\ told' = NothingSaid

---------------------------------------------------------------------------
(* The contacts session.                                                   *)

InitContactsSessionWithPrf(master) ==
    /\ contactsKey' = DeriveContactsKey(master)
    /\ Quiet /\ UNCHANGED <<draftKey, draftKeys, canary, slots, draft>>

DropContactsSession ==
    /\ contactsKey # Unset
    /\ contactsKey' = Unset
    /\ Quiet /\ UNCHANGED <<draftKey, draftKeys, canary, slots, draft>>

EncryptCanaryAndInitSession(master) ==
    /\ canary = Unset
    /\ canary' = Box(DeriveContactsKey(master), CANARY_AAD, "canary")
    /\ contactsKey' = DeriveContactsKey(master)
    /\ Quiet /\ UNCHANGED <<draftKey, draftKeys, slots, draft>>

CanaryOpens(master) ==
    \/ Opens(canary, DeriveContactsKey(master), CANARY_AAD)
    \/ Opens(canary, DeriveContactsKey(master), CONTACTS_AAD)

VerifyCanaryAndInitSession(master) ==
    /\ canary # Unset
    /\ \/ /\ CanaryOpens(master)
          /\ contactsKey' = DeriveContactsKey(master) /\ Says("right", master)
       \/ /\ ~CanaryOpens(master)
          /\ Says("wrong", master) /\ UNCHANGED contactsKey
    /\ read' = NothingRead
    /\ UNCHANGED <<draftKey, draftKeys, canary, slots, draft>>

---------------------------------------------------------------------------
(* The stores.                                                             *)

DeriveStoreSubkey(key, slot) == <<"subkey", key, slot>>
StoreAad(slot) == <<"store", slot>>

SealEnvelope(slot) ==
    /\ contactsKey # Unset
    /\ slots' = [slots EXCEPT ![slot] =
           Box(DeriveStoreSubkey(contactsKey, slot), StoreAad(slot), slot)]
    /\ Quiet /\ UNCHANGED <<contactsKey, draftKey, draftKeys, canary, draft>>

DecryptStore(slot, blob) ==
    Opens(blob, DeriveStoreSubkey(contactsKey, slot), StoreAad(slot))
DecryptContacts(blob) == Opens(blob, contactsKey, CONTACTS_AAD)

\* Bound to the slot first, the legacy way when that fails.
OpenEnvelope(slot) ==
    /\ slots[slot] # Unset
    /\ \/ /\ contactsKey # Unset /\ DecryptStore(slot, slots[slot])
          /\ Reads("bound", slot, slots[slot])
       \/ /\ contactsKey # Unset /\ ~DecryptStore(slot, slots[slot])
          /\ DecryptContacts(slots[slot])
          /\ Reads("legacy", slot, slots[slot])
       \/ /\ contactsKey # Unset => /\ ~DecryptStore(slot, slots[slot])
                                   /\ ~DecryptContacts(slots[slot])
          /\ Reads("failed", slot, Unset)
    /\ told' = NothingSaid
    /\ UNCHANGED <<contactsKey, draftKey, draftKeys, canary, slots, draft>>

\* Storage is written by others too: a store, or the canary, in another slot.
Misplaced(slot) ==
    /\ \E blob \in {slots[s] : s \in Slots \ {slot}} \union {canary} :
          blob # Unset /\ slots' = [slots EXCEPT ![slot] = blob]
    /\ Quiet /\ UNCHANGED <<contactsKey, draftKey, draftKeys, canary, draft>>

---------------------------------------------------------------------------
(* Drafts.                                                                 *)

InitDraftSessionIfUnset ==
    /\ IF draftKey # Unset THEN UNCHANGED <<draftKey, draftKeys>>
       ELSE /\ draftKeys < MaxDraftKeys
            /\ draftKeys' = draftKeys + 1
            /\ draftKey' = draftKeys + 1
    /\ Quiet /\ UNCHANGED <<contactsKey, canary, slots, draft>>

\* The panel that drops the key is closed, and its draft with it, or has had
\* its drafts wiped: an old one is kept here to see that it opens no more.
DropDraftSession ==
    /\ draftKey # Unset
    /\ draftKey' = Unset
    /\ draft' = IF draft = Unset THEN Unset ELSE [draft EXCEPT !.kept = FALSE]
    /\ Quiet /\ UNCHANGED <<contactsKey, draftKeys, canary, slots>>

EncryptDraft ==
    /\ draftKey # Unset
    /\ draft' = [under |-> draftKey, kept |-> TRUE]
    /\ Quiet /\ UNCHANGED <<contactsKey, draftKey, draftKeys, canary, slots>>

DraftOpens == draft # Unset /\ draft.under = draftKey
DecryptDraft ==
    /\ draft # Unset
    /\ Reads(IF DraftOpens THEN "draft" ELSE "failed", Unset, Unset)
    /\ told' = NothingSaid
    /\ UNCHANGED <<contactsKey, draftKey, draftKeys, canary, slots, draft>>

---------------------------------------------------------------------------

SessionsInit ==
    /\ contactsKey = Unset /\ draftKey = Unset /\ draftKeys = 0
    /\ canary \in {Unset} \union {LegacyCanary(m) : m \in Masters}
    /\ \E m \in Masters :
          slots \in [Slots -> {Unset} \union {LegacyStore(m, s) : s \in Slots}]
    /\ draft = Unset /\ read = NothingRead /\ told = NothingSaid

SessionsNext ==
    \/ \E m \in Masters :
        \/ InitContactsSessionWithPrf(m) \/ EncryptCanaryAndInitSession(m)
        \/ VerifyCanaryAndInitSession(m)
    \/ DropContactsSession
    \/ \E s \in Slots : SealEnvelope(s) \/ OpenEnvelope(s) \/ Misplaced(s)
    \/ InitDraftSessionIfUnset \/ DropDraftSession \/ EncryptDraft \/ DecryptDraft

SessionsSpec == SessionsInit /\ [][SessionsNext]_sessionVars

---------------------------------------------------------------------------
(* Properties                                                              *)

(* A store reads only what was sealed for it: a blob of this build from another *)
(* slot does not open there, neither bound nor through the fallback for what    *)
(* older builds wrote, and no canary of this build ever passes for a store.     *)
StoresStayApart ==
    read.how \in {"bound", "legacy"} =>
        /\ read.how = "bound" => read.blob.holds = read.slot
        /\ read.how = "legacy" <=> read.blob.aad = CONTACTS_AAD

(* A password told right is the one the canary was made with, and the session   *)
(* is of that password; one told wrong is not, also when an older build made    *)
(* the canary.                                                                  *)
RightMeansRight ==
    /\ told.said = "right" => /\ canary.under = DeriveContactsKey(told.master)
                              /\ contactsKey = canary.under
    /\ told.said = "wrong" => canary.under # DeriveContactsKey(told.master)

(* Whatever is locked meanwhile, a draft the panel has kept opens when it comes *)
(* back, and one of a dropped draft session never does.                         *)
DraftsComeBack == draft # Unset => (draft.kept <=> DraftOpens)

SlotsStayApart == StoresStayApart /\ RightMeansRight /\ DraftsComeBack
=============================================================================
