---------------------------- MODULE SecretStores ----------------------------
(***************************************************************************)
(* Private keys between the disk and the engine (gpg-wasm/src/protected.rs,*)
(* key_store.rs, protect.rs, age.rs and crx.rs, called through             *)
(* lib/pgp/wasm-secrets.ts by the flows of lib/protection, lib/age and     *)
(* lib/crx).  A key is sealed under a password or a passkey's output, bound*)
(* to its kind and to its id; opened, it is known by a handle only.  Calls *)
(* of the engine are atomic; between two of them other flows run, and the  *)
(* key session may drop what a flow holds.                                 *)
(*                                                                         *)
(* A key and its id are one value here: the fingerprint, the SHA256 of an  *)
(* SSH key, or the extension id are derived from the key itself.           *)
(***************************************************************************)
EXTENDS Integers, FiniteSets

CONSTANTS
    Flows,                   \* asynchronous calls of the panel
    Ids, KindOf,             \* the keys, and what each is
    Passwords, Outputs,      \* what a user types; what a passkey evaluates
    MasterOutput,            \* the output for the master's salt
    Found,                   \* the keyrings the panel may find on disk
    PublicOnly,              \* a payload without a private key
    MAX_HANDLE,              \* u32::MAX
    MaxEntries,              \* bound: entries on disk at a time
    Absent

ASSUME SecretConstants ==
    /\ KindOf \in [Ids -> {"pgp", "ssh", "crx"}]
    /\ MasterOutput \in Outputs /\ Passwords \intersect Outputs = {}
    /\ \A found \in Found : found = [id \in Ids |-> found[id]]
    /\ Absent \notin Nat
    /\ {MAX_HANDLE, MaxEntries} \subseteq Nat \ {0}

Stores == {"pgp", "ssh", "crx"}
Handles == 1..(MAX_HANDLE - 1)

VARIABLES
    keyring,                 \* the entries on disk, by id
    stores,                  \* KEY_STORE, SSH_KEY_STORE, CRX_KEY_STORE
    nextHandle,              \* NEXT_HANDLE
    flows,                   \* where each call is
    wrote                    \* the credential each entry was last written for

secretVars == <<keyring, stores, nextHandle, flows, wrote>>

\* A call that begins, and one that moves on with the handle it has.
Begun(step, id, cred, entry) ==
    [step |-> step, id |-> id, cred |-> cred, entry |-> entry,
     handle |-> Absent, opened |-> Absent, got |-> Absent]
Moved(f, step, cred, entry, got) ==
    [step |-> step, id |-> flows[f].id, cred |-> cred, entry |-> entry,
     handle |-> flows[f].handle, opened |-> flows[f].opened, got |-> got]
Resting == Begun("idle", Absent, Absent, Absent)

---------------------------------------------------------------------------
(* Seals: the AES key, the AAD, and what is inside.                        *)

Argon2(password) == <<"argon2", password>>
\* The HKDF info of a passkey's key names the kind as well.
HkdfDerive(kind, output) == <<"hkdf", kind, output>>

AesGcmEncrypt(key, aad, payload) == [under |-> key, aad |-> aad, holds |-> payload]
AesGcmDecrypt(seal, key, aad) == seal.under = key /\ seal.aad = aad

SealWithPassword(kind, id, payload, password) ==
    AesGcmEncrypt(Argon2(password), <<kind, "password", id>>, payload)
SealWithPrf(kind, id, payload, output) ==
    AesGcmEncrypt(HkdfDerive(kind, output), <<kind, "passkey", id>>, payload)

OpenWithPassword(seal, kind, id, password) ==
    AesGcmDecrypt(seal, Argon2(password), <<kind, "password", id>>)
OpenWithPrf(seal, kind, id, output) ==
    AesGcmDecrypt(seal, HkdfDerive(kind, output), <<kind, "passkey", id>>)

\* An entry: how it says it is protected, and the ciphertext.
Entry(way, output, seal) == [way |-> way, output |-> output, seal |-> seal]
IsSealedUnderMaster(e) == e.way = "passkey" /\ e.output = MasterOutput
NeedsMasterReseal(e) == e.way = "passkey" /\ e.output # MasterOutput

---------------------------------------------------------------------------
(* The handle stores.                                                      *)

CanIssue == nextHandle < MAX_HANDLE

\* What each store asks of the bytes it is given.  An OpenPGP payload has to be
\* a private key; an SSH or a CRX one has to be the key its id is made from.
ParsesAsPrivateKey(payload) == payload # PublicOnly /\ KindOf[payload] = "pgp"
ValidateIdentity(payload, id) == payload # PublicOnly /\ payload = id
BelongsToExtension(payload, id) == payload # PublicOnly /\ payload = id

\* Results of an engine call: a handle issued, or the error the flow ends with.
Issued(f, kind, payload, then) ==
    /\ CanIssue
    /\ stores' = [stores EXCEPT ![kind][nextHandle] = payload]
    /\ nextHandle' = nextHandle + 1
    /\ flows' = [flows EXCEPT ![f] =
           [step |-> then, id |-> @.id,
            cred |-> IF then = "held" THEN Absent ELSE @.cred,
            entry |-> IF then = "held" /\ ~NeedsMasterReseal(@.entry) THEN Absent ELSE @.entry,
            handle |-> nextHandle, opened |-> payload, got |-> @.got]]
Refused(f) ==
    /\ flows' = [flows EXCEPT ![f] = Resting]
    /\ UNCHANGED <<stores, nextHandle>>
Issue(f, kind, payload, accepted, then) ==
    \/ accepted /\ Issued(f, kind, payload, then)
    \/ ~(accepted /\ CanIssue) /\ Refused(f)

At(f, step, kind) ==
    /\ flows[f].step = step /\ KindOf[flows[f].id] = kind
    /\ UNCHANGED <<keyring, wrote>>

\* What a handle reaches now: a key, or nothing once it was dropped.
Behind(f) == stores[KindOf[flows[f].id]][flows[f].handle]

---------------------------------------------------------------------------
(* Opening an entry.  A passkey answers with the entry's own output, and a *)
(* batch after the master unlock brings the master's.                      *)

BeginOpen(f, id, cred) ==
    /\ flows[f] = Resting /\ keyring[id] # Absent
    /\ flows' = [flows EXCEPT ![f] = Begun("opening", id, cred, keyring[id])]
    /\ UNCHANGED <<keyring, stores, nextHandle, wrote>>

OpenTyped(f, id) ==
    /\ keyring[id] # Absent /\ keyring[id].way = "password"
    /\ \E password \in Passwords : BeginOpen(f, id, password)
OpenByPasskey(f, id) ==
    /\ keyring[id] # Absent /\ keyring[id].way = "passkey"
    /\ BeginOpen(f, id, keyring[id].output)
OpenWithMasterPrf(f, id) ==
    /\ KindOf[id] # "crx"
    /\ keyring[id] # Absent /\ IsSealedUnderMaster(keyring[id])
    /\ BeginOpen(f, id, MasterOutput)

Opening(f, kind, way) ==
    /\ At(f, "opening", kind) /\ flows[f].entry.way = way
OpeningKey(f, way) == Opening(f, "pgp", way)
OpeningSsh(f, way) == Opening(f, "ssh", way)
OpeningCrx(f, way) == Opening(f, "crx", way)
TheSeal(f) == flows[f].entry.seal

UnlockWithPassword(f) ==
    /\ OpeningKey(f, "password")
    /\ Issue(f, "pgp", TheSeal(f).holds,
             /\ OpenWithPassword(TheSeal(f), "pgp", flows[f].id, flows[f].cred)
             /\ ParsesAsPrivateKey(TheSeal(f).holds), "held")
UnlockWithPrf(f) ==
    /\ OpeningKey(f, "passkey")
    /\ Issue(f, "pgp", TheSeal(f).holds,
             /\ OpenWithPrf(TheSeal(f), "pgp", flows[f].id, flows[f].cred)
             /\ ParsesAsPrivateKey(TheSeal(f).holds), "held")

StoreNormalizedIdentity(f, opens) ==
    Issue(f, "ssh", TheSeal(f).holds,
          opens /\ ValidateIdentity(TheSeal(f).holds, flows[f].id), "held")
UnlockSshIdentityWithPassword(f) ==
    /\ OpeningSsh(f, "password")
    /\ StoreNormalizedIdentity(f,
           OpenWithPassword(TheSeal(f), "ssh", flows[f].id, flows[f].cred))
UnlockSshIdentityWithPrf(f) ==
    /\ OpeningSsh(f, "passkey")
    /\ StoreNormalizedIdentity(f,
           OpenWithPrf(TheSeal(f), "ssh", flows[f].id, flows[f].cred))

StoreDecryptedDer(f, opens) ==
    Issue(f, "crx", TheSeal(f).holds,
          opens /\ BelongsToExtension(TheSeal(f).holds, flows[f].id), "held")
UnlockCrxWithPassword(f) ==
    /\ OpeningCrx(f, "password")
    /\ StoreDecryptedDer(f,
           OpenWithPassword(TheSeal(f), "crx", flows[f].id, flows[f].cred))
UnlockCrxWithPrf(f) ==
    /\ OpeningCrx(f, "passkey")
    /\ StoreDecryptedDer(f,
           OpenWithPrf(TheSeal(f), "crx", flows[f].id, flows[f].cred))

---------------------------------------------------------------------------
(* Using what a handle reaches: each answers from the key in the store, or *)
(* that the key may have been locked.                                      *)

Answered(f, then) ==
    /\ flows' = [flows EXCEPT ![f] = Moved(f, then, @.cred, @.entry,
                                 IF Behind(f) = Absent THEN "locked" ELSE Behind(f))]
    /\ UNCHANGED <<stores, nextHandle>>

GetKeyArmored(f) == At(f, "held", "pgp") /\ Answered(f, "held")
RevocationCertificate(f) == At(f, "held", "pgp") /\ Answered(f, "held")
EncryptKeyForExport(f) == At(f, "held", "pgp") /\ Answered(f, "held")
DecryptAgeWithHandle(f) == At(f, "held", "ssh") /\ Answered(f, "held")
ReprotectCrxKey(f) == At(f, "held", "crx") /\ Answered(f, "held")
ExportCrxPrivateKeyPem(f) == At(f, "held", "crx") /\ Answered(f, "held")
\* signZipWithCrxKey: whatever comes of the signing, the key is dropped next.
SignCrxWithHandle(f) == At(f, "held", "crx") /\ Answered(f, "signed")

RemoveHandle(kind, handle) == stores' = [stores EXCEPT ![kind][handle] = Absent]

LetGo(f, kind) ==
    /\ \/ At(f, "held", kind)
       \/ kind = "crx" /\ At(f, "signed", kind)
    /\ RemoveHandle(kind, flows[f].handle)
    /\ flows' = [flows EXCEPT ![f] = Resting]
    /\ UNCHANGED nextHandle

DropKey(f) == LetGo(f, "pgp")
DropSshIdentity(f) == LetGo(f, "ssh")
DropCrxKey(f) == LetGo(f, "crx")

\* The key session locks: the handle goes while the flow is still about.  A CRX
\* key is not in the session.
LockKey(f) ==
    /\ flows[f].handle # Absent /\ KindOf[flows[f].id] # "crx"
    /\ Behind(f) # Absent
    /\ RemoveHandle(KindOf[flows[f].id], flows[f].handle)
    /\ UNCHANGED <<keyring, nextHandle, flows, wrote>>

---------------------------------------------------------------------------
(* Re-sealing under the master, inside the unlock that evaluated the       *)
(* master's salt as well.                                                  *)

\* The id the engine reports is derived from the key the handle reaches.
ReprotectWithPrf(f, kind) ==
    /\ At(f, "held", kind)
    /\ flows[f].entry # Absent
    /\ \/ Behind(f) = Absent
          /\ flows' = [flows EXCEPT ![f] = Moved(f, @.step, @.cred, Absent, @.got)]
       \/ Behind(f) # Absent
          /\ flows' = [flows EXCEPT ![f] = Moved(f, "resealed", @.cred,
                Entry("passkey", MasterOutput,
                      SealWithPrf(kind, Behind(f), Behind(f), MasterOutput)), Behind(f))]
    /\ UNCHANGED <<stores, nextHandle>>
ReprotectKeyWithPrf(f) == ReprotectWithPrf(f, "pgp")
ReprotectSshIdentityWithPrf(f) == ReprotectWithPrf(f, "ssh")

\* resealUnderMaster refuses another key's seal; replaceProtection replaces the
\* three fields of the entry together, if it is still there.
EveryResealFits(f) == TRUE   \* mutant
ResealFits(f) == flows[f].got = flows[f].id
ResealUnderMaster(f) ==
    /\ flows[f].step = "resealed"
    /\ flows' = [flows EXCEPT ![f] = Moved(f, "held", @.cred, Absent, @.got)]
    /\ LET id == flows[f].id IN
       IF ResealFits(f) /\ keyring[id] # Absent
       THEN /\ keyring' = [keyring EXCEPT ![id] = flows[f].entry]
            /\ wrote' = [wrote EXCEPT ![id] = MasterOutput]
       ELSE UNCHANGED <<keyring, wrote>>
    /\ UNCHANGED <<stores, nextHandle>>

---------------------------------------------------------------------------
(* Generating or importing a key: sealed in one call, no store touched,    *)
(* then opened from the seal when the caller wants it cached.              *)

WayOf(cred) == IF cred \in Passwords THEN "password" ELSE "passkey"

\* runProtect up to the engine; a weak password is refused before it.
BeginProtect(f, id, cred) ==
    /\ flows[f] = Resting
    /\ flows' = [flows EXCEPT ![f] = Begun("protecting", id, cred, Absent)]
    /\ UNCHANGED <<keyring, stores, nextHandle, wrote>>

SealFor(kind, id, cred) ==
    IF cred \in Passwords
    THEN Entry("password", Absent, SealWithPassword(kind, id, id, cred))
    ELSE Entry("passkey", cred, SealWithPrf(kind, id, id, cred))

\* A sealed entry is something.
ASSUME SealsArePresent ==
    \A id \in Ids, cred \in Passwords \union Outputs : SealFor(KindOf[id], id, cred) # Absent

ProtectingKey(f) == At(f, "protecting", "pgp")
ProtectingSsh(f) == At(f, "protecting", "ssh")
ProtectingCrx(f) == At(f, "protecting", "crx")

\* What comes of the file of an imported key: a generated one always does.
Sources == {"generated", "open", "locked", "foreign", "unusable"}
Passphrases == {"none", "right", "wrong"}
DecryptCertSecrets(source, passphrase) ==
    \/ source \in {"generated", "open"}
    \/ source = "locked" /\ passphrase = "right"
\* An SSH key is looked at in this order: the format, the kind of key, the
\* passphrase; what is sealed is the key without its passphrase.
NormalizeOpensshIdentity(source, passphrase) ==
    /\ source \notin {"foreign", "unusable", "generated"}
    /\ source = "locked" => passphrase = "right"
ParseRsaPrivatePem(source) == source \in {"generated", "open"}

Protected(f, kind, usable) ==
    /\ flows' = [flows EXCEPT ![f] =
           IF usable THEN Moved(f, "sealed", @.cred, SealFor(kind, @.id, @.cred), @.got)
           ELSE Resting]
    /\ UNCHANGED <<stores, nextHandle>>

ProtectKey(f) ==
    /\ ProtectingKey(f)
    /\ \E source \in Sources, passphrase \in Passphrases :
           Protected(f, "pgp", DecryptCertSecrets(source, passphrase))
ProtectSshIdentity(f) ==
    /\ ProtectingSsh(f)
    /\ \E source \in Sources, passphrase \in Passphrases :
           Protected(f, "ssh", NormalizeOpensshIdentity(source, passphrase))
ProtectCrxKey(f) ==
    /\ ProtectingCrx(f)
    /\ \E source \in Sources : Protected(f, "crx", ParseRsaPrivatePem(source))

\* `cache: true`: the blob just written is opened like any other.
CachePassword(f) ==
    /\ flows[f].step = "sealed" /\ WayOf(flows[f].cred) = "password"
    /\ KindOf[flows[f].id] # "crx"
    /\ Issue(f, KindOf[flows[f].id], TheSeal(f).holds,
             OpenWithPassword(TheSeal(f), KindOf[flows[f].id], flows[f].id, flows[f].cred),
             "cached")
    /\ UNCHANGED <<keyring, wrote>>
CachePrf(f) ==
    /\ flows[f].step = "sealed" /\ WayOf(flows[f].cred) = "passkey"
    /\ KindOf[flows[f].id] # "crx"
    /\ Issue(f, KindOf[flows[f].id], TheSeal(f).holds,
             OpenWithPrf(TheSeal(f), KindOf[flows[f].id], flows[f].id, flows[f].cred),
             "cached")
    /\ UNCHANGED <<keyring, wrote>>

\* The caller keeps the entry; a handle goes to the key session.
Keep(f) ==
    /\ flows[f].step \in {"sealed", "cached"}
    /\ Cardinality({id \in Ids \ {flows[f].id} : keyring[id] # Absent}) < MaxEntries
    /\ keyring' = [keyring EXCEPT ![flows[f].id] = flows[f].entry]
    /\ wrote' = [wrote EXCEPT ![flows[f].id] = flows[f].cred]
    /\ flows' = [flows EXCEPT ![f] = IF @.step = "cached"
                                     THEN Moved(f, "held", Absent, Absent, @.got) ELSE Resting]
    /\ UNCHANGED <<stores, nextHandle>>

Delete(id) ==
    /\ keyring[id] # Absent
    /\ keyring' = [keyring EXCEPT ![id] = Absent]
    /\ wrote' = [wrote EXCEPT ![id] = Absent]
    /\ UNCHANGED <<stores, nextHandle, flows>>

---------------------------------------------------------------------------

SecretInit ==
    /\ keyring \in Found
    /\ stores = [kind \in Stores |-> [h \in Handles |-> Absent]]
    /\ nextHandle = 1
    /\ flows = [f \in Flows |-> Resting]
    /\ wrote = [id \in Ids |-> Absent]

SecretNext ==
    \/ \E f \in Flows :
        \/ UnlockWithPassword(f) \/ UnlockWithPrf(f)
        \/ UnlockSshIdentityWithPassword(f) \/ UnlockSshIdentityWithPrf(f)
        \/ UnlockCrxWithPassword(f) \/ UnlockCrxWithPrf(f)
        \/ GetKeyArmored(f) \/ RevocationCertificate(f) \/ EncryptKeyForExport(f)
        \/ DecryptAgeWithHandle(f)
        \/ ReprotectCrxKey(f) \/ ExportCrxPrivateKeyPem(f) \/ SignCrxWithHandle(f)
        \/ DropKey(f) \/ DropSshIdentity(f) \/ DropCrxKey(f) \/ LockKey(f)
        \/ ReprotectKeyWithPrf(f) \/ ReprotectSshIdentityWithPrf(f)
        \/ ResealUnderMaster(f)
        \/ ProtectKey(f) \/ ProtectSshIdentity(f) \/ ProtectCrxKey(f)
        \/ CachePassword(f) \/ CachePrf(f) \/ Keep(f)
    \/ \E f \in Flows, id \in Ids :
        \/ OpenTyped(f, id) \/ OpenByPasskey(f, id) \/ OpenWithMasterPrf(f, id)
        \/ \E cred \in Passwords \union Outputs : BeginProtect(f, id, cred)
    \/ \E id \in Ids : Delete(id)

SecretSpec == SecretInit /\ [][SecretNext]_secretVars

---------------------------------------------------------------------------
(* Properties                                                              *)

IsHolding(f) == flows[f].handle # Absent

(* Whatever is locked, opened and issued meanwhile, a handle reaches the key it *)
(* was issued for or nothing, and what a flow was answered came from that key.  *)
HandlesReachOneKey ==
    \A f \in Flows : IsHolding(f) =>
        /\ Behind(f) \in {Absent, flows[f].opened}
        /\ flows[f].got \in {Absent, "locked", flows[f].opened}
        /\ \A kind \in Stores \ {KindOf[flows[f].id]} :
               stores[kind][flows[f].handle] = Absent

(* What is opened as an SSH or a CRX key is the key of that id, also from an    *)
(* entry somebody else put together; and nothing is opened for a credential it  *)
(* was not sealed for.                                                          *)
OpenedAsItself ==
    \A f \in Flows : IsHolding(f) =>
        /\ KindOf[flows[f].id] \in {"ssh", "crx"} => flows[f].opened = flows[f].id
        /\ KindOf[flows[f].opened] = KindOf[flows[f].id]

(* An entry the app wrote opens with the credential it was written for, by the  *)
(* way it says, to its own key: no re-seal leaves a key under another's id, and *)
(* none leaves one behind a salt it was not sealed with.                        *)
NothingIsSealedAway ==
    \A id \in Ids : wrote[id] # Absent =>
        LET e == keyring[id] IN
        /\ e # Absent /\ e.way = WayOf(wrote[id]) /\ e.seal.holds = id
        /\ IF e.way = "password"
           THEN OpenWithPassword(e.seal, KindOf[id], id, wrote[id])
           ELSE e.output = wrote[id] /\ OpenWithPrf(e.seal, KindOf[id], id, e.output)

SecretsStayTheirs == HandlesReachOneKey /\ OpenedAsItself /\ NothingIsSealedAway
=============================================================================
