----------------------------- MODULE BulkImport ----------------------------
(***************************************************************************)
(* Restoring a backup ("Export all keys"): one text with private keys,     *)
(* CRX signing keys and public keys.  Everything is vetted and reviewed    *)
(* first; then the private keys are sealed one by one, the CRX keys and    *)
(* the contacts written last.  A private key that fails ends the attempt,  *)
(* and the user tries again with what was read.                            *)
(***************************************************************************)
EXTENDS FiniteSets, Naturals

CONSTANTS Key,          \* private keys
          Crx,          \* CRX signing keys
          Cert,         \* contacts
          Half,         \* Half[k]: the contact that is the public half of k
          MaxAttempts,  \* texts read and attempts to seal
          MaxOthers     \* keys saved by another window

\* The three are told apart, a private key from its public half as well.
ASSUME BulkAssumption ==
    /\ Half \in [Key -> Cert]
    /\ Key \cap Crx = {} /\ Key \cap Cert = {} /\ Crx \cap Cert = {}

VARIABLES bulk,      \* the step
          parsed,    \* parsedPrivates, parsedCrx and publicKeys
          chosen,    \* decisions: what the Review took
          work,      \* the run in flight
          ring,      \* the keyring: where each key came from
          crxRing, list, \* the CRX keys and the contacts, likewise
          known,     \* what was held when the text was read
          attempts, others

bulkVars == <<bulk, parsed, chosen, work, ring, crxRing, list, known, attempts, others>>

NotHeld == "absent"
Held == "held"
Restored == "restored"
Idle == [on |-> "idle", todo |-> {}]
Nothing == [keys |-> {}, crx |-> {}, certs |-> {}]
HeldIn(f) == {x \in DOMAIN f : f[x] # NotHeld}

bulkInit ==
    /\ bulk = "paste" /\ parsed = Nothing /\ chosen = {} /\ work = Idle
    /\ ring \in [Key -> {NotHeld, Held}] /\ crxRing \in [Crx -> {NotHeld, Held}] /\ list \in [Cert -> {NotHeld, Held}]
    /\ known = {} /\ attempts = 0 /\ others = 0
Attempt == attempts < MaxAttempts /\ attempts' = attempts + 1
----------------------------------------------------------------------------
\* handlePasteNext: a key that is held is skipped, a public half of the backup's
\* own private key is no contact, a CRX key must hash to its id.
Missing(ids, held) == ids \ held
Halves(keys) == {Half[k] : k \in keys}
ReadBackup(keys, crx, certs) ==
    /\ bulk = "paste" /\ work = Idle /\ Attempt
    /\ \E genuine \in SUBSET crx :
          LET new == Missing(keys, HeldIn(ring))
              rows == [keys |-> new, crx |-> Missing(genuine, HeldIn(crxRing)), certs |-> Missing(certs \ Halves(new), HeldIn(list))]
          IN  IF rows = Nothing THEN bulk' \in {"paste", "closed"} /\ UNCHANGED parsed
              ELSE bulk' = "review" /\ parsed' = rows
    /\ known' = HeldIn(ring) \cup HeldIn(crxRing) \cup HeldIn(list)
    /\ chosen' = {}
    /\ UNCHANGED <<work, ring, crxRing, list, others>>

\* finishReview: private keys first ask for their passphrase and protection.
Taken(keys, taken) == keys \cap taken
AskFor(keys) == bulk' \in {"unlock", "protect"}
FinishReview(taken) ==
    /\ bulk = "review" /\ work = Idle
    /\ taken # {} /\ taken \subseteq parsed.keys \cup parsed.crx \cup parsed.certs
    /\ chosen' = taken
    /\ LET keys == Taken(parsed.keys, taken)
           crx  == Taken(parsed.crx, taken)
       IN  IF keys # {} THEN AskFor(keys) /\ parsed' = [parsed EXCEPT !.keys = keys, !.crx = crx] /\ UNCHANGED work
           ELSE work' = [on |-> "crx", todo |-> crx] /\ UNCHANGED <<bulk, parsed>>
    /\ UNCHANGED <<ring, crxRing, list, known, attempts, others>>
UnlockNext ==
    /\ bulk = "unlock"
    /\ bulk' = "protect"
    /\ UNCHANGED <<parsed, chosen, work, ring, crxRing, list, known, attempts, others>>
StepBack ==
    /\ \/ bulk = "unlock" /\ bulk' = "paste"
       \/ bulk = "protect" /\ work = Idle /\ bulk' \in {"unlock", "paste"}
    /\ UNCHANGED <<parsed, chosen, work, ring, crxRing, list, known, attempts, others>>

\* protectAll: one passkey ceremony, then every key; all again on every attempt.
Protect ==
    /\ bulk = "protect" /\ work = Idle /\ Attempt
    /\ work' \in {Idle, [on |-> "keys", todo |-> parsed.keys]}
    /\ UNCHANGED <<bulk, parsed, chosen, ring, crxRing, list, known, others>>
SealKey(k) ==
    /\ work.on = "keys" /\ k \in work.todo
    /\ ring' = [ring EXCEPT ![k] = Restored]
    /\ work' = [work EXCEPT !.todo = @ \ {k}]
    /\ UNCHANGED <<bulk, parsed, chosen, crxRing, list, known, attempts, others>>
StopsAt(k) == work' = Idle /\ bulk' \in {"unlock", "protect"}
SealFails(k) ==
    /\ work.on = "keys" /\ k \in work.todo
    /\ StopsAt(k)
    /\ UNCHANGED <<parsed, chosen, ring, crxRing, list, known, attempts, others>>
KeysDone ==
    /\ work.on = "keys" /\ work.todo = {}
    /\ work' = [on |-> "crx", todo |-> parsed.crx]
    /\ UNCHANGED <<bulk, parsed, chosen, ring, crxRing, list, known, attempts, others>>
\* importCrxBlobs: a key that fails is told of and passed over.
RestoreCrx(x) ==
    /\ work.on = "crx" /\ x \in work.todo
    /\ \/ crxRing' = [crxRing EXCEPT ![x] = Restored]
       \/ UNCHANGED crxRing
    /\ work' = [work EXCEPT !.todo = @ \ {x}]
    /\ UNCHANGED <<bulk, parsed, chosen, ring, list, known, attempts, others>>
CrxDone ==
    /\ work.on = "crx" /\ work.todo = {}
    /\ work' = [on |-> "certs", todo |-> Taken(parsed.certs, chosen)]
    /\ UNCHANGED <<bulk, parsed, chosen, ring, crxRing, list, known, attempts, others>>
RestoreCert(c) ==
    /\ work.on = "certs" /\ c \in work.todo
    /\ \/ list' = [list EXCEPT ![c] = Restored] /\ work' = [work EXCEPT !.todo = @ \ {c}]
       \/ work' = Idle /\ UNCHANGED list
    /\ UNCHANGED <<bulk, parsed, chosen, ring, crxRing, known, attempts, others>>
CertsDone ==
    /\ work.on = "certs" /\ work.todo = {}
    /\ work' = Idle /\ bulk' = "closed"
    /\ UNCHANGED <<parsed, chosen, ring, crxRing, list, known, attempts, others>>
OpenBulk ==
    /\ bulk = "closed"
    /\ bulk' = "paste" /\ parsed' = Nothing /\ chosen' = {}
    /\ UNCHANGED <<work, ring, crxRing, list, known, attempts, others>>
OtherWindow(k) ==
    /\ others < MaxOthers /\ others' = others + 1
    /\ ring[k] = NotHeld /\ ring' = [ring EXCEPT ![k] = Held]
    /\ UNCHANGED <<bulk, parsed, chosen, work, crxRing, list, known, attempts>>

bulkNext ==
    \/ \E keys \in SUBSET Key, crx \in SUBSET Crx, certs \in SUBSET Cert : ReadBackup(keys, crx, certs)
    \/ \E taken \in SUBSET (Key \cup Crx \cup Cert) : FinishReview(taken)
    \/ UnlockNext \/ StepBack \/ Protect \/ KeysDone \/ CrxDone \/ CertsDone \/ OpenBulk
    \/ \E k \in Key : SealKey(k) \/ SealFails(k) \/ OtherWindow(k)
    \/ \E x \in Crx : RestoreCrx(x)
    \/ \E c \in Cert : RestoreCert(c)
bulkSpec == bulkInit /\ [][bulkNext]_bulkVars
----------------------------------------------------------------------------
bulkTypeOK ==
    /\ bulk \in {"paste", "review", "unlock", "protect", "closed"}
    /\ parsed.keys \subseteq Key /\ parsed.crx \subseteq Crx /\ parsed.certs \subseteq Cert
    /\ work.on \in {"idle", "keys", "crx", "certs"} /\ work.todo \subseteq Key \cup Crx \cup Cert
    /\ ring \in [Key -> {NotHeld, Held, Restored}] /\ crxRing \in [Crx -> {NotHeld, Held, Restored}]
    /\ list \in [Cert -> {NotHeld, Held, Restored}]

(* What the user left out at the Review is never stored, however often the  *)
(* attempt is repeated; and nothing is stored before the Review.            *)
Stores(x) == \/ x \in Key /\ ring'[x] = Restored /\ ring[x] # Restored
             \/ x \in Crx /\ crxRing'[x] = Restored /\ crxRing[x] # Restored
             \/ x \in Cert /\ list'[x] = Restored /\ list[x] # Restored
LeftOutStaysOut == [][\A x \in Key \cup Crx \cup Cert : Stores(x) => x \in chosen]_bulkVars

(* A restore never overwrites a key that was held when the backup was read. *)
LiveKeysAreKept == [][\A x \in Key \cup Crx : Stores(x) => x \notin known]_bulkVars

(* A contact is written only when every private key chosen with it is in    *)
(* the keyring: a backup is not half restored without the user seeing it.   *)
ContactsComeLast == work.on = "certs" => \A k \in chosen \cap Key : ring[k] # NotHeld

(* The public half of a private key of the backup is not made a contact.    *)
OwnHalfIsNoContact == work.on = "certs" => \A k \in chosen \cap Key : Half[k] \notin work.todo

(* What a restore of all keys promises, failed steps and retries included:  *)
(* what the user left out is not written, a key that is held is not         *)
(* replaced, contacts are written after the keys, and an own key's public   *)
(* half becomes no contact.                                                 *)
RestoresOnlyWhatWasTaken ==
    /\ [](bulkTypeOK /\ ContactsComeLast /\ OwnHalfIsNoContact)
    /\ LeftOutStaysOut /\ LiveKeysAreKept
=============================================================================
