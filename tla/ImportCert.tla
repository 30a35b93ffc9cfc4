----------------------------- MODULE ImportCert ----------------------------
(***************************************************************************)
(* OpenPGP certificates on their way to the contacts: a pasted text with   *)
(* one or several copies, the answer of the key server to a lookup, a bare *)
(* revocation, and the revocation check that another page runs meanwhile.  *)
(* A copy is merged into what is stored, never written over it.            *)
(***************************************************************************)
EXTENDS FiniteSets, Naturals

CONSTANTS Fp,          \* fingerprints
          Uid,         \* user IDs, each an address
          Carried,     \* the user IDs a copy may carry
          Query,       \* lookups by address
          MaxReads,    \* texts and answers read in a behaviour
          MaxTouches   \* edits, and writes of other windows

ASSUME QueryAssumption == Query \subseteq Uid /\ Carried \subseteq (SUBSET Uid) \ {{}}

VARIABLES certs,    \* the contacts: displayed user IDs, and what their armor says
          floor,    \* revokedFloor of the ledger
          page,     \* the import page
          check,    \* checkRevocation of a details page
          agreed,   \* ids saved although their row was marked
          twins,    \* ids saved of two updates of one text that add one address
          beaten,   \* another writer changed the contacts during an import
          reads, touches

certVars == <<certs, floor, page, check, agreed, twins, beaten, reads, touches>>

Hand == "hand"
Copy == [id : Fp, uids : Carried, rev : BOOLEAN]
NoPage == [at |-> "source", rows |-> {}, todo |-> {}]
NoCheck == [at |-> "idle"]

certInit == certs = {} /\ floor = {} /\ page = NoPage /\ check = NoCheck /\ agreed = {} /\ twins = {}
            /\ beaten = FALSE /\ reads = 0 /\ touches = 0

Stored(id) == {c \in certs : c.id = id}
MergeKey(old, text) == [old EXCEPT !.uids = @ \cup text.uids, !.rev = @ \/ text.rev]
----------------------------------------------------------------------------
(* What a copy is: classifyCert, mergeSameKey, withIdentityConflicts.      *)

Merged(copies, id) ==
    [id |-> id, uids |-> UNION {c.uids : c \in {x \in copies : x.id = id}}, rev |-> \E c \in copies : c.id = id /\ c.rev]
Classify(text, usable) ==
    LET held == Stored(text.id)
        copy == IF held = {} THEN text ELSE MergeKey((CHOOSE c \in held : TRUE).cert, text)
    IN  [id |-> text.id, uids |-> copy.uids, rev |-> copy.rev, src |-> Hand, replaces |-> {},
         status |-> IF held = {} THEN (IF usable THEN "new" ELSE "rejected")
                    ELSE IF \E c \in held : c.cert = copy THEN "duplicate" ELSE "update"]

Added(row) == IF row.status = "update" THEN row.uids \ UNION {c.uids : c \in Stored(row.id)} ELSE row.uids
Rival(row, rows) == {c \in certs : c.id # row.id /\ c.uids \cap Added(row) # {}}
RivalRows(row, rows) == {r \in rows : r.id # row.id /\ r.status = "new" /\ r.uids \cap Added(row) # {}}
\* Only new keys join the holders: two updates that add one address go unmarked.
Twins(row, rows) ==
    {r \in rows : r.id # row.id /\ r.status = "update" /\ row.status = "update" /\ Added(r) \cap Added(row) # {}}
Judged(rows) ==
    {[r |-> r, conflict |-> r.status \in {"new", "update"} /\ (Rival(r, rows) # {} \/ RivalRows(r, rows) # {}),
      holders |-> {c.id : c \in Rival(r, rows)}, twin |-> Twins(r, rows) # {}] : r \in rows}
Saves(x) == x.r.status \in {"new", "update"}

\* prepareKeyserverImport: what does not answer the query is refused, a new key
\* for the address of an earlier lookup says whom it replaces.
AnswersQuery(q, row) == q \in row.uids
ForQuery(q, x) ==
    IF ~AnswersQuery(q, x.r) THEN [x EXCEPT !.r.status = "rejected"]
    ELSE [x EXCEPT !.r.src = q,
                   !.r.replaces = IF x.r.status = "new" THEN {c.id : c \in {d \in certs : d.src = q /\ d.id # x.r.id}} ELSE {}]
----------------------------------------------------------------------------
(* The import page.                                                        *)

Opens(rows) ==
    page' = [NoPage EXCEPT !.at = IF Cardinality(rows) > 1 \/ \E x \in rows : x.conflict THEN "review" ELSE "preview", !.rows = rows]
StartRead == page.at = "source" /\ reads < MaxReads /\ reads' = reads + 1
ReadText(copies) ==
    /\ StartRead
    /\ \E usable \in BOOLEAN :
          LET rows == Judged({Classify(Merged(copies, i), usable) : i \in {c.id : c \in copies}})
              live == {x \in rows : x.r.status # "rejected"}
              worth == {x \in rows : Saves(x)}
          IN  IF Cardinality(worth) > 1 THEN Opens(live)
              ELSE \E x \in (IF worth # {} THEN worth ELSE IF live # {} THEN live ELSE rows) : Opens({x})
    /\ UNCHANGED <<certs, floor, check, agreed, twins, beaten, touches>>
\* runKeyLookup: the server's answer is any certificate at all.
KeyserverAnswer(q, copy) ==
    /\ StartRead
    /\ Opens({ForQuery(q, x) : x \in Judged({Classify(copy, TRUE)})})
    /\ UNCHANGED <<certs, floor, check, agreed, twins, beaten, touches>>
LeavePage ==
    /\ page.at # "source"
    /\ page' = NoPage
    /\ UNCHANGED <<certs, floor, check, agreed, twins, beaten, reads, touches>>
\* A row that is marked starts on Skip; one holder may be replaced.
CertChoices(x) ==
    {"skip", "import"} \cup
    (IF x.r.status = "new" /\ x.conflict /\ x.r.replaces = {} /\ Cardinality(x.holders) = 1 THEN {"replace"} ELSE {})
CertDecide ==
    /\ page.at \in {"preview", "review"} /\ \E x \in page.rows : Saves(x)
    /\ \E d \in [{x \in page.rows : Saves(x)} -> {"skip", "import", "replace"}] :
          /\ \A x \in DOMAIN d : d[x] \in CertChoices(x)
          /\ \E x \in DOMAIN d : d[x] # "skip"
          /\ page' = [NoPage EXCEPT !.at = "saving", !.todo = {[x |-> x, decision |-> d[x]] : x \in {y \in DOMAIN d : d[y] # "skip"}}]
    /\ UNCHANGED <<certs, floor, check, agreed, twins, beaten, reads, touches>>
----------------------------------------------------------------------------
(* The contacts.                                                           *)

AsIs(list) == list  \* mutant
\* saveAll: what was ever seen revoked is written revoked.
Floored(list) == {[c EXCEPT !.rev = @ \/ c.id \in floor] : c \in list}
Write(list) ==
    /\ certs' = Floored(list)
    /\ floor' = floor \cup {c.id : c \in {d \in list : d.rev}}

Supersedes(new) == {c \in certs : c.id = new.id \/ (new.src # Hand /\ c.src = new.src)}
CarriedOver(p, new) ==
    IF p.src # new.src THEN new
    ELSE [new EXCEPT !.alias = @ \/ p.alias, !.verified = p.verified /\ p.id = new.id]
Upserted(new) ==
    LET gone == Supersedes(new)
    IN  IF new.src = Hand /\ \E c \in gone : c.src # Hand
        THEN {{IF c \in gone THEN [c EXCEPT !.uids = new.uids, !.rev = new.rev, !.cert = new.cert] ELSE c : c \in certs}}
        ELSE IF gone = {} THEN {certs \cup {new}}
        ELSE {(certs \ gone) \cup {CarriedOver(p, new)} : p \in gone}
ContactFrom(r, alias) ==
    [id |-> r.id, uids |-> r.uids, rev |-> r.rev, cert |-> [id |-> r.id, uids |-> r.uids, rev |-> r.rev],
     src |-> r.src, verified |-> FALSE, alias |-> alias]
SaveCert(item) ==
    LET old == IF item.decision = "replace" THEN {c \in certs : c.id \in item.x.holders} ELSE {}
    IN  /\ page.at = "saving" /\ item \in page.todo /\ item.decision \in {"import", "replace"}
        /\ \E list \in Upserted(ContactFrom(item.x.r, \E c \in old : c.alias)) : Write(list)
        /\ page' = [page EXCEPT !.todo = (@ \ {item}) \cup {[x |-> item.x, decision |-> "remove", id |-> c.id] : c \in old}]
        /\ agreed' = IF item.x.conflict THEN agreed \cup {item.x.r.id} ELSE agreed
        /\ twins' = IF item.x.twin THEN twins \cup {item.x.r.id} ELSE twins
        /\ UNCHANGED <<check, beaten, reads, touches>>
RemoveOld(item) ==
    /\ page.at = "saving" /\ item \in page.todo /\ item.decision = "remove"
    /\ Write({c \in certs : c.id # item.id})
    /\ page' = [page EXCEPT !.todo = @ \ {item}]
    /\ UNCHANGED <<check, agreed, twins, beaten, reads, touches>>
CloseImport ==
    /\ page.at = "saving" /\ page.todo = {}
    /\ page' = NoPage
    /\ UNCHANGED <<certs, floor, check, agreed, twins, beaten, reads, touches>>
----------------------------------------------------------------------------
(* The details page: a lookup by fingerprint, folded in under the lock.    *)

CheckStart(c) ==
    /\ check = NoCheck /\ reads < MaxReads /\ reads' = reads + 1
    /\ \E copy \in Copy : copy.id = c.id /\ check' = [at |-> "answered", copy |-> copy]
    /\ UNCHANGED <<certs, floor, page, agreed, twins, beaten, touches>>
MergedByCheck(c, copy) ==
    LET m == MergeKey(c.cert, copy)
        grows == ~(m.uids \subseteq c.uids)
    IN  IF grows /\ ~m.rev THEN c
        ELSE [c EXCEPT !.cert = m, !.rev = m.rev, !.uids = IF grows THEN @ ELSE m.uids, !.verified = @ /\ ~grows]
FoldIn(c, copy) == MergedByCheck(c, copy)
CheckMerge ==
    /\ check.at = "answered"
    /\ Write({IF c.id = check.copy.id THEN FoldIn(c, check.copy) ELSE c : c \in certs})
    /\ check' = NoCheck
    /\ beaten' = (beaten \/ page.at # "source")
    /\ UNCHANGED <<page, agreed, twins, reads, touches>>

\* "Verified", an alias, a removal; or another window saves a certificate.
Touch ==
    /\ touches < MaxTouches /\ touches' = touches + 1
    /\ \/ \E c \in certs : Write((certs \ {c}) \cup {[c EXCEPT !.verified = ~@]}) \/ Write((certs \ {c}) \cup {[c EXCEPT !.alias = TRUE]})
       \/ \E c \in certs : Write(certs \ {c})
    /\ UNCHANGED <<page, check, agreed, twins, beaten, reads>>
SaveElsewhere(copy) ==
    /\ touches < MaxTouches /\ touches' = touches + 1
    /\ Stored(copy.id) = {} /\ \A c \in certs : c.uids \cap copy.uids = {}
    /\ Write(certs \cup {ContactFrom([id |-> copy.id, uids |-> copy.uids, rev |-> copy.rev, src |-> Hand], FALSE)})
    /\ beaten' = (beaten \/ page.at # "source")
    /\ UNCHANGED <<page, check, agreed, twins, reads>>

certNext ==
    \/ \E a, b \in Copy : ReadText({a, b})
    \/ \E q \in Query, copy \in Copy : KeyserverAnswer(q, copy)
    \/ LeavePage \/ CertDecide \/ CloseImport \/ CheckMerge \/ Touch
    \/ \E item \in page.todo : SaveCert(item) \/ RemoveOld(item)
    \/ \E c \in certs : CheckStart(c)
    \/ \E copy \in Copy : SaveElsewhere(copy)
certSpec == certInit /\ [][certNext]_certVars
----------------------------------------------------------------------------
certTypeOK ==
    /\ \A c \in certs : c.id \in Fp /\ c.id = c.cert.id /\ c.uids \cup c.cert.uids \subseteq Uid /\ c.src \in Query \cup {Hand}
    /\ \A c, d \in certs : c.id = d.id => c = d
    /\ floor \subseteq Fp /\ agreed \subseteq Fp /\ twins \subseteq Fp /\ page.at \in {"source", "preview", "review", "saving"}
    /\ check.at \in {"idle", "answered"} /\ beaten \in BOOLEAN

(* A contact once seen revoked stays revoked while it is there: not an old  *)
(* copy, nor an import that was read before the revocation came, undoes it. *)
RevokedIsKept == [][\A c \in certs, d \in certs' : c.id = d.id /\ c.rev => d.rev]_certVars

(* Nothing that is known of a key is lost by reading another copy of it     *)
(* (unless another writer was faster than the import).                      *)
NothingKnownIsLost ==
    [][~beaten => \A c \in certs, d \in certs' : c.id = d.id => c.cert.uids \subseteq d.cert.uids /\ (c.cert.rev => d.cert.rev)]_certVars

(* Two contacts show one address only where a row said so and the user      *)
(* chose to save it, or another window's contact came meanwhile; but of two *)
(* updates of one text that add the same address neither is told            *)
(* (conflicts.ts:36: "Only new keys join the holders").                     *)
AddressesWereAsked ==
    \A c, d \in certs : c # d /\ c.uids \cap d.uids # {}
        => beaten \/ c.id \in agreed \/ d.id \in agreed \/ {c.id, d.id} \subseteq twins

(* The names a contact is known by grow by a saved row only: the revocation *)
(* check writes no address the user has not been shown.                     *)
NamesGrowByReview ==
    [][\A c \in certs, d \in certs' : c.id = d.id /\ ~(d.uids \subseteq c.uids)
          => \E item \in page.todo : item \notin page'.todo /\ item.x.r.id = c.id /\ d.uids \subseteq item.x.r.uids]_certVars

(* A contact goes by an import only if the row said that it replaces it     *)
(* (keyserver.ts:57: "A new fingerprint for this source replaces that       *)
(* contact's key; say so").                                                 *)
Said(c, item) == c.id \in item.x.r.replaces \/ (item.decision = "replace" /\ c.id \in item.x.holders) \/ item.decision = "remove"
ReplacementsAreSaid ==
    [][\A c \in certs : touches' = touches /\ (\A d \in certs' : d.id # c.id)
          => beaten \/ \E item \in page.todo : item \notin page'.todo /\ Said(c, item)]_certVars

(* What an import or a re-check of a certificate promises: an address is    *)
(* added only by a review, a revocation that was seen stays, and nothing    *)
(* that was known of a key is lost by reading it again.                     *)
CertsOnlyGrow ==
    /\ [](certTypeOK /\ AddressesWereAsked)
    /\ RevokedIsKept /\ NothingKnownIsLost /\ NamesGrowByReview
=============================================================================
