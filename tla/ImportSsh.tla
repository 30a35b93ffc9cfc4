----------------------------- MODULE ImportSsh -----------------------------
(***************************************************************************)
(* SSH public keys on their way to the contacts: pasted lines, one or      *)
(* several, and the keys of a GitHub account.  What the import makes of    *)
(* them (each key alone, one person with several keys, a refresh of a      *)
(* person already there), what the Review asks, and what the contact list  *)
(* becomes when the rows are saved one by one.                             *)
(***************************************************************************)
EXTENDS FiniteSets, Naturals

CONSTANTS SshKey,     \* fingerprints
          OwnSsh,     \* those of the user's own keys
          Account,    \* GitHub accounts
          Comment,    \* comments on pasted keys, each an address
          MaxImports, \* imports in a behaviour
          MaxEdits    \* the user's own edits of contacts

ASSUME OwnAssumption == OwnSsh \subseteq SshKey /\ IsFiniteSet(SshKey)

VARIABLES people,    \* the contacts: a record each, the id its first key
          stage,     \* the import page
          asked,     \* ids saved although their row was marked, by the user's choice
          overtaken, \* another window saved a contact during an import
          imports, edits

sshVars == <<people, stage, asked, overtaken, imports, edits>>

Pasted == "pasted"
NoName == "none"
Contact == [id : SshKey, keys : SUBSET SshKey, src : Account \cup {Pasted}, name : Account \cup Comment \cup {NoName},
            off : SUBSET SshKey, verified : BOOLEAN, alias : BOOLEAN]
NoStage == [at |-> "source", rows |-> {}, proposal |-> {}, todo |-> {}]

sshInit == people = {} /\ stage = NoStage /\ asked = {} /\ overtaken = FALSE /\ imports = 0 /\ edits = 0

SameSource(a, b) == a.src # Pasted /\ a.src = b.src
KeysOf(list) == UNION {c.keys : c \in list}
Holding(ids) == {c \in people : c.keys \cap ids # {}}
----------------------------------------------------------------------------
(* What incoming keys are.  A row is one line of the Review.               *)

Row(id, keys, src, name, status) ==
    [id |-> id, keys |-> keys, src |-> src, name |-> name, status |-> status, allOff |-> FALSE]

SinglePublicKey(k, comment) ==
    Row(k, {k}, Pasted, comment, IF Holding({k}) # {} \/ k \in OwnSsh THEN "duplicate" ELSE "new")

\* sshGroupKey: the same keys as one person; the order of the lines picks a head.
UpdateOf(ids) == {c \in Holding(ids) : c.src = Pasted /\ c.id \in ids}
GroupKey(label, ids) ==
    LET held  == Holding(ids)
        fresh == ids \ (KeysOf(held) \cup OwnSsh)
        alone == Cardinality(held) = 1 /\ ids \cap OwnSsh = {}
    IN  IF alone /\ \E c \in held : c.keys = ids THEN {Row(h, ids, Pasted, label, "duplicate") : h \in ids}
        ELSE IF alone /\ UpdateOf(ids) # {} THEN {Row(c.id, ids, Pasted, label, "update") : c \in UpdateOf(ids)}
        ELSE IF fresh = {} THEN {Row(h, ids, Pasted, label, "duplicate") : h \in ids}
        ELSE {Row(h, ids, Pasted, label, "new") : h \in fresh}

\* classifyGithubGroup: matched by its source, headed by a key nobody else holds.
Existing(user) == {c \in people : c.src = user}
Heads(ids, user) ==
    LET others == people \ Existing(user)
        free   == ids \ (OwnSsh \cup KeysOf(others))
    IN  IF free # {} THEN free
        ELSE {c.id : c \in {e \in Existing(user) : e.keys # ids /\ e.id \in ids /\ \A o \in others : o.id # e.id}}
GithubKey(user, ids) ==
    LET was     == Existing(user)
        changed == \A c \in was : c.keys # ids
        heads   == Heads(ids, user)
        as(status) == {Row(h, ids, user, user, status) : h \in IF heads = {} THEN ids ELSE heads}
    IN  IF heads = {} THEN as(IF was # {} /\ changed THEN "rejected" ELSE "duplicate")
        ELSE IF was = {} THEN as("new")
        ELSE IF ~changed THEN as("duplicate")
        ELSE {[r EXCEPT !.allOff = \A c \in was : ids \subseteq c.off] : r \in as("update")}

\* withIdentityConflicts: a key somebody holds, or somebody's name.
Self(row, c) == row.status = "update" /\ IF row.src = Pasted THEN c.id = row.id ELSE SameSource(c, row)
Rivals(row) == {c \in Holding(row.keys) : ~SameSource(c, row)}
Claimants(row, rows) ==
    {c \in people : ~Self(row, c) /\ c.id # row.id /\ c.name = row.name} \cup
    {r \in rows : r.status = "new" /\ r.id # row.id /\ r.name = row.name}
\* An update claims the names it adds.
Claims(row) == row.name # NoName /\ ~(row.status = "update" /\ \E c \in people : Self(row, c) /\ c.name = row.name)
Conflict(row, rows) ==
    IF row.status \notin {"new", "update"} THEN "none"
    ELSE IF Rivals(row) # {} \/ row.keys \cap OwnSsh # {} THEN "key"
    ELSE IF ~Claims(row) \/ Claimants(row, rows) = {} THEN "none"
    ELSE IF row.name \in Comment THEN "address" ELSE "name"
Marked(rows) == {[r |-> r, conflict |-> Conflict(r, rows), holders |-> {c.id : c \in Claimants(r, rows) \cap people}] : r \in rows}
NeedsDecision(x) == x.r.status \in {"new", "update"}
----------------------------------------------------------------------------
(* The import page.                                                        *)

\* show(): several rows, or one that is marked, go to the Review.
Show(marked) ==
    [NoStage EXCEPT !.at = IF Cardinality(marked) > 1 \/ \E x \in marked : x.conflict # "none" \/ x.r.allOff
                           THEN "review" ELSE "preview", !.rows = marked]
Begin == stage.at = "source" /\ imports < MaxImports /\ imports' = imports + 1

\* handleSource on pasted lines: a shared comment makes a person; otherwise the
\* keys stay apart, and if all are new and unmarked the user may name them as one.
Paste(ids, comment) ==
    /\ Begin
    /\ \E shared \in BOOLEAN, named \in SUBSET ids :
          LET commentOf(k) == IF shared \/ k \in named THEN comment ELSE NoName
              singles == Marked({SinglePublicKey(k, commentOf(k)) : k \in ids})
              worth   == {x \in singles : NeedsDecision(x)}
              allNew  == Cardinality(ids) > 1 /\ \A x \in singles : x.r.status = "new"
          IN  /\ shared => comment # NoName /\ named = {} /\ Cardinality(ids) > 1
              /\ ~shared => named # ids \/ Cardinality(ids) = 1
              /\ IF shared THEN \E g \in GroupKey(comment, ids) : stage' = Show(Marked({g}))
                 ELSE IF allNew /\ \A x \in worth : x.conflict = "none"
                 THEN stage' = [NoStage EXCEPT !.at = "preview", !.rows = worth, !.proposal = ids]
                 ELSE IF Cardinality(worth) > 1 THEN stage' = Show(singles)
                 ELSE \E x \in (IF worth # {} THEN worth ELSE singles) : stage' = Show({x})
    /\ UNCHANGED <<people, asked, overtaken, edits>>
Lookup(user, ids) ==
    /\ Begin
    /\ \E row \in GithubKey(user, ids) : stage' = Show(Marked({row}))
    /\ UNCHANGED <<people, asked, overtaken, edits>>
Leave ==
    /\ stage.at # "source"
    /\ stage' = NoStage
    /\ UNCHANGED <<people, asked, overtaken, imports, edits>>

DefaultDecision(x) == IF x.conflict # "none" \/ x.r.allOff THEN "skip" ELSE "import"
\* Replace is offered for one holder of the very address.
CanReplace(x) == x.r.status = "new" /\ x.conflict = "address" /\ Cardinality(x.holders) = 1
DecisionsFor(x) == {"skip", "import"} \cup (IF CanReplace(x) THEN {"replace"} ELSE {})
Saving(items) == stage' = [NoStage EXCEPT !.at = "saving", !.todo = {i \in items : i.decision # "skip"}]
\* The preview's button: the key, the separate keys, or one contact of the typed name.
ConfirmSource ==
    /\ stage.at = "preview" /\ \E x \in stage.rows : NeedsDecision(x)
    /\ \/ Saving({[x |-> x, decision |-> DefaultDecision(x)] : x \in stage.rows})
       \/ \E h \in stage.proposal, name \in Comment :
             Saving({[x |-> [r |-> Row(h, stage.proposal, Pasted, name, "new"), conflict |-> "none", holders |-> {}],
                      decision |-> "import"]})
    /\ UNCHANGED <<people, asked, overtaken, imports, edits>>
Decide ==
    /\ stage.at = "review"
    /\ \E d \in [{x \in stage.rows : NeedsDecision(x)} -> {"skip", "import", "replace"}] :
          /\ \A x \in DOMAIN d : d[x] \in DecisionsFor(x)
          /\ \E x \in DOMAIN d : d[x] # "skip"
          /\ Saving({[x |-> x, decision |-> d[x]] : x \in DOMAIN d})
    /\ UNCHANGED <<people, asked, overtaken, imports, edits>>
----------------------------------------------------------------------------
(* The contact list: upsertContacts and applyReview.                       *)

CarriesAll(p, new) == [new EXCEPT !.off = p.off \cap new.keys, !.alias = @ \/ p.alias, !.verified = p.verified]  \* mutant
CarryForward(p, new) ==
    LET bySource == SameSource(p, new)
        sameKeys == p.keys = new.keys
    IN  IF ~bySource /\ (p.src # Pasted \/ new.src # Pasted) THEN new
        ELSE [new EXCEPT !.off = p.off \cap new.keys,
                         !.alias = @ \/ ((bySource \/ sameKeys) /\ p.alias),
                         !.verified = p.verified /\ p.id = new.id /\ sameKeys]
Superseded(new) == {c \in people : c.id = new.id \/ SameSource(c, new)}
Upserts(new) ==
    LET gone == Superseded(new)
    IN  IF new.src = Pasted /\ \E c \in gone : c.src # Pasted THEN {people}
        ELSE IF gone = {} THEN {people \cup {new}}
        ELSE {(people \ gone) \cup {CarryForward(p, new)} : p \in gone}
AsContact(row, alias) ==
    [id |-> row.id, keys |-> row.keys, src |-> row.src, name |-> row.name, off |-> {}, verified |-> FALSE, alias |-> alias]
Asked(x) == IF x.conflict # "none" \/ x.r.allOff THEN {x.r.id} ELSE {}

\* One row of applyReview: "replace" hands over the name, then removes the old record.
SaveRow(item) ==
    LET old  == IF item.decision = "replace" THEN {c \in people : c.id \in item.x.holders} ELSE {}
        rest == stage.todo \ {item}
    IN  /\ stage.at = "saving" /\ item \in stage.todo /\ item.decision \in {"import", "replace"}
        /\ people' \in Upserts(AsContact(item.x.r, \E c \in old : c.alias))
        /\ stage' = [stage EXCEPT !.todo = rest \cup
                        {[x |-> item.x, decision |-> "remove", id |-> c.id] : c \in old}]
        /\ asked' = asked \cup Asked(item.x)
    /\ UNCHANGED <<overtaken, imports, edits>>
RemoveReplaced(item) ==
    /\ stage.at = "saving" /\ item \in stage.todo /\ item.decision = "remove"
    /\ people' = {c \in people : c.id # item.id}
    /\ stage' = [stage EXCEPT !.todo = @ \ {item}]
    /\ UNCHANGED <<asked, overtaken, imports, edits>>
FinishSsh ==
    /\ stage.at = "saving" /\ stage.todo = {}
    /\ stage' = NoStage
    /\ UNCHANGED <<people, asked, overtaken, imports, edits>>

\* The user's own edits: a key turned on or off, an alias, "verified", a removal.
Edit(c) ==
    /\ edits < MaxEdits /\ edits' = edits + 1
    /\ \/ \E k \in c.keys : people' = (people \ {c}) \cup {[c EXCEPT !.off = IF k \in @ THEN @ \ {k} ELSE @ \cup {k}]}
       \/ people' = (people \ {c}) \cup {[c EXCEPT !.alias = TRUE]}
       \/ people' = (people \ {c}) \cup {[c EXCEPT !.verified = ~@]}
       \/ people' = people \ {c}
    /\ UNCHANGED <<stage, asked, overtaken, imports>>
\* Another window saves a contact of its own.
Elsewhere(k) ==
    /\ edits < MaxEdits /\ edits' = edits + 1
    /\ Holding({k}) = {} /\ k \notin OwnSsh
    /\ people' = people \cup {AsContact(Row(k, {k}, Pasted, NoName, "new"), FALSE)}
    /\ overtaken' = (overtaken \/ stage.at # "source")
    /\ UNCHANGED <<stage, asked, imports>>

sshNext ==
    \/ \E ids \in (SUBSET SshKey) \ {{}} : (\E c \in Comment \cup {NoName} : Paste(ids, c)) \/ (\E u \in Account : Lookup(u, ids))
    \/ Leave \/ ConfirmSource \/ Decide \/ FinishSsh
    \/ \E item \in stage.todo : SaveRow(item) \/ RemoveReplaced(item)
    \/ \E c \in people : Edit(c)
    \/ \E k \in SshKey : Elsewhere(k)
sshSpec == sshInit /\ [][sshNext]_sshVars
----------------------------------------------------------------------------
sshTypeOK ==
    /\ people \subseteq Contact /\ \A c, d \in people : c.id = d.id => c = d
    /\ \A c \in people : c.id \in c.keys /\ c.off \subseteq c.keys
    /\ stage.at \in {"source", "preview", "review", "saving"} /\ stage.proposal \subseteq SshKey
    /\ asked \subseteq SshKey /\ overtaken \in BOOLEAN

(* Two contacts come to hold one key, or a contact one of the user's own,   *)
(* only where the Review marked the row and the user chose it all the same  *)
(* (unless another window saved a contact while the import was open).       *)
SharedKeysWereAsked ==
    \A c \in people : (c.keys \cap OwnSsh # {} \/ \E d \in people \ {c} : c.keys \cap d.keys # {})
        => overtaken \/ c.id \in asked \/ \E d \in people \ {c} : d.id \in asked /\ c.keys \cap d.keys # {}

(* An account has one contact, however its keys move.                       *)
AccountsHaveOneContact == \A c, d \in people : SameSource(c, d) => c = d

SavesRow(item) == item \in stage.todo /\ item \notin stage'.todo
(* A contact the user added by hand is never given other keys, and never    *)
(* disappears, by an import whose row did not start on Skip: a file that    *)
(* pairs its key with another cannot take it over.                          *)
NobodyIsTakenOver ==
    [][\A c \in people : c.src = Pasted /\ edits' = edits /\ (\A d \in people' : d.id = c.id => d.keys # c.keys)
          => overtaken \/ \E item \in stage.todo : SavesRow(item) /\ item.x.conflict # "none"]_sshVars

(* A key the user turned off stays off in every refresh of its contact      *)
(* (unless another window saved its head as a contact meanwhile: then the   *)
(* first of the two records in the list is the one carried forward).        *)
OffStaysOff ==
    [][edits' = edits /\ ~overtaken => \A c \in people, d \in people' :
          (d.id = c.id /\ d.src = c.src) \/ SameSource(c, d) => c.off \cap d.keys \subseteq d.off]_sshVars

(* "Verified" is the user's word on one set of keys: no import sets it, and *)
(* none keeps it over other keys.                                           *)
VerifiedIsTheUsers ==
    [][\A d \in people' : d.verified /\ edits' = edits => \E c \in people : c.verified /\ c.id = d.id /\ c.keys = d.keys]_sshVars

(* What an import of SSH keys promises the contacts: no contact's name or   *)
(* keys pass to somebody else without the user's choice, a key that was     *)
(* switched off stays off, an account has one contact, and only the user    *)
(* marks one as verified.                                                   *)
SshContactsAreTheUsers ==
    /\ [](sshTypeOK /\ SharedKeysWereAsked /\ AccountsHaveOneContact)
    /\ NobodyIsTakenOver /\ OffStaysOff /\ VerifiedIsTheUsers
=============================================================================
