----------------------------- MODULE Recipients ----------------------------
(***************************************************************************)
(* Whom a message is encrypted to: the picker's chips, which are ids, the  *)
(* contacts and own keys they stand for at the moment of the run (another  *)
(* page or window changes both meanwhile), and the key set handed to the   *)
(* engine.  One message has one engine: OpenPGP, or age for SSH keys.      *)
(***************************************************************************)
EXTENDS FiniteSets, Sequences, Naturals

CONSTANTS RKey,        \* public keys, by fingerprint
          Ssh,         \* those that are SSH keys
          MyKey,       \* keys that are, or may become, the user's own
          Group,       \* contacts with several SSH keys: their sets of keys
          MaxChanges   \* changes made elsewhere in a behaviour

ASSUME RecipientAssumption == Ssh \subseteq RKey /\ MyKey \subseteq RKey /\ \A g \in Group : g \subseteq Ssh

VARIABLES book,      \* the contacts
          mine,      \* the user's own keys
          chips,     \* selectedKeyIds
          dropdown,  \* the picker's list: open, and the highlighted option
          armed,     \* a message password is set
          toSelf,    \* encryptToSelf
          sealed,    \* the last encryption, and what the picker showed
          changes

recipVars == <<book, mine, chips, dropdown, armed, toSelf, sealed, changes>>

Nobody == [of |-> "none"]
Person(keys, head) == [id |-> head, keys |-> keys, off |-> {}]
PgpContacts == {Person({k}, k) : k \in RKey \ Ssh}
SshContacts == UNION {{Person(g, h) : h \in g} : g \in Group \cup {{k} : k \in Ssh}}
NotSent == [done |-> FALSE]

recipInit ==
    /\ book = {} /\ mine \in {s \in SUBSET MyKey : Cardinality(s) <= 1} /\ chips = <<>>
    /\ dropdown = [open |-> FALSE, at |-> Nobody] /\ armed = FALSE /\ toSelf \in BOOLEAN /\ sealed = NotSent /\ changes = 0
----------------------------------------------------------------------------
Kind(id) == IF id \in Ssh THEN "ssh" ELSE "pgp"
ActiveKeys(c) == c.keys \ c.off

\* resolveSelectedRecipients: an id that is the user's own means the own key.
Own(k) == [of |-> "own", id |-> k, keys |-> {k}, off |-> {}]
FromBook(c) == [of |-> "contact", id |-> c.id, keys |-> c.keys, off |-> c.off]
ContactFirst(id) == IF \E c \in book : c.id = id THEN {FromBook(c) : c \in {d \in book : d.id = id}} ELSE {Own(k) : k \in mine \cap {id}}  \* mutant
ResolveOne(id) == IF id \in mine THEN {Own(id)} ELSE {FromBook(c) : c \in {d \in book : d.id = id}}
ChosenKeys == UNION {ResolveOne(chips[i]) : i \in DOMAIN chips}
Shows(id) == ResolveOne(id) # {}
\* selectionEngine: the first chip that still stands for something decides.
Engine ==
    IF \E i \in DOMAIN chips : Shows(chips[i])
    THEN Kind(chips[CHOOSE i \in DOMAIN chips : Shows(chips[i]) /\ \A j \in 1..(i - 1) : ~Shows(chips[j])]) ELSE "none"

\* splitRecipientSections: own keys always, every contact but those with an own id.
OwnSection == {Own(k) : k \in mine}
ContactSection == {FromBook(c) : c \in {d \in book : d.id \notin mine}}
Offered == {o \in OwnSection \cup ContactSection : \A i \in DOMAIN chips : chips[i] # o.id}
\* recipientBlockReason, and the options a gesture may land on.
NotBlocked(o) == ActiveKeys(o) # {} /\ ~(armed /\ Kind(o.id) = "ssh") /\ Engine \in {"none", Kind(o.id)}
Pickable == {o \in Offered : NotBlocked(o)}
----------------------------------------------------------------------------
(* Gestures on the picker.                                                 *)

ListOpened == dropdown' = [open |-> TRUE, at |-> Nobody]
Closed == dropdown' = [open |-> FALSE, at |-> Nobody]
OpenList ==
    /\ ~dropdown.open /\ ListOpened
    /\ UNCHANGED <<book, mine, chips, armed, toSelf, sealed, changes>>
CloseList ==
    /\ dropdown.open /\ Closed
    /\ UNCHANGED <<book, mine, chips, armed, toSelf, sealed, changes>>
Highlight(o) ==
    /\ dropdown.open /\ dropdown' = [dropdown EXCEPT !.at = o]
    /\ UNCHANGED <<book, mine, chips, armed, toSelf, sealed, changes>>
\* Enter: the highlight if it may be picked, else the top of what may be.
EnterPicks == IF dropdown.at \in Pickable THEN {dropdown.at} ELSE Pickable
Pick(o) ==
    /\ dropdown.open /\ o \in EnterPicks
    /\ chips' = Append(chips, o.id)
    /\ Closed
    /\ UNCHANGED <<book, mine, armed, toSelf, sealed, changes>>
\* A digit keeps the list open; it counts what may be picked.
PickByDigit(o) ==
    /\ dropdown.open /\ o \in Pickable
    /\ chips' = Append(chips, o.id)
    /\ UNCHANGED <<book, mine, dropdown, armed, toSelf, sealed, changes>>
Backspace ==
    /\ chips # <<>> /\ chips' = SubSeq(chips, 1, Len(chips) - 1)
    /\ UNCHANGED <<book, mine, dropdown, armed, toSelf, sealed, changes>>
\* The filter drops one chip: no id is twice among them (recipTypeOK).
RemoveChip(id) ==
    /\ Shows(id)
    /\ \E i \in DOMAIN chips :
          chips[i] = id /\ chips' = [j \in 1..(Len(chips) - 1) |-> chips[IF j < i THEN j ELSE j + 1]]
    /\ UNCHANGED <<book, mine, dropdown, armed, toSelf, sealed, changes>>
ClearChips ==
    /\ Cardinality(ChosenKeys) > 1 /\ chips' = <<>>
    /\ UNCHANGED <<book, mine, dropdown, armed, toSelf, sealed, changes>>
\* "Encrypt to" on a contact.
EncryptToOne(c) ==
    /\ chips' = <<c.id>> /\ Closed
    /\ UNCHANGED <<book, mine, armed, toSelf, sealed, changes>>
ArmPassword ==
    /\ Engine # "ssh" \/ armed
    /\ armed' = ~armed
    /\ UNCHANGED <<book, mine, chips, dropdown, toSelf, sealed, changes>>
----------------------------------------------------------------------------
(* The run: encrypt() and buildEncryptRecipients.                          *)

SelfKeys(engine) == IF engine = "none" THEN mine ELSE {k \in mine : Kind(k) = engine}
Refuses(records) == (\E r \in records : ActiveKeys(r) = {}) \/ Cardinality({Kind(r.id) : r \in records}) > 1
\* The backstop of encrypt(): the set is not of the engine the screen committed to.
OtherEngine(records) == \E r \in records : (Kind(r.id) = "ssh") # (Engine = "ssh")
LeavesSelfOut(records, self) == (\A r \in records : r.id \notin mine) /\ self = {}
TargetKeys(r) == ActiveKeys(r)
Encrypt ==
    /\ ChosenKeys # {} \/ armed
    /\ LET records == ChosenKeys
           withSelf == \E r \in records : r.id \in mine
           refused == (Engine = "ssh" /\ armed) \/ Refuses(records) \/ OtherEngine(records)
       IN  \E self \in (IF toSelf /\ ~withSelf /\ SelfKeys(Engine) # {} THEN {{k} : k \in SelfKeys(Engine)} ELSE {{}}) :
              sealed' = IF refused THEN [done |-> FALSE]
                        ELSE [done |-> TRUE, shown |-> records, self |-> self, mine |-> mine,
                              excluded |-> LeavesSelfOut(records, self), to |-> self \cup UNION {TargetKeys(r) : r \in records}]
    /\ UNCHANGED <<book, mine, chips, dropdown, armed, toSelf, changes>>
----------------------------------------------------------------------------
(* What changes elsewhere: imports, refreshes, a key turned off, removals. *)

Change == changes < MaxChanges /\ changes' = changes + 1
AddPerson(c) ==
    /\ Change /\ c.id \notin {d.id : d \in book} /\ book' = book \cup {c}
    /\ UNCHANGED <<mine, chips, dropdown, armed, toSelf, sealed>>
ChangePerson(c) ==
    /\ Change
    /\ \/ book' = book \ {c}
       \/ \E k \in c.keys : book' = (book \ {c}) \cup {[c EXCEPT !.off = IF k \in @ THEN @ \ {k} ELSE @ \cup {k}]}
       \/ \E keys \in SUBSET c.keys : c.id \in keys /\ book' = (book \ {c}) \cup {[id |-> c.id, keys |-> keys, off |-> c.off \cap keys]}
    /\ UNCHANGED <<mine, chips, dropdown, armed, toSelf, sealed>>
ChangeOwn(k) ==
    /\ Change /\ mine' = IF k \in mine THEN mine \ {k} ELSE mine \cup {k}
    /\ UNCHANGED <<book, chips, dropdown, armed, toSelf, sealed>>

recipNext ==
    \/ OpenList \/ CloseList \/ Backspace \/ ClearChips \/ ArmPassword \/ Encrypt
    \/ \E o \in Offered : Highlight(o) \/ Pick(o) \/ PickByDigit(o)
    \/ \E id \in RKey : RemoveChip(id)
    \/ \E c \in book : EncryptToOne(c) \/ ChangePerson(c)
    \/ \E c \in PgpContacts \cup SshContacts : AddPerson(c)
    \/ \E k \in MyKey : ChangeOwn(k)
recipSpec == recipInit /\ [][recipNext]_recipVars
----------------------------------------------------------------------------
recipTypeOK ==
    /\ \A c \in book : c.id \in c.keys /\ c.keys \subseteq RKey /\ c.off \subseteq c.keys
    /\ mine \subseteq MyKey /\ chips \in Seq(RKey) /\ armed \in BOOLEAN /\ toSelf \in BOOLEAN
    /\ \A i, j \in DOMAIN chips : chips[i] = chips[j] => i = j

(* A message goes to the active keys of the chips on the screen and to at   *)
(* most one own key, to no other; an own id never brings in a contact that  *)
(* holds the same key.                                                      *)
OnlyChosenKeys ==
    sealed.done => /\ sealed.to \subseteq sealed.self \cup UNION {r.keys \ r.off : r \in sealed.shown}
                   /\ sealed.self \subseteq sealed.mine
                   /\ \A r \in sealed.shown : r.id \in sealed.mine => r.keys = {r.id}

(* Nobody on the screen is left out: every chip can read the message.       *)
NobodyIsLeftOut == sealed.done => \A r \in sealed.shown : r.keys \cap sealed.to # {}

(* The keys of one message are of one engine.                               *)
OneEngineOnly == sealed.done => Cardinality({Kind(k) : k \in sealed.to}) <= 1

(* The user who will not be able to read the message is told, and only then *)
(* (a contact that holds an own key makes the warning needless, not wrong). *)
SelfExclusionIsSaid == sealed.done => (sealed.to \cap sealed.mine = {} => sealed.excluded) /\ (sealed.excluded => sealed.self = {})

(* No gesture on the picker mixes engines, whatever was added, removed or   *)
(* renamed under it; only a chip whose contact comes back can do that, and  *)
(* the run then refuses (recipient-engine.ts:21 says "never mixed").        *)
Mixed == Cardinality({Kind(r.id) : r \in ChosenKeys}) > 1
GesturesDoNotMix == [][Mixed' /\ ~Mixed => changes' # changes]_recipVars

(* The user's own keys can always be chosen: no contact, whatever keys it   *)
(* lists, hides one.                                                        *)
OwnKeysAreOffered == \A k \in mine : (\A i \in DOMAIN chips : chips[i] # k) => Own(k) \in Offered

(* What the recipient picker promises (RecipientPicker.tsx,                 *)
(* encrypt-recipients.ts): a message is sealed to the chosen keys, all of   *)
(* them and no others, by one engine; the picker says when the user cannot  *)
(* read it; own keys are offered; and a gesture adds no key that another    *)
(* engine would have to use.                                                *)
SealedAsChosen ==
    /\ [](recipTypeOK /\ OnlyChosenKeys /\ NobodyIsLeftOut /\ OneEngineOnly /\ SelfExclusionIsSaid /\ OwnKeysAreOffered)
    /\ GesturesDoNotMix
=============================================================================
