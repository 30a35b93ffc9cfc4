------------------------------ MODULE KeyPages -------------------------------
(***************************************************************************)
(* The keys tab: its stack of pages (components/keys/KeysSubPages.tsx,     *)
(* components/shared/useNavStack.ts, SubPage.tsx), the page that makes a   *)
(* key (GenerateKeyPage.tsx, protection-choice.ts, lib/keys/expiry.ts),    *)
(* the pages that delete keys and contacts (DeletePages.tsx) with their    *)
(* Undo, and the default key (hooks/useVaultServices.ts).                  *)
(*                                                                         *)
(* A page that is closed slides out and is taken from the stack later.  A  *)
(* deletion and a generation run on when their page is dismissed.  What is *)
(* typed is either accepted or leaves everything as it is, so only what is *)
(* accepted appears.  Time is counted in half days.                        *)
(***************************************************************************)
EXTENDS Integers, Sequences

CONSTANTS
    Vaults,                          \* at first: [stored, protected]
    OwnIds, SigningIds, PeopleIds,   \* what may be in them
    NewPgp, NewCrx,                  \* the key that is made, of either kind, once
    NoKey,
    DAY, Fixed,                      \* a day, and a fixed span, in half days
    MaxPages, MaxClock               \* bounds: pages opened, the clock

ASSUME KeyPagesConstants ==
    /\ \A vault \in Vaults : vault.stored \subseteq OwnIds \union SigningIds \union PeopleIds
    /\ NoKey \notin OwnIds \union {NewPgp} /\ NewPgp # NewCrx
    /\ {NewPgp, NewCrx} \intersect (OwnIds \union SigningIds \union PeopleIds) = {}
    /\ DAY \in Nat \ {0} /\ Fixed \in Nat \ {0} /\ MaxPages \in Nat /\ MaxClock \in Nat

VARIABLES
    stored,                  \* own keys, signing keys and contacts
    standard,                \* defaultKeyId
    stack, lastPage,         \* the pages, each with its id, and the last id
    deletions,               \* confirmed and under way
    offered,                 \* what the toast's Undo would put back
    protected,               \* the vault: "password", "passkey", "sealing" (with its salt)
    choices, leaf, earliest, \* the page's choices, its step, and expiryBounds.tomorrow
    making,                  \* the generation under way
    made,                    \* the key has been made
    clock,                   \* since a page for a key was opened
    \* History, read by no action.
    rushed,                  \* a deletion's page was gone before it ended
    failed,                  \* a deletion failed half way
    taken                    \* contacts removed with an Undo promised

listVars == <<stored, standard>>
navVars == <<stack, lastPage>>
deleteVars == <<deletions, offered, rushed, failed, taken>>
makeVars == <<protected, choices, leaf, earliest, making, made, clock>>
keyVars == <<listVars, navVars, deleteVars, makeVars>>

Never == 0
Idle == [stage |-> "none"]
Pgp == OwnIds \union {NewPgp}
Crx == SigningIds \union {NewCrx}
FirstForm ==
    [type |-> "pgp", option |-> "fixed", date |-> Never, use |-> "master passkey"]
FormIn(pages) == \E i \in DOMAIN pages : pages[i].page = "generate"
NewForm == choices' = FirstForm /\ leaf' = "identity" /\ earliest' = Never

KeysInit ==
    /\ \E vault \in Vaults : stored = vault.stored /\ protected = vault.protected
    /\ standard \in (stored \intersect OwnIds) \union {NoKey}
    /\ stack = <<>> /\ lastPage = 0 /\ deletions = {} /\ offered = {}
    /\ choices = FirstForm /\ leaf = "identity" /\ earliest = Never
    /\ making = Idle /\ made = FALSE /\ clock = 0
    /\ rushed = FALSE /\ failed = FALSE /\ taken = {}

---------------------------------------------------------------------------
(* The stack.                                                              *)

Top == stack[Len(stack)]
OnTop(page) == stack # <<>> /\ Top.page = page
Opened(page, about) == [id |-> lastPage + 1, page |-> page, about |-> about, closing |-> FALSE]
Push(page, about) ==
    /\ lastPage < MaxPages
    /\ lastPage' = lastPage + 1 /\ stack' = Append(stack, Opened(page, about))
Closing(entry) == [entry EXCEPT !.closing = TRUE]

OpenDetails(id) ==
    /\ stack = <<>> /\ id \in stored
    /\ Push("details", {id})
    /\ UNCHANGED <<listVars, deleteVars, makeVars>>

OpenConfirmDelete ==
    /\ OnTop("details")
    /\ Push("delete", Top.about)
    /\ UNCHANGED <<listVars, deleteVars, makeVars>>

\* Of what is selected in the list.
OpenBulkDelete ==
    /\ stack = <<>>
    /\ \E picked \in (SUBSET stored) \ {{}} : Push("bulk", picked)
    /\ UNCHANGED <<listVars, deleteVars, makeVars>>

OpenGenerate ==
    /\ stack = <<>> /\ making = Idle
    /\ Push("generate", {})
    /\ UNCHANGED <<listVars, deleteVars, makeVars>>

\* Escape, the backdrop or Cancel close the topmost page, whatever it is doing.
DismissTop ==
    /\ stack # <<>> /\ ~Top.closing
    /\ stack' = [stack EXCEPT ![Len(stack)] = Closing(@)]
    /\ UNCHANGED <<lastPage, listVars, deleteVars, makeVars>>

\* After the slide-out a page takes itself out, by its id, and its choices go.
RemovePage(id) ==
    /\ \E i \in DOMAIN stack :
           /\ stack[i].id = id /\ stack[i].closing
           /\ stack' = SubSeq(stack, 1, i - 1) \o SubSeq(stack, i + 1, Len(stack))
    /\ rushed' = (rushed \/ \E d \in deletions : d.page = id)
    /\ IF FormIn(stack') THEN UNCHANGED <<choices, leaf, earliest>> ELSE NewForm
    /\ clock' = IF FormIn(stack') \/ making # Idle THEN clock ELSE 0
    /\ UNCHANGED <<lastPage, listVars, deletions, offered, failed, taken, protected, making, made>>

---------------------------------------------------------------------------
(* The default key.                                                        *)

\* The page of an own key has the key it was opened with, stored or not.
SetDefault ==
    /\ OnTop("details")
    /\ \E id \in Top.about \intersect Pgp : standard' = IF standard = id THEN NoKey ELSE id
    /\ UNCHANGED <<stored, navVars, deleteVars, makeVars>>

---------------------------------------------------------------------------
(* Deleting.                                                               *)

\* Own keys, then signing keys, then contacts.
Foremost(ids) ==
    CASE ids \intersect Pgp # {} -> ids \intersect Pgp
      [] ids \intersect Pgp = {} /\ ids \intersect Crx # {} -> ids \intersect Crx
      [] OTHER -> ids

\* The default and the contacts are those of the render the click was made in.
Confirm ==
    /\ OnTop("delete") \/ OnTop("bulk")
    /\ ~\E d \in deletions : d.page = Top.id
    /\ LET chosen == IF Top.page = "bulk" THEN Top.about \intersect stored ELSE Top.about
       IN deletions' = deletions \union
              {[page |-> Top.id, todo |-> chosen,
                standard |-> standard, offers |-> IF chosen \subseteq PeopleIds THEN chosen ELSE {}]}
    /\ UNCHANGED <<offered, rushed, failed, taken, listVars, navVars, makeVars>>

DeleteOne(d) ==
    /\ \E id \in Foremost(d.todo) :
           /\ stored' = stored \ {id}
           /\ standard' = IF d.standard = id THEN NoKey ELSE standard
           /\ deletions' = (deletions \ {d}) \union {[d EXCEPT !.todo = @ \ {id}]}
           /\ taken' = IF d.offers = {} THEN taken ELSE taken \union {id}
    /\ UNCHANGED <<offered, rushed, failed, navVars, makeVars>>

\* The page stays, with what was deleted deleted.
DeleteFails(d) ==
    /\ d.todo # {}
    /\ deletions' = deletions \ {d}
    /\ failed' = TRUE
    /\ UNCHANGED <<offered, rushed, taken, listVars, navVars, makeVars>>

\* onDeleted collapses the stack to its top; then the page closes itself.
Deleted(d) ==
    /\ d.todo = {}
    /\ deletions' = deletions \ {d}
    /\ stack' = IF stack = <<>> THEN <<>>
                ELSE <<IF Top.id = d.page THEN Closing(Top) ELSE Top>>
    /\ IF d.offers = {} THEN UNCHANGED <<offered, taken>>
       ELSE offered' = d.offers /\ taken' = taken \intersect d.offers
    /\ UNCHANGED <<stored, standard, lastPage, rushed, failed, makeVars>>

Undo ==
    /\ offered # {}
    /\ stored' = stored \union offered /\ offered' = {} /\ taken' = taken \ stored'
    /\ UNCHANGED <<standard, deletions, rushed, failed, navVars, makeVars>>

OfferExpires ==
    /\ offered # {}
    /\ offered' = {} /\ taken' = taken \ offered
    /\ UNCHANGED <<deletions, rushed, failed, listVars, navVars, makeVars>>

---------------------------------------------------------------------------
(* Generating.                                                             *)

OnForm(step) ==
    /\ OnTop("generate") /\ making = Idle /\ leaf = step
    /\ UNCHANGED <<listVars, navVars, deleteVars, protected, made, clock>>
ToStep(step) == leaf' = step /\ UNCHANGED <<earliest, making>>

HandleGenerate ==
    /\ ~made
    /\ making' = [stage |-> "painting", form |-> choices', standard |-> standard]
    /\ leaf' = "generating" /\ UNCHANGED earliest
OnToProtection ==
    IF protected # "password" /\ choices'.use # "password" THEN HandleGenerate ELSE ToStep("protection")

\* A choice of expiry stays when the kind of key is changed after it.
HandleNext(type, option) ==
    /\ OnForm("identity")
    /\ choices' = [choices EXCEPT !.type = type, !.option = option]
    /\ IF type = "pgp" /\ option = "custom"
       THEN earliest' = clock + DAY /\ leaf' = "expiry" /\ UNCHANGED making
       ELSE OnToProtection

\* The calendar offers every day from tomorrow's on, each from its midnight.
HandleExpiryNext ==
    /\ OnForm("expiry") /\ earliest # Never
    /\ \E day \in (earliest \div DAY) .. ((MaxClock \div DAY) + 1) :
           day * DAY >= earliest /\ choices' = [choices EXCEPT !.date = day * DAY]
    /\ OnToProtection

SubmitProtection(use) ==
    /\ OnForm("protection")
    /\ choices' = [choices EXCEPT !.use = use] /\ HandleGenerate

HandleBack ==
    /\ \/ OnForm("expiry") /\ ToStep("identity")
       \/ OnForm("protection") /\ ToStep(IF choices.option = "custom" THEN "expiry" ELSE "identity")
    /\ UNCHANGED choices

ExpiryToSeconds(option, date, now) ==
    CASE option = "never" -> Never
      [] option = "fixed" -> Fixed
      [] option = "custom" -> IF date > now THEN date - now ELSE Never

\* A signing key never takes the master's salt.
SealedUnder(f) ==
    CASE f.use = "master passkey" /\ protected = "password" -> "new passkey"
      [] f.use = "master passkey" /\ protected = "sealing" /\ f.type = "pgp" -> "master seal"
      [] OTHER -> f.use

\* After the paint the span is computed, and the key is sealed.
Seal ==
    /\ making.stage = "painting"
    /\ LET f == making.form
           span == ExpiryToSeconds(f.option, f.date, clock)
       IN making' = [stage |-> "adding", form |-> f, standard |-> making.standard,
                     first |-> stored \intersect Pgp = {}, at |-> clock, under |-> SealedUnder(f),
                     expires |-> IF f.type = "crx" \/ span = Never THEN Never ELSE clock + span]
    /\ UNCHANGED <<listVars, navVars, deleteVars, protected, choices, leaf, earliest, made, clock>>

\* The first own key becomes the default, if the click saw none.
Added ==
    /\ making.stage = "adding"
    /\ stored' = stored \union {IF making.form.type = "pgp" THEN NewPgp ELSE NewCrx}
    /\ standard' = IF making.form.type = "pgp" /\ making.first /\ making.standard = NoKey
                   THEN NewPgp ELSE standard
    /\ made' = TRUE /\ making' = Idle /\ clock' = 0
    /\ stack' = [i \in DOMAIN stack |->
                   IF stack[i].page = "generate" THEN Closing(stack[i]) ELSE stack[i]]
    /\ UNCHANGED <<lastPage, deleteVars, protected, choices, leaf, earliest>>

MakingFails ==
    /\ making # Idle
    /\ making' = Idle
    /\ IF FormIn(stack) THEN leaf' = "protection" /\ UNCHANGED clock
       ELSE clock' = 0 /\ UNCHANGED leaf
    /\ UNCHANGED <<listVars, navVars, deleteVars, protected, choices, earliest, made>>

TimePasses ==
    /\ clock < MaxClock /\ (leaf = "expiry" \/ making.stage = "painting")
    /\ choices.type = "pgp" /\ choices.option = "custom"
    /\ clock' = clock + 1
    /\ UNCHANGED <<listVars, navVars, deleteVars, protected, choices, leaf, earliest, making, made>>

---------------------------------------------------------------------------

KeysNext ==
    \/ \E id \in Pgp \union Crx \union PeopleIds : OpenDetails(id)
    \/ OpenConfirmDelete \/ OpenBulkDelete \/ OpenGenerate \/ DismissTop
    \/ \E id \in 1..MaxPages : RemovePage(id)
    \/ SetDefault \/ Confirm
    \/ \E d \in deletions : DeleteOne(d) \/ DeleteFails(d) \/ Deleted(d)
    \/ Undo \/ OfferExpires
    \/ \E type \in {"pgp", "crx"}, option \in {"never", "fixed", "custom"} : HandleNext(type, option)
    \/ \E use \in {"master passkey", "new passkey", "password"} : SubmitProtection(use)
    \/ HandleExpiryNext \/ HandleBack
    \/ Seal \/ Added \/ MakingFails \/ TimePasses

KeysSpec == KeysInit /\ [][KeysNext]_keyVars

---------------------------------------------------------------------------
(* Properties                                                              *)

(* After a deletion no page shows what was deleted: "this page's slide-out       *)
(* reveals the list, not a stale view of the deleted key".  Not if the page that *)
(* deletes was gone by then: what it lay on is left where it is.                 *)
NoStaleView ==
    rushed \/ deletions # {}
    \/ \A i \in DOMAIN stack : stack[i].page = "details" => stack[i].about \subseteq stored

(* "The default never points at a deleted key", with the same exception.         *)
DefaultIsOwned == rushed \/ standard \in stored \union {NoKey}

(* A deletion of contacts alone can be taken back in full while the offer stands, *)
(* unless a removal failed half way; a private key never comes back by an Undo.   *)
UndoIsWhole ==
    /\ offered \subseteq PeopleIds
    /\ failed \/ \A id \in taken :
           id \in stored \union offered \/ \E d \in deletions : id \in d.offers

(* A key expires when the user said, if that date was still ahead when it was    *)
(* made, and only a key that reuses the vault's passkey is sealed under its salt,*)
(* a signing key never.                                                          *)
MadeAsChosen ==
    making.stage = "adding" =>
        /\ making.under = "master seal" =>
               making.form.type = "pgp" /\ making.form.use = "master passkey" /\ protected = "sealing"
        /\ making.form.type = "pgp" /\ making.form.option = "custom" =>
               making.expires = IF making.form.date > making.at THEN making.form.date ELSE Never

(* The step for the expiry has its bounds, and so something to show; for a       *)
(* signing key, which has no expiry, the step may be empty.                      *)
ExpiryIsShown == leaf = "expiry" /\ choices.type = "pgp" => earliest # Never

KeyPagesAreTrue == NoStaleView /\ DefaultIsOwned /\ UndoIsWhole /\ MadeAsChosen /\ ExpiryIsShown
=============================================================================
