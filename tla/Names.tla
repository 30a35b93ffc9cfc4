-------------------------------- MODULE Names --------------------------------
(***************************************************************************)
(* Who a key claims to be, and which other contact or key of the user      *)
(* claims the same: by address, by one that reads alike, or by name        *)
(* (lib/identity/binding.ts), and the letters that are marked in what is   *)
(* shown (lib/utils/lookalike.ts).  A text is a sequence of characters, a  *)
(* few of every kind the code tells apart.  A User ID is its name and its  *)
(* address: where in the text they sit is left out.                        *)
(***************************************************************************)
EXTENDS SequencesExt, Integers

CONSTANTS Record, OwnRecord,   \* contacts, and among them the user's own keys
          Casts,               \* who everybody is when a behaviour begins
          Aliases,             \* names the user gives
          Refreshed,           \* the User IDs a refreshed certificate may have
          MaxRenames           \* aliases, revocations and refreshes in a behaviour

NoForm == [alias |-> <<"none">>]
\* A text is of characters, and "none" is no character.
Person(p) ==
    /\ p \in [key : {p.key}, ids : {p.ids}, alias : {p.alias}, revoked : BOOLEAN]
    /\ p.alias # NoForm.alias

ASSUME NamesAssumption ==
    /\ OwnRecord \subseteq Record /\ MaxRenames \in Nat /\ NoForm.alias \notin Aliases
    /\ \A cast \in Casts : cast = [id \in Record |-> cast[id]] /\ \A id \in Record : Person(cast[id])

VARIABLES cards,   \* what is held
          forms,    \* FORMS: what was worked out for a record's User IDs
          clashes,  \* what the list of contacts shows
          renames

nameVars == <<cards, forms, clashes, renames>>

NotListed == [list |-> {}]
---------------------------------------------------------------------------
(* Characters.  kelvin and wideA are other characters for k and a, dotless *)
(* and stroked are Latin letters, a' decomposes into a and an accent, zhe  *)
(* is a letter that no table maps, and space has two looks of its own.     *)

WILD == "wild"
KEPT == "kept"
INVISIBLE == {"zwsp"}
DOT_LOOKALIKES == {"middot"}
Ascii == {"a", "A", "b", "I", "k", "l", "m", "n", "o", "r", "1", " ", "-", ".", "@"}
SEPARATOR == {" "}

OtherScripts == [cyrA |-> "a", iota |-> "I", kelvin |-> "k"]
LatinShaped == [lisuK |-> "k"]
StrokedLatin == [dotless |-> "i", stroked |-> "l"]
RoundLetters == [thai0 |-> "o"]
CONFUSABLE(c) ==
    CASE c \in DOMAIN OtherScripts -> OtherScripts[c]
      [] c \in DOMAIN LatinShaped -> LatinShaped[c]
      [] c \in DOMAIN StrokedLatin -> StrokedLatin[c]
      [] c \in DOMAIN RoundLetters -> RoundLetters[c]
      [] c = "1" -> "l"
Confusable ==
    UNION {DOMAIN OtherScripts, DOMAIN LatinShaped, DOMAIN StrokedLatin, DOMAIN RoundLetters, {"1"}}

\* knownScriptOf goes by range, so that stroked letters count as Latin and
\* wide ones do not; unicodeScript knows the rest.
NoScript == "none"
knownScriptOf(c) ==
    CASE c \in {"a", "A", "a'", "b", "I", "k", "l", "m", "n", "o", "r", "dotless", "stroked"} -> "Latin"
      [] c = "iota" -> "Greek"
      [] c \in {"cyrA", "zhe"} -> "Cyrillic"
      [] c \in {"wideA", "kelvin"} -> "Fullwidth"
      [] c = "lisuK" -> "Cherokee"
      [] OTHER -> NoScript
unicodeScript(c) == IF c = "thai0" THEN "Thai" ELSE NoScript
scriptOf(c) == IF knownScriptOf(c) # NoScript THEN knownScriptOf(c) ELSE unicodeScript(c)

Lower(c) == CASE c = "A" -> "a" [] c = "I" -> "i" [] OTHER -> c
NFKC(c) == CASE c = "wideA" -> "a" [] c = "kelvin" -> "k" [] OTHER -> c
NFD(c) == IF c = "a'" THEN <<"a", "accent">> ELSE <<c>>
FlatMap(Op(_), s) == FlattenSeq([i \in DOMAIN s |-> Op(s[i])])
stripInvisible(s) == SelectSeq(s, LAMBDA c : c \notin INVISIBLE)
readableForm(s) == stripInvisible([i \in DOMAIN s |-> NFKC(s[i])])
LowerAll(s) == [i \in DOMAIN s |-> Lower(s[i])]
---------------------------------------------------------------------------
(* Marks.                                                                  *)

\* The places of a word: markLookalikes cuts at separators.
WordAt(s, i) ==
    {j \in DOMAIN s : \A k \in DOMAIN s : (i <= k /\ k <= j) \/ (j <= k /\ k <= i) => s[k] \notin SEPARATOR}
CountOf(s, word, script) == Cardinality({j \in word : scriptOf(s[j]) = script})
ScriptsIn(s, word) == {scriptOf(s[j]) : j \in word} \ {NoScript}
\* The most common script; Latin, or else the first, of several.
MainScript(s, word) ==
    LET most == {t \in ScriptsIn(s, word) : \A u \in ScriptsIn(s, word) : CountOf(s, word, u) <= CountOf(s, word, t)}
        First(t) == CHOOSE j \in word : scriptOf(s[j]) = t /\ \A k \in word : scriptOf(s[k]) = t => j <= k
    IN  IF most = {} \/ "Latin" \in most THEN "Latin"
        ELSE CHOOSE t \in most : \A u \in most : First(t) <= First(u)
isConfusableLetter(c) == c \notin Ascii /\ (c \in Confusable \/ Lower(c) \in Confusable \/ c \in DOT_LOOKALIKES)
markWord(s, word, i) ==
    LET main == MainScript(s, word)
        latinAddress == (\E j \in word : s[j] = "@") /\ main = "Latin"
    IN  IF s[i] \in INVISIBLE THEN "invisible"
        ELSE IF latinAddress /\ isConfusableLetter(s[i]) THEN "confusable"
        ELSE IF Cardinality(ScriptsIn(s, word)) >= 2 /\ scriptOf(s[i]) \notin {NoScript, main} THEN "odd"
        ELSE "plain"
markLookalikes(s) ==
    [i \in DOMAIN s |-> IF s[i] \in SEPARATOR THEN "plain" ELSE markWord(s, WordAt(s, i), i)]
---------------------------------------------------------------------------
(* What a text looks like.                                                 *)

NAME_DROPS == {"accent", " ", "-", ".", "@", "middot"} \cup INVISIBLE
ADDRESS_DROPS == {"accent", " "} \cup INVISIBLE

\* PAIRS: r and n side by side read as m.
Paired(s) ==
    LET At(i) == i \in DOMAIN s /\ i + 1 \in DOMAIN s /\ s[i] = "r" /\ s[i + 1] = "n"
    IN  FlattenSeq([i \in DOMAIN s |-> IF At(i) THEN <<"m">> ELSE IF At(i - 1) THEN <<>> ELSE <<s[i]>>])
skeleton(s, capitalI, drops, dots) ==
    LET Fold(c) == IF c = "I" THEN capitalI ELSE c
        Letter(c) ==
            IF dots /\ c \in DOT_LOOKALIKES THEN <<".">>
            ELSE IF c \in Confusable THEN <<Fold(CONFUSABLE(c))>>
            ELSE IF c \in {"I", WILD} THEN <<Fold(c)>>
            ELSE IF c \in drops THEN <<>>
            ELSE IF Lower(c) \in Confusable THEN <<Fold(CONFUSABLE(Lower(c)))>>
            ELSE <<Fold(Lower(c))>>
    IN  Paired(FlatMap(Letter, FlatMap(NFD, readableForm(s))))
nameSkeletons(s) == {skeleton(s, i, NAME_DROPS, FALSE) : i \in {"i", "l"}} \ {<<>>}
addressSkeletons(s) == {skeleton(s, i, ADDRESS_DROPS, TRUE) : i \in {"i", "l"}} \ {<<>>}

\* Letters of another script that no table explains are wild, if that leaves
\* two letters and no more wild ones than others.
isMapped(c) == c \in Confusable \/ Lower(c) \in Confusable
withWildcards(s, kept) ==
    LET marks == markLookalikes(s)
        Wild(i) == marks[i] \in {"odd", "confusable"} /\ ~isMapped(s[i]) /\ s[i] \notin kept
    IN  [i \in DOMAIN s |-> IF Wild(i) THEN WILD ELSE s[i]]
Wilds(s) == Cardinality({i \in DOMAIN s : s[i] = WILD})
boundedWild(looks) == {s \in looks : Wilds(s) > 0 /\ Len(s) - Wilds(s) >= 2 /\ 2 * Wilds(s) <= Len(s)}
wildSkeletons(s) == boundedWild(nameSkeletons(withWildcards(s, {})))
wildAddressSkeletons(s) == boundedWild(addressSkeletons(withWildcards(s, DOT_LOOKALIKES)))
wildMatch(pattern, plain) ==
    Len(pattern) = Len(plain) /\ \A i \in DOMAIN pattern : pattern[i] \in {WILD, plain[i]}

\* A name as written: of the raw text, so that what draws nothing stays.
plainName(s) ==
    LET Written(c) ==
            IF c = "kelvin" THEN <<KEPT, c>>
            ELSE SelectSeq(LowerAll(NFD(c)), LAMBDA d : d \notin {"accent", " ", "-", ".", "@", "middot"})
    IN  FlatMap(Written, s)
nameFormOf(s) ==
    [plain |-> plainName(s), skeletons |-> nameSkeletons(readableForm(s)), wild |-> wildSkeletons(readableForm(s))]
---------------------------------------------------------------------------
(* Who claims what.                                                        *)

formOf(p) ==
    LET addresses == {readableForm(u.address) : u \in p.ids} \ {<<>>}
        names == {u.name : u \in p.ids} \cup {p.alias}
    IN  [alias |-> p.alias,
         emails |-> {LowerAll(a) : a \in addresses},
         looks |-> UNION {addressSkeletons(a) : a \in addresses},
         wildLooks |-> UNION {wildAddressSkeletons(a) : a \in addresses},
         names |-> {n \in {nameFormOf(s) : s \in names} : n.skeletons # {}}]
\* The cache is keyed by the User IDs and compared by alias.
CachedForm(id) == IF forms[id].alias = cards[id].alias THEN forms[id] ELSE formOf(cards[id])

Wildly(wild, looks) == \E w \in wild : \E k \in looks : wildMatch(w, k)
LooksAlike(mine, theirs) ==
    \/ mine.looks \cap theirs.looks # {}
    \/ Wildly(mine.wildLooks, theirs.looks) \/ Wildly(theirs.wildLooks, mine.looks)
nameLooksAlike(a, b) ==
    /\ a.plain # b.plain
    /\ a.skeletons \cap b.skeletons # {} \/ Wildly(a.wild, b.skeletons) \/ Wildly(b.wild, a.skeletons)
Alike(mine, theirs) == \E a \in mine.names : \E b \in theirs.names : nameLooksAlike(a, b)
\* The same name is two cards, unless one of them has no address.
SameName(mine, theirs) ==
    /\ mine.emails = {} \/ theirs.emails = {}
    /\ \E a \in mine.names : \E b \in theirs.names : a.plain = b.plain /\ a.plain # <<>>

NoClash == [kind |-> "none", holders |-> {}]
claims(mine, index) ==
    LET byAddress == {h \in DOMAIN index : mine.emails \cap index[h].emails # {}}
        byLookalike == {h \in DOMAIN index : LooksAlike(mine, index[h])}
        alike == {h \in DOMAIN index : Alike(mine, index[h])}
        same == {h \in DOMAIN index : SameName(mine, index[h])}
    IN  CASE byAddress # {} -> [kind |-> "address", holders |-> byAddress]
          [] byAddress = {} /\ byLookalike # {} -> [kind |-> "lookalike", holders |-> byLookalike]
          [] byAddress \cup byLookalike = {} /\ alike # {} -> [kind |-> "name", holders |-> alike \cup same]
          [] byAddress \cup byLookalike \cup alike = {} /\ same # {} -> [kind |-> "sameName", holders |-> same]
          [] OTHER -> NoClash
Live == {id \in Record : ~cards[id].revoked}
\* Everybody else of another key; contactClashes and, for one card, contactClash.
Others(c) == {h \in Live : cards[h].key # cards[c].key}
contactClash(c) ==
    IF c \in Live THEN claims(CachedForm(c), [h \in Others(c) |-> CachedForm(h)]) ELSE NoClash
contactClashes == [c \in Record \ OwnRecord |-> contactClash(c)]
---------------------------------------------------------------------------

namesInit ==
    /\ cards \in Casts
    /\ forms = [id \in Record |-> NoForm]
    /\ clashes = NotListed
    /\ renames = 0

\* ContactsList, RecipientPicker: worked out whenever the records change.
ListContacts ==
    /\ clashes' = contactClashes
    /\ forms' = [id \in Record |-> IF id \in Live THEN CachedForm(id) ELSE forms[id]]
    /\ UNCHANGED <<cards, renames>>
\* A record that is written again keeps its array of User IDs.
Rewritten(c, person) ==
    /\ renames < MaxRenames /\ renames' = renames + 1
    /\ cards' = [cards EXCEPT ![c] = person]
    /\ clashes' = NotListed
Rename(c, alias) == Rewritten(c, [cards[c] EXCEPT !.alias = alias]) /\ UNCHANGED forms
Revoke(c) == Rewritten(c, [cards[c] EXCEPT !.revoked = TRUE]) /\ UNCHANGED forms
\* A refreshed certificate brings another array.
Refresh(c, ids) == Rewritten(c, [cards[c] EXCEPT !.ids = ids]) /\ forms' = [forms EXCEPT ![c] = NoForm]

namesNext ==
    \/ ListContacts
    \/ \E c \in Record \ OwnRecord :
        \/ \E alias \in Aliases : Rename(c, alias)
        \/ Revoke(c)
        \/ \E ids \in Refreshed : Refresh(c, ids)
namesSpec == namesInit /\ [][namesNext]_nameVars
---------------------------------------------------------------------------
nameTypeOK ==
    /\ \A p \in Record : {"key", "ids", "alias", "revoked"} = DOMAIN cards[p]
    /\ clashes # NotListed => DOMAIN clashes = Record \ OwnRecord
    /\ renames \in 0..MaxRenames
NamesOf(p) == ({u.name : u \in cards[p].ids} \cup {cards[p].alias}) \ {<<>>}

\* What is drawn, which is not the code's to say: zhe has the shape of a k.
Glyph(c) ==
    CASE c \in {"cyrA", "wideA", "A"} -> <<"a">> [] c \in {"kelvin", "lisuK", "zhe"} -> <<"k">>
      [] c \in {"I", "iota", "1", "stroked"} -> <<"l">> [] c = "dotless" -> <<"i">>
      [] c = "thai0" -> <<"o">> [] c = "middot" -> <<".">> [] c = "zwsp" -> <<>>
      [] OTHER -> <<c>>
Drawn(s) == Paired(FlatMap(Glyph, s))
\* s, of words that are mostly Latin, passes for t, which anybody can type.
Passes(s, t) ==
    /\ Drawn(s) = Drawn(t) /\ \A i \in DOMAIN t : t[i] \in Ascii
    /\ \A i \in DOMAIN s : \A script \in ScriptsIn(s, WordAt(s, i)) :
           CountOf(s, WordAt(s, i), script) <= CountOf(s, WordAt(s, i), "Latin")
    /\ LET zhes == {i \in DOMAIN s : s[i] = "zhe"}
       IN  zhes = {} \/ (Cardinality(zhes) + 2 <= Len(Drawn(s)) /\ 2 * Cardinality(zhes) <= Len(Drawn(s)))
Spelling(s) == SelectSeq(LowerAll(s), LAMBDA c : c \notin {" ", "-", ".", "@", "middot"})

(* A name that is drawn as somebody else's is not shown without a word of it:   *)
(* there is a clash, unless it is spelled the same and both have addresses.     *)
(* What is odd in it is marked.                                                 *)
PassingIsTold ==
    clashes # NotListed =>
        \A c \in Live \ OwnRecord : \A d \in Others(c) :
            \A s \in NamesOf(c) : \A t \in NamesOf(d) :
                Passes(s, t) =>
                    /\ \/ clashes[c].kind # "none"
                       \/ Spelling(s) = Spelling(t) /\ \A p \in {c, d} : \E u \in cards[p].ids : u.address # <<>>
                    /\ \/ \E i \in DOMAIN s : markLookalikes(s)[i] # "plain"
                       \/ \A i \in DOMAIN s : s[i] \in Ascii \/ scriptOf(s[i]) = "Latin" \/ s[i] \in DOT_LOOKALIKES

Rank == [address |-> 1, lookalike |-> 2, name |-> 3, sameName |-> 4, none |-> 5]
(* Both cards say so: whoever is named on a contact's card says the same of it, *)
(* or names somebody for a graver reason (binding.ts, "marks BOTH keys").       *)
BothAreMarked ==
    clashes # NotListed =>
        \A c, d \in Record \ OwnRecord : d \in clashes[c].holders =>
            /\ clashes[d].kind # "none"
            /\ clashes[c].kind \in {"address", "lookalike"} => Rank[clashes[d].kind] <= Rank[clashes[c].kind]
            /\ Rank[clashes[d].kind] = Rank[clashes[c].kind] => c \in clashes[d].holders

(* What the list shows is worked out of the records as they are, alias and all, *)
(* though most of it was worked out before.                                     *)
ListIsFresh ==
    clashes # NotListed =>
        \A c \in Live \ OwnRecord : clashes[c] = claims(formOf(cards[c]), [h \in Others(c) |-> formOf(cards[h])])

NamesAreTold == nameTypeOK /\ PassingIsTold /\ BothAreMarked /\ ListIsFresh
=============================================================================
