------------------------------ MODULE FindBar ------------------------------
(***************************************************************************)
(* Find and replace over the message box.  Every change of the text makes  *)
(* the bar search again and anchor on the match at the caret; but "replace *)
(* this one" also steps on by a timer, with the matches it saw before.     *)
(* Letters stand for code units; the query is one letter, in two cases.    *)
(***************************************************************************)
EXTENDS Sequences, Integers

CONSTANTS Replacements,  \* what the replace field may hold
          BoxTexts,      \* texts the box may start with
          MaxLetters,    \* letters in the box
          MaxBoxEdits    \* edits in a behaviour

VARIABLES boxText,   \* the textarea's value
          caret,     \* its selection
          bar,       \* the bar: open, case, replacement, matches, current
          stepping,  \* timers of replaceCurrent: the matches each closed over
          boxEdits

findVars == <<boxText, caret, bar, stepping, boxEdits>>

Letter == {"q", "Q", "x"}
ASSUME FindAssumption ==
    /\ MaxLetters \in Nat /\ MaxBoxEdits \in Nat /\ Replacements \subseteq Seq(Letter)
    /\ \A t \in BoxTexts : t \in Seq(Letter) /\ Len(t) <= MaxLetters
NoBar == [open |-> FALSE, exact |-> FALSE, with |-> <<>>, matches |-> <<>>, current |-> 0 - 1]
Span(a, b) == [start |-> a, end |-> b]

findInit ==
    /\ boxText \in BoxTexts /\ caret = Span(0, 0) /\ bar = NoBar /\ stepping = <<>> /\ boxEdits = 0
----------------------------------------------------------------------------
(* The search: offsets count from zero, -1 is "none".                      *)

IsMatch(ch, exact) == ch = "q" \/ (ch = "Q" /\ ~exact)
\* findAll: one scan from left to right.
FindAll(t, exact) ==
    LET found[n \in 0..Len(t)] ==
            IF n = 0 THEN <<>>
            ELSE IF IsMatch(t[n], exact) THEN Append(found[n - 1], n - 1) ELSE found[n - 1]
    IN  found[Len(t)]
NextMatch(ms, from) ==
    IF ms = <<>> THEN 0 - 1
    ELSE LET later == {i \in DOMAIN ms : ms[i] >= from} IN IF later = {} THEN 0 ELSE (CHOOSE i \in later : \A j \in later : i <= j) - 1
PrevMatch(ms, from) ==
    IF ms = <<>> THEN 0 - 1
    ELSE LET before == {i \in DOMAIN ms : ms[i] < from} IN IF before = {} THEN Len(ms) - 1 ELSE (CHOOSE i \in before : \A j \in before : i >= j) - 1

Upto(t, n) == SubSeq(t, 1, IF n < Len(t) THEN n ELSE Len(t))
From(t, n) == SubSeq(t, n + 1, Len(t))
\* replaceAt: an offset that is not there slices to the whole text, twice.
ReplacedAt(t, ms, i, with) ==
    IF i + 1 \in DOMAIN ms THEN Upto(t, ms[i + 1]) \o with \o From(t, ms[i + 1] + 1) ELSE t \o with \o t
\* replaceAll: right to left, so that earlier offsets stay valid.
ReplaceEach(t, ms, with) ==
    LET out[i \in 0..Len(ms)] ==
            IF i = 0 THEN t
            ELSE LET o == ms[Len(ms) + 1 - i] IN Upto(out[i - 1], o) \o with \o From(out[i - 1], o + 1)
    IN  out[Len(ms)]

\* applyTextareaEdit: only the span that differs is inserted.
SamePrefix(a, b) ==
    LET short == IF Len(a) < Len(b) THEN Len(a) ELSE Len(b)
    IN  CHOOSE p \in 0..short : Upto(a, p) = Upto(b, p) /\ (p = short \/ a[p + 1] # b[p + 1])
SuffixRoom(a, b, p) == (IF Len(a) < Len(b) THEN Len(a) ELSE Len(b)) - p
SameSuffix(a, b, p) ==
    CHOOSE s \in 0..SuffixRoom(a, b, p) :
        /\ \A k \in 0..(s - 1) : a[Len(a) - k] = b[Len(b) - k]
        /\ s = SuffixRoom(a, b, p) \/ a[Len(a) - s] # b[Len(b) - s]
Inserted(a, b) ==
    LET p == SamePrefix(a, b) s == SameSuffix(a, b, p) IN Upto(a, p) \o SubSeq(b, p + 1, Len(b) - s) \o From(a, Len(a) - s)

\* A text lands in the box: the bar searches it and anchors at the caret.
SearchedOnce(b, t, at) == IF bar.open THEN b ELSE [b EXCEPT !.matches = FindAll(t, b.exact), !.current = NextMatch(FindAll(t, b.exact), at.start)]  \* mutant
Anchored(b, t, at) ==
    LET ms == FindAll(t, b.exact) IN [b EXCEPT !.matches = ms, !.current = NextMatch(ms, at.start)]
Selected(b, at) == IF b.current < 0 THEN at ELSE Span(b.matches[b.current + 1], b.matches[b.current + 1] + 1)
Lands(t, at) ==
    LET b == Anchored(bar, t, at)
    IN  /\ boxText' = t
        /\ bar' = IF bar.open THEN b ELSE bar
        /\ caret' = IF bar.open THEN Selected(b, at) ELSE at
Editing(t) == boxEdits < MaxBoxEdits /\ boxEdits' = boxEdits + 1 /\ Len(t) <= MaxLetters
----------------------------------------------------------------------------
OpenFind(exact, with) ==
    /\ ~bar.open
    /\ LET b == Anchored([NoBar EXCEPT !.open = TRUE, !.exact = exact, !.with = with], boxText, caret)
       IN  bar' = b /\ caret' = Selected(b, caret)
    /\ UNCHANGED <<boxText, stepping, boxEdits>>
CloseFind ==
    /\ bar.open /\ bar' = NoBar
    /\ UNCHANGED <<boxText, caret, stepping, boxEdits>>
ToggleCase ==
    /\ bar.open
    /\ LET b == Anchored([bar EXCEPT !.exact = ~@], boxText, caret) IN bar' = b /\ caret' = Selected(b, caret)
    /\ UNCHANGED <<boxText, stepping, boxEdits>>
\* Typing, pasting, or putting the caret somewhere while the bar is open.
TypeLetter(ch, o) ==
    /\ o <= Len(boxText)
    /\ LET t == Upto(boxText, o) \o <<ch>> \o From(boxText, o) IN Editing(t) /\ Lands(t, Span(o + 1, o + 1))
    /\ UNCHANGED stepping
MoveCaret(o) ==
    /\ o <= Len(boxText) /\ caret' = Span(o, o)
    /\ UNCHANGED <<boxText, bar, stepping, boxEdits>>
\* step, with the matches `ms` of the render that made it.
Steps(ms, i) ==
    /\ bar' = [bar EXCEPT !.current = i]
    /\ caret' = LET n == Len(boxText) o == ms[i + 1] IN Span(IF o < n THEN o ELSE n, IF o + 1 < n THEN o + 1 ELSE n)
Step(dir) ==
    /\ bar.open /\ bar.matches # <<>>
    /\ Steps(bar.matches, IF dir = "next" THEN NextMatch(bar.matches, caret.end) ELSE PrevMatch(bar.matches, caret.start))
    /\ UNCHANGED <<boxText, stepping, boxEdits>>
ReplaceCurrent ==
    /\ bar.open /\ bar.current >= 0 /\ bar.matches # <<>> /\ stepping = <<>>
    /\ LET t == ReplacedAt(boxText, bar.matches, bar.current, bar.with)
           o == IF bar.current + 1 \in DOMAIN bar.matches THEN bar.matches[bar.current + 1] ELSE 0
       IN  Editing(t) /\ Lands(Inserted(boxText, t), Span(o, o + Len(bar.with)))
    /\ stepping' = <<bar.matches>>
\* setTimeout(() => step(1), 0)
TimedStep ==
    /\ stepping # <<>> /\ stepping' = <<>>
    /\ IF bar.open THEN Steps(stepping[1], NextMatch(stepping[1], caret.end)) ELSE UNCHANGED <<bar, caret>>
    /\ UNCHANGED <<boxText, boxEdits>>
ReplaceEvery ==
    /\ bar.open /\ bar.matches # <<>>
    /\ LET t == ReplaceEach(boxText, FindAll(boxText, bar.exact), bar.with)
       IN  Editing(t) /\ Lands(Inserted(boxText, t), Span(caret.start, caret.start))
    /\ UNCHANGED stepping

findNext ==
    \/ \E exact \in BOOLEAN, with \in Replacements : OpenFind(exact, with)
    \/ CloseFind \/ ToggleCase \/ ReplaceCurrent \/ TimedStep \/ ReplaceEvery
    \/ \E o \in 0..MaxLetters : MoveCaret(o) \/ \E ch \in Letter : TypeLetter(ch, o)
    \/ \E dir \in {"next", "previous"} : Step(dir)
findSpec == findInit /\ [][findNext]_findVars
----------------------------------------------------------------------------
findTypeOK ==
    /\ boxText \in Seq(Letter) /\ bar.open \in BOOLEAN /\ bar.matches \in Seq(0..MaxLetters) /\ bar.current >= 0 - 1
    /\ Len(stepping) <= 1 /\ boxEdits \in 0..MaxBoxEdits

(* The matches an open bar counts and replaces are those of the text in     *)
(* the box, whatever edit came last.                                        *)
MatchesAreFresh == bar.open => bar.matches = FindAll(boxText, bar.exact)

(* Replace all changes the matches and nothing else: each by the            *)
(* replacement, every other letter kept in place, also when the replacement *)
(* is shorter, longer, or holds the query.                                  *)
Substituted(t, exact, with) ==
    LET rest[k \in 0..Len(t)] ==   \* of the last k letters
            IF k = 0 THEN <<>>
            ELSE LET ch == t[Len(t) + 1 - k] IN (IF IsMatch(ch, exact) THEN with ELSE <<ch>>) \o rest[k - 1]
    IN  rest[Len(t)]
AllMatchesAndNothingElse == 
    [][ReplaceEvery => boxText' = Substituted(boxText, bar.exact, bar.with)]_findVars

(* The current match is shown by selecting it (FindReplaceBar.tsx:54), and  *)
(* there is one as long as anything matches.                                *)
CurrentIsAMatch == bar.open => IF bar.matches = <<>> THEN bar.current = 0 - 1 ELSE bar.current + 1 \in DOMAIN bar.matches
(* Outside a replace of one match, as CurrentIsAMatch says: a text that     *)
(* changes under the bar takes its anchor along.                            *)
CurrentFollowsTheText ==
    [][~TimedStep /\ bar'.open /\ (boxText' # boxText \/ ~bar.open)
        => CurrentIsAMatch' /\ (bar'.matches # <<>> => caret' = Span(bar'.matches[bar'.current + 1], bar'.matches[bar'.current + 1] + 1))]_findVars

(* What find and replace promises (FindReplaceBar.tsx, text-format.ts):     *)
(* its matches are those of the text as it is, all of them are replaced and *)
(* nothing else, and the current match follows the text through an edit.    *)
FindIsExact == [](findTypeOK /\ MatchesAreFresh) /\ AllMatchesAndNothingElse /\ CurrentFollowsTheText
=============================================================================
