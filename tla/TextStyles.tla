---------------------------- MODULE TextStyles -----------------------------
(***************************************************************************)
(* Inline styles of the message box.  A styled letter is another character *)
(* of two code units, a stroke is a combining unit after its character;    *)
(* offsets are code units, and a selection may begin or end inside either. *)
(***************************************************************************)
EXTENDS Sequences, Integers

CONSTANTS Bases,      \* the plain texts a behaviour starts with
          MaxToggles  \* styles toggled in a behaviour

Ch == {"a", "1", "space"}                             \* a letter, a digit, a space
ASSUME StylesAssumption == MaxToggles \in Nat /\ Bases \subseteq Seq(Ch)

VARIABLES units,    \* the box's text, in code units
          marked,   \* its selection
          toggled   \* the last toggle, and what it was made from

styleVars == <<units, marked, toggled>>

Style == {"bold", "italic", "strike", "code"}
Stroke == <<"stroke">>
Alphabet == {"bold", "italic", "boldItalic", "mono"}
NeverToggled == [times |-> 0]

styleInit ==
    /\ units \in {[i \in DOMAIN b |-> <<"plain", b[i]>>] : b \in Bases}
    /\ marked = [start |-> 0, end |-> 0] /\ toggled = NeverToggled
----------------------------------------------------------------------------
Plain(u) == [base |-> u[Len(u)], bold |-> FALSE, italic |-> FALSE, mono |-> FALSE, strike |-> FALSE]
\* decode: one character; bold-italic digits do not exist.
Decoded(u) ==
    IF u[1] # "high" THEN Plain(u)
    ELSE [base |-> u[3], bold |-> u[2] \in {"bold", "boldItalic"}, italic |-> u[2] \in {"italic", "boldItalic"}, mono |-> u[2] = "mono",
          strike |-> FALSE]
\* decodeAll: a stroke is marked on the character before it.
Struck(gs) == [i \in DOMAIN gs |-> IF i = Len(gs) THEN [gs[i] EXCEPT !.strike = TRUE] ELSE gs[i]]
DecodeAll(us) ==
    LET out[n \in 0..Len(us)] ==
            IF n = 0 THEN <<>>
            ELSE LET gs == out[n - 1]
                 IN  IF us[n][1] = "low" THEN gs
                     ELSE IF us[n] = Stroke /\ gs # <<>> THEN Struck(gs)
                     ELSE Append(gs, Decoded(us[n]))
    IN  out[Len(us)]
\* encode: combinations that have no form fall back.
Wide(alpha, base) == <<<<"high", alpha, base>>, <<"low", alpha, base>>>>
Form(g) ==
    IF g.base = "stroke" THEN <<Stroke>>
    ELSE IF g.mono /\ g.base # "space" THEN Wide("mono", g.base)
    ELSE IF g.bold /\ g.italic /\ g.base = "a" THEN Wide("boldItalic", "a")
    ELSE IF g.bold /\ g.base # "space" THEN Wide("bold", g.base)
    ELSE IF g.italic /\ g.base = "a" THEN Wide("italic", "a")
    ELSE <<<<"plain", g.base>>>>
Encode(g) == IF g.strike THEN Append(Form(g), Stroke) ELSE Form(g)
EncodeAll(gs) ==
    LET all[n \in 0..Len(gs)] == IF n = 0 THEN <<>> ELSE all[n - 1] \o Encode(gs[n]) IN all[Len(gs)]

Styleable(g, style) == IF style = "strike" THEN g.base # "space" ELSE g.base = "a" \/ (g.base = "1" /\ style # "italic")
HasStyle(g, style) ==
    CASE style = "code" -> g.mono [] style = "bold" -> g.bold [] style = "italic" -> g.italic [] style = "strike" -> g.strike
SetStyle(g, style, on) ==
    CASE style = "code" -> [g EXCEPT !.mono = on, !.bold = @ /\ ~on, !.italic = @ /\ ~on]
      [] style = "bold" -> [g EXCEPT !.bold = on, !.mono = @ /\ ~on]
      [] style = "italic" -> [g EXCEPT !.italic = on, !.mono = @ /\ ~on]
      [] style = "strike" -> [g EXCEPT !.strike = on]
----------------------------------------------------------------------------
\* A selection is widened to whole characters with their strokes.
Low(us, o) == o < Len(us) /\ us[o + 1][1] = "low"
Start(us, o) == IF o > 0 /\ Low(us, o) THEN o - 1 ELSE o
End(us, o) ==
    LET whole == IF Low(us, o) THEN o + 1 ELSE o
    IN  CHOOSE e \in whole..Len(us) :
            /\ \A i \in (whole + 1)..e : us[i] = Stroke
            /\ e = Len(us) \/ us[e + 1] # Stroke
Slice(us, a, b) == SubSeq(us, a + 1, b)
Turns(targets, style) == \E g \in targets : ~HasStyle(g, style)

Select(a, b) ==
    /\ a <= b /\ b <= Len(units)
    /\ marked' = [start |-> a, end |-> b]
    /\ UNCHANGED <<units, toggled>>
ToggleStyle(style) ==
    /\ toggled.times < MaxToggles /\ marked.start < marked.end
    /\ LET a == Start(units, marked.start)
           b == End(units, marked.end)
           gs == DecodeAll(Slice(units, a, b))
           targets == {gs[i] : i \in {j \in DOMAIN gs : Styleable(gs[j], style)}}
           on == Turns(targets, style)
           styled == EncodeAll([i \in DOMAIN gs |-> IF Styleable(gs[i], style) THEN SetStyle(gs[i], style, on) ELSE gs[i]])
       IN  /\ targets # {}
           /\ units' = SubSeq(units, 1, a) \o styled \o SubSeq(units, b + 1, Len(units))
           /\ marked' = [start |-> a, end |-> a + Len(styled)]
           /\ toggled' = [times |-> toggled.times + 1, style |-> style, on |-> on, before |-> units]

styleNext ==
    \/ \E style \in Style : ToggleStyle(style)
    \/ \E a, b \in 0..Len(units) : Select(a, b)
styleSpec == styleInit /\ [][styleNext]_styleVars
----------------------------------------------------------------------------
styleTypeOK ==
    /\ \A i \in DOMAIN units : units[i] = Stroke \/ units[i][1] \in {"plain", "high", "low"}
    /\ marked.start <= marked.end /\ marked.end <= Len(units) /\ toggled.times \in 0..MaxToggles

(* However styles are stacked, toggled and cut across: the text reads the   *)
(* same without them, and no pair of units is split.                        *)
Reads(us) == LET gs == DecodeAll(us) IN [i \in DOMAIN gs |-> gs[i].base]
Whole(us) ==
    \A i \in DOMAIN us :
        /\ us[i][1] = "high" => i < Len(us) /\ us[i + 1] = <<"low", us[i][2], us[i][3]>>
        /\ us[i][1] = "low" => i > 1 /\ us[i - 1] = <<"high", us[i][2], us[i][3]>>
LettersAreKept ==
    /\ Whole(units)
    /\ toggled.times > 0 => Reads(units) = Reads(toggled.before)

(* A toggle leaves the selection of one mind: every character that can      *)
(* carry the style has it, or none does.                                    *)
OneMind ==
    [][toggled' # toggled =>
        LET gs == DecodeAll(Slice(units', marked'.start, marked'.end))
        IN  \A i \in DOMAIN gs : Styleable(gs[i], toggled'.style) => HasStyle(gs[i], toggled'.style) = toggled'.on]_styleVars

(* What the style buttons promise (text-format.ts): the letters stay, and a *)
(* selection is styled as a whole or not.                                   *)
StylesAreExact == [](styleTypeOK /\ LettersAreKept) /\ OneMind
=============================================================================
