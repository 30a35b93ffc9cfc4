----------------------------- MODULE MCWorkspace ------------------------------
(***************************************************************************)
(* The workspace's runs, the recipients they seal to, the verdict they     *)
(* show, and the tools of its message box, side by side: a behaviour picks *)
(* one part in its first state and stays with it, as in MCStorage.         *)
(***************************************************************************)
EXTENDS Workspace, Recipients, Verdict, FindBar, TextStyles, TLC

VARIABLE part

WorkspaceVars == <<part, wsVars, recipVars, verdictVars, findVars, styleVars>>

\* Which slot a run takes is of no consequence.
MCSlots == {p \in Permutations(RunSlot) : TRUE}

\* A replacement that is shorter, as long, and longer with the match in it;
\* texts whose matches touch, overlap, or differ in case.
MCReplacements == {<<>>, <<"x">>, <<"q", "x">>}
MCBoxTexts == {<<"q", "q", "q">>, <<"q", "x", "Q">>, <<"x", "q", "q">>}
\* Letters and digits, alone, in both orders, and apart.
MCBases == {<<"a">>, <<"a", "1">>, <<"1", "a">>, <<"a", "space", "a">>}

Part == {"workspace", "recipients", "verdict", "find", "styles"}
On(p) == part = p /\ part' = p
Still(p, settled) == part # p => settled

WorkspaceInit ==
    /\ part \in Part
    /\ wsInit /\ recipInit /\ verdictInit /\ findInit /\ styleInit
    \* Signing alone unlocks a passkey vault, signing and sealing the other.
    /\ vault.alsoSign <=> vault.method = "password"
    /\ Still("workspace", vault.method = "password")
    /\ Still("recipients", mine = {} /\ ~toSelf)
    /\ Still("verdict", held.known = {})
    /\ Still("find", boxText = <<"q", "q", "q">>)
    /\ Still("styles", Len(units) = 1)
WorkspaceNext ==
    \/ On("workspace") /\ wsNext /\ UNCHANGED <<recipVars, verdictVars, findVars, styleVars>>
    \/ On("recipients") /\ recipNext /\ UNCHANGED <<wsVars, verdictVars, findVars, styleVars>>
    \/ On("verdict") /\ verdictNext /\ UNCHANGED <<wsVars, recipVars, findVars, styleVars>>
    \/ On("find") /\ findNext /\ UNCHANGED <<wsVars, recipVars, verdictVars, styleVars>>
    \/ On("styles") /\ styleNext /\ UNCHANGED <<wsVars, recipVars, verdictVars, findVars>>

WorkspaceSpec == WorkspaceInit /\ [][WorkspaceNext]_WorkspaceVars

\* The tools of the message box do what their buttons say (FindReplaceBar.tsx,
\* lib/compose/text-format.ts): the matches shown are those of the text as it
\* is, a replacement changes all of them and nothing else however the text
\* moved under the bar, and a style changes no letter and styles a selection
\* as a whole.
EditorIsExact == FindIsExact /\ StylesAreExact
=============================================================================
