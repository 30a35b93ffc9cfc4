------------------------------ MODULE MCContacts ------------------------------
(***************************************************************************)
(* The stored contacts, the ways keys come in (SSH keys of an account,     *)
(* certificates, the import page, a restore of all keys), and the clashes  *)
(* shown beside their names, side by side as in MCStorage.                 *)
(***************************************************************************)
EXTENDS MCContactStore, ImportSsh, ImportCert, ImportPage, BulkImport, Names

VARIABLE part

ContactsVars == <<part, vars, sshVars, certVars, impVars, bulkVars, nameVars>>

MCHalf == [k \in Key |-> IF k = "k1" THEN "c1" ELSE "c2"]

\* Names and addresses that pass for those of the other contact, or do not.
Kala == <<"k", "a", "l", "a">>
MCShown ==
    {<<>>, Kala, <<"k", "cyrA", "l", "a">>, <<"zhe", "a", "l", "a">>, <<"k", "A", "I", "a">>,
     <<"k", "zwsp", "a", "l", "a">>, <<"kelvin", "a", "l", "a">>, <<"kelvin", "wideA", "1", "a">>,
     <<"k", "a", "stroked", "a'">>, <<"a", "iota", " ", "k", "-", "a">>, <<"a", "zhe">>,
     <<"k", "zhe", "zhe", "a">>, <<"zhe", "cyrA", "l", "a">>, <<"dotless", "a">>, <<"lisuK", "a", "l", "a">>,
     <<"r", "n", "o">>, <<"m", "thai0">>, <<"m", "o">>}
MCAddresses ==
    {<<>>, <<"k", "@", "l", ".", "a">>, <<"zhe", "@", "iota", ".", "a">>,
     <<"k", "@", "I", "middot", "cyrA">>, <<"A", "@", "r", "n">>}
UserIds(names, addresses) == {[name |-> n, address |-> a] : n \in names, a \in addresses}
Nameless == [name |-> <<>>, address |-> <<>>]
Holder(key, id) == [key |-> key, ids |-> {id}, alias |-> <<>>, revoked |-> FALSE]
Cast(u, v) ==
    [c1 |-> Holder("f1", u), c2 |-> Holder("f2", v),
     k1 |-> Holder("f3", [name |-> <<"m", "o">>, address |-> <<"o", "@", "b">>])]
MCCasts ==
    {Cast(u, v) : u \in UserIds(MCShown, MCAddresses) \ {Nameless},
                  v \in UserIds({Kala, <<"m", "o">>}, {<<>>, <<"k", "@", "l", ".", "a">>, <<"a", "@", "r", "n">>})}
MCQuiet == Cast([Nameless EXCEPT !.name = Kala], [Nameless EXCEPT !.name = Kala])
MCAliases == {<<>>, Kala}
MCRefreshed == {{[Nameless EXCEPT !.name = <<"k", "A", "I", "a">>]}, {[Nameless EXCEPT !.name = <<"m", "o">>]}}

Part == {"store", "ssh", "certificates", "page", "restore", "names"}
On(p) == part = p /\ part' = p
Still(p, settled) == part # p => settled

ContactsInit ==
    /\ part \in Part
    /\ Init /\ sshInit /\ certInit /\ impInit /\ bulkInit /\ namesInit
    /\ Still("restore", {ring[k] : k \in Key} \cup {crxRing[k] : k \in Crx} \cup {list[c] : c \in Cert} = {NotHeld})
    /\ Still("names", cards = MCQuiet)

ContactsNext ==
    \/ On("store") /\ Next /\ UNCHANGED <<sshVars, certVars, impVars, bulkVars, nameVars>>
    \/ On("ssh") /\ sshNext /\ UNCHANGED <<vars, certVars, impVars, bulkVars, nameVars>>
    \/ On("certificates") /\ certNext /\ UNCHANGED <<vars, sshVars, impVars, bulkVars, nameVars>>
    \/ On("page") /\ impNext /\ UNCHANGED <<vars, sshVars, certVars, bulkVars, nameVars>>
    \/ On("restore") /\ bulkNext /\ UNCHANGED <<vars, sshVars, certVars, impVars, nameVars>>
    \/ On("names") /\ namesNext /\ UNCHANGED <<vars, sshVars, certVars, impVars, bulkVars>>

ContactsSpec == ContactsInit /\ [][ContactsNext]_ContactsVars

(* What comes in is added to what is kept (contacts.ts, BulkImportFlow): an    *)
(* import or a re-check of a certificate takes away nothing known of the key   *)
(* and no revocation, and a restore of all keys writes what the user took,     *)
(* over no key that is held, whichever of its steps fails.  And of what is     *)
(* kept, none is shown under a name that passes for another's without a word   *)
(* of it (identity/binding.ts).                                                *)
ContactsAreWhoTheyWere == CertsOnlyGrow /\ RestoresOnlyWhatWasTaken /\ []NamesAreTold
=============================================================================
