---------------------------- MODULE MCKeySession ----------------------------
(***************************************************************************)
(* Two keys, one per engine, and a few concurrent calls.  The calls that   *)
(* exist in a run are those in its Calls; MCVia says what each of them is. *)
(***************************************************************************)
EXTENDS KeySession, TLC

CONSTANTS pgpKey, sshKey, typed, touch, touch2, open, make

MCKeys == {pgpKey, sshKey}
MCKindOf == (pgpKey :> "pgp") @@ (sshKey :> "ssh")
MCBothPgp == (pgpKey :> "pgp") @@ (sshKey :> "pgp")
MCViaAll == (typed :> "password") @@ (touch :> "passkey") @@ (touch2 :> "passkey")
            @@ (open :> "batch") @@ (make :> "generate")
MCVia == [c \in Calls |-> MCViaAll[c]]
=============================================================================
