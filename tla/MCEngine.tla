------------------------------ MODULE MCEngine -------------------------------
(***************************************************************************)
(* The engine, one part at a time: the messages it opens, the keys behind  *)
(* its handles, the session keys, signed packages and age files, and the   *)
(* pages that make, delete and export keys.  The parts share no state; a   *)
(* behaviour picks one in its first state and stays with it, as in         *)
(* MCStorage.                                                              *)
(***************************************************************************)
EXTENDS OpenMessage, SecretStores, Sessions, CrxFile, AgeFile, ExportPages, KeyPages, TLC

VARIABLE part

EngineVars ==
    <<part, openVars, secretVars, sessionVars, crxVars, ageVars, exportVars, keyVars>>

---------------------------------------------------------------------------
(* Keys and entries.                                                       *)

MCKindOf == [p1 |-> "pgp", p2 |-> "pgp", s1 |-> "ssh", x1 |-> "crx"]
Ring(id, entry) == [[i \in DOMAIN MCKindOf |-> Absent] EXCEPT ![id] = entry]
ByPassword(kind, id, payload) ==
    Ring(id, Entry("password", Absent, SealWithPassword(kind, id, payload, "w1")))
ByPasskey(kind, id, payload, output, named) ==
    Ring(id, Entry("passkey", named, SealWithPrf(kind, id, payload, output)))

\* Nothing, and entries that do not hold what they are filed as.
MCFound ==
    {Ring("p1", Absent),
     ByPassword("pgp", "p1", "s1"), ByPassword("pgp", "p1", "p2"),
     ByPasskey("pgp", "p1", "p2", "f2", "f2"), ByPasskey("crx", "p1", "x1", "f1", "f1"),
     ByPassword("ssh", "s1", "p1"), ByPasskey("ssh", "s1", "s1", "f2", "f1"),
     ByPasskey("crx", "x1", PublicOnly, "f2", "f2"), ByPassword("crx", "x1", "s1"),
     ByPasskey("pgp", "p2", PublicOnly, "f2", "f2")}

\* Which of two calls is which is of no consequence.
MCFlows == {p \in Permutations(Flows) : TRUE}

\* A ZIP file may begin with what reads as a field of the header.
MCArchives == {Bytes("zip", 0), <<Field(1, CrxId(1))>> \o Bytes("zip", 0)}

\* The keys tab of three vaults.
Vault(ids, protection) == [stored |-> ids, protected |-> protection]
MCVaults == {Vault({"c1", "c2"}, "passkey"), Vault({}, "password"), Vault({"k1", "c1"}, "sealing")}

---------------------------------------------------------------------------
(* SSH keys: two pairs of tags fall together, once across types.           *)

MCTag == <<10, 10, 20, 30, 20>>
Line(text, label, inner, bits, key) ==
    [text |-> text, label |-> label, inner |-> inner, bits |-> bits, key |-> key]
MCLines ==
    {Line("line", "ssh-ed25519", "ssh-ed25519", 0, 1), Line("line", "ssh-rsa", "ssh-rsa", 2048, 2),
     Line("line", "ssh-rsa", "ssh-rsa", 4096, 3), Line("line", "ssh-rsa", "ssh-rsa", 2047, 4),
     Line("line", "ssh-rsa", "ssh-rsa", 4097, 4), Line("line", "ssh-ed25519", "ssh-rsa", 2048, 2),
     Line("private", "ssh-rsa", "ssh-rsa", 2048, 3), Line("line", "sk-", "sk-", 0, 4),
     Line("line", "ssh-ed25519", "ssh-ed25519", 0, 5)}
StanzaOf(type, key) == [type |-> type, tag |-> MCTag[key], key |-> key]
MCElsewhere ==
    {<<>>, <<StanzaOf("X25519", 1)>>, <<StanzaOf("ssh-rsa", 4)>>,
     <<StanzaOf("ssh-rsa", 2), StanzaOf("ssh-ed25519", 1)>>,
     <<StanzaOf("X25519", 4), StanzaOf("ssh-rsa", 3), StanzaOf("ssh-ed25519", 1)>>}

---------------------------------------------------------------------------
(* Messages, by their packets.                                             *)

Packet(tag, known, named, to) ==
    [tag |-> tag, deep |-> FALSE, known |-> known, named |-> named, to |-> to]
ToKey(to, named) == Packet("PKESK", TRUE, named, to)
ToPassword(password, known) == Packet("SKESK", known, FALSE, password)
Only(tag) == Packet(tag, TRUE, FALSE, "nobody")
Deeper(ps) == [i \in DOMAIN ps |-> [ps[i] EXCEPT !.deep = TRUE]]

MCPackets ==
    {<<ToKey("k1", TRUE), Only("SEIP")>>, <<ToKey("k2", TRUE), ToKey("k1", FALSE), Only("SEIP")>>,
     <<ToPassword("w1", TRUE), Only("SEIP")>>, <<ToPassword("w1", FALSE), Only("AED")>>,
     <<ToKey("k1", TRUE), ToPassword("w1", TRUE), Only("SEIP")>>,
     <<ToKey("k1", TRUE), Only("AED")>>, <<Only("SEIP")>>,
     <<Only("CompressedData")>> \o Deeper(<<ToKey("k1", TRUE), ToPassword("w1", TRUE), Only("SEIP")>>),
     <<Only("CompressedData")>> \o Deeper(<<Only("Literal"), ToKey("k1", TRUE), Only("SEIP")>>),
     <<Only("CompressedData")>> \o Deeper(<<Only("Literal")>>), <<Only("Literal")>>, <<Only("Signed")>>,
     <<Only("Literal"), Only("SEIP")>>, <<ToKey("k1", TRUE), Only("Literal")>>,
     <<ToPassword("w1", TRUE), Only("Signed")>>,
     <<Only("Marker"), ToPassword("w2", TRUE), ToPassword("w1", TRUE), Only("SEIP")>>, <<>>,
     <<Packet("Marker", FALSE, FALSE, "nobody"), Only("Signed")>>}

Message(ps) ==
    [packets |-> ps, form |-> "binary", lines |-> <<>>, armor |-> FALSE, len |-> 1,
     size |-> 2, results |-> <<>>, damaged |-> FALSE]
\* Plaintexts below, at and past the limits, whole or damaged.
Sized == {[Message(ps) EXCEPT !.size = size, !.damaged = damaged] :
              ps \in MCPackets, size \in {2, 5, 7}, damaged \in BOOLEAN}
InBytes == {[Message(ps) EXCEPT !.form = form, !.armor = armor] :
              ps \in MCPackets, form \in {"binary", "latin1"}, armor \in BOOLEAN}

Result(kind, by, current) == [kind |-> kind, by |-> by, current |-> current]
Results == {Result("good", "a", TRUE), Result("good", "b", FALSE),
            Result("missing", "c", FALSE), Result("bad", "a", TRUE)}
WithResults ==
    {[Message(ps) EXCEPT !.results = results] :
         ps \in {<<ToKey("k1", TRUE), Only("SEIP")>>, <<Only("Signed")>>},
         results \in UNION {[1..n -> Results] : n \in 0..3}}

\* Signed text as it is pasted: as made, and every single line added, lost, or
\* put in another's place; text added where a line is lost.
Cleartext == <<"begin", "hash", "blank", "text", "escaped", "sig", "header", "blank", "base64", "end">>
Inline == <<"mbegin", "blank", "base64", "mend">>
AnyLine == {"begin", "mbegin", "sig", "end", "mend", "indented", "hash", "header", "text",
            "escaped", "dash", "hidden", "base64", "blank"}
With(ls, i, line) == SubSeq(ls, 1, i) \o <<line>> \o SubSeq(ls, i + 1, Len(ls))
Without(ls, i) == SubSeq(ls, 1, i - 1) \o SubSeq(ls, i + 1, Len(ls))
Pastes(ls) ==
    {ls} \union {With(ls, i, line) : i \in 0..Len(ls), line \in AnyLine}
    \union {Without(ls, i) : i \in DOMAIN ls}
    \union {[ls EXCEPT ![i] = line] : i \in DOMAIN ls, line \in AnyLine}
AsText(ls, len, size) ==
    [Message(<<Only("Signed")>>) EXCEPT !.form = "text", !.lines = ls, !.len = len, !.size = size]
Pasted ==
    {AsText(ls, 1, 2) : ls \in Pastes(Cleartext) \union Pastes(Inline)
         \union {With(Without(Cleartext, i), j, "text") : i \in DOMAIN Cleartext, j \in 0..9}}
    \union {AsText(ls, len, size) : ls \in {Cleartext, Inline}, len \in {1, 3}, size \in {2, 7}}

Request(entry, m, key, password, cap) ==
    [entry |-> entry, message |-> m, key |-> key, password |-> password, cap |-> cap,
     candidates |-> <<>>]
MCCaps == {None, 3}
MCRequests ==
    {Request("decryptWithHandle", m, key, None, cap) : m \in Sized, key \in {"k1", None}, cap \in MCCaps}
    \union {Request("decryptWithPassword", m, None, w, cap) : m \in Sized, w \in {"w1", "w3"}, cap \in MCCaps}
    \union {Request("messageEncryption", m, None, None, None) : m \in InBytes}
    \union {[Request("selectDecryptionKey", m, None, None, None) EXCEPT
                 !.candidates = <<"k3", "k2", "k1">>] : m \in InBytes}
    \union {Request("openUnencrypted", m, None, None, cap) : m \in Sized \union InBytes, cap \in MCCaps}
    \union {Request(entry, m, "k1", None, None) :
                entry \in {"decryptWithHandle", "openUnencrypted"}, m \in WithResults}
    \union {Request(entry, m, None, None, cap) :
                entry \in {"verify", "openUnencrypted"}, m \in Pasted, cap \in MCCaps}

---------------------------------------------------------------------------

Part == {"open", "secrets", "sessions", "crx", "age", "export", "keys"}
On(p) == part = p /\ part' = p
Still(p, settled) == part # p => settled

SomeRequest == Request("messageEncryption", Message(<<>>), None, None, None)

EngineInit ==
    /\ part \in Part
    /\ OpenInit /\ Still("open", request = SomeRequest)
    /\ SecretInit /\ Still("secrets", keyring = Ring("p1", Absent))
    /\ SessionsInit /\ Still("sessions", canary = Unset /\ \A slot \in Slots : slots[slot] = Unset)
    /\ CrxInit /\ AgeInit
    /\ ExportInit
    /\ Still("export", asked.kind = "many" /\ asked.keys = {} /\ asked.contacts /\ session = {})
    /\ KeysInit /\ Still("keys", stored = {})

EngineNext ==
    \/ /\ On("open") /\ OpenNext
       /\ UNCHANGED <<secretVars, sessionVars, crxVars, ageVars, exportVars, keyVars>>
    \/ /\ On("secrets") /\ SecretNext
       /\ UNCHANGED <<openVars, sessionVars, crxVars, ageVars, exportVars, keyVars>>
    \/ /\ On("sessions") /\ SessionsNext
       /\ UNCHANGED <<openVars, secretVars, crxVars, ageVars, exportVars, keyVars>>
    \/ /\ On("crx") /\ CrxNext
       /\ UNCHANGED <<openVars, secretVars, sessionVars, ageVars, exportVars, keyVars>>
    \/ /\ On("age") /\ AgeNext
       /\ UNCHANGED <<openVars, secretVars, sessionVars, crxVars, exportVars, keyVars>>
    \/ /\ On("export") /\ ExportNext
       /\ UNCHANGED <<openVars, secretVars, sessionVars, crxVars, ageVars, keyVars>>
    \/ /\ On("keys") /\ KeysNext
       /\ UNCHANGED <<openVars, secretVars, sessionVars, crxVars, ageVars, exportVars>>

EngineSpec == EngineInit /\ [][EngineNext]_EngineVars

---------------------------------------------------------------------------
(* Properties                                                              *)

(* What the engine answers of a message, a package or an age file is true of    *)
(* it: opened, verified, signed or selected only as its parts say.              *)
AnswersAreTrue == OpenedHonestly /\ CrxIsSigned /\ AgeIsHonest

(* Keys stay behind their own handles and seals, stores and drafts under their  *)
(* own session keys, across locks, re-seals and what older builds wrote.  The   *)
(* pages that take keys out of the app, make and delete them keep to this: what *)
(* leaves is sealed and was chosen, what was opened is closed, what was deleted *)
(* is gone from the pages and from the default.                                 *)
SecretsAreKept == SecretsStayTheirs /\ SlotsStayApart /\ ExportsAreKept /\ KeyPagesAreTrue
=============================================================================
