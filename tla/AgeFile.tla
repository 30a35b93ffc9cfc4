------------------------------- MODULE AgeFile -------------------------------
(***************************************************************************)
(* age files and SSH keys (gpg-wasm/src/age.rs through lib/age/operations).*)
(* A pasted line is classified before it is used; a file is sealed to every*)
(* line or to none; the key for a file is picked by the stanzas in its     *)
(* header, whose tags are four bytes of a hash and may fall together; and  *)
(* only then is it opened.  A line is a record of what classification looks*)
(* at; what is encoded in it, the key, is a value.                         *)
(***************************************************************************)
EXTENDS Integers, Sequences

CONSTANTS
    Lines,                   \* public key lines, good and bad
    AgeTag,                  \* key -> the four bytes of its stanzas
    ElsewhereStanzas,        \* headers other tools write: sequences of stanzas
    AGE_HEADER_SCAN_LIMIT,   \* stanzas within the scanned 64 KiB
    MaxLines                 \* bound: recipients of a file, candidates for one

RSA_MIN_BITS == 2048
RSA_MAX_BITS == 4096

ASSUME AgeConstants ==
    /\ {AGE_HEADER_SCAN_LIMIT, MaxLines} \subseteq Nat
    /\ \A line \in Lines :
           /\ DOMAIN line = {"text", "label", "inner", "bits", "key"}
           /\ line.key \in DOMAIN AgeTag
    \* Other tools take the tag from the key as well.
    /\ \A to \in ElsewhereStanzas :
           /\ to \in Seq({to[i] : i \in DOMAIN to})
           /\ \A i \in DOMAIN to : to[i].key \in DOMAIN AgeTag /\ to[i].tag = AgeTag[to[i].key]

VARIABLES
    ageFile,                 \* the file at hand
    ageAnswer                   \* what the last call gave

ageVars == <<ageFile, ageAnswer>>

NoAge == [kind |-> "none", to |-> <<>>]
Gave(how, who, lines) == [how |-> how, who |-> who, lines |-> lines]
NoAnswer == Gave("none", 0, <<>>)

---------------------------------------------------------------------------
(* Lines.                                                                  *)

SizeFits(line) == line.bits >= RSA_MIN_BITS /\ line.bits <= RSA_MAX_BITS

Rejected == {"sk-", "ecdsa-sha2-", "ssh-dss"}
CheckSupportedBlob(line) ==
    /\ line.inner \notin Rejected
    /\ \/ line.inner = "ssh-ed25519"
       \/ line.inner = "ssh-rsa" /\ SizeFits(line)

\* The label has to agree with the type in the blob, which is what is used.
ParsePublicKeyLine(line) ==
    /\ line.text = "line"
    /\ line.inner = line.label
    /\ CheckSupportedBlob(line)

StanzasOf(to) == {to[i] : i \in DOMAIN to}
Stanza(line) == [type |-> line.inner, tag |-> AgeTag[line.key], key |-> line.key]

---------------------------------------------------------------------------
(* Files.                                                                  *)

LineLists == UNION {[1..n -> Lines] : n \in 0..MaxLines}

\* One bad line fails the whole call.
EncryptAgeToRecipients(lines) ==
    IF lines # <<>> /\ \A i \in DOMAIN lines : ParsePublicKeyLine(lines[i])
    THEN /\ ageFile' = [kind |-> "age", to |-> [i \in DOMAIN lines |-> Stanza(lines[i])]]
         /\ ageAnswer' = Gave("sealed", 0, lines)
    ELSE /\ ageAnswer' = Gave("refused", 0, lines)
         /\ UNCHANGED ageFile

FromElsewhere ==
    /\ \/ \E to \in ElsewhereStanzas : ageFile' = [kind |-> "age", to |-> to]
       \/ ageFile' = [kind |-> "other", to |-> <<>>]
    /\ ageAnswer' = NoAnswer

IsAgeMessage == ageFile.kind = "age"

\* The scan ends within the header: stanzas may be missed, never made up.
AgeHeaderStanzas(file) ==
    SubSeq(file.to, 1, IF Len(file.to) < AGE_HEADER_SCAN_LIMIT THEN Len(file.to)
                       ELSE AGE_HEADER_SCAN_LIMIT)

MatchesStanza(line, stanza) == stanza.type = line.inner /\ stanza.tag = AgeTag[line.key]

Matches(candidates) ==
    {i \in DOMAIN candidates :
        /\ ParsePublicKeyLine(candidates[i])
        /\ \E s \in StanzasOf(AgeHeaderStanzas(ageFile)) : MatchesStanza(candidates[i], s)}

\* The first candidate whose stanza is there; no ageAnswer for what is no age file.
SelectAgeDecryptionKey(candidates) ==
    /\ ageFile # NoAge
    /\ ageAnswer' = IF IsAgeMessage /\ Matches(candidates) # {}
                 THEN Gave("selected", CHOOSE i \in Matches(candidates) :
                               \A j \in Matches(candidates) : i <= j, candidates)
                 ELSE Gave("nobody", 0, candidates)
    /\ UNCHANGED ageFile

\* The identity tries the stanzas of its type and tag: another key's does not open.
AgeDecrypt(line) ==
    /\ ageFile # NoAge /\ ParsePublicKeyLine(line)
    /\ ageAnswer' = IF IsAgeMessage /\ Stanza(line) \in StanzasOf(ageFile.to)
                 THEN Gave("opened", 0, <<line>>) ELSE Gave("failed", 0, <<line>>)
    /\ UNCHANGED ageFile

---------------------------------------------------------------------------

AgeInit == ageFile = NoAge /\ ageAnswer = NoAnswer

AgeNext ==
    \/ \E lines \in LineLists :
        EncryptAgeToRecipients(lines) \/ SelectAgeDecryptionKey(lines)
    \/ FromElsewhere
    \/ \E line \in Lines : AgeDecrypt(line)

AgeSpec == AgeInit /\ [][AgeNext]_ageVars

---------------------------------------------------------------------------
(* Properties                                                              *)

IsRecipient(line) == \E s \in StanzasOf(ageFile.to) : s.key = line.key /\ s.type = line.inner

(* A file sealed here opens for every line it was asked for.  The key selected  *)
(* for a file is the first the header names: of its type, and a recipient unless*)
(* two tags fall together.  When no key is selected none of them is a recipient,*)
(* as far as the header is scanned.  And no key but a recipient's opens a file. *)
AgeIsHonest ==
    /\ ageAnswer.how = "sealed" =>
           \A i \in DOMAIN ageAnswer.lines : IsRecipient(ageAnswer.lines[i])
    /\ ageAnswer.how = "selected" =>
           \E s \in StanzasOf(ageFile.to) :
               /\ s.type = ageAnswer.lines[ageAnswer.who].label
               /\ s.key # ageAnswer.lines[ageAnswer.who].key => \E k \in DOMAIN AgeTag :
                      k # s.key /\ AgeTag[k] = s.tag
    /\ (ageAnswer.how = "nobody" /\ Len(ageFile.to) <= AGE_HEADER_SCAN_LIMIT) =>
           \A i \in DOMAIN ageAnswer.lines :
               ParsePublicKeyLine(ageAnswer.lines[i]) => ~IsRecipient(ageAnswer.lines[i])
    /\ ageAnswer.how = "opened" => IsRecipient(ageAnswer.lines[1])
=============================================================================
