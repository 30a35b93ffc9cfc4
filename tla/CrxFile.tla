------------------------------- MODULE CrxFile -------------------------------
(***************************************************************************)
(* Signed extension packages (gpg-wasm/src/crx.rs, called by lib/crx):     *)
(* what signing an archive assembles, and what the check makes of a file   *)
(* that was cut, put together from others, or is no package at all.  Bytes *)
(* are sequences of tokens; a length-delimited field is one token with its *)
(* content.  A key hashes to its extension id and to no other, and is      *)
(* named by it here.                                                       *)
(***************************************************************************)
EXTENDS Naturals, Sequences

CONSTANTS
    SigningKeys,             \* RSA keys, by the extension id they hash to
    Archives,                \* the ZIP files: sequences of tokens
    MaxSigned, MaxEdits,     \* bounds: packages assembled; changes to a file
    Nobody                   \* no id, no key

ASSUME CrxConstants ==
    /\ MaxSigned \in Nat \ {0} /\ MaxEdits \in Nat
    /\ Nobody \notin SigningKeys
    /\ \A archive \in Archives : archive \in Seq({archive[i] : i \in DOMAIN archive})

VARIABLES
    signatures,              \* every signature made so far
    crx, edits,              \* the file at hand, and how often it was changed
    outcome                  \* what the last check said of it

crxVars == <<signatures, crx, edits, outcome>>

Unchecked == [said |-> "nothing", id |-> Nobody]
Failure == [said |-> "failed", id |-> Nobody]

---------------------------------------------------------------------------
(* Fields.  `read_field` gives a field's number and its bytes, skips over  *)
(* scalars, even one cut short by the end, and stops at a length past the  *)
(* end or a wire type it does not know.                                    *)

Field(n, bytes) == [wire |-> 2, field |-> n, bytes |-> bytes]
Scalar == [wire |-> 0, field |-> 0, bytes |-> <<>>]
CutScalar == [wire |-> 5, field |-> 0, bytes |-> <<>>]
TooLong == [wire |-> 2, field |-> 0, bytes |-> <<>>]
OddWire == [wire |-> 3, field |-> 0, bytes |-> <<>>]

\* The fields up to a scalar that runs past the end; what follows is within it.
FieldsRead(buf) == {i \in DOMAIN buf : \A j \in 1..(i - 1) : buf[j] # CutScalar}
Readable(buf) == \A i \in FieldsRead(buf) : buf[i] \notin {TooLong, OddWire}

\* Where the fields with that number are, and the bytes of the last of them.
AllOf(buf, n) == {i \in FieldsRead(buf) : buf[i].wire = 2 /\ buf[i].field = n}
LastIn(positions) == CHOOSE i \in positions : \A j \in positions : i >= j
LastOf(buf, n) == buf[LastIn(AllOf(buf, n))].bytes

---------------------------------------------------------------------------
(* Writing.                                                                *)

Bytes(kind, value) == <<[is |-> kind, value |-> value]>>
CrxId(key) == Bytes("id", key)

EncodeSignedData(key) == <<Field(1, CrxId(key))>>
EncodeProof(publicKey, signature) == <<Field(1, publicKey), Field(2, signature)>>
EncodeHeader(proof, signedData) == <<Field(2, proof), Field(10000, signedData)>>

\* The length stands between the magic and the signed header.
SigningPayload(signedData, archive) == <<Len(signedData)>> \o signedData \o archive

Package(start, header, archive) == [start |-> start, header |-> header, archive |-> archive]

Signature(key, named, archive) ==
    [by |-> key, named |-> named, archive |-> archive,
     over |-> SigningPayload(EncodeSignedData(named), archive)]
Assembled(i) ==
    LET s == signatures[i] IN
    Package("Cr24 3", EncodeHeader(EncodeProof(Bytes("spki", s.by), Bytes("sig", i)),
                                   EncodeSignedData(s.named)), s.archive)

Signs(key, named, archive) ==
    /\ Len(signatures) < MaxSigned
    /\ signatures' = Append(signatures, Signature(key, named, archive))
    /\ crx' = Assembled(Len(signatures))'
    /\ edits' = 0 /\ outcome' = Unchecked

\* The app names the signing key; another tool may name any.
AssembleCrx(key, archive) == Signs(key, key, archive)
AssembledElsewhere(key, named, archive) == Signs(key, named, archive)

---------------------------------------------------------------------------
(* Checking.                                                               *)

\* The last signed header counts, and in it the last id of sixteen bytes.
SignedHeader(header) == LastOf(header, 10000)
SixteenBytes(bytes) == Len(bytes) = 1 /\ bytes[1].is = "id"
SignedIds(signedHeader) == {i \in AllOf(signedHeader, 1) : SixteenBytes(signedHeader[i].bytes)}
SignedCrxId(signedHeader) == signedHeader[LastIn(SignedIds(signedHeader))].bytes[1].value

HoldsOnly(bytes, kind) == Len(bytes) = 1 /\ bytes[1].is = kind
FromPublicKeyDer(bytes) == IF HoldsOnly(bytes, "spki") THEN bytes[1].value ELSE Nobody
SignatureVerifies(bytes, key, payload) ==
    /\ HoldsOnly(bytes, "sig")
    /\ LET s == signatures[bytes[1].value] IN s.by = key /\ s.over = payload

\* A proof without a key or a signature, or whose key does not name the
\* extension, is passed over.
NamesExtension(key, id) == key = id
ProofVerifies(proof, id, payload) ==
    /\ AllOf(proof, 1) # {} /\ AllOf(proof, 2) # {}
    /\ LET key == FromPublicKeyDer(LastOf(proof, 1)) IN
       /\ key # Nobody /\ NamesExtension(key, id)
       /\ SignatureVerifies(LastOf(proof, 2), key, payload)

\* Proofs are read one after the other: an unreadable one fails the check unless
\* one before it verified.
Verdict(header, id, payload) ==
    LET proofs == AllOf(header, 2)
        good == {i \in proofs : ProofVerifies(header[i].bytes, id, payload)}
    IN  IF \E i \in good : \A j \in proofs : j <= i => Readable(header[j].bytes)
        THEN [said |-> "valid", id |-> id]
        ELSE IF \A i \in proofs : Readable(header[i].bytes)
             THEN [said |-> "invalid", id |-> id] ELSE Failure

WellStarted(file) == file.start = "Cr24 3" /\ Readable(file.header)

VerifyCrxChecked(file) ==
    IF ~WellStarted(file) \/ AllOf(file.header, 10000) = {} THEN Failure
    ELSE LET signedHeader == SignedHeader(file.header) IN
         IF ~Readable(signedHeader) \/ SignedIds(signedHeader) = {}
            \/ AllOf(file.header, 2) = {}
         THEN Failure
         ELSE Verdict(file.header, SignedCrxId(signedHeader),
                      SigningPayload(signedHeader, file.archive))

VerifyCrx ==
    /\ crx.start # "none" /\ outcome = Unchecked
    /\ outcome' = VerifyCrxChecked(crx)
    /\ UNCHANGED <<signatures, crx, edits>>

---------------------------------------------------------------------------
(* Outside, a file is cut, damaged, or given fields of another.            *)

Before == {Scalar, OddWire}
After == {CutScalar, TooLong}
KeyFields == {Field(1, Bytes("spki", key)) : key \in SigningKeys} \union {Field(1, <<>>)}
SignatureFields == {Field(2, Bytes("sig", i)) : i \in DOMAIN signatures}
IdFields == {Field(1, CrxId(key)) : key \in SigningKeys} \union {Field(1, <<>>)}
Proofs == {EncodeProof(Bytes("spki", key), Bytes("sig", i)) :
               key \in SigningKeys, i \in DOMAIN signatures}
HeaderFields == {Field(2, proof) : proof \in Proofs}
                \union {Field(10000, EncodeSignedData(key)) : key \in SigningKeys}

\* A field put in front of or behind the others, or one of the ends lost.
Edited(buf, fields) ==
    {<<field>> \o buf : field \in fields \union Before}
    \union {Append(buf, field) : field \in fields \union After}
    \union (IF buf = <<>> THEN {} ELSE {Tail(buf), SubSeq(buf, 1, Len(buf) - 1)})

Within(i) == IF crx.header[i].field = 2 THEN KeyFields \union SignatureFields ELSE IdFields

Altered ==
    /\ crx.start # "none" /\ edits < MaxEdits
    /\ edits' = edits + 1 /\ outcome' = Unchecked
    /\ UNCHANGED signatures
    /\ \/ \E start \in {"no magic", "Cr24 2"} : crx' = [crx EXCEPT !.start = start]
       \/ \E archive \in Archives : crx' = [crx EXCEPT !.archive = archive]
       \/ \E header \in Edited(crx.header, HeaderFields) :
              crx' = [crx EXCEPT !.header = header]
       \/ \E i \in DOMAIN crx.header :
              /\ crx.header[i].field # 0
              /\ \E bytes \in Edited(crx.header[i].bytes, Within(i)) :
                     crx' = [crx EXCEPT !.header[i].bytes = bytes]

---------------------------------------------------------------------------

CrxInit ==
    /\ signatures = <<>> /\ outcome = Unchecked
    /\ crx = Package("none", <<>>, <<>>) /\ edits = 0

CrxNext ==
    \/ \E key \in SigningKeys, archive \in Archives :
        \/ AssembleCrx(key, archive)
        \/ \E named \in SigningKeys : AssembledElsewhere(key, named, archive)
    \/ Altered
    \/ VerifyCrx

CrxSpec == CrxInit /\ [][CrxNext]_crxVars

---------------------------------------------------------------------------
(* Properties                                                              *)

(* A package found valid names the key that signed exactly this archive, however*)
(* its fields were repeated, cut, reordered or moved between header and archive;*)
(* and a package as it was assembled is found valid, under its own id.          *)
CrxIsSigned ==
    /\ outcome.said = "valid" =>
           \E i \in DOMAIN signatures :
               signatures[i].by = outcome.id /\ signatures[i].archive = crx.archive
    /\ \A i \in DOMAIN signatures :
           /\ crx = Assembled(i) /\ signatures[i].named = signatures[i].by
           /\ outcome # Unchecked
           => outcome = [said |-> "valid", id |-> signatures[i].by]
=============================================================================
