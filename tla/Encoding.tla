------------------------------ MODULE Encoding ------------------------------
(***************************************************************************)
(* The conversions of the program: base64 in crypto.cpp, the bodies of the *)
(* handshake records in session.cpp, the payload of an E2E INIT or ACK in  *)
(* e2e.cpp, the nonce, and the words of a line in proto.cpp.               *)
(*                                                                         *)
(* A sequence is built up one element at a time and handed to each of the  *)
(* conversions: bytes to encode, the characters of a base64 text, a record *)
(* body off the wire, a line, or a long value.  A decoder is the set of    *)
(* what it reads: one value, or none when it refuses.                      *)
(*                                                                         *)
(* A byte is a digit of base Q ^ 4 and a base64 character one of base      *)
(* Q ^ 3, so that three bytes are four characters; Q is 4 in the code.     *)
(***************************************************************************)
EXTENDS Integers, Sequences, SequencesExt, FiniteSetsExt

CONSTANTS
    Q,
    VERSION,
    RandomLen,    \* CLIENT_RANDOM_LEN
    ModulusLen,   \* MODULUS_BYTES
    SeqBytes,     \* bytes of the counter in a nonce: 8
    MaxUsername,  \* MAX_USERNAME
    BodyBytes, TextChars,             \* what bodies and texts are made of
    MaxBytes, MaxText, MaxBody, MaxLine, MaxLong   \* bounds: lengths

EncodingAssumption ==
    /\ Q \in Nat \ {0, 1} /\ VERSION \in 0 .. Q ^ 4 - 1
    /\ ModulusLen \in 1 .. Q ^ 8 - 1

Byte == 0 .. Q ^ 4 - 1
Char == 0 .. Q ^ 3 - 1

Pad == Q ^ 3            \* '='
Other == Q ^ 3 + 1      \* any character outside the alphabet

Space == 0              \* in a line: a space, a character of names, another
NameChar == 1
Mark == 2

VARIABLES
    kind,    \* what the sequence is
    input

vars == <<kind, input>>

Elements(k) ==
    CASE k = "bytes" -> Byte
      [] k = "text" -> TextChars \cup {Pad, Other}
      [] k = "body" -> BodyBytes
      [] k = "line" -> {Space, NameChar, Mark}
      [] k = "long" -> {0}

Limit(k) ==
    CASE k = "bytes" -> MaxBytes
      [] k = "text" -> MaxText
      [] k = "body" -> MaxBody
      [] k = "line" -> MaxLine
      [] k = "long" -> MaxLong

Init == kind \in {"bytes", "text", "body", "line", "long"} /\ input = <<>>

More ==
    /\ Len(input) < Limit(kind)
    /\ \E e \in Elements(kind) : input' = Append(input, e)
    /\ UNCHANGED kind

Spec == Init /\ [][More]_vars

-----------------------------------------------------------------------------
(* b64_encode and b64_decode. *)

At(s, i) == IF i \in DOMAIN s THEN s[i] ELSE 0

\* Character j of the four that three bytes become.
Digit(a, b, c, j) ==
    CASE j = 0 -> a \div Q
      [] j = 1 -> (a % Q) * Q ^ 2 + b \div Q ^ 2
      [] j = 2 -> (b % Q ^ 2) * Q + c \div Q ^ 3
      [] j = 3 -> c % Q ^ 3

B64Encode(in) ==
    [k \in 1 .. 4 * ((Len(in) + 2) \div 3) |->
        LET g == 3 * ((k - 1) \div 4)
            j == (k - 1) % 4
        IN  IF j >= 2 /\ g + j > Len(in) THEN Pad
            ELSE Digit(At(in, g + 1), At(in, g + 2), At(in, g + 3), j)]

\* What a quad may be: a pad is its last character, or its last two.
QuadOK(a, b, c, d) ==
    /\ a \in Char /\ b \in Char
    /\ \/ c \in Char /\ d \in Char \cup {Pad}
       \/ c = Pad /\ d = Pad

\* The bytes of a quad; spare bits are dropped.
QuadBytes(a, b, c, d) ==
    <<(a * Q + b \div Q ^ 2) % Q ^ 4>>
    \o (IF c = Pad THEN <<>> ELSE <<(b * Q ^ 2 + c \div Q) % Q ^ 4>>)
    \o (IF c = Pad \/ d = Pad THEN <<>> ELSE <<(c * Q ^ 3 + d) % Q ^ 4>>)

Quads(text) == 0 .. Len(text) \div 4 - 1

B64Decode(text) ==
    LET q(k, j) == text[4 * k + j]
    IN  IF /\ Len(text) % 4 = 0
           /\ \A k \in Quads(text) : QuadOK(q(k, 1), q(k, 2), q(k, 3), q(k, 4))
        THEN {FlattenSeq([i \in 1 .. Len(text) \div 4 |->
                QuadBytes(q(i - 1, 1), q(i - 1, 2), q(i - 1, 3), q(i - 1, 4))])}
        ELSE {}

-----------------------------------------------------------------------------
(* Numbers, and the bodies they are in. *)

\* The n lowest bytes of a number, the highest first.
BigEndian(x, n) == [i \in 1 .. n |-> (x \div Q ^ (4 * (n - i))) % Q ^ 4]

PutU16(n) == BigEndian(n, 2)
GetU16(b, off) == b[off + 1] * Q ^ 4 + b[off + 2]

MakeNonce(salt, seq) == salt \o BigEndian(seq, SeqBytes)

ClientHello == 1
ServerKex == 2
Sized == {3, 4, 5}         \* ServerCert, ServerProof, ClientKex
ClientKex == 5

MakeHello(version, random) == <<ClientHello, version>> \o random
MakeSized(type, value) == <<type>> \o PutU16(Len(value)) \o value
MakeServerKex(version, pub) == <<ServerKex, version>> \o PutU16(Len(pub)) \o pub

Drop(b, n) == SubSeq(b, n + 1, Len(b))

ReadHello(b) ==
    IF Len(b) = 2 + RandomLen /\ b[1] = ClientHello /\ b[2] = VERSION
    THEN {Drop(b, 2)} ELSE {}

ReadSized(type, b) ==
    IF Len(b) >= 3 /\ b[1] = type /\ Len(b) = 3 + GetU16(b, 1)
       /\ (type = ClientKex => GetU16(b, 1) = ModulusLen)
    THEN {Drop(b, 3)} ELSE {}

ReadServerKex(b) ==
    IF Len(b) >= 4 /\ b[1] = ServerKex /\ b[2] = VERSION
       /\ GetU16(b, 2) = ModulusLen /\ Len(b) = 4 + ModulusLen
    THEN {Drop(b, 4)} ELSE {}

EncodeKex(epoch, pub) == <<VERSION>> \o BigEndian(epoch, 4) \o PutU16(Len(pub)) \o pub

\* Mutant: the length field is not compared with what follows.
DecodeKexLoose(v) ==
    IF Len(v) >= 7 /\ v[1] = VERSION /\ Len(v) = 7 + ModulusLen
    THEN {[epoch |-> FoldLeft(LAMBDA acc, d : acc * Q ^ 4 + d, 0, SubSeq(v, 2, 5)),
           pub |-> Drop(v, 7)]} ELSE {}

DecodeKex(v) ==
    IF Len(v) >= 7 /\ v[1] = VERSION
       /\ Len(v) = 7 + GetU16(v, 5) /\ GetU16(v, 5) = ModulusLen
    THEN {[epoch |-> FoldLeft(LAMBDA acc, d : acc * Q ^ 4 + d, 0, SubSeq(v, 2, 5)),
           pub |-> Drop(v, 7)]} ELSE {}

-----------------------------------------------------------------------------
(* Lines: split_n, valid_username. *)

\* The separators that split_n cuts at.
Cuts(s, n) ==
    {i \in DOMAIN s : s[i] = Space /\ Quantify(1 .. i, LAMBDA j : s[j] = Space) < n}

SplitN(s, n) ==
    LET cut == <<0>> \o SetToSortSeq(Cuts(s, n), <) \o <<Len(s) + 1>>
    IN  [k \in 1 .. Len(cut) - 1 |-> SubSeq(s, cut[k] + 1, cut[k + 1] - 1)]

Join(parts) == IF parts = <<>> THEN <<>>
               ELSE Tail(FlattenSeq([k \in DOMAIN parts |-> <<Space>> \o parts[k]]))

ValidUsername(name) ==
    Len(name) \in 1 .. MaxUsername /\ \A i \in DOMAIN name : name[i] = NameChar

-----------------------------------------------------------------------------
TypeOK ==
    /\ Len(input) <= Limit(kind) /\ ToSet(input) \subseteq Elements(kind)
    /\ kind = "bytes" => ToSet(B64Encode(input)) \subseteq Char \cup {Pad}
    /\ kind = "text" => \A v \in B64Decode(input) : ToSet(v) \subseteq Byte

(***************************************************************************)
(* What b64_encode made, b64_decode gives back, at every length.           *)
(***************************************************************************)
EncodedReadsBack == kind = "bytes" => B64Decode(B64Encode(input)) = {input}

\* No character but a pad comes after a pad.
PadIsTrailing(text) ==
    \A i, j \in DOMAIN text : i < j /\ text[i] = Pad => text[j] = Pad

\* The bits of the last quad that belong to no byte.
SpareBits(text) ==
    LET n == Len(text) IN
    IF n = 0 \/ text[n] # Pad THEN 0
    ELSE IF text[n - 1] # Pad THEN text[n - 1] % Q ELSE text[n - 2] % Q ^ 2

(***************************************************************************)
(* b64_decode reads more than b64_encode makes, and this is how much more: *)
(* of a text that decodes to v, v is encoded as that very text exactly if  *)
(* its pads are trailing and its spare bits are zero.  b64_decode sees to  *)
(* neither: pads are looked at in their own quad only, and the bits are    *)
(* dropped.  In any case v has the bytes its quads and pads count.         *)
(***************************************************************************)
ReadsMoreThanMade ==
    kind = "text" => \A v \in B64Decode(input) :
        /\ B64Encode(v) = input <=> PadIsTrailing(input) /\ SpareBits(input) = 0
        /\ Len(v) = 3 * (Len(input) \div 4) - Quantify(DOMAIN input, LAMBDA i : input[i] = Pad)

(***************************************************************************)
(* A handshake body, or a KEX payload, that is read as a value is the one  *)
(* that would have been made of that value: none is cut short or padded.   *)
(***************************************************************************)
BodiesAreExact ==
    kind = "body" =>
        /\ \A x \in ReadHello(input) : MakeHello(VERSION, x) = input
        /\ \A type \in Sized : \A x \in ReadSized(type, input) : MakeSized(type, x) = input
        /\ \A x \in ReadServerKex(input) : MakeServerKex(VERSION, x) = input
        /\ \A x \in DecodeKex(input) : EncodeKex(x.epoch, x.pub) = input

(***************************************************************************)
(* put_u16 keeps the low 16 bits of a size: a certificate or a signature   *)
(* that is longer is refused by the reader, and never taken for a shorter  *)
(* one; any other is read back.                                            *)
(***************************************************************************)
LongIsRefused ==
    kind = "long" => \A type \in Sized \ {ClientKex} :
        ReadSized(type, MakeSized(type, input)) =
            IF Len(input) < Q ^ 8 THEN {input} ELSE {}

(***************************************************************************)
(* Two counters do not make one nonce.                                     *)
(***************************************************************************)
NoncesDiffer ==
    kind = "long" => \A m \in 0 .. Len(input) - 1 :
        MakeNonce(<<0>>, m) # MakeNonce(<<0>>, Len(input))

(***************************************************************************)
(* split_n loses nothing: at most n parts, which joined give the line, and *)
(* only the last of n parts may hold a separator.                          *)
(***************************************************************************)
SplitLosesNothing ==
    kind = "line" => \A n \in 1 .. 3 :
        LET parts == SplitN(input, n) IN
        /\ Len(parts) <= n /\ Join(parts) = input
        /\ \A k \in DOMAIN parts : k < n => Space \notin ToSet(parts[k])

(***************************************************************************)
(* proto.h:64: "Excluding spaces keeps the space-delimited grammar         *)
(* unambiguous": the FROM line that the relay makes of a sender and a text *)
(* is read by the client as that sender and that text.                     *)
(***************************************************************************)
GrammarIsUnambiguous ==
    kind = "line" => \A k \in 0 .. Len(input) :
        LET name == SubSeq(input, 1, k)
            text == Drop(input, k)
        IN  ValidUsername(name) =>
            SplitN(SplitN(<<Mark, Space>> \o name \o <<Space>> \o text, 2)[2], 2)
                = <<name, text>>

(***************************************************************************)
(* crypto.cpp:183: "'=' must be trailing".  b64_decode finds that a pad is *)
(* trailing in its quad; other quads may follow.                           *)
(***************************************************************************)
PadsAreTrailing == kind = "text" /\ B64Decode(input) # {} => PadIsTrailing(input)
=============================================================================
