------------------------------ MODULE PplField ------------------------------
(***************************************************************************)
(* The field types of PPL packets (ppl/protocol.py): for each its default, *)
(* the values set() accepts, the bytes pack() makes of a value, and the    *)
(* value unpack() makes of the bytes at a position.  PplComposite builds   *)
(* arrays and packets of them.                                             *)
(*                                                                         *)
(* A datagram is a sequence of bytes.  Numbers of more than two bytes,     *)
(* floats, MAC addresses and fixed arrays of bytes are represented by      *)
(* their bytes, a number that does not fit its format by too many of them, *)
(* an IP address by its 4 (or, as IPv6, 16) octets, a string by its code   *)
(* points.                                                                 *)
(***************************************************************************)
EXTENDS Integers, Sequences, FiniteSets, SequencesExt

Byte == 0 .. 255
Largest == 256 * 256 - 1
Word == 0 .. Largest

-----------------------------------------------------------------------------
(* Types *)

Number(w) == [kind |-> "number", width |-> w]   \* of one or two bytes
Raw(w) == [kind |-> "raw", width |-> w, little |-> FALSE]
RawLe(w) == [kind |-> "raw", width |-> w, little |-> TRUE]

U8 == Number(1)
U16 == Number(2)
U32 == Raw(4)
U64 == Raw(8)
Float == Raw(4)
MAC == Raw(6)
U32Le == RawLe(4)
Octets(n) == Raw(n)

IP == [kind |-> "ip", little |-> FALSE]
IPLe == [kind |-> "ip", little |-> TRUE]
EnumOf(codes) == [kind |-> "enum", codes |-> codes]
Str == [kind |-> "string"]
Tlv(name) == [kind |-> "tlv", name |-> name]

ArrayOf(t) == [kind |-> "array", of |-> t]
FixedOf(t, n) == [kind |-> "fixed", of |-> t, size |-> n]
Packet(name, fields) == [kind |-> "packet", name |-> name, fields |-> fields]

FieldName(t, i) == t.fields[i][1]
FieldType(t, i) == t.fields[i][2]

IsField(t) ==
  \/ t.kind = "number" /\ t.width \in {1, 2}
  \/ t.kind = "raw" /\ t.width \in Nat /\ t.little \in BOOLEAN
  \/ t.kind = "ip" /\ t.little \in BOOLEAN
  \/ t.kind = "enum" /\ t.codes \subseteq Byte
  \/ t.kind \in {"string", "tlv"}

Zeros(n) == [i \in 1 .. n |-> 0]

\* What a call without arguments gives, for the fields a call may leave out.
DefaultField(t) ==
  CASE t.kind \in {"number", "enum"} -> 0
    [] t.kind = "raw" -> Zeros(t.width)
    [] t.kind = "ip" -> Zeros(4)
    [] t.kind = "string" -> <<>>
    [] t.kind = "tlv" -> <<0, 0, <<>>>>

-----------------------------------------------------------------------------
(* Packing *)

Numbers(w) == IF w = 1 THEN Byte ELSE Word

\* The number of words a TLV takes whose header and data have n bytes.
TlvWords(n) == (n + 1 + 3) \div 4

\* set() accepts the value: otherwise the constructor raises SerializeError.
ValidField(t, v) ==
  CASE t.kind = "number" -> v \in Numbers(t.width)
    [] t.kind = "raw" -> v \in [1 .. t.width -> Byte]
    [] t.kind = "ip" -> v \in Seq(Byte) /\ Len(v) \in {4, 16}
    [] t.kind = "enum" -> v \in t.codes
    [] t.kind = "string" -> v \in Seq(Nat) /\ Len(v) <= Largest /\ 0 \notin ToSet(v)
    [] t.kind = "tlv" -> /\ v = <<v[1], v[2], v[3]>>
                         /\ v[1] \in Byte /\ v[2] \in Word
                         /\ v[3] \in Seq(Byte) /\ TlvWords(Len(v[3])) <= 255

\* What packing a valid value may raise: ip_address takes IPv6 addresses, of
\* which only the smallest fit; strings are packed as latin-1; the length of a TLV
\* without data is refused by the unpack that pack uses to find the padding.
FieldErrors(t, v) ==
  CASE t.kind = "ip" -> IF Len(v) = 16 /\ \E i \in 1 .. 12 : v[i] # 0
                          THEN {"SerializeError"} ELSE {}
    [] t.kind = "string" -> IF \E i \in DOMAIN v : v[i] > 255
                              THEN {"UnicodeEncodeError"} ELSE {}
    [] t.kind = "tlv" -> CASE Len(v[3]) = 0 -> {"DeserializeError"}
                           [] TlvWords(Len(v[3]) + 3) > 255 -> {"SerializeError"}
                           [] OTHER -> {}
    [] OTHER -> {}

BigEndian(n, w) == IF w = 1 THEN <<n % 256>> ELSE <<(n \div 256) % 256, n % 256>>
Ordered(t, bytes) == IF t.little THEN Reverse(bytes) ELSE bytes

\* Component, value number and data in whole words of four bytes.
PackTlv(v) ==
  LET words == TlvWords(3 + Len(v[3])) IN
    <<words, v[1]>> \o BigEndian(v[2], 2) \o v[3] \o Zeros(4 * words - 4 - Len(v[3]))

PackField(t, v) ==
  CASE t.kind = "number" -> BigEndian(v, t.width)
    [] t.kind = "raw" -> Ordered(t, v)
    [] t.kind = "ip" -> Ordered(t, SubSeq(v, Len(v) - 3, Len(v)))
    [] t.kind = "enum" -> <<v>>
    [] t.kind = "string" -> BigEndian(Len(v), 2) \o v
    [] t.kind = "tlv" -> PackTlv(v)

-----------------------------------------------------------------------------
(* Unpacking: the value read behind the first "at" bytes of a datagram d, and  *)
(* how many bytes are behind it then; or the exception that is raised.         *)

Read(v, next) == [error |-> "none", value |-> v, next |-> next]
Raises(e) == [error |-> e, value |-> 0, next |-> 0]
Unreadable == Raises("DeserializeError")

HasBytes(d, at, n) == at + n <= Len(d)
Bytes(d, at, n) == SubSeq(d, at + 1, at + n)
FromBigEndian(b) == IF Len(b) = 1 THEN b[1] ELSE 256 * b[1] + b[2]

\* bytes.decode(): a character is a byte below 128, or a leading byte and as many
\* continuations as it announces.
Continuations == 128 .. 191
Starts(b) == {i \in DOMAIN b : b[i] \notin Continuations}

Width(lead) ==
  CASE lead < 128 -> 1
    [] lead \in 128 .. 223 -> 2
    [] lead \in 224 .. 239 -> 3
    [] OTHER -> 4

Character(b, i) ==
  CASE Width(b[i]) = 1 -> b[i]
    [] Width(b[i]) = 2 -> 64 * (b[i] - 192) + b[i + 1] - 128
    [] Width(b[i]) = 3 -> 4096 * (b[i] - 224) + 64 * (b[i + 1] - 128) + b[i + 2] - 128
    [] Width(b[i]) = 4 -> 262144 * (b[i] - 240) + 4096 * (b[i + 1] - 128)
                            + 64 * (b[i + 2] - 128) + b[i + 3] - 128

\* A character may have that many bytes: no fewer would do for it, it is no surrogate
\* and not beyond the last code point.
Takes(c, width) ==
  CASE width = 1 -> c < 128
    [] width = 2 -> 128 <= c /\ c < 8 * 256
    [] width = 3 -> 8 * 256 <= c /\ c < 256 * 256 /\ ~(216 * 256 <= c /\ c < 224 * 256)
    [] width = 4 -> 256 * 256 <= c /\ c < 17 * 256 * 256

Decodable(b) ==
  /\ \A i \in Starts(b) :
       /\ i + Width(b[i]) - 1 <= Len(b)
       /\ \A j \in i + 1 .. i + Width(b[i]) - 1 : b[j] \in Continuations
       /\ Takes(Character(b, i), Width(b[i]))
  /\ \A j \in DOMAIN b \ Starts(b) : \E i \in Starts(b) : i < j /\ j < i + Width(b[i])

\* The k-th of the first bytes of the characters.
Rank(b, i) == Cardinality({j \in Starts(b) : j <= i})
Start(b, k) == CHOOSE i \in Starts(b) : Rank(b, i) = k

Characters(b) == [k \in 1 .. Cardinality(Starts(b)) |-> Character(b, Start(b, k))]

\* A slice that reaches behind the datagram is only shorter; the length that is
\* returned is the one that was announced.  The set() that follows raises
\* SerializeError for a NUL.
UnpackString(d, at) ==
  IF ~HasBytes(d, at, 2) THEN Unreadable
  ELSE LET n == FromBigEndian(Bytes(d, at, 2))
           b == IF HasBytes(d, at + 2, n) THEN Bytes(d, at + 2, n)
                                          ELSE Bytes(d, at + 2, Len(d) - at - 2)
       IN CASE ~Decodable(b) -> Unreadable
            [] Decodable(b) /\ 0 \in ToSet(Characters(b)) -> Raises("SerializeError")
            [] OTHER -> Read(Characters(b), at + 2 + n)

\* Mutant: a code the enumeration does not have is a KeyError.
UnpackEnumByName(t, d, at) ==
  CASE ~HasBytes(d, at, 1) -> Unreadable
    [] d[at + 1] \in t.codes -> Read(d[at + 1], at + 1)
    [] OTHER -> Raises("KeyError")

\* Mutant: a code the enumeration does not have is read as its zero value.
UnpackEnumDefault(t, d, at) ==
  IF ~HasBytes(d, at, 1) THEN Unreadable
  ELSE Read(IF d[at + 1] \in t.codes THEN d[at + 1] ELSE 0, at + 1)

UnpackEnum(t, d, at) ==
  IF HasBytes(d, at, 1) /\ d[at + 1] \in t.codes THEN Read(d[at + 1], at + 1)
                                                 ELSE Unreadable

\* Mutant: the length of a TLV counts its data only, not its own byte.
UnpackTlvUncounted(d, at) ==
  IF ~HasBytes(d, at, 4) \/ d[at + 1] <= 1 \/ ~HasBytes(d, at, 4 * d[at + 1] - 1)
    THEN Unreadable
    ELSE LET words == d[at + 1] IN
           Read(<<d[at + 2], FromBigEndian(Bytes(d, at + 2, 2)),
                  Bytes(d, at + 4, 4 * words - 5)>>, at + 4 * words - 1)

UnpackTlv(d, at) ==
  IF ~HasBytes(d, at, 4) \/ d[at + 1] <= 1 \/ ~HasBytes(d, at, 4 * d[at + 1])
    THEN Unreadable
    ELSE LET words == d[at + 1] IN
           Read(<<d[at + 2], FromBigEndian(Bytes(d, at + 2, 2)),
                  Bytes(d, at + 4, 4 * words - 4)>>, at + 4 * words)

UnpackField(t, d, at) ==
  CASE t.kind = "number" ->
         IF HasBytes(d, at, t.width)
           THEN Read(FromBigEndian(Bytes(d, at, t.width)), at + t.width)
           ELSE Unreadable
    [] t.kind = "raw" ->
         IF HasBytes(d, at, t.width)
           THEN Read(Ordered(t, Bytes(d, at, t.width)), at + t.width)
           ELSE Unreadable
    [] t.kind = "ip" ->
         IF HasBytes(d, at, 4) THEN Read(Ordered(t, Bytes(d, at, 4)), at + 4) ELSE Unreadable
    [] t.kind = "enum" -> UnpackEnum(t, d, at)
    [] t.kind = "string" -> UnpackString(d, at)
    [] t.kind = "tlv" -> UnpackTlv(d, at)

-----------------------------------------------------------------------------
(* What a transport keeps *)

\* Values that mean the same to pack and to unpack: strings in ASCII, as the first
\* writes latin-1 and the second reads UTF-8, and addresses of IPv4.
PlainField(t, v) ==
  CASE t.kind = "string" -> \A i \in DOMAIN v : v[i] \in 1 .. 127
    [] t.kind = "ip" -> Len(v) = 4
    [] OTHER -> TRUE

\* Values after a transport, which fills the last word of a TLV.
FilledField(t, v) ==
  IF t.kind = "tlv" THEN <<v[1], v[2], v[3] \o Zeros(3 - ((Len(v[3]) + 3) % 4))>> ELSE v

HoldsTextField(t) == t.kind = "string"
=============================================================================
