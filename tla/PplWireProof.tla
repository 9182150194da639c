---------------------------- MODULE PplWireProof ----------------------------
(***************************************************************************)
(* Proofs about the PPL codec and the life of a message (PplWire), for     *)
(* every message, datagram, json file, sequence number and damage.         *)
(*                                                                         *)
(* The argument: each kind of field reads back what it writes and writes   *)
(* back what it reads (FieldCorrect); PplCompositeProof carries this over  *)
(* to arrays and packets of such types, which PplCodec applies five times  *)
(* (CodecIsCorrect); every registered packet is a type of the codec        *)
(* (PacketsAreTypes); the header decides which packet is read              *)
(* (HeaderDecides, Outcomes).  A datagram of another layout would have to  *)
(* be read to its end, but reading takes as many bytes as were written     *)
(* (OtherLength).  The inductive invariant IInv says how a datagram on its *)
(* way was made of the message.                                            *)
(***************************************************************************)
EXTENDS PplWire, SequenceTheorems, FiniteSetTheorems, WellFoundedInduction, TLAPS

-----------------------------------------------------------------------------
(* Bytes and numbers, as in PplCompositeProof *)

Holds(d, at, p) == at + Len(p) <= Len(d) /\ \A i \in 1 .. Len(p) : d[at + i] = p[i]

\* A word is a number of less than 256 * 256.
LEMMA Words ==
  /\ \A n \in Word : n \in Int /\ 0 <= n /\ n < 256 * 256
  /\ \A n \in Int : 0 <= n /\ n < 256 * 256 => n \in Word
  BY L1!Words DEF L1!Word, L1!Largest, Word, Largest

\* Packing a number gives its bytes, and reading them the number again.
LEMMA BigEndianBytes ==
  ASSUME NEW w \in {1, 2}, NEW n \in Numbers(w)
  PROVE  /\ BigEndian(n, w) \in Seq(Byte)
         /\ Len(BigEndian(n, w)) = w
         /\ FromBigEndian(BigEndian(n, w)) = n
<1>1. n \in L1!Numbers(w)
  BY DEF L1!Numbers, L1!Byte, L1!Word, L1!Largest, Numbers, Byte, Word, Largest
<1>2. /\ L1!BigEndian(n, w) \in Seq(L1!Byte) /\ Len(L1!BigEndian(n, w)) = w
      /\ L1!FromBigEndian(L1!BigEndian(n, w)) = n
  BY <1>1, L1!BigEndianBytes
<1>3. L1!BigEndian(n, w) = BigEndian(n, w)
  BY DEF L1!BigEndian, BigEndian
<1>4. L1!Byte = Byte
  BY DEF L1!Byte, Byte
<1>5. \A b : L1!FromBigEndian(b) = FromBigEndian(b)
  BY DEF L1!FromBigEndian, FromBigEndian
<1> QED
  BY ONLY <1>2, <1>3, <1>4, <1>5

\* What is packed are bytes, whatever the number.
LEMMA BigEndianIsBytes ==
  ASSUME NEW n \in Int
  PROVE  BigEndian(n, 2) \in Seq(Byte) /\ Len(BigEndian(n, 2)) = 2
  BY L1!BigEndianIsBytes DEF L1!BigEndian, L1!Byte, BigEndian, Byte

\* Packing a number that was read gives the bytes it was read from.
LEMMA FromBigEndianNumber ==
  ASSUME NEW b \in Seq(Byte), Len(b) \in {1, 2}
  PROVE  /\ FromBigEndian(b) \in Numbers(Len(b))
         /\ BigEndian(FromBigEndian(b), Len(b)) = b
  BY L1!FromBigEndianNumber
  DEF L1!BigEndian, L1!FromBigEndian, L1!Numbers, L1!Byte, L1!Word, L1!Largest,
      BigEndian, FromBigEndian, Numbers, Byte, Word, Largest

\* The bytes of a datagram in a place.
LEMMA BytesOf ==
  ASSUME NEW d \in Seq(Byte), NEW at \in Nat, NEW n \in Nat, HasBytes(d, at, n)
  PROVE  /\ Bytes(d, at, n) \in Seq(Byte)
         /\ Len(Bytes(d, at, n)) = n
         /\ \A i \in 1 .. n : Bytes(d, at, n)[i] = d[at + i]
  BY L1!BytesOf DEF L1!Bytes, L1!HasBytes, L1!Byte, Bytes, HasBytes, Byte

\* Bytes that are in a place are what is read there.
LEMMA HeldBytes ==
  ASSUME NEW d \in Seq(Byte), NEW at \in Nat, NEW p \in Seq(Byte), Holds(d, at, p)
  PROVE  HasBytes(d, at, Len(p)) /\ Bytes(d, at, Len(p)) = p
  BY L1!HeldBytes
  DEF L1!Bytes, L1!HasBytes, L1!Byte, L1!Holds, Bytes, HasBytes, Byte, Holds

\* A sequence of bytes is in a place if its two parts are, one behind the other.
LEMMA HeldParts ==
  ASSUME NEW d \in Seq(Byte), NEW at \in Nat, NEW p \in Seq(Byte), NEW q \in Seq(Byte)
  PROVE  Holds(d, at, p \o q) <=> Holds(d, at, p) /\ Holds(d, at + Len(p), q)
  BY L1!HeldParts DEF L1!Byte, L1!Holds, Byte, Holds

\* Two datagrams with the same bytes in a place.
LEMMA SameBytes ==
  ASSUME NEW d \in Seq(Byte), NEW e \in Seq(Byte), NEW at \in Nat, NEW n \in Nat,
         HasBytes(d, at, n), HasBytes(e, at, n), \A i \in at + 1 .. at + n : e[i] = d[i]
  PROVE  Bytes(e, at, n) = Bytes(d, at, n)
<1>1. /\ Bytes(d, at, n) \in Seq(Byte) /\ Len(Bytes(d, at, n)) = n
      /\ \A i \in 1 .. n : Bytes(d, at, n)[i] = d[at + i]
  BY BytesOf
<1>2. /\ Bytes(e, at, n) \in Seq(Byte) /\ Len(Bytes(e, at, n)) = n
      /\ \A i \in 1 .. n : Bytes(e, at, n)[i] = e[at + i]
  BY BytesOf
<1>3. \A i \in 1 .. n : e[at + i] = d[at + i]
  OBVIOUS
<1> QED
  BY <1>1, <1>2, <1>3, SeqEqual

\* The reverse of some bytes.
LEMMA ReverseOf ==
  ASSUME NEW b \in Seq(Byte)
  PROVE  /\ Reverse(b) \in Seq(Byte) /\ Len(Reverse(b)) = Len(b)
         /\ \A i \in 1 .. Len(b) : Reverse(b)[i] = b[(Len(b) - i) + 1]
  BY DEF Reverse

\* Bytes whose order is reversed twice are in their order again.
LEMMA Reversed ==
  ASSUME NEW b \in Seq(Byte), NEW t, t.little \in BOOLEAN
  PROVE  /\ Ordered(t, b) \in Seq(Byte)
         /\ Len(Ordered(t, b)) = Len(b)
         /\ Ordered(t, Ordered(t, b)) = b
<1>1. /\ Reverse(b) \in Seq(Byte) /\ Len(Reverse(b)) = Len(b)
      /\ \A i \in 1 .. Len(b) : Reverse(b)[i] = b[(Len(b) - i) + 1]
  BY ReverseOf
<1>2. Reverse(Reverse(b)) = b
  <2>1. /\ Reverse(Reverse(b)) \in Seq(Byte) /\ Len(Reverse(Reverse(b))) = Len(b)
        /\ \A i \in 1 .. Len(b) : Reverse(Reverse(b))[i] = Reverse(b)[(Len(b) - i) + 1]
    <3> DEFINE r == Reverse(b)
    <3>1. r \in Seq(Byte) /\ Len(r) = Len(b)
      BY <1>1
    <3> HIDE DEF r
    <3>2. /\ Reverse(r) \in Seq(Byte) /\ Len(Reverse(r)) = Len(b)
          /\ \A i \in 1 .. Len(b) : Reverse(r)[i] = r[(Len(b) - i) + 1]
      BY <3>1, ReverseOf
    <3> QED
      BY <3>2 DEF r
  <2>2. ASSUME NEW i \in 1 .. Len(b) PROVE Reverse(Reverse(b))[i] = b[i]
    <3>1. (Len(b) - i) + 1 \in 1 .. Len(b) /\ (Len(b) - ((Len(b) - i) + 1)) + 1 = i
      OBVIOUS
    <3> QED
      BY <1>1, <2>1, <3>1
  <2> QED
    BY <2>1, <2>2, SeqEqual
<1> QED
  BY <1>1, <1>2 DEF Ordered

-----------------------------------------------------------------------------
(* Fields *)

FieldWrites(t) ==
  \A v : ValidField(t, v) /\ FieldErrors(t, v) = {} => PackField(t, v) \in Seq(Byte)

FieldReads(t) ==
  \A d \in Seq(Byte), at \in Nat :
    /\ UnpackField(t, d, at).error \in {"none", "DeserializeError", "SerializeError"}
    /\ UnpackField(t, d, at).error = "none" =>
         UnpackField(t, d, at).next \in Nat /\ at <= UnpackField(t, d, at).next
    /\ UnpackField(t, d, at).error = "SerializeError" =>
         HoldsTextField(t) /\ \E i \in at + 1 .. Len(d) : d[i] = 0

FieldReadsBack(t) ==
  \A v : \A d \in Seq(Byte), at \in Nat :
    ValidField(t, v) /\ FieldErrors(t, v) = {} /\ Holds(d, at, PackField(t, v)) =>
      /\ UnpackField(t, d, at).error = "none" =>
           UnpackField(t, d, at).next = at + Len(PackField(t, v))
      /\ PlainField(t, v) =>
           UnpackField(t, d, at) = Read(FilledField(t, v), at + Len(PackField(t, v)))

FieldWritesBack(t) ==
  \A d \in Seq(Byte), at \in Nat :
    LET u == UnpackField(t, d, at) IN
      u.error = "none" /\ u.next <= Len(d) /\ PlainField(t, u.value) =>
        /\ ValidField(t, u.value) /\ FieldErrors(t, u.value) = {}
        /\ PackField(t, u.value) = SubSeq(d, at + 1, u.next)

FieldIsLocal(t) ==
  \A d, e \in Seq(Byte), at \in Nat :
    LET u == UnpackField(t, d, at) IN
      /\ u.error = "none" /\ u.next <= Len(d) /\ u.next <= Len(e)
      /\ \A i \in at + 1 .. u.next : e[i] = d[i]
      => UnpackField(t, e, at) = u

FieldCorrect(t) ==
  FieldWrites(t) /\ FieldReads(t) /\ FieldReadsBack(t) /\ FieldWritesBack(t) /\ FieldIsLocal(t)

\* Numbers of one and two bytes.
LEMMA NumberIsCorrect ==
  ASSUME NEW t, t.kind = "number", t.width \in {1, 2}
  PROVE  FieldCorrect(t)
<1> DEFINE w == t.width
<1>0. /\ \A v : FieldErrors(t, v) = {} /\ FilledField(t, v) = v
      /\ \A v : PackField(t, v) = BigEndian(v, w) /\ (ValidField(t, v) <=> v \in Numbers(w))
      /\ \A d, at : UnpackField(t, d, at) = IF HasBytes(d, at, w)
                                              THEN Read(FromBigEndian(Bytes(d, at, w)), at + w)
                                              ELSE Unreadable
  BY DEF FieldErrors, FilledField, PackField, ValidField, UnpackField
<1> HIDE DEF w
<1>1. w \in {1, 2} /\ w \in Nat
  BY DEF w
<1>2. FieldWrites(t)
  BY <1>0, <1>1, BigEndianBytes DEF FieldWrites
<1>3. FieldReads(t)
  BY <1>0, <1>1 DEF FieldReads, Read, Unreadable, Raises
<1>4. FieldReadsBack(t)
  <2> SUFFICES ASSUME NEW v \in Numbers(w), NEW d \in Seq(Byte), NEW at \in Nat,
                      Holds(d, at, BigEndian(v, w))
               PROVE  UnpackField(t, d, at) = Read(v, at + Len(BigEndian(v, w)))
    BY <1>0 DEF FieldReadsBack, Read
  <2>1. BigEndian(v, w) \in Seq(Byte) /\ Len(BigEndian(v, w)) = w
        /\ FromBigEndian(BigEndian(v, w)) = v
    BY <1>1, BigEndianBytes
  <2>2. HasBytes(d, at, w) /\ Bytes(d, at, w) = BigEndian(v, w)
    BY <2>1, HeldBytes
  <2> QED
    BY <1>0, <2>1, <2>2
<1>5. FieldWritesBack(t)
  <2> SUFFICES ASSUME NEW d \in Seq(Byte), NEW at \in Nat, HasBytes(d, at, w)
               PROVE  LET v == FromBigEndian(Bytes(d, at, w)) IN
                        v \in Numbers(w) /\ BigEndian(v, w) = SubSeq(d, at + 1, at + w)
    BY <1>0 DEF FieldWritesBack, Read, Unreadable, Raises
  <2>1. Bytes(d, at, w) \in Seq(Byte) /\ Len(Bytes(d, at, w)) = w
    BY <1>1, BytesOf
  <2>2. Bytes(d, at, w) = SubSeq(d, at + 1, at + w)
    BY DEF Bytes
  <2> QED
    BY <1>1, <2>1, <2>2, FromBigEndianNumber
<1>6. FieldIsLocal(t)
  <2> SUFFICES ASSUME NEW d \in Seq(Byte), NEW e \in Seq(Byte), NEW at \in Nat,
                      HasBytes(d, at, w), at + w <= Len(e),
                      \A i \in at + 1 .. at + w : e[i] = d[i]
               PROVE  HasBytes(e, at, w) /\ Bytes(e, at, w) = Bytes(d, at, w)
    BY <1>0 DEF FieldIsLocal, Read, Unreadable, Raises
  <2>1. HasBytes(e, at, w)
    BY DEF HasBytes
  <2> QED
    BY <1>1, <2>1, SameBytes
<1> QED
  BY <1>2, <1>3, <1>4, <1>5, <1>6 DEF FieldCorrect

\* The last four of four bytes.
LEMMA Whole4 ==
  ASSUME NEW v \in Seq(Byte), Len(v) = 4
  PROVE  SubSeq(v, Len(v) - 3, Len(v)) = v
  OBVIOUS

\* The last four bytes of an IP address.
LEMMA LastFour ==
  ASSUME NEW v \in Seq(Byte), Len(v) \in {4, 16}
  PROVE  /\ SubSeq(v, Len(v) - 3, Len(v)) \in Seq(Byte)
         /\ Len(SubSeq(v, Len(v) - 3, Len(v))) = 4
  OBVIOUS

\* Fields that are represented by their bytes.
LEMMA RawIsCorrect ==
  ASSUME NEW t, t.kind = "raw", t.width \in Nat, t.little \in BOOLEAN
  PROVE  FieldCorrect(t)
<1> DEFINE w == t.width
<1>0. /\ \A v : FieldErrors(t, v) = {} /\ FilledField(t, v) = v
      /\ \A v : PackField(t, v) = Ordered(t, v) /\ (ValidField(t, v) <=> v \in [1 .. w -> Byte])
      /\ \A d, at : UnpackField(t, d, at) = IF HasBytes(d, at, w)
                                              THEN Read(Ordered(t, Bytes(d, at, w)), at + w)
                                              ELSE Unreadable
  BY DEF FieldErrors, FilledField, PackField, ValidField, UnpackField
<1> HIDE DEF w
<1>1. w \in Nat
  BY DEF w
<1>2. \A v \in [1 .. w -> Byte] : v \in Seq(Byte) /\ Len(v) = w
  BY <1>1
<1>3. \A v : v \in Seq(Byte) /\ Len(v) = w => v \in [1 .. w -> Byte]
  OBVIOUS
<1>4. FieldWrites(t)
  BY <1>0, <1>2, Reversed DEF FieldWrites
<1>5. FieldReads(t)
  BY <1>0, <1>1 DEF FieldReads, Read, Unreadable, Raises
<1>6. FieldReadsBack(t)
  <2> SUFFICES ASSUME NEW v \in [1 .. w -> Byte], NEW d \in Seq(Byte), NEW at \in Nat,
                      Holds(d, at, Ordered(t, v))
               PROVE  UnpackField(t, d, at) = Read(v, at + Len(Ordered(t, v)))
    BY <1>0 DEF FieldReadsBack, Read
  <2>1. Ordered(t, v) \in Seq(Byte) /\ Len(Ordered(t, v)) = w /\ Ordered(t, Ordered(t, v)) = v
    BY <1>2, Reversed
  <2>2. HasBytes(d, at, w) /\ Bytes(d, at, w) = Ordered(t, v)
    BY <2>1, HeldBytes
  <2> QED
    BY <1>0, <2>1, <2>2
<1>7. FieldWritesBack(t)
  <2> SUFFICES ASSUME NEW d \in Seq(Byte), NEW at \in Nat, HasBytes(d, at, w)
               PROVE  LET v == Ordered(t, Bytes(d, at, w)) IN
                        v \in [1 .. w -> Byte] /\ Ordered(t, v) = SubSeq(d, at + 1, at + w)
    BY <1>0 DEF FieldWritesBack, Read, Unreadable, Raises
  <2>1. Bytes(d, at, w) \in Seq(Byte) /\ Len(Bytes(d, at, w)) = w
    BY <1>1, BytesOf
  <2>2. Bytes(d, at, w) = SubSeq(d, at + 1, at + w)
    BY DEF Bytes
  <2> DEFINE b == Bytes(d, at, w)
  <2> HIDE DEF b
  <2>3. b \in Seq(Byte) /\ Len(b) = w
    BY <2>1 DEF b
  <2>4. Ordered(t, b) \in Seq(Byte) /\ Len(Ordered(t, b)) = w /\ Ordered(t, Ordered(t, b)) = b
    BY <2>3, Reversed
  <2>5. Ordered(t, b) \in [1 .. w -> Byte] /\ Ordered(t, Ordered(t, b)) = b
    BY <1>3, <2>4
  <2> QED
    BY <2>2, <2>5 DEF b
<1>8. FieldIsLocal(t)
  <2> SUFFICES ASSUME NEW d \in Seq(Byte), NEW e \in Seq(Byte), NEW at \in Nat,
                      HasBytes(d, at, w), at + w <= Len(e),
                      \A i \in at + 1 .. at + w : e[i] = d[i]
               PROVE  HasBytes(e, at, w) /\ Bytes(e, at, w) = Bytes(d, at, w)
    BY <1>0 DEF FieldIsLocal, Read, Unreadable, Raises
  <2>1. HasBytes(e, at, w)
    BY DEF HasBytes
  <2> QED
    BY <1>1, <2>1, SameBytes
<1> QED
  BY <1>4, <1>5, <1>6, <1>7, <1>8 DEF FieldCorrect

LastFourOf(v) == SubSeq(v, Len(v) - 3, Len(v))

\* IP addresses: those of four octets are read as they were written.
LEMMA IpIsCorrect ==
  ASSUME NEW t, t.kind = "ip", t.little \in BOOLEAN
  PROVE  FieldCorrect(t)
<1>w. PICK w \in Nat : w = 4
  OBVIOUS
<1>0. /\ \A v : FilledField(t, v) = v /\ (PlainField(t, v) <=> Len(v) = w)
      /\ \A v : Len(v) = w => FieldErrors(t, v) = {}
      /\ \A v : PackField(t, v) = Ordered(t, LastFourOf(v))
      /\ \A v : ValidField(t, v) <=> v \in Seq(Byte) /\ Len(v) \in {w, 16}
      /\ \A d, at : UnpackField(t, d, at) = IF HasBytes(d, at, w)
                                              THEN Read(Ordered(t, Bytes(d, at, w)), at + w)
                                              ELSE Unreadable
  BY <1>w DEF FieldErrors, FilledField, PackField, ValidField, UnpackField, PlainField, LastFourOf
<1>1. \A v \in Seq(Byte) : Len(v) \in {w, 16} =>
        LastFourOf(v) \in Seq(Byte) /\ Len(LastFourOf(v)) = w
  <2> TAKE v \in Seq(Byte)
  <2> HAVE Len(v) \in {w, 16}
  <2>1. Len(v) \in {4, 16}
    BY <1>w
  <2> QED
    BY <1>w, <2>1, LastFour DEF LastFourOf
<1>2. \A v \in Seq(Byte) : Len(v) = w => LastFourOf(v) = v
  BY <1>w, Whole4 DEF LastFourOf
<1>3. \A v \in Seq(Byte) : Len(v) \in {w, 16} =>
        /\ Ordered(t, LastFourOf(v)) \in Seq(Byte) /\ Len(Ordered(t, LastFourOf(v))) = w
        /\ Ordered(t, Ordered(t, LastFourOf(v))) = LastFourOf(v)
  <2> TAKE v \in Seq(Byte)
  <2> HAVE Len(v) \in {w, 16}
  <2>1. LastFourOf(v) \in Seq(Byte) /\ Len(LastFourOf(v)) = w
    BY <1>1
  <2> QED
    BY <2>1, Reversed
<1>4. FieldWrites(t)
  BY <1>0, <1>3 DEF FieldWrites
<1>5. FieldReads(t)
  BY <1>0 DEF FieldReads, Read, Unreadable, Raises
<1>6. FieldReadsBack(t)
  <2>1. ASSUME NEW v \in Seq(Byte), Len(v) \in {w, 16}, NEW d \in Seq(Byte), NEW at \in Nat,
               Holds(d, at, Ordered(t, LastFourOf(v)))
        PROVE  UnpackField(t, d, at)
                 = Read(LastFourOf(v), at + Len(Ordered(t, LastFourOf(v))))
    <3>1. /\ Ordered(t, LastFourOf(v)) \in Seq(Byte) /\ Len(Ordered(t, LastFourOf(v))) = w
          /\ Ordered(t, Ordered(t, LastFourOf(v))) = LastFourOf(v)
      BY <1>3, <2>1
    <3>2. HasBytes(d, at, w) /\ Bytes(d, at, w) = Ordered(t, LastFourOf(v))
      BY <2>1, <3>1, HeldBytes
    <3> QED
      BY <1>0, <3>1, <3>2
  <2> SUFFICES ASSUME NEW v, NEW d \in Seq(Byte), NEW at \in Nat,
                      ValidField(t, v), Holds(d, at, PackField(t, v))
               PROVE  LET n == at + Len(PackField(t, v)) IN
                        /\ UnpackField(t, d, at).next = n
                        /\ PlainField(t, v) => UnpackField(t, d, at) = Read(FilledField(t, v), n)
    BY DEF FieldReadsBack
  <2>2. v \in Seq(Byte) /\ Len(v) \in {w, 16} /\ PackField(t, v) = Ordered(t, LastFourOf(v))
    BY <1>0
  <2>3. UnpackField(t, d, at) = Read(LastFourOf(v), at + Len(PackField(t, v)))
    BY <2>1, <2>2
  <2>4. PlainField(t, v) => LastFourOf(v) = FilledField(t, v)
    BY <1>0, <1>2, <2>2
  <2> QED
    BY <2>3, <2>4 DEF Read
<1>7. FieldWritesBack(t)
  <2>1. ASSUME NEW d \in Seq(Byte), NEW at \in Nat, HasBytes(d, at, w)
        PROVE  LET v == Ordered(t, Bytes(d, at, w)) IN
                 /\ ValidField(t, v) /\ FieldErrors(t, v) = {}
                 /\ PackField(t, v) = SubSeq(d, at + 1, at + w)
    <3> DEFINE b == Bytes(d, at, w)
    <3>1. b \in Seq(Byte) /\ Len(b) = w
      BY <2>1, BytesOf
    <3>2. b = SubSeq(d, at + 1, at + w)
      BY DEF Bytes
    <3> HIDE DEF b
    <3>3. /\ Ordered(t, b) \in Seq(Byte) /\ Len(Ordered(t, b)) = w
          /\ Ordered(t, Ordered(t, b)) = b
      BY <3>1, Reversed
    <3>4. LastFourOf(Ordered(t, b)) = Ordered(t, b)
      BY <1>2, <3>3
    <3>5. /\ ValidField(t, Ordered(t, b)) /\ FieldErrors(t, Ordered(t, b)) = {}
          /\ PackField(t, Ordered(t, b)) = b
      BY <1>0, <3>3, <3>4
    <3> QED
      BY <3>2, <3>5 DEF b
  <2> SUFFICES ASSUME NEW d \in Seq(Byte), NEW at \in Nat,
                      UnpackField(t, d, at).error = "none"
               PROVE  LET u == UnpackField(t, d, at) IN
                        /\ ValidField(t, u.value) /\ FieldErrors(t, u.value) = {}
                        /\ PackField(t, u.value) = SubSeq(d, at + 1, u.next)
    BY DEF FieldWritesBack
  <2>2. HasBytes(d, at, w)
    BY <1>0 DEF Unreadable, Raises
  <2>3. /\ UnpackField(t, d, at).value = Ordered(t, Bytes(d, at, w))
        /\ UnpackField(t, d, at).next = at + w
    BY <1>0, <2>2 DEF Read
  <2> QED
    BY <2>1, <2>2, <2>3
<1>8. FieldIsLocal(t)
  <2> SUFFICES ASSUME NEW d \in Seq(Byte), NEW e \in Seq(Byte), NEW at \in Nat,
                      UnpackField(t, d, at).error = "none",
                      UnpackField(t, d, at).next <= Len(d),
                      UnpackField(t, d, at).next <= Len(e),
                      \A i \in at + 1 .. UnpackField(t, d, at).next : e[i] = d[i]
               PROVE  UnpackField(t, e, at) = UnpackField(t, d, at)
    BY DEF FieldIsLocal
  <2>1. HasBytes(d, at, w)
    BY <1>0 DEF Unreadable, Raises
  <2>2. UnpackField(t, d, at) = Read(Ordered(t, Bytes(d, at, w)), at + w)
    BY <1>0, <2>1
  <2>3. UnpackField(t, d, at).next = at + w
    BY ONLY <2>2 DEF Read
  <2>4. HasBytes(e, at, w) /\ \A i \in at + 1 .. at + w : e[i] = d[i]
    BY <2>3 DEF HasBytes
  <2>5. Bytes(e, at, w) = Bytes(d, at, w)
    BY ONLY w \in Nat, d \in Seq(Byte), e \in Seq(Byte), at \in Nat, <2>1, <2>4, SameBytes
  <2> QED
    BY ONLY <1>0, <2>2, <2>4, <2>5
<1> QED
  BY <1>4, <1>5, <1>6, <1>7, <1>8 DEF FieldCorrect

\* Enumerations.
LEMMA EnumIsCorrect ==
  ASSUME NEW t, t.kind = "enum", t.codes \subseteq Byte
  PROVE  FieldCorrect(t)
<1>0. /\ \A v : FieldErrors(t, v) = {} /\ FilledField(t, v) = v
      /\ \A v : PackField(t, v) = <<v>> /\ (ValidField(t, v) <=> v \in t.codes)
      /\ \A d, at : UnpackField(t, d, at) = IF HasBytes(d, at, 1) /\ d[at + 1] \in t.codes
                                              THEN Read(d[at + 1], at + 1)
                                              ELSE Unreadable
  BY DEF FieldErrors, FilledField, PackField, ValidField, UnpackField, UnpackEnum
<1>1. FieldWrites(t)
  <2>1. \A v \in Byte : <<v>> \in Seq(Byte)
    OBVIOUS
  <2> QED
    BY <1>0, <2>1 DEF FieldWrites
<1>2. FieldReads(t)
  BY <1>0 DEF FieldReads, Read, Unreadable, Raises
<1>3. FieldReadsBack(t)
  <2> SUFFICES ASSUME NEW v \in t.codes, NEW d \in Seq(Byte), NEW at \in Nat,
                      Holds(d, at, <<v>>)
               PROVE  UnpackField(t, d, at) = Read(v, at + Len(<<v>>))
    <3>1. ASSUME NEW v, NEW d \in Seq(Byte), NEW at \in Nat,
                 ValidField(t, v), Holds(d, at, PackField(t, v))
          PROVE  UnpackField(t, d, at) = Read(FilledField(t, v), at + Len(PackField(t, v)))
      <4>1. v \in t.codes /\ PackField(t, v) = <<v>> /\ FilledField(t, v) = v
        BY <1>0, <3>1
      <4> QED
        BY <3>1, <4>1
    <3> QED
      BY <3>1 DEF FieldReadsBack, Read
  <2>1. HasBytes(d, at, 1) /\ d[at + 1] = v
    BY DEF Holds, HasBytes
  <2> QED
    BY <1>0, <2>1
<1>4. FieldWritesBack(t)
  <2> SUFFICES ASSUME NEW d \in Seq(Byte), NEW at \in Nat,
                      UnpackField(t, d, at).error = "none"
               PROVE  LET u == UnpackField(t, d, at) IN
                        /\ ValidField(t, u.value) /\ FieldErrors(t, u.value) = {}
                        /\ PackField(t, u.value) = SubSeq(d, at + 1, u.next)
    BY DEF FieldWritesBack
  <2>1. HasBytes(d, at, 1) /\ d[at + 1] \in t.codes
    BY <1>0 DEF Unreadable, Raises
  <2>2. UnpackField(t, d, at).value = d[at + 1] /\ UnpackField(t, d, at).next = at + 1
    BY <1>0, <2>1 DEF Read
  <2>3. SubSeq(d, at + 1, at + 1) = <<d[at + 1]>>
    <3>1. at + 1 <= Len(d) /\ at + 1 \in Nat /\ 1 <= at + 1
      BY <2>1 DEF HasBytes
    <3>2. SubSeq(d, at + 1, at + 1) \in Seq(Byte) /\ <<d[at + 1]>> \in Seq(Byte)
      BY <3>1
    <3>3. Len(SubSeq(d, at + 1, at + 1)) = 1 /\ Len(<<d[at + 1]>>) = 1
      BY <3>1
    <3>4. SubSeq(d, at + 1, at + 1)[1] = d[at + 1]
      BY <3>1
    <3>5. \A i \in 1 .. 1 : SubSeq(d, at + 1, at + 1)[i] = <<d[at + 1]>>[i]
      BY <3>4
    <3> QED
      BY <3>2, <3>3, <3>5, SeqEqual
  <2> QED
    BY <1>0, <2>1, <2>2, <2>3
<1>5. FieldIsLocal(t)
  <2> SUFFICES ASSUME NEW d \in Seq(Byte), NEW e \in Seq(Byte), NEW at \in Nat,
                      at + 1 <= Len(e), e[at + 1] = d[at + 1]
               PROVE  HasBytes(e, at, 1)
    BY <1>0 DEF FieldIsLocal, Read, Unreadable, Raises
  <2> QED
    BY DEF HasBytes
<1> QED
  BY <1>1, <1>2, <1>3, <1>4, <1>5 DEF FieldCorrect

\* Two bytes of a datagram.
LEMMA TwoBytesOf ==
  ASSUME NEW d \in Seq(Byte), NEW at \in Nat, HasBytes(d, at, 2)
  PROVE  Bytes(d, at, 2) \in Seq(Byte) /\ Len(Bytes(d, at, 2)) = 2
  BY L1!TwoBytesOf DEF L1!Bytes, L1!HasBytes, L1!Byte, Bytes, HasBytes, Byte

\* Two slices of a datagram, one behind the other, are one slice.
LEMMA SlicesJoin ==
  ASSUME NEW d \in Seq(Byte), NEW i \in Nat, NEW j \in Nat, NEW k \in Nat,
         i <= j, j <= k, k <= Len(d)
  PROVE  SubSeq(d, i + 1, j) \o SubSeq(d, j + 1, k) = SubSeq(d, i + 1, k)
  BY L1!SlicesJoin DEF L1!Byte, Byte

\* Numbers in two bytes.
LEMMA TwoBytes ==
  /\ \A n \in Word : /\ BigEndian(n, 2) \in Seq(Byte) /\ Len(BigEndian(n, 2)) = 2
                     /\ FromBigEndian(BigEndian(n, 2)) = n
  /\ \A b \in Seq(Byte) : Len(b) = 2 =>
       /\ FromBigEndian(b) \in Word /\ BigEndian(FromBigEndian(b), 2) = b
<1>0. PICK w \in {1, 2} : w = 2
  OBVIOUS
<1>1. Numbers(w) = Word
  BY <1>0 DEF Numbers
<1>2. \A n \in Numbers(w) : /\ BigEndian(n, w) \in Seq(Byte) /\ Len(BigEndian(n, w)) = w
                            /\ FromBigEndian(BigEndian(n, w)) = n
  BY BigEndianBytes
<1>3. ASSUME NEW b \in Seq(Byte), Len(b) = 2
      PROVE  FromBigEndian(b) \in Word /\ BigEndian(FromBigEndian(b), 2) = b
  <2>1. Len(b) \in {1, 2}
    BY <1>3
  <2>2. FromBigEndian(b) \in Numbers(Len(b)) /\ BigEndian(FromBigEndian(b), Len(b)) = b
    BY <2>1, FromBigEndianNumber
  <2> QED
    BY <1>0, <1>1, <1>3, <2>2
<1> QED
  BY <1>0, <1>1, <1>2, <1>3

Padding(n) == 4 * TlvWords(3 + n) - 4 - n

\* The words a TLV takes hold its header, its data and the padding.
LEMMA TlvSize ==
  ASSUME NEW n \in Nat
  PROVE  /\ TlvWords(3 + n) \in Nat /\ TlvWords(n + 3) = TlvWords(3 + n)
         /\ Padding(n) \in Nat /\ Padding(n) = 3 - ((n + 3) % 4)
         /\ (4 + n) + Padding(n) = 4 * TlvWords(3 + n)
         /\ n > 0 => TlvWords(3 + n) >= 2
<1>1. PICK q \in Int, r \in 0 .. 3 : n + 3 = 4 * q + r
  <2> DEFINE q == (n + 3) \div 4
             r == (n + 3) % 4
  <2>1. q \in Int /\ r \in 0 .. 3
    OBVIOUS
  <2>2. r = (n + 3) - 4 * q
    OBVIOUS
  <2> HIDE DEF q, r
  <2> QED
    BY <2>1, <2>2
<1>2. (n + 3) % 4 = r
  BY <1>1
<1>3. (n + 3) + 4 = 4 * (q + 1) + r
  BY <1>1
<1>4. ((n + 3) + 4) \div 4 = q + 1
  BY <1>3
<1>5. ((3 + n) + 1) + 3 = (n + 3) + 4 /\ ((n + 3) + 1) + 3 = (n + 3) + 4
  OBVIOUS
<1>6. TlvWords(3 + n) = q + 1 /\ TlvWords(n + 3) = q + 1
  BY <1>4, <1>5 DEF TlvWords
<1>7. q >= 0 /\ (n > 0 => q >= 1)
  BY <1>1
<1> QED
  BY <1>1, <1>2, <1>6, <1>7 DEF Padding

\* Data that fill whole words are not padded.
LEMMA TlvExact ==
  ASSUME NEW w \in Nat, w >= 1
  PROVE  /\ TlvWords(3 + (4 * w - 4)) = w /\ TlvWords((4 * w - 4) + 3) = w
         /\ TlvWords(4 * w - 4) = w
         /\ Padding(4 * w - 4) = 0
<1>1. (((4 * w - 4) + 1) + 3) \div 4 = w
  OBVIOUS
<1>2. ((((4 * w - 4) + 3) + 1) + 3) \div 4 = w /\ (((3 + (4 * w - 4)) + 1) + 3) \div 4 = w
  OBVIOUS
<1> QED
  BY <1>1, <1>2 DEF TlvWords, Padding

\* Padding consists of bytes.
LEMMA ZerosAreBytes ==
  ASSUME NEW n \in Nat PROVE Zeros(n) \in Seq(Byte) /\ Len(Zeros(n)) = n
  BY DEF Zeros, Byte

\* A byte of a datagram is one.
LEMMA ByteAt ==
  ASSUME NEW d \in Seq(Byte), NEW at \in Nat, NEW n \in Nat, HasBytes(d, at, n), NEW i \in 1 .. n
  PROVE  d[at + i] \in Byte /\ d[at + i] \in Nat
<1>1. at + i \in 1 .. Len(d)
  BY DEF HasBytes
<1>2. d[at + i] \in Byte
  BY <1>1
<1>3. Byte \subseteq Nat
  BY DEF Byte
<1> QED
  BY <1>2, <1>3

\* TLVs: what is read back has the padding as data (FilledField).
LEMMA TlvIsCorrect ==
  ASSUME NEW t, t.kind = "tlv"
  PROVE  FieldCorrect(t)
<1> DEFINE n(v) == Len(v[3])
           good(v) == /\ v = <<v[1], v[2], v[3]>>
                      /\ v[1] \in Byte /\ v[2] \in Word /\ v[3] \in Seq(Byte)
           words(d, at) == d[at + 1]
           readable(d, at) == HasBytes(d, at, 4) /\ words(d, at) > 1
                                /\ HasBytes(d, at, 4 * words(d, at))
           value(d, at) == <<d[at + 2], FromBigEndian(Bytes(d, at + 2, 2)),
                             Bytes(d, at + 4, 4 * words(d, at) - 4)>>
           next(d, at) == at + 4 * words(d, at)
<1>0. \A d \in Seq(Byte), at \in Nat :
        /\ readable(d, at) => UnpackField(t, d, at) = Read(value(d, at), next(d, at))
        /\ ~readable(d, at) => UnpackField(t, d, at) = Unreadable
  <2> TAKE d \in Seq(Byte), at \in Nat
  <2>1. HasBytes(d, at, 4) => d[at + 1] \in Nat
    <3>1. 4 \in Nat /\ 1 \in 1 .. 4
      OBVIOUS
    <3> QED
      BY ONLY <3>1, ByteAt
  <2> QED
    BY <2>1 DEF UnpackField, UnpackTlv
<1>1. \A v : ValidField(t, v) <=> good(v) /\ TlvWords(n(v)) <= 255
  BY DEF ValidField
<1>2. \A v : FieldErrors(t, v) = {} <=> n(v) # 0 /\ ~(TlvWords(n(v) + 3) > 255)
  BY DEF FieldErrors
<1>3. \A v : PackField(t, v) = <<TlvWords(3 + n(v)), v[1]>> \o BigEndian(v[2], 2) \o v[3]
                                 \o Zeros(Padding(n(v)))
  BY DEF PackField, PackTlv, Padding
<1>4. \A v : FilledField(t, v) = <<v[1], v[2], v[3] \o Zeros(3 - ((n(v) + 3) % 4))>>
  BY DEF FilledField
<1> HIDE DEF readable, value, next, words
\* A packed value: header, data and zeros.
<1>5. ASSUME NEW v, good(v), n(v) # 0, ~(TlvWords(n(v) + 3) > 255)
      PROVE  /\ <<TlvWords(3 + n(v)), v[1]>> \in Seq(Byte)
             /\ BigEndian(v[2], 2) \in Seq(Byte) /\ Len(BigEndian(v[2], 2)) = 2
             /\ Zeros(Padding(n(v))) \in Seq(Byte) /\ Len(Zeros(Padding(n(v)))) = Padding(n(v))
             /\ TlvWords(3 + n(v)) \in 2 .. 255
             /\ (4 + n(v)) + Padding(n(v)) = 4 * TlvWords(3 + n(v))
             /\ Padding(n(v)) = 3 - ((n(v) + 3) % 4)
             /\ FromBigEndian(BigEndian(v[2], 2)) = v[2]
  <2>1. n(v) \in Nat /\ n(v) > 0
    BY <1>5
  <2>2. /\ TlvWords(3 + n(v)) \in Nat /\ TlvWords(n(v) + 3) = TlvWords(3 + n(v))
        /\ Padding(n(v)) \in Nat /\ Padding(n(v)) = 3 - ((n(v) + 3) % 4)
        /\ (4 + n(v)) + Padding(n(v)) = 4 * TlvWords(3 + n(v))
        /\ TlvWords(3 + n(v)) >= 2
    BY <2>1, TlvSize
  <2>3. TlvWords(3 + n(v)) \in 2 .. 255 /\ TlvWords(3 + n(v)) \in Byte
    <3> DEFINE m == TlvWords(3 + n(v))
    <3> HIDE DEF m
    <3>1. m \in Nat /\ m >= 2 /\ ~(m > 255)
      BY <1>5, <2>2 DEF m
    <3>2. m \in 2 .. 255 /\ m \in 0 .. 255
      BY <3>1
    <3> QED
      BY <3>2 DEF m, Byte
  <2>4. <<TlvWords(3 + n(v)), v[1]>> \in Seq(Byte)
    BY <1>5, <2>3
  <2>5. Zeros(Padding(n(v))) \in Seq(Byte) /\ Len(Zeros(Padding(n(v)))) = Padding(n(v))
    BY <2>2, ZerosAreBytes
  <2> HIDE DEF n
  <2> QED
    BY <1>5, <2>2, <2>3, <2>4, <2>5, TwoBytes
<1>6. FieldWrites(t)
  <2> SUFFICES ASSUME NEW v, good(v), n(v) # 0, ~(TlvWords(n(v) + 3) > 255)
               PROVE  PackField(t, v) \in Seq(Byte)
    BY <1>1, <1>2 DEF FieldWrites
  <2>1. /\ <<TlvWords(3 + n(v)), v[1]>> \in Seq(Byte) /\ BigEndian(v[2], 2) \in Seq(Byte)
        /\ v[3] \in Seq(Byte) /\ Zeros(Padding(n(v))) \in Seq(Byte)
    BY <1>5
  <2>2. <<TlvWords(3 + n(v)), v[1]>> \o BigEndian(v[2], 2) \in Seq(Byte)
    BY <2>1, ConcatProperties
  <2>3. <<TlvWords(3 + n(v)), v[1]>> \o BigEndian(v[2], 2) \o v[3] \in Seq(Byte)
    BY <2>1, <2>2, ConcatProperties
  <2>4. (<<TlvWords(3 + n(v)), v[1]>> \o BigEndian(v[2], 2) \o v[3]) \o Zeros(Padding(n(v)))
          \in Seq(Byte)
    BY <2>1, <2>3, ConcatProperties
  <2> QED
    BY <1>3, <2>4
<1>7. FieldReads(t)
  <2> SUFFICES ASSUME NEW d \in Seq(Byte), NEW at \in Nat, readable(d, at)
               PROVE  next(d, at) \in Nat /\ at <= next(d, at)
    BY <1>0 DEF FieldReads, Read, Unreadable, Raises
  <2>1. words(d, at) \in Nat
    <3>1. 4 \in Nat /\ 1 \in 1 .. 4 /\ HasBytes(d, at, 4)
      BY DEF readable
    <3> QED
      BY <3>1, ByteAt DEF words
  <2> QED
    BY <2>1 DEF next
<1>8. FieldReadsBack(t)
  <2>1. ASSUME NEW v, NEW d \in Seq(Byte), NEW at \in Nat,
               good(v), n(v) # 0, ~(TlvWords(n(v) + 3) > 255), Holds(d, at, PackField(t, v))
        PROVE  /\ UnpackField(t, d, at) = Read(FilledField(t, v), at + Len(PackField(t, v)))
    <3> DEFINE a == <<TlvWords(3 + n(v)), v[1]>>
               b == BigEndian(v[2], 2)
               z == Zeros(Padding(n(v)))
               m == TlvWords(3 + n(v))
               l == n(v)
               x == v[3]
    <3>1. /\ a \in Seq(Byte) /\ Len(a) = 2 /\ a[1] = m /\ a[2] = v[1]
          /\ b \in Seq(Byte) /\ Len(b) = 2 /\ FromBigEndian(b) = v[2]
          /\ x \in Seq(Byte) /\ Len(x) = l
          /\ z \in Seq(Byte) /\ (4 + l) + Len(z) = 4 * m /\ l \in Nat
          /\ m \in 2 .. 255
      <4>1. /\ a \in Seq(Byte) /\ b \in Seq(Byte) /\ Len(b) = 2 /\ FromBigEndian(b) = v[2]
            /\ z \in Seq(Byte) /\ Len(z) = Padding(l) /\ (4 + l) + Padding(l) = 4 * m
            /\ m \in 2 .. 255
        BY <1>5, <2>1
      <4>2. Len(a) = 2 /\ a[1] = m /\ a[2] = v[1]
        OBVIOUS
      <4>3. x \in Seq(Byte) /\ Len(x) = l /\ l \in Nat
        BY <2>1
      <4> HIDE DEF a, b, z, m, l, x
      <4> QED
        BY ONLY <4>1, <4>2, <4>3
    <3>2. PackField(t, v) = a \o b \o x \o z
      BY <1>3
    <3>3. FilledField(t, v) = <<v[1], v[2], x \o z>>
      BY <1>4, <1>5, <2>1
    <3> HIDE DEF a, b, z, m, l, x, n, good
    <3>4. a \o b \in Seq(Byte) /\ Len(a \o b) = 4
      <4>1. a \in Seq(Byte) /\ b \in Seq(Byte) /\ Len(a) = 2 /\ Len(b) = 2
        BY <3>1
      <4>2. a \o b \in Seq(Byte) /\ Len(a \o b) = Len(a) + Len(b)
        BY ONLY <4>1, ConcatProperties
      <4> QED
        BY ONLY <4>1, <4>2
    <3>5. (a \o b) \o x \in Seq(Byte) /\ Len((a \o b) \o x) = 4 + l
      BY <3>1, <3>4
    <3>6. Len(((a \o b) \o x) \o z) = 4 * m /\ x \o z \in Seq(Byte) /\ Len(x \o z) = 4 * m - 4
      BY <3>1, <3>5
    <3>7. Holds(d, at, (a \o b) \o x) /\ Holds(d, at + (4 + l), z)
      <4>1. Holds(d, at, ((a \o b) \o x) \o z)
        BY <2>1, <3>2
      <4>2. Holds(d, at, (a \o b) \o x) /\ Holds(d, at + Len((a \o b) \o x), z)
        <5> DEFINE p == (a \o b) \o x
        <5>1. p \in Seq(Byte) /\ z \in Seq(Byte) /\ Holds(d, at, p \o z)
          BY <3>1, <3>5, <4>1
        <5> HIDE DEF p
        <5>2. Holds(d, at, p) /\ Holds(d, at + Len(p), z)
          BY <5>1, HeldParts
        <5> QED
          BY <5>2 DEF p
      <4> QED
        BY <3>5, <4>2
    <3>8. Holds(d, at, a \o b) /\ Holds(d, at + 4, x)
      BY <3>1, <3>4, <3>7, HeldParts
    <3>9. Holds(d, at, a) /\ Holds(d, at + 2, b)
      BY <3>1, <3>8, HeldParts
    <3>10. Holds(d, at + 4, x \o z)
      <4>1. at + 4 \in Nat /\ (at + 4) + Len(x) = at + (4 + l)
        BY <3>1
      <4> QED
        BY <3>1, <3>7, <3>8, <4>1, HeldParts
    <3>11. Bytes(d, at + 2, 2) = b
      <4>1. at + 2 \in Nat /\ b \in Seq(Byte) /\ Len(b) = 2
        BY <3>1
      <4>2. Bytes(d, at + 2, Len(b)) = b
        BY <3>9, <4>1, HeldBytes
      <4> QED
        BY <4>1, <4>2
    <3>12. Bytes(d, at + 4, 4 * m - 4) = x \o z
      <4>1. at + 4 \in Nat /\ x \o z \in Seq(Byte) /\ Len(x \o z) = 4 * m - 4
        BY <3>6
      <4>2. Bytes(d, at + 4, Len(x \o z)) = x \o z
        BY <3>10, <4>1, HeldBytes
      <4> QED
        BY <4>1, <4>2
    <3>13. d[at + 1] = m /\ d[at + 2] = v[1]
      BY <3>1, <3>9 DEF Holds
    <3>14. at + 4 * m <= Len(d)
      BY <2>1, <3>2, <3>6 DEF Holds
    <3>15. readable(d, at)
      BY <3>1, <3>13, <3>14 DEF readable, words, HasBytes
    <3>16. value(d, at) = <<v[1], v[2], x \o z>>
      BY <3>1, <3>11, <3>12, <3>13 DEF value, words
    <3>17. next(d, at) = at + Len(PackField(t, v))
      BY <3>2, <3>6, <3>13 DEF next, words
    <3> QED
      BY <1>0, <3>3, <3>15, <3>16, <3>17
  <2> SUFFICES ASSUME NEW v, NEW d \in Seq(Byte), NEW at \in Nat,
                      ValidField(t, v), FieldErrors(t, v) = {}, Holds(d, at, PackField(t, v))
               PROVE  UnpackField(t, d, at) = Read(FilledField(t, v), at + Len(PackField(t, v)))
    BY DEF FieldReadsBack, Read
  <2>2. good(v) /\ n(v) # 0 /\ ~(TlvWords(n(v) + 3) > 255)
    BY <1>1, <1>2
  <2> QED
    BY <2>1, <2>2
<1>9. ASSUME NEW d \in Seq(Byte), NEW at \in Nat, readable(d, at)
      PROVE  LET w == words(d, at)
                 v == value(d, at)
             IN /\ w \in Nat /\ w >= 2 /\ w <= 255 /\ at + 4 * w <= Len(d)
                /\ d[at + 1] = w /\ d[at + 2] \in Byte
                /\ good(v) /\ n(v) = 4 * w - 4
                /\ v[1] = d[at + 2] /\ v[3] = Bytes(d, at + 4, 4 * w - 4)
                /\ BigEndian(v[2], 2) = Bytes(d, at + 2, 2)
  <2> DEFINE w == words(d, at)
  <2>1. 4 \in Nat /\ 1 \in 1 .. 4 /\ 2 \in 1 .. 4 /\ HasBytes(d, at, 4)
    BY <1>9 DEF readable
  <2>2. d[at + 1] \in Byte /\ d[at + 2] \in Byte
    BY <2>1, ByteAt
  <2>3. w \in Nat /\ w >= 2 /\ w <= 255 /\ HasBytes(d, at, 4 * w)
    <3>1. w \in 0 .. 255
      BY <2>2 DEF words, Byte
    <3>2. w > 1 /\ HasBytes(d, at, 4 * w)
      BY <1>9 DEF readable
    <3> HIDE DEF w
    <3> QED
      BY <3>1, <3>2
  <2>4. d[at + 1] = w
    BY DEF words
  <2> HIDE DEF w
  <2>5. at + 4 * w <= Len(d)
    BY <2>3 DEF HasBytes
  <2>6. HasBytes(d, at + 2, 2) /\ HasBytes(d, at + 4, 4 * w - 4)
        /\ at + 2 \in Nat /\ at + 4 \in Nat /\ 4 * w - 4 \in Nat
    BY <2>3, <2>5 DEF HasBytes
  <2>7. Bytes(d, at + 2, 2) \in Seq(Byte) /\ Len(Bytes(d, at + 2, 2)) = 2
    BY <2>6, TwoBytesOf
  <2>8. Bytes(d, at + 4, 4 * w - 4) \in Seq(Byte) /\ Len(Bytes(d, at + 4, 4 * w - 4)) = 4 * w - 4
    BY <2>6, BytesOf
  <2>9. /\ FromBigEndian(Bytes(d, at + 2, 2)) \in Word
        /\ BigEndian(FromBigEndian(Bytes(d, at + 2, 2)), 2) = Bytes(d, at + 2, 2)
    BY <2>7, TwoBytes
  <2>10. value(d, at) = <<d[at + 2], FromBigEndian(Bytes(d, at + 2, 2)), Bytes(d, at + 4, 4 * w - 4)>>
    BY DEF value, w
  <2> QED
    BY <2>2, <2>3, <2>4, <2>5, <2>8, <2>9, <2>10 DEF w
<1>10. FieldWritesBack(t)
  <2> SUFFICES ASSUME NEW d \in Seq(Byte), NEW at \in Nat, readable(d, at)
               PROVE  /\ ValidField(t, value(d, at)) /\ FieldErrors(t, value(d, at)) = {}
                      /\ PackField(t, value(d, at)) = SubSeq(d, at + 1, next(d, at))
    <3> SUFFICES ASSUME NEW d \in Seq(Byte), NEW at \in Nat,
                        UnpackField(t, d, at).error = "none"
                 PROVE  LET u == UnpackField(t, d, at) IN
                          /\ ValidField(t, u.value) /\ FieldErrors(t, u.value) = {}
                          /\ PackField(t, u.value) = SubSeq(d, at + 1, u.next)
      BY DEF FieldWritesBack
    <3>1. readable(d, at)
      BY <1>0 DEF Unreadable, Raises
    <3>2. UnpackField(t, d, at).value = value(d, at) /\ UnpackField(t, d, at).next = next(d, at)
      BY <1>0, <3>1 DEF Read
    <3> QED
      BY <3>1, <3>2
  <2> DEFINE w == words(d, at)
             v == value(d, at)
             x == Bytes(d, at + 4, 4 * w - 4)
  <2>1. /\ w \in Nat /\ w >= 2 /\ w <= 255 /\ at + 4 * w <= Len(d)
        /\ d[at + 1] = w /\ d[at + 2] \in Byte
        /\ good(v) /\ n(v) = 4 * w - 4
        /\ v[1] = d[at + 2] /\ v[3] = x
        /\ BigEndian(v[2], 2) = Bytes(d, at + 2, 2)
    BY <1>9
  <2>2. next(d, at) = at + 4 * w
    BY DEF next
  <2>3. /\ TlvWords(3 + n(v)) = w /\ TlvWords(n(v) + 3) = w /\ TlvWords(n(v)) = w
        /\ Padding(n(v)) = 0
    <3>1. w \in Nat /\ w >= 1
      BY <2>1
    <3> HIDE DEF w, v, n, good
    <3> QED
      BY <2>1, <3>1, TlvExact
  <2>4. Zeros(Padding(n(v))) = <<>>
    BY <2>3 DEF Zeros
  <2>5. PackField(t, v) = <<d[at + 1], d[at + 2]>> \o Bytes(d, at + 2, 2) \o x \o <<>>
    BY <1>3, <2>1, <2>3, <2>4
  <2>6. ValidField(t, v) /\ FieldErrors(t, v) = {}
    <3>1. n(v) # 0 /\ ~(w > 255)
      BY <2>1
    <3> QED
      BY <1>1, <1>2, <2>1, <2>3, <3>1
  <2> HIDE DEF w, v, n, good
  <2>7. <<d[at + 1], d[at + 2]>> = SubSeq(d, at + 1, at + 2)
    <3>1. at + 2 <= Len(d)
      BY <2>1
    <3>2. /\ Len(SubSeq(d, at + 1, at + 2)) = 2 /\ SubSeq(d, at + 1, at + 2) \in Seq(Byte)
          /\ SubSeq(d, at + 1, at + 2)[1] = d[at + 1] /\ SubSeq(d, at + 1, at + 2)[2] = d[at + 2]
      <4> DEFINE s == SubSeq(d, at + 1, at + 2)
      <4>1. s \in Seq(Byte) /\ Len(s) = 2
        BY <3>1
      <4>2. s[1] = d[at + 1]
        BY <3>1
      <4>3. s[2] = d[at + 2]
        BY <3>1
      <4> QED
        BY <4>1, <4>2, <4>3
    <3> QED
      BY <3>2
  <2>8. Bytes(d, at + 2, 2) = SubSeq(d, (at + 2) + 1, at + 4)
    <3>1. (at + 2) + 2 = at + 4
      OBVIOUS
    <3> QED
      BY <3>1 DEF Bytes
  <2>9. x = SubSeq(d, (at + 4) + 1, at + 4 * w)
    <3>1. (at + 4) + (4 * w - 4) = at + 4 * w
      BY <2>1
    <3> QED
      BY <3>1 DEF Bytes
  <2>10. SubSeq(d, at + 1, at + 2) \o SubSeq(d, (at + 2) + 1, at + 4) = SubSeq(d, at + 1, at + 4)
    <3>1. at + 2 \in Nat /\ at + 4 \in Nat /\ at <= at + 2 /\ at + 2 <= at + 4 /\ at + 4 <= Len(d)
      BY <2>1
    <3> QED
      BY <3>1, SlicesJoin
  <2>11. SubSeq(d, at + 1, at + 4) \o SubSeq(d, (at + 4) + 1, at + 4 * w)
           = SubSeq(d, at + 1, at + 4 * w)
    <3>1. at + 4 \in Nat /\ at + 4 * w \in Nat /\ at <= at + 4 /\ at + 4 <= at + 4 * w
      BY <2>1
    <3> QED
      BY <2>1, <3>1, SlicesJoin
  <2>12. SubSeq(d, at + 1, at + 4 * w) \o <<>> = SubSeq(d, at + 1, at + 4 * w)
    <3>1. SubSeq(d, at + 1, at + 4 * w) \in Seq(Byte)
      BY <2>1
    <3> QED
      BY <3>1, ConcatEmptySeq
  <2>13. PackField(t, v) = SubSeq(d, at + 1, next(d, at))
    BY ONLY <2>2, <2>5, <2>7, <2>8, <2>9, <2>10, <2>11, <2>12
  <2> QED
    BY <2>6, <2>13 DEF v
<1>11. FieldIsLocal(t)
  <2> SUFFICES ASSUME NEW d \in Seq(Byte), NEW e \in Seq(Byte), NEW at \in Nat,
                      readable(d, at), next(d, at) <= Len(e),
                      \A i \in at + 1 .. next(d, at) : e[i] = d[i]
               PROVE  readable(e, at) /\ value(e, at) = value(d, at) /\ next(e, at) = next(d, at)
    <3>1. ASSUME NEW d \in Seq(Byte), NEW at \in Nat, UnpackField(t, d, at).error = "none"
          PROVE  readable(d, at) /\ UnpackField(t, d, at).next = next(d, at)
      BY <1>0, <3>1 DEF Read, Unreadable, Raises
    <3> QED
      BY <1>0, <3>1 DEF FieldIsLocal
  <2> DEFINE w == words(d, at)
  <2>1. w \in Nat /\ w >= 2 /\ at + 4 * w <= Len(d) /\ d[at + 1] = w
    BY <1>9
  <2>2. next(d, at) = at + 4 * w
    BY DEF next
  <2> HIDE DEF w
  <2>3. \A i \in 1 .. 4 * w : e[at + i] = d[at + i]
    <3> TAKE i \in 1 .. 4 * w
    <3>1. at + i \in at + 1 .. at + 4 * w
      BY <2>1
    <3> QED
      BY <2>2, <3>1
  <2>4. e[at + 1] = w /\ e[at + 2] = d[at + 2]
    BY <2>1, <2>3
  <2>5. at + 4 * w <= Len(e)
    BY <2>2
  <2>6. readable(e, at)
    BY <2>1, <2>4, <2>5 DEF readable, words, HasBytes
  <2>7. Bytes(e, at + 2, 2) = Bytes(d, at + 2, 2)
    <3>1. HasBytes(d, at + 2, 2) /\ HasBytes(e, at + 2, 2) /\ at + 2 \in Nat
      BY <2>1, <2>5 DEF HasBytes
    <3>2. ASSUME NEW i \in (at + 2) + 1 .. (at + 2) + 2 PROVE e[i] = d[i]
      <4>1. i \in at + 1 .. at + 4 * w
        BY <2>1
      <4> QED
        BY <2>2, <4>1
    <3> QED
      BY <3>1, <3>2, SameBytes
  <2>8. Bytes(e, at + 4, 4 * w - 4) = Bytes(d, at + 4, 4 * w - 4)
    <3>1. /\ HasBytes(d, at + 4, 4 * w - 4) /\ HasBytes(e, at + 4, 4 * w - 4)
          /\ at + 4 \in Nat /\ 4 * w - 4 \in Nat
      BY <2>1, <2>5 DEF HasBytes
    <3>2. ASSUME NEW i \in (at + 4) + 1 .. (at + 4) + (4 * w - 4) PROVE e[i] = d[i]
      <4>1. i \in at + 1 .. at + 4 * w
        BY <2>1
      <4> QED
        BY <2>2, <4>1
    <3> QED
      BY <3>1, <3>2, SameBytes
  <2>9. words(e, at) = w /\ words(d, at) = w
    BY <2>4 DEF words, w
  <2> QED
    BY <2>4, <2>6, <2>7, <2>8, <2>9 DEF value, next
<1> QED
  BY <1>6, <1>7, <1>8, <1>10, <1>11 DEF FieldCorrect

UpTo(S, i) == {j \in S : j <= i}

\* The members of a set of positions that are not behind a position.
LEMMA UpToIsFinite ==
  ASSUME NEW N \in Nat, NEW S \in SUBSET (1 .. N), NEW i \in Nat
  PROVE  /\ IsFiniteSet(UpTo(S, i)) /\ IsFiniteSet(S)
         /\ Cardinality(UpTo(S, i)) \in Nat /\ Cardinality(S) \in Nat
         /\ Cardinality(UpTo(S, i)) <= Cardinality(S)
<1>1. IsFiniteSet(1 .. N)
  BY FS_Interval
<1>2. IsFiniteSet(S)
  BY <1>1, FS_Subset
<1>3. UpTo(S, i) \in SUBSET S
  BY DEF UpTo
<1>4. IsFiniteSet(UpTo(S, i)) /\ Cardinality(UpTo(S, i)) <= Cardinality(S)
  BY <1>2, <1>3, FS_Subset
<1> QED
  BY <1>2, <1>4, FS_CardinalityType

\* Every number is the rank of a member.
LEMMA RankExists ==
  ASSUME NEW N \in Nat, NEW S \in SUBSET (1 .. N), NEW k \in 1 .. Cardinality(S)
  PROVE  \E i \in S : Cardinality(UpTo(S, i)) = k
<1> DEFINE T == {i \in Nat : Cardinality(UpTo(S, i)) >= k}
           R == OpToRel(<, Nat)
<1>s. \A j \in S : j \in Nat /\ j >= 1 /\ j <= N
  OBVIOUS
<1>0. k \in Nat /\ k >= 1 /\ k <= Cardinality(S) /\ Cardinality(S) \in Nat
  <2>1. Cardinality(S) \in Nat
    BY UpToIsFinite
  <2> QED
    BY <2>1
<1>1. N \in T
  <2>1. UpTo(S, N) = S
    BY <1>s DEF UpTo
  <2> QED
    BY <1>0, <2>1
<1>2. PICK x \in T : \A y \in T : ~(<<y, x>> \in R)
  <2>1. IsWellFoundedOn(R, Nat)
    BY NatLessThanWellFounded
  <2>2. T \subseteq Nat /\ T # {}
    BY <1>1
  <2> HIDE DEF R, T
  <2> QED
    BY <2>1, <2>2, WFMin
<1>3. x \in Nat /\ Cardinality(UpTo(S, x)) >= k
  OBVIOUS
<1>4. x # 0
  <2>1. UpTo(S, 0) = {}
    <3>1. \A j \in S : ~(j <= 0)
      BY <1>s
    <3> QED
      BY <3>1 DEF UpTo
  <2>2. Cardinality(UpTo(S, 0)) = 0
    BY <2>1, FS_EmptySet
  <2> QED
    BY <1>0, <1>3, <2>2
<1>5. x - 1 \in Nat /\ ~(Cardinality(UpTo(S, x - 1)) >= k)
  <2>1. x - 1 \in Nat /\ <<x - 1, x>> \in R
    BY <1>3, <1>4 DEF OpToRel
  <2>2. x - 1 \notin T
    BY <1>2, <2>1
  <2> QED
    BY <2>1, <2>2
<1> DEFINE c == Cardinality(UpTo(S, x - 1))
<1>6. IsFiniteSet(UpTo(S, x - 1)) /\ c \in Nat
  BY <1>5, UpToIsFinite
<1>7. x \in S
  <2> SUFFICES ASSUME x \notin S PROVE FALSE
    OBVIOUS
  <2>1. \A j \in S : j <= x <=> j <= x - 1
    BY <1>s, <1>3
  <2>2. UpTo(S, x) = UpTo(S, x - 1)
    BY <2>1 DEF UpTo
  <2> QED
    BY <1>3, <1>5, <2>2
<1>8. UpTo(S, x) = UpTo(S, x - 1) \cup {x} /\ x \notin UpTo(S, x - 1)
  <2>1. \A j \in S : j <= x <=> j <= x - 1 \/ j = x
    BY <1>s, <1>3
  <2>2. x <= x /\ ~(x <= x - 1)
    BY <1>3
  <2> QED
    BY <1>7, <2>1, <2>2 DEF UpTo
<1>9. Cardinality(UpTo(S, x)) = c + 1
  BY <1>6, <1>8, FS_AddElement
<1> QED
  BY <1>0, <1>3, <1>5, <1>6, <1>7, <1>9

\* Two positions of a set do not have the same rank in it.
LEMMA RankIsUnique ==
  ASSUME NEW N \in Nat, NEW S \in SUBSET (1 .. N), NEW i \in S, NEW j \in S,
         Cardinality(UpTo(S, i)) = Cardinality(UpTo(S, j))
  PROVE  i = j
<1>1. ASSUME NEW a \in S, NEW b \in S, a < b,
             Cardinality(UpTo(S, a)) = Cardinality(UpTo(S, b))
      PROVE  FALSE
  <2>1. a \in Nat /\ b \in Nat
    OBVIOUS
  <2>2. UpTo(S, a) \in SUBSET UpTo(S, b) /\ b \in UpTo(S, b) /\ b \notin UpTo(S, a)
    <3>1. \A x \in S : x \in Nat
      OBVIOUS
    <3>2. \A x \in S : x <= a => x <= b
      BY <1>1, <2>1, <3>1
    <3>3. b <= b /\ ~(b <= a)
      BY <1>1, <2>1
    <3> QED
      BY <3>2, <3>3 DEF UpTo
  <2>3. IsFiniteSet(UpTo(S, b))
    BY <2>1, UpToIsFinite
  <2>4. UpTo(S, b) = UpTo(S, a)
    BY <1>1, <2>2, <2>3, FS_Subset
  <2> QED
    BY <2>2, <2>4
<1>2. i < j \/ j < i \/ i = j
  OBVIOUS
<1> QED
  BY <1>1, <1>2

\* The ranks in a set are 1 up to its size.
LEMMA RankBounds ==
  ASSUME NEW N \in Nat, NEW S \in SUBSET (1 .. N), NEW i \in S
  PROVE  Cardinality(UpTo(S, i)) \in 1 .. Cardinality(S)
<1>1. i \in Nat
  OBVIOUS
<1>2. /\ IsFiniteSet(UpTo(S, i)) /\ Cardinality(UpTo(S, i)) \in Nat /\ Cardinality(S) \in Nat
      /\ Cardinality(UpTo(S, i)) <= Cardinality(S)
  BY <1>1, UpToIsFinite
<1>3. UpTo(S, i) # {}
  BY <1>1 DEF UpTo
<1>4. Cardinality(UpTo(S, i)) # 0
  BY <1>2, <1>3, FS_EmptySet
<1> QED
  BY <1>2, <1>4

-----------------------------------------------------------------------------
(* Characters *)

\* The k-th character begins where the k-th start is, and every start is one.
LEMMA StartOf ==
  ASSUME NEW b \in Seq(Byte)
  PROVE  /\ Cardinality(Starts(b)) \in Nat
         /\ Starts(b) \subseteq 1 .. Len(b)
         /\ \A k \in 1 .. Cardinality(Starts(b)) : Start(b, k) \in Starts(b)
         /\ \A i \in Starts(b) : /\ Rank(b, i) \in 1 .. Cardinality(Starts(b))
                                 /\ Start(b, Rank(b, i)) = i
<1> DEFINE S == Starts(b)
           N == Len(b)
<1>1. N \in Nat /\ S \in SUBSET (1 .. N)
  BY DEF Starts
<1>2. \A i : Rank(b, i) = Cardinality(UpTo(S, i))
  BY DEF Rank, UpTo
<1>3. \A k : Start(b, k) = CHOOSE i \in S : Rank(b, i) = k
  BY DEF Start
<1> HIDE DEF S, N
<1>4. Cardinality(S) \in Nat
  <2>1. 0 \in Nat
    OBVIOUS
  <2> QED
    BY ONLY <1>1, <2>1, UpToIsFinite
<1>5. ASSUME NEW k \in 1 .. Cardinality(S) PROVE Start(b, k) \in S
  <2>1. \E i \in S : Rank(b, i) = k
    BY <1>1, <1>2, RankExists
  <2> QED
    BY <1>3, <2>1
<1>6. ASSUME NEW i \in S PROVE Rank(b, i) \in 1 .. Cardinality(S) /\ Start(b, Rank(b, i)) = i
  <2>1. Rank(b, i) \in 1 .. Cardinality(S)
    BY <1>1, <1>2, RankBounds
  <2>2. \A j \in S : Rank(b, j) = Rank(b, i) => j = i
    BY <1>1, <1>2, RankIsUnique
  <2>3. Start(b, Rank(b, i)) = i
    BY <1>3, <2>2
  <2> QED
    BY <2>1, <2>3
<1> QED
  BY <1>1, <1>4, <1>5, <1>6 DEF S, N

\* The characters of a text, by their ranks.
LEMMA CharacterAt ==
  ASSUME NEW b \in Seq(Byte)
  PROVE  /\ \A k \in 1 .. Cardinality(Starts(b)) : Characters(b)[k] = Character(b, Start(b, k))
         /\ DOMAIN Characters(b) = 1 .. Cardinality(Starts(b))
  BY DEF Characters

\* Bytes, those that continue a character, and how many belong to one.
LEMMA ByteValues ==
  /\ \A x \in Byte : x \in Int /\ 0 <= x /\ x < 256
  /\ \A x \in Continuations : x \in Int /\ 128 <= x /\ x < 192
  BY DEF Byte, Continuations

LEMMA WidthValues ==
  ASSUME NEW x \in Byte
  PROVE  /\ x < 128 => Width(x) = 1
         /\ ~(x < 128) => Width(x) \in {2, 3, 4}
<1>1. x \in Int /\ 0 <= x /\ x < 256
  BY ByteValues
<1>2. CASE x < 128
  BY <1>1, <1>2 DEF Width
<1>3. CASE x \in 128 .. 223
  BY <1>1, <1>3 DEF Width
<1>4. CASE x \in 224 .. 239
  BY <1>1, <1>4 DEF Width
<1>5. CASE x > 239
  BY <1>1, <1>5 DEF Width
<1> QED
  BY <1>1, <1>2, <1>3, <1>4, <1>5

\* What the number of bytes says of a character.
LEMMA WideIsLarge2 == ASSUME NEW c \in Int, Takes(c, 2) PROVE ~(c < 128)
  BY DEF Takes

LEMMA WideIsLarge3 == ASSUME NEW c \in Int, Takes(c, 3) PROVE ~(c < 128)
  BY DEF Takes

LEMMA WideIsLarge4 == ASSUME NEW c \in Int, Takes(c, 4) PROVE ~(c < 128)
  BY DEF Takes

LEMMA AsciiTakesOne == ASSUME NEW c \in Int, c < 128 PROVE Takes(c, 1)
  BY DEF Takes

\* In a text that can be decoded, a first byte of 128 or more begins a character
\* of 128 or more.
LEMMA StartsOfText ==
  ASSUME NEW b \in Seq(Byte), Decodable(b), NEW i \in Starts(b), b[i] >= 128
  PROVE  ~(Character(b, i) \in Int /\ Character(b, i) < 128)
<1>1. b[i] \in Byte /\ b[i] \in Int /\ ~(b[i] < 128)
  BY ByteValues DEF Starts
<1> DEFINE w == Width(b[i])
           c == Character(b, i)
<1>2. w \in {2, 3, 4}
  BY <1>1, WidthValues
<1>3. Takes(c, w)
  BY DEF Decodable
<1> HIDE DEF w, c
<1>4. ASSUME c \in Int, c < 128 PROVE FALSE
  <2>1. c \in Int /\ c < 128
    BY <1>4
  <2>2. Takes(c, 2) \/ Takes(c, 3) \/ Takes(c, 4)
    BY <1>2, <1>3
  <2> QED
    BY <2>1, <2>2, WideIsLarge2, WideIsLarge3, WideIsLarge4
<1> QED
  BY <1>4 DEF c

\* A NUL in a text is a byte of zero.
LEMMA NulIsAByte ==
  ASSUME NEW b \in Seq(Byte), Decodable(b), 0 \in ToSet(Characters(b))
  PROVE  \E i \in 1 .. Len(b) : b[i] = 0
<1>1. PICK k \in 1 .. Cardinality(Starts(b)) : Characters(b)[k] = 0
  BY CharacterAt DEF ToSet
<1> DEFINE i == Start(b, k)
<1>2. i \in Starts(b) /\ Character(b, i) = 0
  BY <1>1, CharacterAt, StartOf
<1>3. i \in 1 .. Len(b) /\ b[i] \in Byte /\ b[i] \in Int
  BY <1>2, ByteValues DEF Starts
<1>4. b[i] < 128
  <2> HIDE DEF i
  <2> SUFFICES ASSUME ~(b[i] < 128) PROVE FALSE
    OBVIOUS
  <2>1. b[i] >= 128
    BY <1>3
  <2>2. ~(Character(b, i) \in Int /\ Character(b, i) < 128)
    BY <1>2, <2>1, StartsOfText
  <2>3. 0 \in Int /\ 0 < 128
    OBVIOUS
  <2> QED
    BY ONLY <1>2, <2>2, <2>3
<1>5. Character(b, i) = b[i]
  BY <1>3, <1>4, WidthValues DEF Character
<1> QED
  BY <1>2, <1>3, <1>5

Ascii(b) == \A i \in 1 .. Len(b) : b[i] < 128

\* A text in ASCII is its bytes.
LEMMA AsciiIsText ==
  ASSUME NEW b \in Seq(Byte), Ascii(b)
  PROVE  Decodable(b) /\ Characters(b) = b
<1>0. \A i \in 1 .. Len(b) : /\ b[i] \in Byte /\ b[i] \in Int /\ b[i] < 128
                              /\ b[i] \notin Continuations
                              /\ Width(b[i]) = 1 /\ Character(b, i) = b[i]
  <2> SUFFICES ASSUME NEW i \in 1 .. Len(b)
               PROVE  /\ b[i] \in Byte /\ b[i] \in Int /\ b[i] < 128
                      /\ b[i] \notin Continuations
                      /\ Width(b[i]) = 1 /\ Character(b, i) = b[i]
    OBVIOUS
  <2>1. b[i] \in Byte /\ b[i] < 128 /\ b[i] \in Int /\ 0 <= b[i]
    BY ByteValues DEF Ascii
  <2>2. Width(b[i]) = 1
    BY <2>1, WidthValues
  <2>3. b[i] \notin Continuations
    BY <2>1, ByteValues
  <2>4. Character(b, i) = b[i]
    BY <2>1, <2>2 DEF Character
  <2> QED
    BY ONLY <2>1, <2>2, <2>3, <2>4
<1>2. Starts(b) = 1 .. Len(b) /\ DOMAIN b = 1 .. Len(b)
  BY <1>0 DEF Starts
<1>1. Decodable(b)
  <2>1. ASSUME NEW i \in Starts(b)
        PROVE  /\ i + Width(b[i]) - 1 <= Len(b)
               /\ \A j \in i + 1 .. i + Width(b[i]) - 1 : b[j] \in Continuations
               /\ Takes(Character(b, i), Width(b[i]))
    <3>0. i \in 1 .. Len(b)
      BY <1>2
    <3>1. /\ Width(b[i]) = 1 /\ i \in 1 .. Len(b)
          /\ Character(b, i) \in Int /\ Character(b, i) < 128
      BY ONLY <1>0, <3>0
    <3>2. Takes(Character(b, i), Width(b[i]))
      <4>1. Takes(Character(b, i), 1)
        BY ONLY <3>1, AsciiTakesOne
      <4> QED
        BY ONLY <3>1, <4>1
    <3>3. i + Width(b[i]) - 1 = i /\ i <= Len(b) /\ i \in Int
      BY <3>1
    <3>4. i + 1 .. i + Width(b[i]) - 1 = {}
      BY <3>3
    <3> QED
      BY <3>2, <3>3, <3>4
  <2>2. DOMAIN b \ Starts(b) = {}
    BY <1>2
  <2> QED
    BY <2>1, <2>2 DEF Decodable
<1>3. Cardinality(Starts(b)) = Len(b)
  <2>1. Len(b) \in Nat /\ Len(b) \in Int /\ 1 \in Int
    OBVIOUS
  <2>2. Cardinality(1 .. Len(b)) = IF 1 > Len(b) THEN 0 ELSE Len(b) - 1 + 1
    BY <2>1, FS_Interval
  <2> QED
    BY <1>2, <2>1, <2>2
<1>4. ASSUME NEW k \in 1 .. Len(b) PROVE Characters(b)[k] = b[k]
  <2>1. Rank(b, k) = k
    <3>1. {j \in Starts(b) : j <= k} = 1 .. k
      BY <1>2
    <3>2. k \in Int /\ 1 \in Int /\ ~(1 > k)
      OBVIOUS
    <3>3. Cardinality(1 .. k) = IF 1 > k THEN 0 ELSE k - 1 + 1
      BY <3>2, FS_Interval
    <3>4. k - 1 + 1 = k
      OBVIOUS
    <3>5. Rank(b, k) = Cardinality(1 .. k)
      BY <3>1 DEF Rank
    <3> QED
      BY ONLY <3>2, <3>3, <3>4, <3>5
  <2>2. Start(b, k) = k
    BY <1>2, <2>1, StartOf
  <2>3. Character(b, k) = b[k]
    BY <1>0
  <2> QED
    BY <1>3, <2>2, <2>3, CharacterAt
<1>5. Characters(b) = [k \in 1 .. Len(b) |-> b[k]]
  <2>1. Characters(b) = [k \in 1 .. Cardinality(Starts(b)) |-> Characters(b)[k]]
    BY DEF Characters
  <2> QED
    BY <1>3, <1>4, <2>1
<1>6. b = [k \in 1 .. Len(b) |-> b[k]]
  OBVIOUS
<1> QED
  BY <1>1, <1>5, <1>6

\* Only a text in ASCII is read as one.
LEMMA TextIsAscii ==
  ASSUME NEW b \in Seq(Byte), Decodable(b),
         \A k \in DOMAIN Characters(b) : Characters(b)[k] \in 1 .. 127
  PROVE  Ascii(b)
<1>1. ASSUME NEW i \in Starts(b), b[i] >= 128 PROVE FALSE
  <2>1. Rank(b, i) \in 1 .. Cardinality(Starts(b)) /\ Start(b, Rank(b, i)) = i
    BY StartOf
  <2>2. Characters(b)[Rank(b, i)] = Character(b, i)
    BY <2>1, CharacterAt
  <2>3. Character(b, i) \in 1 .. 127
    BY <2>1, <2>2, CharacterAt
  <2>4. ~(Character(b, i) \in Int /\ Character(b, i) < 128)
    BY <1>1, StartsOfText
  <2>5. \A c \in 1 .. 127 : c \in Int /\ c < 128
    OBVIOUS
  <2> QED
    BY ONLY <2>3, <2>4, <2>5
<1> SUFFICES ASSUME NEW i \in 1 .. Len(b), ~(b[i] < 128) PROVE FALSE
  BY DEF Ascii
<1>2. b[i] \in Int /\ b[i] >= 128
  BY ByteValues
<1>3. i \in DOMAIN b \ Starts(b)
  BY <1>1, <1>2
<1>4. PICK j \in Starts(b) : j < i /\ i < j + Width(b[j])
  BY <1>3 DEF Decodable
<1>5. b[j] \in Byte /\ b[j] \in Int /\ j \in Nat
  BY ByteValues DEF Starts
<1>6. b[j] >= 128
  <2> SUFFICES ASSUME b[j] < 128 PROVE FALSE
    BY <1>5
  <2>1. Width(b[j]) = 1
    BY <1>5, WidthValues
  <2> QED
    BY <1>4, <1>5, <2>1
<1> QED
  BY <1>1, <1>6

\* The bytes that are read as a string: as many as announced, or what is there.
TextAt(d, at, n) ==
  IF HasBytes(d, at + 2, n) THEN Bytes(d, at + 2, n) ELSE Bytes(d, at + 2, Len(d) - at - 2)

\* The text of a string field consists of bytes of the datagram behind its length.
LEMMA TextIsBytes ==
  ASSUME NEW d \in Seq(Byte), NEW at \in Nat, HasBytes(d, at, 2), NEW n \in Nat
  PROVE  /\ TextAt(d, at, n) \in Seq(Byte)
         /\ \A i \in 1 .. Len(TextAt(d, at, n)) :
              /\ (at + 2) + i \in at + 1 .. Len(d)
              /\ TextAt(d, at, n)[i] = d[(at + 2) + i]
<1>1. at + 2 \in Nat /\ Len(d) \in Nat /\ at + 2 <= Len(d)
  BY DEF HasBytes
<1>2. PICK m \in Nat : TextAt(d, at, n) = Bytes(d, at + 2, m) /\ HasBytes(d, at + 2, m)
  <2>1. CASE HasBytes(d, at + 2, n)
    BY <2>1 DEF TextAt
  <2>2. CASE ~HasBytes(d, at + 2, n)
    <3>1. Len(d) - at - 2 \in Nat /\ HasBytes(d, at + 2, Len(d) - at - 2)
      BY <1>1 DEF HasBytes
    <3> QED
      BY <2>2, <3>1 DEF TextAt
  <2> QED
    BY <2>1, <2>2
<1>3. /\ Bytes(d, at + 2, m) \in Seq(Byte) /\ Len(Bytes(d, at + 2, m)) = m
      /\ \A i \in 1 .. m : Bytes(d, at + 2, m)[i] = d[(at + 2) + i]
  BY <1>1, <1>2, BytesOf
<1>4. (at + 2) + m <= Len(d)
  BY <1>2 DEF HasBytes
<1> QED
  BY <1>1, <1>2, <1>3, <1>4

NulByte(d, at) == \E i \in at + 1 .. Len(d) : d[i] = 0

\* What reading a string field gives.
LEMMA StringIsRead ==
  ASSUME NEW d \in Seq(Byte), NEW at \in Nat, HasBytes(d, at, 2)
  PROVE  LET n == FromBigEndian(Bytes(d, at, 2))
             b == TextAt(d, at, n)
             u == UnpackString(d, at)
         IN /\ n \in Word /\ n \in Nat
            /\ BigEndian(n, 2) = Bytes(d, at, 2)
            /\ b \in Seq(Byte)
            /\ ~Decodable(b) => u = Unreadable
            /\ Decodable(b) /\ 0 \in ToSet(Characters(b)) =>
                 u = Raises("SerializeError") /\ NulByte(d, at)
            /\ Decodable(b) /\ 0 \notin ToSet(Characters(b)) =>
                 u = Read(Characters(b), (at + 2) + n)
<1> DEFINE n == FromBigEndian(Bytes(d, at, 2))
           b == TextAt(d, at, n)
           u == UnpackString(d, at)
<1>1. Bytes(d, at, 2) \in Seq(Byte) /\ Len(Bytes(d, at, 2)) = 2
  BY TwoBytesOf
<1>2. n \in Word /\ BigEndian(n, 2) = Bytes(d, at, 2)
  BY <1>1, TwoBytes
<1>3. n \in Nat
  BY <1>2, Words
<1>4. /\ b \in Seq(Byte)
      /\ \A i \in 1 .. Len(b) : (at + 2) + i \in at + 1 .. Len(d) /\ b[i] = d[(at + 2) + i]
  BY <1>3, TextIsBytes
<1>5. u = CASE ~Decodable(b) -> Unreadable
            [] Decodable(b) /\ 0 \in ToSet(Characters(b)) -> Raises("SerializeError")
            [] OTHER -> Read(Characters(b), at + 2 + n)
  BY DEF UnpackString, TextAt
<1> HIDE DEF u, b, n
<1>6. ~Decodable(b) => u = Unreadable
  BY <1>5
<1>7. ASSUME Decodable(b), 0 \in ToSet(Characters(b))
      PROVE  u = Raises("SerializeError") /\ NulByte(d, at)
  <2>1. u = Raises("SerializeError")
    BY <1>5, <1>7
  <2>2. PICK i \in 1 .. Len(b) : b[i] = 0
    BY <1>4, <1>7, NulIsAByte
  <2> QED
    BY <1>4, <2>1, <2>2 DEF NulByte
<1>8. ASSUME Decodable(b), 0 \notin ToSet(Characters(b))
      PROVE  u = Read(Characters(b), (at + 2) + n)
  BY <1>5, <1>8
<1> QED
  BY <1>2, <1>3, <1>4, <1>6, <1>7, <1>8 DEF u, b, n

\* A string field without a length is not read.
LEMMA StringNotRead ==
  ASSUME NEW d, NEW at, ~HasBytes(d, at, 2)
  PROVE  UnpackString(d, at) = Unreadable
  BY DEF UnpackString

\* An accepted string that latin-1 can write.
StringBytes(v) == v \in Seq(Byte) /\ Len(v) \in Word /\ 0 \notin ToSet(v)

\* Strings: those of ASCII characters are read as they were written.
LEMMA StringIsCorrect ==
  ASSUME NEW t, t.kind = "string"
  PROVE  FieldCorrect(t)
<1>0. /\ \A v : FilledField(t, v) = v
      /\ \A v : PackField(t, v) = BigEndian(Len(v), 2) \o v
      /\ \A d, at : UnpackField(t, d, at) = UnpackString(d, at)
      /\ HoldsTextField(t)
      /\ \A v : PlainField(t, v) <=> \A i \in DOMAIN v : v[i] \in 1 .. 127
  BY DEF FilledField, PackField, UnpackField, HoldsTextField, PlainField
<1>1. \A v : ValidField(t, v) /\ FieldErrors(t, v) = {} => StringBytes(v)
  <2> SUFFICES ASSUME NEW v, ValidField(t, v), FieldErrors(t, v) = {} PROVE StringBytes(v)
    OBVIOUS
  <2>1. v \in Seq(Nat) /\ Len(v) <= Largest /\ 0 \notin ToSet(v)
    BY DEF ValidField
  <2>2. \A i \in DOMAIN v : ~(v[i] > 255)
    BY DEF FieldErrors
  <2>3. \A i \in DOMAIN v : v[i] \in Byte
    <3> TAKE i \in DOMAIN v
    <3> DEFINE x == v[i]
    <3>1. x \in Nat /\ ~(x > 255)
      BY <2>1, <2>2
    <3> HIDE DEF x
    <3>2. x \in Byte
      BY <3>1 DEF Byte
    <3> QED
      BY <3>2 DEF x
  <2>4. v \in Seq(Byte)
    BY <2>1, <2>3
  <2>5. Len(v) \in Word
    <3>1. Len(v) \in Nat
      BY <2>1
    <3>2. Largest \in Int
      BY DEF Largest
    <3> QED
      BY <2>1, <3>1, <3>2 DEF Word
  <2> QED
    BY <2>1, <2>4, <2>5 DEF StringBytes
<1>2. \A v : StringBytes(v) => ValidField(t, v) /\ FieldErrors(t, v) = {}
  <2> SUFFICES ASSUME NEW v, StringBytes(v) PROVE ValidField(t, v) /\ FieldErrors(t, v) = {}
    OBVIOUS
  <2>1. v \in Seq(Nat) /\ \A i \in DOMAIN v : ~(v[i] > 255)
    <3>1. v \in Seq(Byte) /\ Byte \subseteq Nat
      BY DEF StringBytes, Byte
    <3>2. \A x \in Byte : ~(x > 255)
      BY DEF Byte
    <3>4. \A i \in DOMAIN v : v[i] \in Byte
      BY <3>1
    <3>3. v \in Seq(Nat)
      <4>1. \A i \in 1 .. Len(v) : v[i] \in Nat
        <5> TAKE i \in 1 .. Len(v)
        <5>1. v[i] \in Byte
          BY <3>1
        <5> QED
          BY ONLY <3>1, <5>1
      <4>2. v \in [1 .. Len(v) -> Nat] /\ Len(v) \in Nat
        BY <3>1, <4>1
      <4> QED
        BY <4>2
    <3> QED
      BY <3>2, <3>3, <3>4
  <2>2. Len(v) <= Largest
    <3>1. Largest \in Int
      BY DEF Largest
    <3> QED
      BY <3>1 DEF StringBytes, Word
  <2>3. ValidField(t, v)
    BY <2>1, <2>2 DEF ValidField, StringBytes
  <2>4. FieldErrors(t, v) = {}
    BY <2>1 DEF FieldErrors
  <2> QED
    BY <2>3, <2>4
<1>3. \A v : StringBytes(v) => /\ BigEndian(Len(v), 2) \in Seq(Byte) /\ Len(BigEndian(Len(v), 2)) = 2
                               /\ FromBigEndian(BigEndian(Len(v), 2)) = Len(v)
  BY TwoBytes DEF StringBytes
<1>4. FieldWrites(t)
  <2> SUFFICES ASSUME NEW v, StringBytes(v) PROVE BigEndian(Len(v), 2) \o v \in Seq(Byte)
    BY <1>0, <1>1 DEF FieldWrites
  <2>1. BigEndian(Len(v), 2) \in Seq(Byte) /\ v \in Seq(Byte)
    BY <1>3 DEF StringBytes
  <2> QED
    BY <2>1, ConcatProperties
<1>5. FieldReads(t)
  <2> SUFFICES ASSUME NEW d \in Seq(Byte), NEW at \in Nat
               PROVE  LET u == UnpackString(d, at) IN
                        /\ u.error \in {"none", "DeserializeError", "SerializeError"}
                        /\ u.error = "none" => u.next \in Nat /\ at <= u.next
                        /\ u.error = "SerializeError" => NulByte(d, at)
    BY <1>0 DEF FieldReads, NulByte
  <2> DEFINE n == FromBigEndian(Bytes(d, at, 2))
             u == UnpackString(d, at)
  <2>1. \/ u = Unreadable
        \/ u = Raises("SerializeError") /\ NulByte(d, at)
        \/ \E v : n \in Nat /\ u = Read(v, (at + 2) + n)
    BY StringIsRead, StringNotRead
  <2> HIDE DEF u, n
  <2>2. CASE u = Unreadable
    BY <2>2 DEF u, Unreadable, Raises
  <2>3. CASE u = Raises("SerializeError") /\ NulByte(d, at)
    BY <2>3 DEF u, Raises
  <2>4. CASE \E v : n \in Nat /\ u = Read(v, (at + 2) + n)
    <3>1. u.error = "none" /\ n \in Nat /\ u.next = (at + 2) + n
      BY <2>4 DEF Read
    <3> QED
      BY <3>1 DEF u
  <2> QED
    BY <2>1, <2>2, <2>3, <2>4
<1>6. FieldReadsBack(t)
  <2> SUFFICES ASSUME NEW v, NEW d \in Seq(Byte), NEW at \in Nat,
                      ValidField(t, v), FieldErrors(t, v) = {}, Holds(d, at, PackField(t, v))
               PROVE  LET u == UnpackField(t, d, at)
                          next == at + Len(PackField(t, v))
                      IN /\ u.error = "none" => u.next = next
                         /\ PlainField(t, v) => u = Read(FilledField(t, v), next)
    BY DEF FieldReadsBack
  <2>0. StringBytes(v)
    BY <1>1
  <2> DEFINE l == BigEndian(Len(v), 2)
             u == UnpackField(t, d, at)
  <2>1. /\ l \in Seq(Byte) /\ Len(l) = 2 /\ FromBigEndian(l) = Len(v)
        /\ v \in Seq(Byte) /\ Len(v) \in Nat /\ Len(v) \in Word /\ 0 \notin ToSet(v)
    BY <1>3, <2>0 DEF StringBytes
  <2> HIDE DEF l
  <2>2. Len(l \o v) = 2 + Len(v)
    <3>1. Len(l \o v) = Len(l) + Len(v)
      BY <2>1, ConcatProperties
    <3> QED
      BY <2>1, <3>1
  <2>3. Holds(d, at, l) /\ Holds(d, at + 2, v)
    <3>1. Holds(d, at, l \o v)
      BY <1>0 DEF l
    <3> QED
      BY <2>1, <3>1, HeldParts
  <2>4. HasBytes(d, at, 2) /\ Bytes(d, at, 2) = l
    BY <2>1, <2>3, HeldBytes
  <2>5. HasBytes(d, at + 2, Len(v)) /\ Bytes(d, at + 2, Len(v)) = v
    <3>1. at + 2 \in Nat
      OBVIOUS
    <3> QED
      BY <2>1, <2>3, <3>1, HeldBytes
  <2>6. TextAt(d, at, Len(v)) = v
    BY <2>5 DEF TextAt
  <2> DEFINE n == FromBigEndian(Bytes(d, at, 2))
  <2>7. n = Len(v)
    BY <2>1, <2>4
  <2> DEFINE b == TextAt(d, at, n)
  <2>8. /\ ~Decodable(b) => u = Unreadable
        /\ Decodable(b) /\ 0 \in ToSet(Characters(b)) => u = Raises("SerializeError")
        /\ Decodable(b) /\ 0 \notin ToSet(Characters(b)) => u = Read(Characters(b), (at + 2) + n)
    BY <1>0, <2>4, StringIsRead
  <2>9. b = v
    BY <2>6, <2>7
  <2> HIDE DEF b, n, u
  <2>10. (at + 2) + n = at + Len(l \o v)
    BY <2>1, <2>2, <2>7
  <2>11. u.error = "none" => u.next = at + Len(l \o v)
    BY <2>8, <2>10 DEF Read, Unreadable, Raises
  <2>12. PlainField(t, v) => u = Read(v, at + Len(l \o v))
    <3> SUFFICES ASSUME PlainField(t, v) PROVE u = Read(v, at + Len(l \o v))
      OBVIOUS
    <3>0. DOMAIN v = 1 .. Len(v)
      BY <2>1
    <3>1. DOMAIN v = 1 .. Len(v) /\ \A i \in DOMAIN v : v[i] \in 1 .. 127
      BY ONLY <1>0, <3>0, PlainField(t, v)
    <3>2. \A x \in 1 .. 127 : x < 128
      OBVIOUS
    <3>3. Ascii(v)
      BY ONLY <3>1, <3>2 DEF Ascii
    <3>4. Decodable(v) /\ Characters(v) = v
      BY <2>1, <3>3, AsciiIsText
    <3> QED
      BY <2>1, <2>8, <2>9, <2>10, <3>4
  <2>13. PackField(t, v) = l \o v /\ FilledField(t, v) = v
    BY <1>0 DEF l
  <2> QED
    BY <2>11, <2>12, <2>13 DEF u
\* What is read as a string of ASCII characters.
<1>7. ASSUME NEW d \in Seq(Byte), NEW at \in Nat, UnpackString(d, at).error = "none"
      PROVE  LET n == FromBigEndian(Bytes(d, at, 2))
                 u == UnpackString(d, at)
             IN /\ HasBytes(d, at, 2) /\ n \in Word /\ n \in Nat
                /\ BigEndian(n, 2) = Bytes(d, at, 2)
                /\ TextAt(d, at, n) \in Seq(Byte) /\ Decodable(TextAt(d, at, n))
                /\ 0 \notin ToSet(Characters(TextAt(d, at, n)))
                /\ u = Read(Characters(TextAt(d, at, n)), (at + 2) + n)
                /\ u.value = Characters(TextAt(d, at, n)) /\ u.next = (at + 2) + n
  <2> DEFINE n == FromBigEndian(Bytes(d, at, 2))
             u == UnpackString(d, at)
             b == TextAt(d, at, n)
  <2>1. HasBytes(d, at, 2)
    BY <1>7, StringNotRead DEF Unreadable, Raises
  <2>2. /\ n \in Word /\ n \in Nat /\ BigEndian(n, 2) = Bytes(d, at, 2) /\ b \in Seq(Byte)
        /\ ~Decodable(b) => u = Unreadable
        /\ Decodable(b) /\ 0 \in ToSet(Characters(b)) => u = Raises("SerializeError")
        /\ Decodable(b) /\ 0 \notin ToSet(Characters(b)) => u = Read(Characters(b), (at + 2) + n)
    BY <2>1, StringIsRead
  <2>3. u.error = "none"
    BY <1>7
  <2> HIDE DEF u, b, n
  <2>4. Decodable(b) /\ 0 \notin ToSet(Characters(b))
    BY <2>2, <2>3 DEF Unreadable, Raises
  <2>5. u = Read(Characters(b), (at + 2) + n)
    BY <2>2, <2>4
  <2>6. u.value = Characters(b) /\ u.next = (at + 2) + n
    BY <2>5 DEF Read
  <2> QED
    BY <2>1, <2>2, <2>4, <2>5, <2>6 DEF u, b, n
<1>8. FieldWritesBack(t)
  <2> SUFFICES ASSUME NEW d \in Seq(Byte), NEW at \in Nat,
                      UnpackString(d, at).error = "none",
                      UnpackString(d, at).next <= Len(d),
                      PlainField(t, UnpackString(d, at).value)
               PROVE  LET u == UnpackString(d, at) IN
                        /\ ValidField(t, u.value) /\ FieldErrors(t, u.value) = {}
                        /\ PackField(t, u.value) = SubSeq(d, at + 1, u.next)
    BY <1>0 DEF FieldWritesBack
  <2> DEFINE n == FromBigEndian(Bytes(d, at, 2))
             b == TextAt(d, at, n)
             u == UnpackString(d, at)
  <2>1. /\ HasBytes(d, at, 2) /\ n \in Word /\ n \in Nat
        /\ BigEndian(n, 2) = Bytes(d, at, 2)
        /\ b \in Seq(Byte) /\ Decodable(b) /\ 0 \notin ToSet(Characters(b))
        /\ u.value = Characters(b) /\ u.next = (at + 2) + n
    BY <1>7
  <2>2. u.next <= Len(d) /\ PlainField(t, u.value)
    OBVIOUS
  <2> HIDE DEF b, n, u
  <2>3. Ascii(b)
    <3>1. \A k \in DOMAIN Characters(b) : Characters(b)[k] \in 1 .. 127
      BY <1>0, <2>1, <2>2
    <3> QED
      BY <2>1, <3>1, TextIsAscii
  <2>4. Characters(b) = b
    BY <2>1, <2>3, AsciiIsText
  <2>5. HasBytes(d, at + 2, n) /\ at + 2 \in Nat
    BY <2>1, <2>2 DEF HasBytes
  <2>6. b = Bytes(d, at + 2, n) /\ Len(b) = n
    <3>1. b = Bytes(d, at + 2, n)
      BY <2>5 DEF b, TextAt
    <3> QED
      BY <2>1, <2>5, <3>1, BytesOf
  <2>7. StringBytes(b)
    BY <2>1, <2>4, <2>6 DEF StringBytes
  <2>8. PackField(t, b) = Bytes(d, at, 2) \o Bytes(d, at + 2, n)
    BY <1>0, <2>1, <2>6
  <2>9. Bytes(d, at, 2) \o Bytes(d, at + 2, n) = SubSeq(d, at + 1, (at + 2) + n)
    <3>1. /\ at + 2 \in Nat /\ (at + 2) + n \in Nat /\ at <= at + 2
          /\ at + 2 <= (at + 2) + n /\ (at + 2) + n <= Len(d)
      BY <2>1, <2>2
    <3>2. SubSeq(d, at + 1, at + 2) \o SubSeq(d, (at + 2) + 1, (at + 2) + n)
            = SubSeq(d, at + 1, (at + 2) + n)
      BY <3>1, SlicesJoin
    <3> QED
      BY <3>2 DEF Bytes
  <2>10. ValidField(t, b) /\ FieldErrors(t, b) = {}
    BY <1>2, <2>7
  <2>11. u.value = b /\ PackField(t, b) = SubSeq(d, at + 1, u.next)
    BY <2>1, <2>4, <2>8, <2>9
  <2> QED
    BY <2>10, <2>11 DEF u
<1>9. FieldIsLocal(t)
  <2> SUFFICES ASSUME NEW d \in Seq(Byte), NEW e \in Seq(Byte), NEW at \in Nat,
                      UnpackField(t, d, at).error = "none",
                      UnpackField(t, d, at).next <= Len(d), UnpackField(t, d, at).next <= Len(e),
                      \A i \in at + 1 .. UnpackField(t, d, at).next : e[i] = d[i]
               PROVE  UnpackField(t, e, at) = UnpackField(t, d, at)
    BY DEF FieldIsLocal
  <2> DEFINE n == FromBigEndian(Bytes(d, at, 2))
             b == TextAt(d, at, n)
             u == UnpackField(t, d, at)
  <2>1. /\ HasBytes(d, at, 2) /\ n \in Nat
        /\ Decodable(b) /\ 0 \notin ToSet(Characters(b))
        /\ u = Read(Characters(b), (at + 2) + n) /\ u.next = (at + 2) + n
    <3>1. UnpackField(t, d, at) = UnpackString(d, at) /\ UnpackString(d, at).error = "none"
      BY <1>0
    <3> QED
      BY <1>7, <3>1
  <2>2. /\ u.next <= Len(d) /\ u.next <= Len(e)
        /\ \A i \in at + 1 .. u.next : e[i] = d[i]
    OBVIOUS
  <2> HIDE DEF u, b, n
  <2>3. HasBytes(e, at, 2) /\ HasBytes(d, at + 2, n) /\ HasBytes(e, at + 2, n)
    BY <2>1, <2>2 DEF HasBytes
  <2>4. Bytes(e, at, 2) = Bytes(d, at, 2)
    <3>1. \A i \in at + 1 .. at + 2 : e[i] = d[i]
      BY <2>1, <2>2
    <3>2. PICK w \in Nat : w = 2
      OBVIOUS
    <3>3. Bytes(e, at, w) = Bytes(d, at, w)
      BY <2>1, <2>3, <3>1, <3>2, SameBytes
    <3> QED
      BY <3>2, <3>3
  <2>5. Bytes(e, at + 2, n) = Bytes(d, at + 2, n)
    <3>1. \A i \in (at + 2) + 1 .. (at + 2) + n : e[i] = d[i]
      BY <2>1, <2>2
    <3>2. at + 2 \in Nat
      OBVIOUS
    <3> QED
      BY <2>1, <2>3, <3>1, <3>2, SameBytes
  <2>6. FromBigEndian(Bytes(e, at, 2)) = n /\ TextAt(e, at, n) = b
    BY <2>3, <2>4, <2>5 DEF n, b, TextAt
  <2>7. UnpackString(e, at) = Read(Characters(b), (at + 2) + n)
    <3> DEFINE m == FromBigEndian(Bytes(e, at, 2))
               c == TextAt(e, at, m)
    <3>1. Decodable(c) /\ 0 \notin ToSet(Characters(c)) =>
            UnpackString(e, at) = Read(Characters(c), (at + 2) + m)
      BY <2>3, StringIsRead
    <3>2. m = n /\ c = b
      BY <2>6
    <3> HIDE DEF m, c
    <3> QED
      BY <2>1, <3>1, <3>2
  <2>8. UnpackField(t, e, at) = u
    BY <1>0, <2>1, <2>7
  <2> QED
    BY <2>8 DEF u
<1> QED
  BY <1>4, <1>5, <1>6, <1>8, <1>9 DEF FieldCorrect

\* All kinds of fields.
LEMMA FieldsAreCorrect ==
  ASSUME NEW t, IsField(t)
  PROVE  FieldCorrect(t)
<1>1. CASE t.kind = "number" /\ t.width \in {1, 2}
  BY <1>1, NumberIsCorrect
<1>2. CASE t.kind = "raw" /\ t.width \in Nat /\ t.little \in BOOLEAN
  BY <1>2, RawIsCorrect
<1>3. CASE t.kind = "ip" /\ t.little \in BOOLEAN
  BY <1>3, IpIsCorrect
<1>4. CASE t.kind = "enum" /\ t.codes \subseteq Byte
  BY <1>4, EnumIsCorrect
<1>5. CASE t.kind \in {"string", "tlv"}
  BY <1>5, StringIsCorrect, TlvIsCorrect
<1> QED
  BY <1>1, <1>2, <1>3, <1>4, <1>5 DEF IsField

\* Arrays and packets of fields.
LEMMA L1Correct == L1!Correct
<1>0. L1!Byte = Byte
  BY DEF L1!Byte, Byte
<1>1. \A d, at, p : L1!Holds(d, at, p) <=> Holds(d, at, p)
  BY DEF L1!Holds, Holds
<1>2. \A v, n : L1!Read(v, n) = Read(v, n)
  BY DEF L1!Read, Read
<1>3. \A t : IsField(t) => FieldWrites(t) /\ FieldReads(t) /\ FieldReadsBack(t)
                            /\ FieldWritesBack(t) /\ FieldIsLocal(t)
  BY FieldsAreCorrect DEF FieldCorrect
<1>4. L1!InnerWrites
  BY <1>0, <1>3 DEF L1!InnerWrites, FieldWrites
<1>5. L1!InnerReads
  BY <1>0, <1>3 DEF L1!InnerReads, FieldReads
<1>6. L1!InnerReadsBack
  BY <1>0, <1>1, <1>2, <1>3 DEF L1!InnerReadsBack, FieldReadsBack
<1>7. L1!InnerWritesBack
  BY <1>0, <1>3 DEF L1!InnerWritesBack, FieldWritesBack
<1>8. L1!InnerIsLocal
  BY <1>0, <1>3 DEF L1!InnerIsLocal, FieldIsLocal
<1> QED
  BY <1>4, <1>5, <1>6, <1>7, <1>8, L1!CompositesAreCorrect DEF L1!InnerCorrect

\* Arrays and packets of those.
LEMMA L2Correct == L2!Correct
<1>0. L1!Writes /\ L1!Reads /\ L1!ReadsBack /\ L1!WritesBack /\ L1!IsLocal
  BY L1Correct DEF L1!Correct
<1>1. L2!Byte = L1!Byte
  BY DEF L2!Byte, L1!Byte
<1>2. \A d, at, p : L2!Holds(d, at, p) <=> L1!Holds(d, at, p)
  BY DEF L2!Holds, L1!Holds
<1>3. \A v, n : L2!Read(v, n) = L1!Read(v, n)
  BY DEF L2!Read, L1!Read
<1>4. L2!InnerWrites
  BY <1>0, <1>1 DEF L2!InnerWrites, L1!Writes
<1>5. L2!InnerReads
  BY <1>0, <1>1 DEF L2!InnerReads, L1!Reads
<1>6. L2!InnerReadsBack
  BY <1>0, <1>1, <1>2, <1>3 DEF L2!InnerReadsBack, L1!ReadsBack
<1>7. L2!InnerWritesBack
  BY <1>0, <1>1 DEF L2!InnerWritesBack, L1!WritesBack
<1>8. L2!InnerIsLocal
  BY <1>0, <1>1 DEF L2!InnerIsLocal, L1!IsLocal
<1> QED
  BY <1>4, <1>5, <1>6, <1>7, <1>8, L2!CompositesAreCorrect DEF L2!InnerCorrect

\* The third level.
LEMMA L3Correct == L3!Correct
<1>0. L2!Writes /\ L2!Reads /\ L2!ReadsBack /\ L2!WritesBack /\ L2!IsLocal
  BY L2Correct DEF L2!Correct
<1>1. L3!Byte = L2!Byte
  BY DEF L3!Byte, L2!Byte
<1>2. \A d, at, p : L3!Holds(d, at, p) <=> L2!Holds(d, at, p)
  BY DEF L3!Holds, L2!Holds
<1>3. \A v, n : L3!Read(v, n) = L2!Read(v, n)
  BY DEF L3!Read, L2!Read
<1>4. L3!InnerWrites
  BY <1>0, <1>1 DEF L3!InnerWrites, L2!Writes
<1>5. L3!InnerReads
  BY <1>0, <1>1 DEF L3!InnerReads, L2!Reads
<1>6. L3!InnerReadsBack
  BY <1>0, <1>1, <1>2, <1>3 DEF L3!InnerReadsBack, L2!ReadsBack
<1>7. L3!InnerWritesBack
  BY <1>0, <1>1 DEF L3!InnerWritesBack, L2!WritesBack
<1>8. L3!InnerIsLocal
  BY <1>0, <1>1 DEF L3!InnerIsLocal, L2!IsLocal
<1> QED
  BY <1>4, <1>5, <1>6, <1>7, <1>8, L3!CompositesAreCorrect DEF L3!InnerCorrect

\* The fourth level.
LEMMA L4Correct == L4!Correct
<1>0. L3!Writes /\ L3!Reads /\ L3!ReadsBack /\ L3!WritesBack /\ L3!IsLocal
  BY L3Correct DEF L3!Correct
<1>1. L4!Byte = L3!Byte
  BY DEF L4!Byte, L3!Byte
<1>2. \A d, at, p : L4!Holds(d, at, p) <=> L3!Holds(d, at, p)
  BY DEF L4!Holds, L3!Holds
<1>3. \A v, n : L4!Read(v, n) = L3!Read(v, n)
  BY DEF L4!Read, L3!Read
<1>4. L4!InnerWrites
  BY <1>0, <1>1 DEF L4!InnerWrites, L3!Writes
<1>5. L4!InnerReads
  BY <1>0, <1>1 DEF L4!InnerReads, L3!Reads
<1>6. L4!InnerReadsBack
  BY <1>0, <1>1, <1>2, <1>3 DEF L4!InnerReadsBack, L3!ReadsBack
<1>7. L4!InnerWritesBack
  BY <1>0, <1>1 DEF L4!InnerWritesBack, L3!WritesBack
<1>8. L4!InnerIsLocal
  BY <1>0, <1>1 DEF L4!InnerIsLocal, L3!IsLocal
<1> QED
  BY <1>4, <1>5, <1>6, <1>7, <1>8, L4!CompositesAreCorrect DEF L4!InnerCorrect

\* The fifth level.
LEMMA L5Correct == L5!Correct
<1>0. L4!Writes /\ L4!Reads /\ L4!ReadsBack /\ L4!WritesBack /\ L4!IsLocal
  BY L4Correct DEF L4!Correct
<1>1. L5!Byte = L4!Byte
  BY DEF L5!Byte, L4!Byte
<1>2. \A d, at, p : L5!Holds(d, at, p) <=> L4!Holds(d, at, p)
  BY DEF L5!Holds, L4!Holds
<1>3. \A v, n : L5!Read(v, n) = L4!Read(v, n)
  BY DEF L5!Read, L4!Read
<1>4. L5!InnerWrites
  BY <1>0, <1>1 DEF L5!InnerWrites, L4!Writes
<1>5. L5!InnerReads
  BY <1>0, <1>1 DEF L5!InnerReads, L4!Reads
<1>6. L5!InnerReadsBack
  BY <1>0, <1>1, <1>2, <1>3 DEF L5!InnerReadsBack, L4!ReadsBack
<1>7. L5!InnerWritesBack
  BY <1>0, <1>1 DEF L5!InnerWritesBack, L4!WritesBack
<1>8. L5!InnerIsLocal
  BY <1>0, <1>1 DEF L5!InnerIsLocal, L4!IsLocal
<1> QED
  BY <1>4, <1>5, <1>6, <1>7, <1>8, L5!CompositesAreCorrect DEF L5!InnerCorrect

\* What is packed are bytes.
CodecWrites ==
  \A t, v : IsType(t) /\ Valid(t, v) /\ PackErrors(t, v) = {} => Pack(t, v) \in Seq(Byte)

CodecReads ==
  \A t : \A d \in Seq(Byte), at \in Nat :
    IsType(t) =>
      /\ Unpack(t, d, at).error \in {"none", "DeserializeError", "SerializeError"}
      /\ Unpack(t, d, at).error = "none" =>
           Unpack(t, d, at).next \in Nat /\ at <= Unpack(t, d, at).next
      /\ Unpack(t, d, at).error = "SerializeError" =>
           HoldsText(t) /\ \E i \in at + 1 .. Len(d) : d[i] = 0

CodecReadsBack ==
  \A t, v : \A d \in Seq(Byte), at \in Nat :
    IsType(t) /\ Valid(t, v) /\ PackErrors(t, v) = {} /\ Holds(d, at, Pack(t, v)) =>
      /\ Unpack(t, d, at).error = "none" =>
           Unpack(t, d, at).next = at + Len(Pack(t, v))
      /\ Plain(t, v) => Unpack(t, d, at) = Read(Filled(t, v), at + Len(Pack(t, v)))

CodecWritesBack ==
  \A t : \A d \in Seq(Byte), at \in Nat :
    LET u == Unpack(t, d, at) IN
      IsType(t) /\ u.error = "none" /\ u.next <= Len(d) /\ Plain(t, u.value) =>
        /\ Valid(t, u.value) /\ PackErrors(t, u.value) = {}
        /\ Pack(t, u.value) = SubSeq(d, at + 1, u.next)

CodecIsLocal ==
  \A t : \A d, e \in Seq(Byte), at \in Nat :
    LET u == Unpack(t, d, at) IN
      /\ IsType(t) /\ u.error = "none" /\ u.next <= Len(d) /\ u.next <= Len(e)
      /\ \A i \in at + 1 .. u.next : e[i] = d[i]
      => Unpack(t, e, at) = u

\* The codec of protocol.py is correct for every type that nests up to five deep:
\* what is packed are bytes; unpacking raises nothing but the two exceptions that the
\* model names; it takes a value that was packed for the same one (ReadsBack), and what
\* it takes is what packing gives again (WritesBack); and it depends on no byte but
\* those it takes (IsLocal).
THEOREM CodecIsCorrect ==
  CodecWrites /\ CodecReads /\ CodecReadsBack /\ CodecWritesBack /\ CodecIsLocal
<1>0. L5!Writes /\ L5!Reads /\ L5!ReadsBack /\ L5!WritesBack /\ L5!IsLocal
  BY L5Correct DEF L5!Correct
<1>1. L5!Byte = Byte
  BY DEF L5!Byte, Byte
<1>2. \A d, at, p : L5!Holds(d, at, p) <=> Holds(d, at, p)
  BY DEF L5!Holds, Holds
<1>3. \A v, n : L5!Read(v, n) = Read(v, n)
  BY DEF L5!Read, Read
<1>4. \A t : /\ IsType(t) <=> L5!IsType(t)
             /\ HoldsText(t) <=> L5!HoldsText(t)
  BY DEF IsType, HoldsText
<1>5. \A t, v : /\ Valid(t, v) <=> L5!Valid(t, v)
                /\ PackErrors(t, v) = L5!PackErrors(t, v)
                /\ Pack(t, v) = L5!Pack(t, v)
                /\ Plain(t, v) <=> L5!Plain(t, v)
                /\ Filled(t, v) = L5!Filled(t, v)
  BY DEF Valid, PackErrors, Pack, Plain, Filled
<1>6. \A t, d, at : Unpack(t, d, at) = L5!Unpack(t, d, at)
  BY DEF Unpack
<1>7. CodecWrites
  BY <1>0, <1>1, <1>4, <1>5 DEF CodecWrites, L5!Writes
<1>8. CodecReads
  BY <1>0, <1>1, <1>4, <1>6 DEF CodecReads, L5!Reads
<1>9. CodecReadsBack
  BY <1>0, <1>1, <1>2, <1>3, <1>4, <1>5, <1>6 DEF CodecReadsBack, L5!ReadsBack
<1>10. CodecWritesBack
  BY <1>0, <1>1, <1>4, <1>5, <1>6 DEF CodecWritesBack, L5!WritesBack
<1>11. CodecIsLocal
  BY <1>0, <1>1, <1>4, <1>6 DEF CodecIsLocal, L5!IsLocal
<1> QED
  BY <1>7, <1>8, <1>9, <1>10, <1>11

-----------------------------------------------------------------------------
(* The packets are types *)

\* A field is neither an array nor a packet.
LEMMA FieldIsInner ==
  ASSUME NEW t, IsField(t)
  PROVE  t.kind \notin {"array", "fixed", "packet"}
  BY DEF IsField

\* A type of a level is one of the next.
LEMMA TypesOfLevels ==
  /\ \A t : IsField(t) => L1!IsType(t)
  /\ \A t : L1!IsType(t) => L2!IsType(t)
  /\ \A t : L2!IsType(t) => L3!IsType(t)
  /\ \A t : L3!IsType(t) => L4!IsType(t)
  /\ \A t : L4!IsType(t) => L5!IsType(t)
<1>1. \A t : IsField(t) => L1!IsType(t)
  BY FieldIsInner DEF L1!IsType, L1!Composite
<1>2. \A t : L1!IsType(t) => L2!IsType(t)
  BY <1>1 DEF L1!IsType, L2!IsType, L1!Composite, L2!Composite, L1!Counts, L2!Counts,
              L1!Word, L2!Word, L1!Largest, L2!Largest, L1!Parts, L2!Parts,
              L1!FieldType, L2!FieldType
<1>3. \A t : L2!IsType(t) => L3!IsType(t)
  BY <1>2 DEF L3!IsType, L2!IsType, L3!Composite, L2!Composite, L3!Counts, L2!Counts,
              L3!Word, L2!Word, L3!Largest, L2!Largest, L3!Parts, L2!Parts,
              L3!FieldType, L2!FieldType
<1>4. \A t : L3!IsType(t) => L4!IsType(t)
  BY <1>3 DEF L3!IsType, L4!IsType, L3!Composite, L4!Composite, L3!Counts, L4!Counts,
              L3!Word, L4!Word, L3!Largest, L4!Largest, L3!Parts, L4!Parts,
              L3!FieldType, L4!FieldType
<1>5. \A t : L4!IsType(t) => L5!IsType(t)
  BY <1>4 DEF L5!IsType, L4!IsType, L5!Composite, L4!Composite, L5!Counts, L4!Counts,
              L5!Word, L4!Word, L5!Largest, L4!Largest, L5!Parts, L4!Parts,
              L5!FieldType, L4!FieldType
<1> QED
  BY <1>1, <1>2, <1>3, <1>4, <1>5

\* An array of a type of one level is a type of the next.
LEMMA ArrayTypes ==
  ASSUME NEW t
  PROVE  /\ IsField(t) => L1!IsType(ArrayOf(t))
         /\ L1!IsType(t) => L2!IsType(ArrayOf(t))
         /\ L3!IsType(t) => L4!IsType(ArrayOf(t))
<1> DEFINE a == ArrayOf(t)
<1>1. a.kind = "array" /\ a.of = t
  BY DEF ArrayOf
<1> HIDE DEF a
<1>2. L1!Word \subseteq Nat /\ L2!Word \subseteq Nat /\ L4!Word \subseteq Nat
  BY Words DEF L1!Word, L2!Word, L4!Word, L1!Largest, L2!Largest, L4!Largest, Word, Largest
<1>3. ASSUME IsField(t) PROVE L1!IsType(a)
  BY <1>1, <1>2, <1>3 DEF L1!IsType, L1!Composite, L1!Counts, L1!Parts
<1>4. ASSUME L1!IsType(t) PROVE L2!IsType(a)
  BY <1>1, <1>2, <1>4 DEF L2!IsType, L2!Composite, L2!Counts, L2!Parts
<1>5. ASSUME L3!IsType(t) PROVE L4!IsType(a)
  BY <1>1, <1>2, <1>5 DEF L4!IsType, L4!Composite, L4!Counts, L4!Parts
<1> QED
  BY <1>3, <1>4, <1>5 DEF a

\* A fixed array of fields is a type.
LEMMA FixedType ==
  ASSUME NEW t, IsField(t), NEW n \in Nat
  PROVE  L1!IsType(FixedOf(t, n))
<1> DEFINE a == FixedOf(t, n)
<1>1. a.kind = "fixed" /\ a.of = t /\ a.size = n
  BY DEF FixedOf
<1> HIDE DEF a
<1>2. L1!IsType(a)
  BY <1>1 DEF L1!IsType, L1!Composite, L1!Counts, L1!Parts
<1> QED
  BY <1>2 DEF a

\* The types of a packet's fields.
LEMMA PacketTypes ==
  ASSUME NEW name, NEW fields, DOMAIN fields = 1 .. Len(fields), Len(fields) \in Nat
  PROVE  /\ (\A i \in DOMAIN fields : IsField(fields[i][2])) => L1!IsType(Packet(name, fields))
         /\ (\A i \in DOMAIN fields : L2!IsType(fields[i][2])) => L3!IsType(Packet(name, fields))
         /\ (\A i \in DOMAIN fields : L4!IsType(fields[i][2])) => L5!IsType(Packet(name, fields))
<1> DEFINE p == Packet(name, fields)
<1>1. p.kind = "packet" /\ p.fields = fields
  BY DEF Packet
<1> HIDE DEF p
<1>2. ASSUME \A i \in DOMAIN fields : IsField(fields[i][2]) PROVE L1!IsType(p)
  BY <1>1, <1>2 DEF L1!IsType, L1!Composite, L1!Counts, L1!Parts, L1!FieldType
<1>3. ASSUME \A i \in DOMAIN fields : L2!IsType(fields[i][2]) PROVE L3!IsType(p)
  BY <1>1, <1>3 DEF L3!IsType, L3!Composite, L3!Counts, L3!Parts, L3!FieldType
<1>4. ASSUME \A i \in DOMAIN fields : L4!IsType(fields[i][2]) PROVE L5!IsType(p)
  BY <1>1, <1>4 DEF L5!IsType, L5!Composite, L5!Counts, L5!Parts, L5!FieldType
<1> QED
  BY <1>2, <1>3, <1>4 DEF p

Simple(t) == IsField(t)

\* The kinds of fields that packetDefinitions.py uses.
LEMMA SimpleTypes ==
  /\ \A n \in {1, 2} : Simple(Number(n))
  /\ \A n \in Nat : Simple(Raw(n)) /\ Simple(RawLe(n))
  /\ Simple(IP) /\ Simple(IPLe) /\ Simple(Str)
  /\ \A name : Simple(Tlv(name))
  /\ \A codes : codes \subseteq Byte => Simple(EnumOf(codes))
  BY DEF Simple, IsField, Number, Raw, RawLe, IP, IPLe, Str, Tlv, EnumOf

\* The fields that packetDefinitions.py names.
LEMMA NamedTypes ==
  /\ Simple(U8) /\ Simple(U16) /\ Simple(U32) /\ Simple(U64) /\ Simple(Float) /\ Simple(MAC)
  /\ Simple(U32Le) /\ Simple(RawLe(4)) /\ Simple(Octets(16)) /\ Simple(Octets(1008))
  /\ Simple(Octets(1380)) /\ Simple(Tlv("DiagnosticTLV"))
  /\ Simple(ConfigStorageModes) /\ Simple(FilterActions) /\ Simple(MeasTypes)
  /\ Simple(SecurityModes) /\ Simple(IfaceTypes) /\ Simple(NodeStates)
  /\ Simple(NukeActions) /\ Simple(SubProtocols)
<1>1. \A n \in 0 .. 255 : 0 .. n \subseteq Byte
  BY DEF Byte
<1> QED
  BY <1>1, SimpleTypes DEF U8, U16, U32, U64, Float, MAC, U32Le, Octets, ConfigStorageModes,
     FilterActions, MeasTypes, SecurityModes, IfaceTypes, NodeStates, NukeActions, SubProtocols

Inner(t) == L4!IsType(t)

\* The types of which packets may have fields.
LEMMA InnerTypes ==
  ASSUME NEW t
  PROVE  /\ Simple(t) => Inner(t) /\ Inner(ArrayOf(t))
         /\ Simple(t) => \A n \in Nat : Inner(FixedOf(t, n))
         /\ L1!IsType(t) => Inner(ArrayOf(t))
         /\ L3!IsType(t) => Inner(ArrayOf(t))
  BY TypesOfLevels, ArrayTypes, FixedType DEF Simple, Inner

\* The fields of a MAC configuration.
LEMMA MacFields == \A i \in DOMAIN cfgFields : Inner(cfgFields[i][2])
<1>1. L1!IsType(SubnetEntry)
  <2> DEFINE f == << <<"addr_subnet_id", U8>>, <<"channel", U8>>, <<"txPower", Float>> >>
  <2>1. DOMAIN f = 1 .. Len(f) /\ Len(f) \in Nat /\ \A i \in DOMAIN f : IsField(f[i][2])
    BY NamedTypes DEF Simple
  <2> HIDE DEF f
  <2>2. L1!IsType(Packet("SubnetEntry", f))
    BY <2>1, PacketTypes
  <2> QED
    BY <2>2 DEF f, SubnetEntry
<1>2. Inner(ArrayOf(SubnetEntry)) /\ Inner(ArrayOf(U8)) /\ Inner(U8) /\ Inner(U16) /\ Inner(U32)
      /\ Inner(MAC) /\ Inner(SecurityModes)
  BY <1>1, InnerTypes, NamedTypes
<1> QED
  BY <1>2 DEF cfgFields

\* The packets that are fields or elements of others.
LEMMA PartTypes ==
  /\ L1!IsType(KeyValuePair) /\ L1!IsType(SubProtocolInfo) /\ L1!IsType(IFaceInfo)
  /\ L1!IsType(RTLookup) /\ L1!IsType(FilterEntry) /\ L1!IsType(SingleLink)
  /\ L3!IsType(TrafficFilter) /\ L3!IsType(SingleLinksStatus) /\ L3!IsType(UpdateInfo)
<1> USE NamedTypes DEF Simple
<1>1. L1!IsType(KeyValuePair)
  <2> DEFINE f == << <<"name", Str>>, <<"value", Str>> >>
  <2>1. DOMAIN f = 1 .. Len(f) /\ Len(f) \in Nat /\ \A i \in DOMAIN f : IsField(f[i][2])
    BY SimpleTypes
  <2> HIDE DEF f
  <2> QED
    BY <2>1, PacketTypes DEF f, KeyValuePair
<1>2. L1!IsType(SubProtocolInfo)
  <2> DEFINE f == << <<"protocol", SubProtocols>>, <<"version", U8>> >>
  <2>1. DOMAIN f = 1 .. Len(f) /\ Len(f) \in Nat /\ \A i \in DOMAIN f : IsField(f[i][2])
    OBVIOUS
  <2> HIDE DEF f
  <2> QED
    BY <2>1, PacketTypes DEF f, SubProtocolInfo
<1>3. L1!IsType(IFaceInfo)
  <2> DEFINE f == << <<"type", IfaceTypes>>, <<"name", Str>>, <<"MAC", MAC>>, <<"ip", IP>> >>
  <2>1. DOMAIN f = 1 .. Len(f) /\ Len(f) \in Nat /\ \A i \in DOMAIN f : IsField(f[i][2])
    BY SimpleTypes
  <2> HIDE DEF f
  <2> QED
    BY <2>1, PacketTypes DEF f, IFaceInfo
<1>4. L1!IsType(RTLookup)
  <2> DEFINE f == << <<"macaddress", MAC>>, <<"llcaddress", MAC>> >>
  <2>1. DOMAIN f = 1 .. Len(f) /\ Len(f) \in Nat /\ \A i \in DOMAIN f : IsField(f[i][2])
    OBVIOUS
  <2> HIDE DEF f
  <2> QED
    BY <2>1, PacketTypes DEF f, RTLookup
<1>5. L1!IsType(FilterEntry)
  <2> DEFINE f == << <<"index", U8>>, <<"value", U8>> >>
  <2>1. DOMAIN f = 1 .. Len(f) /\ Len(f) \in Nat /\ \A i \in DOMAIN f : IsField(f[i][2])
    OBVIOUS
  <2> HIDE DEF f
  <2> QED
    BY <2>1, PacketTypes DEF f, FilterEntry
<1>6. L1!IsType(SingleLink)
  <2> DEFINE f == << <<"destination", IP>>, <<"payloadSize", U16>>, <<"multiplier", U8>>,
                     <<"priority", U8>>, <<"streamID", U8>> >>
  <2>1. DOMAIN f = 1 .. Len(f) /\ Len(f) \in Nat /\ \A i \in DOMAIN f : IsField(f[i][2])
    BY SimpleTypes
  <2> HIDE DEF f
  <2> QED
    BY <2>1, PacketTypes DEF f, SingleLink
<1>7. \A t : /\ IsField(t) => L2!IsType(t)
             /\ IsField(t) => \A n \in Nat : L2!IsType(FixedOf(t, n))
             /\ L1!IsType(t) => L2!IsType(ArrayOf(t))
  BY TypesOfLevels, ArrayTypes, FixedType
<1>8. L3!IsType(TrafficFilter)
  <2> DEFINE f == << <<"action", FilterActions>>, <<"entries", ArrayOf(FilterEntry)>> >>
  <2>1. L2!IsType(FilterActions) /\ L2!IsType(ArrayOf(FilterEntry))
    BY <1>5, <1>7
  <2>2. DOMAIN f = 1 .. Len(f) /\ Len(f) \in Nat /\ \A i \in DOMAIN f : L2!IsType(f[i][2])
    BY <2>1
  <2> HIDE DEF f
  <2> QED
    BY <2>2, PacketTypes DEF f, TrafficFilter
<1>9. L3!IsType(SingleLinksStatus)
  <2> DEFINE f == << <<"streamID", U8>>, <<"packetNumber", U32>>, <<"failedPackets", U32>>,
            <<"delayProfile", FixedOf(U32, 29)>>, <<"rcvdOK", U32>>, <<"rcvdFailed", U32>>,
            <<"lastSeqNum", U32>>, <<"outOfOrder", U32>>, <<"duplicates", U32>>,
            <<"txJitter", FixedOf(U32, 33)>>, <<"rxJitter", FixedOf(U32, 33)>> >>
  <2>1. L2!IsType(U8) /\ L2!IsType(U32) /\ L2!IsType(FixedOf(U32, 29)) /\ L2!IsType(FixedOf(U32, 33))
    BY <1>7
  <2>2. DOMAIN f = 1 .. Len(f) /\ Len(f) \in Nat /\ \A i \in DOMAIN f : L2!IsType(f[i][2])
    BY ONLY <2>1
  <2> HIDE DEF f
  <2> QED
    BY <2>2, PacketTypes DEF f, SingleLinksStatus
<1>10. L3!IsType(UpdateInfo)
  <2> DEFINE f == << <<"versions", ArrayOf(KeyValuePair)>>, <<"meta", ArrayOf(KeyValuePair)>> >>
  <2>1. L2!IsType(ArrayOf(KeyValuePair))
    BY <1>1, <1>7
  <2>2. DOMAIN f = 1 .. Len(f) /\ Len(f) \in Nat /\ \A i \in DOMAIN f : L2!IsType(f[i][2])
    BY <2>1
  <2> HIDE DEF f
  <2> QED
    BY <2>2, PacketTypes DEF f, UpdateInfo
<1> QED
  BY ONLY <1>1, <1>2, <1>3, <1>4, <1>5, <1>6, <1>8, <1>9, <1>10

\* The types of the packets' fields.
LEMMA FieldsAreInner ==
  /\ Inner(U8) /\ Inner(U16) /\ Inner(U32) /\ Inner(U64) /\ Inner(Float) /\ Inner(MAC)
  /\ Inner(U32Le) /\ Inner(RawLe(4)) /\ Inner(IP) /\ Inner(IPLe) /\ Inner(Str)
  /\ Inner(Octets(16)) /\ Inner(Octets(1008)) /\ Inner(Octets(1380))
  /\ Inner(ConfigStorageModes) /\ Inner(MeasTypes) /\ Inner(SecurityModes)
  /\ Inner(NodeStates) /\ Inner(NukeActions)
  /\ \A n \in Nat : Inner(FixedOf(U32Le, n)) /\ Inner(FixedOf(RawLe(4), n))
  /\ Inner(ArrayOf(U8)) /\ Inner(ArrayOf(U32)) /\ Inner(ArrayOf(Tlv("DiagnosticTLV")))
  /\ Inner(ArrayOf(IFaceInfo)) /\ Inner(ArrayOf(KeyValuePair)) /\ Inner(ArrayOf(SubProtocolInfo))
  /\ Inner(ArrayOf(TrafficFilter)) /\ Inner(ArrayOf(RTLookup)) /\ Inner(ArrayOf(SingleLink))
  /\ Inner(ArrayOf(SingleLinksStatus)) /\ Inner(ArrayOf(UpdateInfo))
<1>1. \A t : Simple(t) => Inner(t) /\ Inner(ArrayOf(t)) /\ \A n \in Nat : Inner(FixedOf(t, n))
  BY InnerTypes
<1>2. \A t : L1!IsType(t) \/ L3!IsType(t) => Inner(ArrayOf(t))
  BY InnerTypes
<1>3. Simple(IP) /\ Simple(IPLe) /\ Simple(Str)
  BY SimpleTypes
<1> QED
  BY <1>1, <1>2, <1>3, NamedTypes, PartTypes

\* A packet whose fields are types of the level below is a type.
LEMMA PacketIsType ==
  ASSUME NEW name, NEW fields, DOMAIN fields = 1 .. Len(fields), Len(fields) \in Nat,
         \A i \in DOMAIN fields : Inner(fields[i][2])
  PROVE  IsType(Packet(name, fields))
  BY PacketTypes DEF Inner, IsType

\* A packet without fields is a type.
LEMMA BareIsType == ASSUME NEW name PROVE IsType(Bare(name)) /\ IsType(Packet(name, <<>>))
<1>1. IsType(Packet(name, <<>>))
  <2> DEFINE f == <<>>
  <2>1. DOMAIN f = 1 .. Len(f) /\ Len(f) \in Nat /\ \A i \in DOMAIN f : Inner(f[i][2])
    OBVIOUS
  <2> HIDE DEF f
  <2>2. IsType(Packet(name, f))
    BY <2>1, PacketIsType
  <2> QED
    BY <2>2 DEF f
<1> QED
  BY <1>1 DEF Bare

\* The packets that packetDefinitions.py names are types.
LEMMA NamedPacketTypes ==
  /\ IsType(GenericError)
  /\ IsType(NodeState)
  /\ IsType(PyrtmfState)
  /\ IsType(SetGlobalHostConfig)
  /\ IsType(SetHostConfig)
  /\ IsType(AddHostRoutes)
  /\ IsType(ZeusSecurityConfig)
  /\ IsType(StartConfigSetTransaction)
  /\ IsType(SelectConfigSlot)
  /\ IsType(ApplyConfigSet)
  /\ IsType(DemoStatus)
  /\ IsType(RequestLog)
  /\ IsType(ProtLogData)
  /\ IsType(ProtLogHeader)
  /\ IsType(DeviceNuke)
  /\ IsType(DeviceDevelopment)
  /\ IsType(DeviceDiagnostics)
  /\ IsType(UpdateResponse)
  /\ IsType(UpdateDownloadProgress)
  /\ \A name : IsType(UidPacket(name))
  /\ \A name : IsType(LinksPacket(name))
  /\ \A name : IsType(Packet(name, cfgFields))
  /\ \A name : IsType(Packet(name, measCfgFields))
<1>1. IsType(GenericError)
  <2> DEFINE f == << <<"ErrorMsg", Str>> >>
  <2>1. DOMAIN f = 1 .. Len(f) /\ Len(f) \in Nat /\ \A i \in DOMAIN f : Inner(f[i][2])
    BY FieldsAreInner
  <2> HIDE DEF f
  <2> QED
    BY <2>1, PacketIsType DEF f, GenericError
<1>2. IsType(NodeState)
  <2> DEFINE f == << <<"state", NodeStates>>, <<"serverIP", IP>>, <<"hasStaticConfig", U8>>,
                    <<"ifaces", ArrayOf(IFaceInfo)>>, <<"versions", ArrayOf(KeyValuePair)>>,
                    <<"features", ArrayOf(SubProtocolInfo)>> >>
  <2>1. DOMAIN f = 1 .. Len(f) /\ Len(f) \in Nat /\ \A i \in DOMAIN f : Inner(f[i][2])
    BY FieldsAreInner
  <2> HIDE DEF f
  <2> QED
    BY <2>1, PacketIsType DEF f, NodeState
<1>3. IsType(PyrtmfState)
  <2> DEFINE f == << <<"state", U8>>, <<"version", Str>> >>
  <2>1. DOMAIN f = 1 .. Len(f) /\ Len(f) \in Nat /\ \A i \in DOMAIN f : Inner(f[i][2])
    BY FieldsAreInner
  <2> HIDE DEF f
  <2> QED
    BY <2>1, PacketIsType DEF f, PyrtmfState
<1>4. IsType(SetGlobalHostConfig)
  <2> DEFINE f == << <<"dhcp_client", U8>>, <<"static_ip", IP>>, <<"subnet_mask", IP>>,
                    <<"gateway", IP>>, <<"nameserver", IP>>, <<"timeserver", IP>> >>
  <2>1. DOMAIN f = 1 .. Len(f) /\ Len(f) \in Nat /\ \A i \in DOMAIN f : Inner(f[i][2])
    BY FieldsAreInner
  <2> HIDE DEF f
  <2> QED
    BY <2>1, PacketIsType DEF f, SetGlobalHostConfig
<1>5. IsType(SetHostConfig)
  <2> DEFINE f == << <<"multicast_group", IP>>, <<"multicast_port", U16>>,
                    <<"traffic_filters", ArrayOf(TrafficFilter)>>, <<"routes", ArrayOf(RTLookup)>> >>
  <2>1. DOMAIN f = 1 .. Len(f) /\ Len(f) \in Nat /\ \A i \in DOMAIN f : Inner(f[i][2])
    BY FieldsAreInner
  <2> HIDE DEF f
  <2> QED
    BY <2>1, PacketIsType DEF f, SetHostConfig
<1>6. IsType(AddHostRoutes)
  <2> DEFINE f == << <<"routes", ArrayOf(RTLookup)>> >>
  <2>1. DOMAIN f = 1 .. Len(f) /\ Len(f) \in Nat /\ \A i \in DOMAIN f : Inner(f[i][2])
    BY FieldsAreInner
  <2> HIDE DEF f
  <2> QED
    BY <2>1, PacketIsType DEF f, AddHostRoutes
<1>7. IsType(ZeusSecurityConfig)
  <2> DEFINE f == << <<"addr_mac", MAC>>, <<"zeusblob", ArrayOf(U8)>> >>
  <2>1. DOMAIN f = 1 .. Len(f) /\ Len(f) \in Nat /\ \A i \in DOMAIN f : Inner(f[i][2])
    BY FieldsAreInner
  <2> HIDE DEF f
  <2> QED
    BY <2>1, PacketIsType DEF f, ZeusSecurityConfig
<1>8. IsType(StartConfigSetTransaction)
  <2> DEFINE f == << <<"storage", ConfigStorageModes>>, <<"slots", ArrayOf(U8)>> >>
  <2>1. DOMAIN f = 1 .. Len(f) /\ Len(f) \in Nat /\ \A i \in DOMAIN f : Inner(f[i][2])
    BY FieldsAreInner
  <2> HIDE DEF f
  <2> QED
    BY <2>1, PacketIsType DEF f, StartConfigSetTransaction
<1>9. IsType(SelectConfigSlot)
  <2> DEFINE f == << <<"slotid", U8>> >>
  <2>1. DOMAIN f = 1 .. Len(f) /\ Len(f) \in Nat /\ \A i \in DOMAIN f : Inner(f[i][2])
    BY FieldsAreInner
  <2> HIDE DEF f
  <2> QED
    BY <2>1, PacketIsType DEF f, SelectConfigSlot
<1>10. IsType(ApplyConfigSet)
  <2> DEFINE f == << <<"UID", U64>>, <<"slotid", U8>> >>
  <2>1. DOMAIN f = 1 .. Len(f) /\ Len(f) \in Nat /\ \A i \in DOMAIN f : Inner(f[i][2])
    BY FieldsAreInner
  <2> HIDE DEF f
  <2> QED
    BY <2>1, PacketIsType DEF f, ApplyConfigSet
<1>11. IsType(DemoStatus)
  <2> DEFINE f == << <<"__packetNumber", U32Le>>, <<"totalTransmissions", U32Le>>,
                    <<"dataPackets", FixedOf(U32Le, 5)>>, <<"rcvdToken", FixedOf(U32Le, 5)>>,
                    <<"rcvdPackets", FixedOf(U32Le, 5)>>, <<"delayProfile", FixedOf(U32Le, 29)>>,
                    <<"recoveryTypes", FixedOf(U32Le, 3)>>, <<"stateTransitions", FixedOf(U32Le, 5)>>,
                    <<"sentData", FixedOf(U32Le, 2)>>, <<"dataPacketProb", FixedOf(U32Le, 2)>>,
                    <<"destination", IPLe>>, <<"relays", FixedOf(U32Le, 10)>>,
                    <<"selfRing", U32Le>>, <<"successor", U32Le>>, <<"channel", U32Le>>,
                    <<"snrs", FixedOf(RawLe(4), 10)>>, <<"rxAbort", U32Le>>,
                    <<"scrambledPackets", FixedOf(U32Le, 3)>>, <<"idleExpiry", FixedOf(U32Le, 9)>> >>
  <2>1. DOMAIN f = 1 .. Len(f) /\ Len(f) \in Nat /\ \A i \in DOMAIN f : Inner(f[i][2])
    BY FieldsAreInner
  <2> HIDE DEF f
  <2> QED
    BY <2>1, PacketIsType DEF f, DemoStatus
<1>12. IsType(RequestLog)
  <2> DEFINE f == << <<"_placeholder", Octets(16)>> >>
  <2>1. DOMAIN f = 1 .. Len(f) /\ Len(f) \in Nat /\ \A i \in DOMAIN f : Inner(f[i][2])
    BY FieldsAreInner
  <2> HIDE DEF f
  <2> QED
    BY <2>1, PacketIsType DEF f, RequestLog
<1>13. IsType(ProtLogData)
  <2> DEFINE f == << <<"index", U16>>, <<"total", U16>>, <<"debugLength", U16>>, <<"padding", U16>>,
                    <<"data", Octets(1008)>> >>
  <2>1. DOMAIN f = 1 .. Len(f) /\ Len(f) \in Nat /\ \A i \in DOMAIN f : Inner(f[i][2])
    BY FieldsAreInner
  <2> HIDE DEF f
  <2>2. IsType(Packet("ProtLogData", f))
    BY ONLY <2>1, PacketIsType
  <2> QED
    BY ONLY <2>2, Zenon DEF f, ProtLogData
<1>14. IsType(ProtLogHeader)
  <2> DEFINE f == << <<"entrySize", U8>>, <<"data", Octets(1380)>> >>
  <2>1. DOMAIN f = 1 .. Len(f) /\ Len(f) \in Nat /\ \A i \in DOMAIN f : Inner(f[i][2])
    BY FieldsAreInner
  <2> HIDE DEF f
  <2>2. IsType(Packet("ProtLogHeader", f))
    BY ONLY <2>1, PacketIsType
  <2> QED
    BY ONLY <2>2, Zenon DEF f, ProtLogHeader
<1>15. IsType(DeviceNuke)
  <2> DEFINE f == << <<"mode", NukeActions>> >>
  <2>1. DOMAIN f = 1 .. Len(f) /\ Len(f) \in Nat /\ \A i \in DOMAIN f : Inner(f[i][2])
    BY FieldsAreInner
  <2> HIDE DEF f
  <2> QED
    BY <2>1, PacketIsType DEF f, DeviceNuke
<1>16. IsType(DeviceDevelopment)
  <2> DEFINE f == << <<"component", U8>>, <<"module", U8>>, <<"command", U8>>, <<"level", U8>>,
                    <<"wasExecuted", U8>>, <<"isDisabled", U8>>, <<"isSupported", U8>>,
                    <<"wasFiltered", U8>>, <<"isDeprecated", U8>>, <<"data", ArrayOf(U32)>> >>
  <2>1. DOMAIN f = 1 .. Len(f) /\ Len(f) \in Nat /\ \A i \in DOMAIN f : Inner(f[i][2])
    BY FieldsAreInner
  <2> HIDE DEF f
  <2> QED
    BY <2>1, PacketIsType DEF f, DeviceDevelopment
<1>17. IsType(DeviceDiagnostics)
  <2> DEFINE f == << <<"diagnostics", ArrayOf(Tlv("DiagnosticTLV"))>> >>
  <2>1. DOMAIN f = 1 .. Len(f) /\ Len(f) \in Nat /\ \A i \in DOMAIN f : Inner(f[i][2])
    BY FieldsAreInner
  <2> HIDE DEF f
  <2> QED
    BY <2>1, PacketIsType DEF f, DeviceDiagnostics
<1>18. IsType(UpdateResponse)
  <2> DEFINE f == << <<"updates", ArrayOf(UpdateInfo)>> >>
  <2>1. DOMAIN f = 1 .. Len(f) /\ Len(f) \in Nat /\ \A i \in DOMAIN f : Inner(f[i][2])
    BY FieldsAreInner
  <2> HIDE DEF f
  <2> QED
    BY <2>1, PacketIsType DEF f, UpdateResponse
<1>19. IsType(UpdateDownloadProgress)
  <2> DEFINE f == << <<"progress", U16>>, <<"total", U16>> >>
  <2>1. DOMAIN f = 1 .. Len(f) /\ Len(f) \in Nat /\ \A i \in DOMAIN f : Inner(f[i][2])
    BY FieldsAreInner
  <2> HIDE DEF f
  <2> QED
    BY <2>1, PacketIsType DEF f, UpdateDownloadProgress
<1>20. \A name : IsType(UidPacket(name))
  <2> DEFINE f == << <<"UID", U64>> >>
  <2>1. DOMAIN f = 1 .. Len(f) /\ Len(f) \in Nat /\ \A i \in DOMAIN f : Inner(f[i][2])
    BY FieldsAreInner
  <2> HIDE DEF f
  <2> QED
    BY <2>1, PacketIsType DEF f, UidPacket
<1>21. \A name : IsType(LinksPacket(name))
  <2> DEFINE f == << <<"links", ArrayOf(SingleLinksStatus)>> >>
  <2>1. DOMAIN f = 1 .. Len(f) /\ Len(f) \in Nat /\ \A i \in DOMAIN f : Inner(f[i][2])
    BY FieldsAreInner
  <2> HIDE DEF f
  <2> QED
    BY <2>1, PacketIsType DEF f, LinksPacket
<1>22. \A name : IsType(Packet(name, cfgFields))
  <2>1. DOMAIN cfgFields = 1 .. Len(cfgFields) /\ Len(cfgFields) \in Nat
    BY DEF cfgFields
  <2>2. \A i \in DOMAIN cfgFields : Inner(cfgFields[i][2])
    BY MacFields
  <2> QED
    BY <2>1, <2>2, PacketIsType
<1>23. \A name : IsType(Packet(name, measCfgFields))
  <2>1. DOMAIN measCfgFields = 1 .. Len(measCfgFields) /\ Len(measCfgFields) \in Nat
    BY DEF measCfgFields
  <2>2. \A i \in DOMAIN measCfgFields : Inner(measCfgFields[i][2])
    BY FieldsAreInner DEF measCfgFields
  <2> QED
    BY <2>1, <2>2, PacketIsType
<1> QED
  BY ONLY <1>1, <1>2, <1>3, <1>4, <1>5, <1>6, <1>7, <1>8, <1>9, <1>10, <1>11, <1>12, <1>13,
          <1>14, <1>15, <1>16, <1>17, <1>18, <1>19, <1>20, <1>21, <1>22, <1>23

\* Every packet that is registered is a type, so that the codec is correct for it.
LEMMA PacketsAreTypes ==
  \A p \in DOMAIN Protocols : \A c \in Commands(p) : IsType(Protocols[p].packets[c])
<1>1. \A c \in DOMAIN DiscovSubProt.packets : IsType(DiscovSubProt.packets[c])
  BY NamedPacketTypes, BareIsType DEF DiscovSubProt, DeprecatedPacket, SetMACConfig
<1>2. \A c \in DOMAIN PairSubProt.packets : IsType(PairSubProt.packets[c])
  BY NamedPacketTypes, BareIsType DEF PairSubProt, DeprecatedPacket, SetMACConfig
<1>3. \A c \in DOMAIN ConfigSubProt.packets : IsType(ConfigSubProt.packets[c])
  BY NamedPacketTypes, BareIsType DEF ConfigSubProt, DeprecatedPacket, SetMACConfig
<1>4. \A c \in DOMAIN MeasSubProt.packets : IsType(MeasSubProt.packets[c])
  BY NamedPacketTypes, BareIsType DEF MeasSubProt, DeprecatedPacket, SetMACConfig
<1>5. \A c \in DOMAIN DevControlSubProt.packets : IsType(DevControlSubProt.packets[c])
  BY NamedPacketTypes, BareIsType DEF DevControlSubProt, DeprecatedPacket, SetMACConfig
<1>6. \A c \in DOMAIN UpdaterSubProt.packets : IsType(UpdaterSubProt.packets[c])
  BY NamedPacketTypes, BareIsType DEF UpdaterSubProt, DeprecatedPacket, SetMACConfig
<1>7. /\ DOMAIN Protocols = 1 .. 6
      /\ Protocols[1] = DiscovSubProt
      /\ Protocols[2] = PairSubProt
      /\ Protocols[3] = ConfigSubProt
      /\ Protocols[4] = MeasSubProt
      /\ Protocols[5] = DevControlSubProt
      /\ Protocols[6] = UpdaterSubProt
  BY DEF Protocols
<1> QED
  BY ONLY <1>1, <1>2, <1>3, <1>4, <1>5, <1>6, <1>7 DEF Commands

\* The name of a packet is the one it is given.
LEMMA PacketName == \A name, fields : Packet(name, fields).name = name
  BY DEF Packet

\* The names of the packets.
LEMMA PacketNames ==
  /\ GenericError.name = "GenericError"
  /\ DeprecatedPacket.name = "DeprecatedPacket"
  /\ NodeState.name = "NodeState"
  /\ PyrtmfState.name = "PyrtmfState"
  /\ SetGlobalHostConfig.name = "SetGlobalHostConfig"
  /\ SetHostConfig.name = "SetHostConfig"
  /\ AddHostRoutes.name = "AddHostRoutes"
  /\ SetMACConfig.name = "SetMACConfig"
  /\ ZeusSecurityConfig.name = "ZeusSecurityConfig"
  /\ StartConfigSetTransaction.name = "StartConfigSetTransaction"
  /\ SelectConfigSlot.name = "SelectConfigSlot"
  /\ ApplyConfigSet.name = "ApplyConfigSet"
  /\ DemoStatus.name = "DemoStatus"
  /\ RequestLog.name = "RequestLog"
  /\ ProtLogData.name = "ProtLogData"
  /\ ProtLogHeader.name = "ProtLogHeader"
  /\ DeviceNuke.name = "DeviceNuke"
  /\ DeviceDevelopment.name = "DeviceDevelopment"
  /\ DeviceDiagnostics.name = "DeviceDiagnostics"
  /\ UpdateResponse.name = "UpdateResponse"
  /\ UpdateDownloadProgress.name = "UpdateDownloadProgress"
  /\ \A name : Bare(name).name = name /\ UidPacket(name).name = name /\ LinksPacket(name).name = name
<1>1. GenericError.name = "GenericError"
  BY PacketName, Zenon DEF GenericError
<1>2. DeprecatedPacket.name = "DeprecatedPacket"
  BY PacketName, Zenon DEF DeprecatedPacket
<1>3. NodeState.name = "NodeState"
  BY PacketName, Zenon DEF NodeState
<1>4. PyrtmfState.name = "PyrtmfState"
  BY PacketName, Zenon DEF PyrtmfState
<1>5. SetGlobalHostConfig.name = "SetGlobalHostConfig"
  BY PacketName, Zenon DEF SetGlobalHostConfig
<1>6. SetHostConfig.name = "SetHostConfig"
  BY PacketName, Zenon DEF SetHostConfig
<1>7. AddHostRoutes.name = "AddHostRoutes"
  BY PacketName, Zenon DEF AddHostRoutes
<1>8. SetMACConfig.name = "SetMACConfig"
  BY PacketName, Zenon DEF SetMACConfig
<1>9. ZeusSecurityConfig.name = "ZeusSecurityConfig"
  BY PacketName, Zenon DEF ZeusSecurityConfig
<1>10. StartConfigSetTransaction.name = "StartConfigSetTransaction"
  BY PacketName, Zenon DEF StartConfigSetTransaction
<1>11. SelectConfigSlot.name = "SelectConfigSlot"
  BY PacketName, Zenon DEF SelectConfigSlot
<1>12. ApplyConfigSet.name = "ApplyConfigSet"
  BY PacketName, Zenon DEF ApplyConfigSet
<1>13. DemoStatus.name = "DemoStatus"
  BY PacketName, Zenon DEF DemoStatus
<1>14. RequestLog.name = "RequestLog"
  BY PacketName, Zenon DEF RequestLog
<1>15. ProtLogData.name = "ProtLogData"
  BY PacketName, Zenon DEF ProtLogData
<1>16. ProtLogHeader.name = "ProtLogHeader"
  <2> DEFINE f == << <<"entrySize", U8>>, <<"data", Octets(1380)>> >>
  <2> HIDE DEF f
  <2>1. Packet("ProtLogHeader", f).name = "ProtLogHeader"
    BY PacketName
  <2> QED
    BY ONLY <2>1, Zenon DEF f, ProtLogHeader
<1>17. DeviceNuke.name = "DeviceNuke"
  BY PacketName, Zenon DEF DeviceNuke
<1>18. DeviceDevelopment.name = "DeviceDevelopment"
  BY PacketName, Zenon DEF DeviceDevelopment
<1>19. DeviceDiagnostics.name = "DeviceDiagnostics"
  BY PacketName, Zenon DEF DeviceDiagnostics
<1>20. UpdateResponse.name = "UpdateResponse"
  BY PacketName, Zenon DEF UpdateResponse
<1>21. UpdateDownloadProgress.name = "UpdateDownloadProgress"
  BY PacketName, Zenon DEF UpdateDownloadProgress
<1>22. \A name : Bare(name).name = name /\ UidPacket(name).name = name /\ LinksPacket(name).name = name
  BY PacketName, Zenon DEF Bare, UidPacket, LinksPacket
<1> QED
  BY ONLY <1>1, <1>2, <1>3, <1>4, <1>5, <1>6, <1>7, <1>8, <1>9, <1>10, <1>11, <1>12, <1>13,
          <1>14, <1>15, <1>16, <1>17, <1>18, <1>19, <1>20, <1>21, <1>22

\* The commands of a packet's name: one, but of a packet that is registered twice.
Unique(packets) == \A c, e \in DOMAIN packets : packets[c].name = packets[e].name => c = e

\* Only DeprecatedPacket is registered twice in a subprotocol.
LEMMA NamesAreUnique ==
  /\ Unique(DiscovSubProt.packets) /\ Unique(PairSubProt.packets)
  /\ Unique(ConfigSubProt.packets) /\ Unique(MeasSubProt.packets)
  /\ Unique(UpdaterSubProt.packets)
  /\ \A c, e \in DOMAIN DevControlSubProt.packets :
       DevControlSubProt.packets[c].name = DevControlSubProt.packets[e].name =>
         c = e \/ {c, e} = {2, 6}
<1>1. Unique(DiscovSubProt.packets)
  <2> DEFINE n == <<"GenericError", "GetNodeState", "NodeState", "GetPyrtmfState",
                     "PyrtmfState">>
  <2>1. DOMAIN DiscovSubProt.packets = 1 .. 5
    BY DEF DiscovSubProt
  <2>2. \A c \in 1 .. 5 : DiscovSubProt.packets[c].name = n[c]
    BY PacketName, PacketNames DEF DiscovSubProt
  <2>3. \A c, e \in 1 .. 5 : n[c] = n[e] => c = e
    OBVIOUS
  <2> HIDE DEF n
  <2> QED
    BY ONLY <2>1, <2>2, <2>3 DEF Unique
<1>2. Unique(PairSubProt.packets)
  <2> DEFINE n == <<"GenericError", "PairNode", "PairSuccess", "UnpairNode">>
  <2>1. DOMAIN PairSubProt.packets = 1 .. 4
    BY DEF PairSubProt
  <2>2. \A c \in 1 .. 4 : PairSubProt.packets[c].name = n[c]
    BY PacketName, PacketNames DEF PairSubProt
  <2>3. \A c, e \in 1 .. 4 : n[c] = n[e] => c = e
    OBVIOUS
  <2> HIDE DEF n
  <2> QED
    BY ONLY <2>1, <2>2, <2>3 DEF Unique
<1>3. Unique(ConfigSubProt.packets)
  <2> DEFINE n == <<"GenericError", "ValidateMACConfig", "SetMACConfig", "SetHostConfig",
                     "AddHostRoutes", "SetGlobalHostConfig", "ZeusSecurityConfig",
                     "StartConfigSetTransaction", "SelectConfigSlot", "FinalizeConfigSlot",
                     "ApplyConfigSet", "CommitConfigSet", "ReadConfigSetUID",
                     "ClearConfigSet">>
  <2>1. DOMAIN ConfigSubProt.packets = 1 .. 14
    BY DEF ConfigSubProt
  <2>2. \A c \in 1 .. 14 : ConfigSubProt.packets[c].name = n[c]
    BY PacketName, PacketNames DEF ConfigSubProt
  <2>3. \A c, e \in 1 .. 14 : n[c] = n[e] => c = e
    OBVIOUS
  <2> HIDE DEF n
  <2> QED
    BY ONLY <2>1, <2>2, <2>3 DEF Unique
<1>4. Unique(MeasSubProt.packets)
  <2> DEFINE n == <<"GenericError", "MeasurementStart", "MeasurementStop", "DemoStatus",
                     "MeasValidateConfig", "MeasSetConfig", "MeasLinkStatus", "RequestLog",
                     "ProtLogData", "ProtLogHeader">>
  <2>1. DOMAIN MeasSubProt.packets = 1 .. 10
    BY DEF MeasSubProt
  <2>2. \A c \in 1 .. 10 : MeasSubProt.packets[c].name = n[c]
    BY PacketName, PacketNames DEF MeasSubProt
  <2>3. \A c, e \in 1 .. 10 : n[c] = n[e] => c = e
    OBVIOUS
  <2> HIDE DEF n
  <2> QED
    BY ONLY <2>1, <2>2, <2>3 DEF Unique
<1>5. \A c, e \in DOMAIN DevControlSubProt.packets :
        DevControlSubProt.packets[c].name = DevControlSubProt.packets[e].name =>
          c = e \/ {c, e} = {2, 6}
  <2> DEFINE n == <<"GenericError", "DeprecatedPacket", "DeviceNuke", "DeviceDevelopment",
                     "DeviceDiagnostics", "DeprecatedPacket", "DeviceBridgeStart",
                     "DeviceBridgeStop">>
  <2>1. DOMAIN DevControlSubProt.packets = 1 .. 8
    BY DEF DevControlSubProt
  <2>2. \A c \in 1 .. 8 : DevControlSubProt.packets[c].name = n[c]
    BY PacketName, PacketNames DEF DevControlSubProt
  <2>3. \A c, e \in 1 .. 8 : n[c] = n[e] => c = e \/ {c, e} = {2, 6}
    OBVIOUS
  <2> HIDE DEF n
  <2> QED
    BY ONLY <2>1, <2>2, <2>3 DEF Unique
<1>6. Unique(UpdaterSubProt.packets)
  <2> DEFINE n == <<"GenericError", "UpdateQuery", "UpdateResponse", "UpdateStart",
                     "UpdateDownloadProgress", "UpdateDownloadFinish", "UpdateSuccess">>
  <2>1. DOMAIN UpdaterSubProt.packets = 1 .. 7
    BY DEF UpdaterSubProt
  <2>2. \A c \in 1 .. 7 : UpdaterSubProt.packets[c].name = n[c]
    BY PacketName, PacketNames DEF UpdaterSubProt
  <2>3. \A c, e \in 1 .. 7 : n[c] = n[e] => c = e
    OBVIOUS
  <2> HIDE DEF n
  <2> QED
    BY ONLY <2>1, <2>2, <2>3 DEF Unique
<1> QED
  BY <1>1, <1>2, <1>3, <1>4, <1>5, <1>6

\* The subprotocols, their versions and their commands.
LEMMA ProtocolsAre ==
  /\ DOMAIN Protocols = 1 .. 6
  /\ \A p \in 1 .. 6 : p # 5 => Unique(Protocols[p].packets)
  /\ Protocols[5] = DevControlSubProt
  /\ \A p \in 1 .. 6 : /\ Protocols[p].version \in Word
                       /\ Commands(p) \subseteq 1 .. 14 /\ Commands(p) = DOMAIN Protocols[p].packets
<1>1. /\ DOMAIN Protocols = 1 .. 6
      /\ Protocols[1] = DiscovSubProt
      /\ Protocols[2] = PairSubProt
      /\ Protocols[3] = ConfigSubProt
      /\ Protocols[4] = MeasSubProt
      /\ Protocols[5] = DevControlSubProt
      /\ Protocols[6] = UpdaterSubProt
  BY DEF Protocols
<1>2. \A p \in 1 .. 6 : p # 5 => Unique(Protocols[p].packets)
  BY ONLY <1>1, NamesAreUnique
<1>3. \A n \in 0 .. 9 : n \in Word
  <2>1. \A n \in 0 .. 9 : n \in Int /\ 0 <= n /\ n < 256 * 256
    OBVIOUS
  <2> QED
    BY <2>1, Words
<1>4. /\ DiscovSubProt.version \in 0 .. 9 /\ PairSubProt.version \in 0 .. 9
      /\ ConfigSubProt.version \in 0 .. 9 /\ MeasSubProt.version \in 0 .. 9
      /\ DevControlSubProt.version \in 0 .. 9 /\ UpdaterSubProt.version \in 0 .. 9
  BY DEF DiscovSubProt, PairSubProt, ConfigSubProt, MeasSubProt, DevControlSubProt, UpdaterSubProt
<1>5. \A p \in 1 .. 6 : Protocols[p].version \in Word
  BY ONLY <1>1, <1>3, <1>4
<1>6. /\ DOMAIN DiscovSubProt.packets \subseteq 1 .. 14 /\ DOMAIN PairSubProt.packets \subseteq 1 .. 14
      /\ DOMAIN ConfigSubProt.packets \subseteq 1 .. 14 /\ DOMAIN MeasSubProt.packets \subseteq 1 .. 14
      /\ DOMAIN DevControlSubProt.packets \subseteq 1 .. 14 /\ DOMAIN UpdaterSubProt.packets \subseteq 1 .. 14
  BY DEF DiscovSubProt, PairSubProt, ConfigSubProt, MeasSubProt, DevControlSubProt, UpdaterSubProt
<1>7. \A p \in 1 .. 6 : Commands(p) \subseteq 1 .. 14 /\ Commands(p) = DOMAIN Protocols[p].packets
  BY ONLY <1>1, <1>6 DEF Commands
<1> QED
  BY ONLY <1>1, <1>2, <1>5, <1>7

\* The command of a packet's name is the packet's, or that of DeprecatedPacket.
LEMMA CommandOfName ==
  ASSUME NEW p \in DOMAIN Protocols, NEW c \in Commands(p)
  PROVE  LET t == Protocols[p].packets[c]
             e == CommandOf(p, t.name)
         IN /\ e \in Commands(p) /\ Protocols[p].packets[e] = t
            /\ \/ e = c
               \/ p = 5 /\ c = 2 /\ t = DeprecatedPacket
<1> DEFINE P == Protocols[p].packets
           t == P[c]
           last(e) == P[e].name = t.name /\ \A f \in Commands(p) : P[f].name = t.name => f <= e
<1>1. p \in 1 .. 6 /\ c \in DOMAIN P /\ Commands(p) = DOMAIN P /\ \A e \in DOMAIN P : e \in Int
  BY ProtocolsAre
<1>2. CommandOf(p, t.name) = CHOOSE e \in Commands(p) : last(e)
  BY DEF CommandOf
<1>3. CASE p # 5
  <2>1. \A e \in DOMAIN P : P[e].name = t.name => e = c
    BY <1>1, <1>3, ProtocolsAre DEF Unique
  <2>2. \A e \in Commands(p) : last(e) <=> e = c
    BY <1>1, <2>1
  <2> HIDE DEF last, t, P
  <2>3. CommandOf(p, t.name) = c
    BY <1>1, <1>2, <2>2
  <2> QED
    BY <1>1, <2>3 DEF t, P
<1>4. CASE p = 5
  <2>1. P = DevControlSubProt.packets /\ DOMAIN P = 1 .. 8 /\ P[2] = DeprecatedPacket
        /\ P[6] = DeprecatedPacket
    BY <1>4, ProtocolsAre DEF DevControlSubProt
  <2>2. \A e \in DOMAIN P : P[e].name = t.name => e = c \/ {e, c} = {2, 6}
    BY <1>1, <2>1, NamesAreUnique
  <2>3. CASE c \notin {2, 6}
    <3>1. \A e \in Commands(p) : last(e) <=> e = c
      BY <1>1, <2>2, <2>3
    <3> HIDE DEF last, t, P
    <3>2. CommandOf(p, t.name) = c
      BY <1>1, <1>2, <3>1
    <3> QED
      BY <1>1, <3>2 DEF t, P
  <2>4. CASE c \in {2, 6}
    <3>1. t = DeprecatedPacket
      BY <2>1, <2>4
    <3>2. \A e \in Commands(p) : P[e].name = t.name <=> e \in {2, 6}
      BY <1>1, <2>1, <2>2, <2>4, <3>1
    <3>3. 2 \in Commands(p) /\ 6 \in Commands(p)
      BY <1>1, <2>1
    <3>4. \A e \in Commands(p) : last(e) <=> e = 6
      BY <1>1, <3>2, <3>3
    <3> HIDE DEF last
    <3>5. CommandOf(p, t.name) = 6
      BY <1>2, <3>3, <3>4
    <3> QED
      BY <1>1, <1>4, <2>1, <2>4, <3>1, <3>3, <3>5
  <2> QED
    BY <2>3, <2>4
<1> QED
  BY <1>3, <1>4

\* A message whose packet is registered.
Registered(m) ==
  /\ m.prot \in DOMAIN Protocols
  /\ \E c \in Commands(m.prot) : m.name = Protocols[m.prot].packets[c].name

\* A subprotocol and a command fit into a byte.
LEMMA CommandsAreBytes ==
  /\ \A p \in DOMAIN Protocols : p \in Byte /\ Commands(p) \subseteq Byte
  /\ Byte \subseteq Nat
<1>1. \A n \in 1 .. 14 : n \in Byte
  BY DEF Byte
<1>2. Byte \subseteq Nat
  BY DEF Byte
<1> QED
  BY <1>1, <1>2, ProtocolsAre

\* A message of a registered packet has a command and a type.
LEMMA TypeOfMessage ==
  ASSUME NEW m, Registered(m)
  PROVE  /\ CommandOf(m.prot, m.name) \in Commands(m.prot)
         /\ CommandOf(m.prot, m.name) \in Byte /\ m.prot \in Byte
         /\ TypeOf(m) = Protocols[m.prot].packets[CommandOf(m.prot, m.name)]
         /\ TypeOf(m).name = m.name
         /\ IsType(TypeOf(m))
<1>1. PICK c \in Commands(m.prot) : m.name = Protocols[m.prot].packets[c].name
  BY DEF Registered
<1>2. m.prot \in DOMAIN Protocols
  BY DEF Registered
<1>3. /\ CommandOf(m.prot, m.name) \in Commands(m.prot)
      /\ Protocols[m.prot].packets[CommandOf(m.prot, m.name)] = Protocols[m.prot].packets[c]
  BY <1>1, <1>2, CommandOfName
<1>4. TypeOf(m) = Protocols[m.prot].packets[CommandOf(m.prot, m.name)]
  BY DEF TypeOf
<1> QED
  BY <1>1, <1>2, <1>3, <1>4, PacketsAreTypes, CommandsAreBytes

-----------------------------------------------------------------------------
(* Headers *)

\* The datagram begins with the header of subprotocol p.
HasHeader(d, n, seq, p) ==
  /\ Len(d) >= 6
  /\ Holds(d, 0, BigEndian(n, 2))
  /\ d[3] = seq /\ d[4] = p
  /\ Holds(d, 4, BigEndian(Protocols[p].version, 2))

\* A header has six bytes, and a datagram that begins with it has it.
LEMMA HeaderBytes ==
  ASSUME NEW n \in Word, NEW seq \in Byte, NEW p \in DOMAIN Protocols
  PROVE  /\ Header(n, seq, p) \in Seq(Byte) /\ Len(Header(n, seq, p)) = 6
         /\ \A d \in Seq(Byte) : Holds(d, 0, Header(n, seq, p)) => HasHeader(d, n, seq, p)
         /\ HasHeader(Header(n, seq, p), n, seq, p)
<1> DEFINE a == BigEndian(n, 2)
           b == <<seq, p>>
           v == BigEndian(Protocols[p].version, 2)
<1>1. a \in Seq(Byte) /\ Len(a) = 2
  BY TwoBytes
<1>2. Protocols[p].version \in Word /\ p \in Byte
  BY ProtocolsAre, CommandsAreBytes
<1>3. v \in Seq(Byte) /\ Len(v) = 2
  BY <1>2, TwoBytes
<1>4. b \in Seq(Byte) /\ Len(b) = 2 /\ b[1] = seq /\ b[2] = p
  BY <1>2
<1>5. Header(n, seq, p) = (a \o b) \o v
  BY DEF Header
<1>6. \A d : HasHeader(d, n, seq, p)
               <=> Len(d) >= 6 /\ Holds(d, 0, a) /\ d[3] = seq /\ d[4] = p /\ Holds(d, 4, v)
  BY DEF HasHeader
<1> HIDE DEF a, b, v
<1>7. a \o b \in Seq(Byte) /\ Len(a \o b) = 4
  <2>1. a \o b \in Seq(Byte) /\ Len(a \o b) = Len(a) + Len(b)
    BY <1>1, <1>4, ConcatProperties
  <2> QED
    BY <1>1, <1>4, <2>1
<1>8. Header(n, seq, p) \in Seq(Byte) /\ Len(Header(n, seq, p)) = 6
  <2>1. (a \o b) \o v \in Seq(Byte) /\ Len((a \o b) \o v) = Len(a \o b) + Len(v)
    BY <1>3, <1>7, ConcatProperties
  <2> QED
    BY <1>3, <1>5, <1>7, <2>1
<1>9. ASSUME NEW d \in Seq(Byte), Holds(d, 0, Header(n, seq, p)) PROVE HasHeader(d, n, seq, p)
  <2>1. Holds(d, 0, a \o b) /\ Holds(d, 4, v)
    <3>1. Holds(d, 0, a \o b) /\ Holds(d, 0 + Len(a \o b), v)
      BY <1>3, <1>5, <1>7, <1>9, HeldParts
    <3> QED
      BY <1>7, <3>1
  <2>2. Holds(d, 0, a) /\ Holds(d, 2, b)
    <3>1. Holds(d, 0, a) /\ Holds(d, 0 + Len(a), b)
      BY <1>1, <1>4, <2>1, HeldParts
    <3> QED
      BY <1>1, <3>1
  <2>3. d[3] = seq /\ d[4] = p
    <3>1. d[2 + 1] = b[1] /\ d[2 + 2] = b[2]
      BY <1>4, <2>2 DEF Holds
    <3> QED
      BY <1>4, <3>1
  <2>4. Len(d) >= 6
    <3>1. 4 + 2 <= Len(d)
      BY <1>3, <2>1 DEF Holds
    <3> QED
      BY <3>1
  <2> QED
    BY <1>6, <2>1, <2>2, <2>3, <2>4
<1>10. Holds(Header(n, seq, p), 0, Header(n, seq, p))
  BY <1>8 DEF Holds
<1> QED
  BY <1>8, <1>9, <1>10

\* What the header decides.
LEMMA HeaderDecides ==
  ASSUME NEW d \in Seq(Byte), NEW n \in Word, NEW seq, NEW p \in DOMAIN Protocols,
         HasHeader(d, n, seq, p)
  PROVE  Deserialize(d) = IF n # Len(d) \/ Len(d) = 6 THEN Fails("DeserializeError")
                                                      ELSE UnpackContent(p, d)
<1>1. Len(d) >= 6 /\ d[4] = p /\ Holds(d, 0, BigEndian(n, 2))
      /\ Holds(d, 4, BigEndian(Protocols[p].version, 2))
  BY DEF HasHeader
<1>2. Protocols[p].version \in Word
  BY ProtocolsAre
<1>3. /\ BigEndian(n, 2) \in Seq(Byte) /\ Len(BigEndian(n, 2)) = 2
      /\ FromBigEndian(BigEndian(n, 2)) = n
  BY TwoBytes
<1>4. /\ BigEndian(Protocols[p].version, 2) \in Seq(Byte)
      /\ Len(BigEndian(Protocols[p].version, 2)) = 2
      /\ FromBigEndian(BigEndian(Protocols[p].version, 2)) = Protocols[p].version
  BY <1>2, TwoBytes
<1>5. Bytes(d, 0, 2) = BigEndian(n, 2)
  <2>1. Bytes(d, 0, Len(BigEndian(n, 2))) = BigEndian(n, 2)
    BY <1>1, <1>3, HeldBytes
  <2> QED
    BY <1>3, <2>1
<1>6. Bytes(d, 4, 2) = BigEndian(Protocols[p].version, 2)
  <2> DEFINE v == BigEndian(Protocols[p].version, 2)
  <2> HIDE DEF v
  <2>1. 4 \in Nat /\ v \in Seq(Byte) /\ Len(v) = 2 /\ Holds(d, 4, v)
    BY <1>1, <1>4 DEF v
  <2>2. Bytes(d, 4, Len(v)) = v
    BY ONLY <2>1, d \in Seq(Byte), HeldBytes
  <2> QED
    BY <2>1, <2>2 DEF v
<1>7. ~(Len(d) < HDR_SIZE \/ d[4] \notin DOMAIN Protocols)
  BY <1>1 DEF HDR_SIZE
<1> QED
  BY <1>1, <1>3, <1>4, <1>5, <1>6, <1>7 DEF Deserialize, HDR_SIZE

\* What becomes of a datagram behind its header.
LEMMA ContentIs ==
  ASSUME NEW d \in Seq(Byte), NEW p \in DOMAIN Protocols
  PROVE  LET c == d[7]
             u == Unpack(Protocols[p].packets[c], d, 7)
             m == [prot |-> p, name |-> Protocols[p].packets[c].name, content |-> u.value]
         IN /\ c \notin Commands(p) => UnpackContent(p, d) = Fails("DeserializeError")
            /\ c \in Commands(p) /\ u.error # "none" => UnpackContent(p, d) = Fails(u.error)
            /\ c \in Commands(p) /\ u.error = "none" /\ u.next # Len(d) =>
                 UnpackContent(p, d) = Fails("DeserializeError")
            /\ c \in Commands(p) /\ u.error = "none" /\ u.next = Len(d) =>
                 UnpackContent(p, d) = Received(d[3], m)
<1>1. HDR_SIZE + 1 = 7
  BY DEF HDR_SIZE
<1> QED
  BY <1>1, Zenon DEF UnpackContent

\* Messages that createPacket sends.
Serializable(m) ==
  /\ Registered(m)
  /\ Valid(TypeOf(m), m.content) /\ PackErrors(TypeOf(m), m.content) = {}
  /\ ~TooLong(m)

\* The datagram of a message whose packet packs to bytes that a header can count.
LEMMA DatagramOf ==
  ASSUME NEW m, Registered(m), NEW seq \in Byte,
         Pack(TypeOf(m), m.content) \in Seq(Byte), 7 + Len(Pack(TypeOf(m), m.content)) \in Word
  PROVE  LET d == Serialize(m, seq)
             packed == Pack(TypeOf(m), m.content)
         IN /\ packed \in Seq(Byte)
            /\ d \in Seq(Byte)
            /\ Len(d) = 7 + Len(packed) /\ Len(d) = Len(Body(m)) + HDR_SIZE /\ Len(d) \in Word
            /\ HasHeader(d, Len(d), seq, m.prot)
            /\ d[7] = CommandOf(m.prot, m.name)
            /\ Holds(d, 7, packed)
<1> DEFINE d == Serialize(m, seq)
           packed == Pack(TypeOf(m), m.content)
           c == CommandOf(m.prot, m.name)
           n == Len(Body(m)) + HDR_SIZE
           h == Header(n, seq, m.prot)
<1>1. Registered(m) /\ m.prot \in DOMAIN Protocols
  BY DEF Registered
<1>2. c \in Byte /\ IsType(TypeOf(m))
  BY <1>1, TypeOfMessage
<1>3. packed \in Seq(Byte)
  OBVIOUS
<1>9. 7 + Len(packed) \in Word
  OBVIOUS
<1>4. Body(m) = <<c>> \o packed /\ d = h \o Body(m)
  BY DEF Body, Serialize
<1> HIDE DEF packed, c, d
<1>6. <<c>> \in Seq(Byte) /\ Len(<<c>>) = 1 /\ <<c>>[1] = c
  BY <1>2
<1>7. Body(m) \in Seq(Byte) /\ Len(Body(m)) = 1 + Len(packed) /\ Len(packed) \in Nat
  <2>1. <<c>> \o packed \in Seq(Byte) /\ Len(<<c>> \o packed) = Len(<<c>>) + Len(packed)
    BY <1>3, <1>6, ConcatProperties
  <2> QED
    BY <1>3, <1>4, <1>6, <2>1
<1>8. n = 7 + Len(packed) /\ n \in Nat
  BY <1>7 DEF HDR_SIZE
<1>10. n \in Word /\ n = Len(Body(m)) + HDR_SIZE
  BY <1>8, <1>9
<1> HIDE DEF n
<1>11. h \in Seq(Byte) /\ Len(h) = 6
       /\ \A e \in Seq(Byte) : Holds(e, 0, h) => HasHeader(e, n, seq, m.prot)
  BY <1>1, <1>10, HeaderBytes
<1> HIDE DEF h
<1>12. d \in Seq(Byte) /\ Len(d) = n
  <2>1. h \o Body(m) \in Seq(Byte) /\ Len(h \o Body(m)) = Len(h) + Len(Body(m))
    BY <1>7, <1>11, ConcatProperties
  <2> QED
    BY <1>4, <1>7, <1>8, <1>11, <2>1
<1>13. Holds(d, 0, d)
  BY <1>12 DEF Holds
<1>14. Holds(d, 0, h) /\ Holds(d, 6, Body(m))
  <2>1. Holds(d, 0, h) /\ Holds(d, 0 + Len(h), Body(m))
    BY <1>4, <1>7, <1>11, <1>12, <1>13, HeldParts
  <2> QED
    BY <1>11, <2>1
<1>15. Holds(d, 6, <<c>>) /\ Holds(d, 7, packed)
  <2>1. Holds(d, 6, <<c>>) /\ Holds(d, 6 + Len(<<c>>), packed)
    <3>1. PICK k \in Nat : k = 6
      OBVIOUS
    <3>2. Holds(d, k, <<c>> \o packed) /\ d \in Seq(Byte)
      BY <1>4, <1>12, <1>14, <3>1
    <3>3. Holds(d, k, <<c>>) /\ Holds(d, k + Len(<<c>>), packed)
      BY ONLY <1>3, <1>6, <3>2, k \in Nat, HeldParts
    <3> QED
      BY <3>1, <3>3
  <2>2. 6 + Len(<<c>>) = 7
    BY <1>6
  <2> QED
    BY <2>1, <2>2
<1>16. d[7] = c
  <2>1. d[6 + 1] = <<c>>[1]
    BY <1>6, <1>15 DEF Holds
  <2>2. 6 + 1 = 7
    OBVIOUS
  <2> QED
    BY <1>6, <2>1, <2>2
<1>17. HasHeader(d, n, seq, m.prot)
  BY <1>11, <1>12, <1>14
<1>18. /\ Len(d) = 7 + Len(packed) /\ Len(d) = Len(Body(m)) + HDR_SIZE /\ Len(d) \in Word
       /\ HasHeader(d, Len(d), seq, m.prot)
  BY <1>8, <1>10, <1>12, <1>17
<1> QED
  BY <1>3, <1>12, <1>15, <1>16, <1>18 DEF d, c, packed

\* The datagram of a message that createPacket sends.
LEMMA SentDatagram ==
  ASSUME NEW m, Serializable(m), NEW seq \in Byte
  PROVE  LET d == Serialize(m, seq)
             packed == Pack(TypeOf(m), m.content)
         IN /\ packed \in Seq(Byte)
            /\ d \in Seq(Byte)
            /\ Len(d) = 7 + Len(packed) /\ Len(d) \in Word /\ Len(d) <= PACKET_SIZE_LIMIT + HDR_SIZE
            /\ HasHeader(d, Len(d), seq, m.prot)
            /\ d[7] = CommandOf(m.prot, m.name)
            /\ Holds(d, 7, packed)
<1> DEFINE packed == Pack(TypeOf(m), m.content)
           d == Serialize(m, seq)
           c == CommandOf(m.prot, m.name)
<1>1. Registered(m) /\ IsType(TypeOf(m)) /\ c \in Byte
  BY TypeOfMessage DEF Serializable
<1>2. packed \in Seq(Byte)
  BY <1>1, CodecIsCorrect DEF CodecWrites, Serializable
<1>3. Len(Body(m)) = 1 + Len(packed) /\ Len(packed) \in Nat
  <2>1. Body(m) = <<c>> \o packed
    BY DEF Body
  <2> HIDE DEF packed, c
  <2>2. <<c>> \in Seq(Byte) /\ Len(<<c>>) = 1
    BY <1>1
  <2>3. Len(<<c>> \o packed) = Len(<<c>>) + Len(packed)
    BY <1>2, <2>2, ConcatProperties
  <2> QED
    BY <1>2, <2>1, <2>2, <2>3
<1>4. ~(Len(Body(m)) > PACKET_SIZE_LIMIT)
  BY DEF Serializable, TooLong
<1>5. 7 + Len(packed) \in Word
  <2>1. 7 + Len(packed) < 256 * 256 /\ 7 + Len(packed) \in Int /\ 0 <= 7 + Len(packed)
    BY <1>3, <1>4 DEF PACKET_SIZE_LIMIT
  <2> QED
    BY <2>1, Words
<1>6. /\ d \in Seq(Byte) /\ Len(d) = 7 + Len(packed) /\ Len(d) = Len(Body(m)) + HDR_SIZE
      /\ Len(d) \in Word /\ HasHeader(d, Len(d), seq, m.prot)
      /\ d[7] = c /\ Holds(d, 7, packed)
  BY <1>1, <1>2, <1>5, DatagramOf
<1>7. Len(d) <= PACKET_SIZE_LIMIT + HDR_SIZE
  BY <1>3, <1>4, <1>6 DEF PACKET_SIZE_LIMIT, HDR_SIZE
<1> QED
  BY <1>2, <1>6, <1>7

\* A datagram that arrives as it was sent is the message again.
LEMMA SentIsReceived ==
  ASSUME NEW m, Serializable(m), NEW seq \in Byte, Plain(TypeOf(m), m.content)
  PROVE  Deserialize(Serialize(m, seq))
           = Received(seq, [prot |-> m.prot, name |-> m.name,
                            content |-> Filled(TypeOf(m), m.content)])
<1> DEFINE d == Serialize(m, seq)
           packed == Pack(TypeOf(m), m.content)
           p == m.prot
           t == TypeOf(m)
           u == Unpack(t, d, 7)
<1>1. /\ packed \in Seq(Byte) /\ d \in Seq(Byte) /\ Len(d) = 7 + Len(packed) /\ Len(d) \in Word
      /\ HasHeader(d, Len(d), seq, p) /\ d[7] = CommandOf(p, m.name) /\ Holds(d, 7, packed)
  BY SentDatagram
<1>2. Registered(m) /\ p \in DOMAIN Protocols
  BY DEF Serializable, Registered
<1>3. /\ d[7] \in Commands(p) /\ Protocols[p].packets[d[7]] = t /\ t.name = m.name /\ IsType(t)
  BY <1>1, <1>2, TypeOfMessage
<1>4. u = Read(Filled(t, m.content), 7 + Len(packed))
  <2>1. Valid(t, m.content) /\ PackErrors(t, m.content) = {} /\ Plain(t, m.content) /\ 7 \in Nat
    BY DEF Serializable
  <2>2. Holds(d, 7, Pack(t, m.content))
    BY <1>1
  <2>3. packed = Pack(t, m.content)
    OBVIOUS
  <2> HIDE DEF d, t, packed
  <2>4. Unpack(t, d, 7) = Read(Filled(t, m.content), 7 + Len(Pack(t, m.content)))
    BY <1>1, <1>3, <2>1, <2>2, CodecIsCorrect DEF CodecReadsBack
  <2> QED
    BY <2>3, <2>4
<1> HIDE DEF d, packed, p, t, u
<1>5. u.error = "none" /\ u.next = Len(d) /\ u.value = Filled(t, m.content)
  BY <1>1, <1>4 DEF Read
<1>6. Len(d) # 6
  BY <1>1
<1>7. Deserialize(d) = UnpackContent(p, d)
  BY <1>1, <1>2, <1>6, HeaderDecides
<1>8. d[3] = seq
  BY <1>1 DEF HasHeader
<1>9. UnpackContent(p, d) = Received(d[3], [prot |-> p, name |-> t.name, content |-> u.value])
  BY <1>1, <1>2, <1>3, <1>5, ContentIs DEF u
<1> QED
  BY <1>3, <1>5, <1>7, <1>8, <1>9 DEF d, p, t

\* A datagram whose packet has fewer or more bytes than its fields is not read.
LEMMA OtherLength ==
  ASSUME NEW m, Serializable(m), NEW seq \in Byte,
         NEW e \in Seq(Byte), NEW n \in Word, HasHeader(e, n, seq, m.prot),
         Len(e) # Len(Serialize(m, seq)),
         \A i \in 7 .. Len(e) : i <= Len(Serialize(m, seq)) => e[i] = Serialize(m, seq)[i]
  PROVE  Deserialize(e).error \in {"DeserializeError", "SerializeError"}
<1> DEFINE d == Serialize(m, seq)
           packed == Pack(TypeOf(m), m.content)
           p == m.prot
           t == TypeOf(m)
           u == Unpack(t, e, 7)
<1>0. Fails("DeserializeError").error = "DeserializeError"
      /\ \A x : Fails(x).error = x
  BY DEF Fails
<1>1. /\ packed \in Seq(Byte) /\ d \in Seq(Byte) /\ Len(d) = 7 + Len(packed) /\ Len(d) \in Word
      /\ HasHeader(d, Len(d), seq, p) /\ d[7] = CommandOf(p, m.name) /\ Holds(d, 7, packed)
  BY SentDatagram
<1>2. Registered(m) /\ p \in DOMAIN Protocols
  BY DEF Serializable, Registered
<1>3. /\ d[7] \in Commands(p) /\ Protocols[p].packets[d[7]] = t /\ IsType(t)
  BY <1>1, <1>2, TypeOfMessage
<1>4. Valid(t, m.content) /\ PackErrors(t, m.content) = {} /\ 7 \in Nat
  BY DEF Serializable
<1>5. Len(e) # Len(d) /\ \A i \in 7 .. Len(e) : i <= Len(d) => e[i] = d[i]
  OBVIOUS
<1>6. HasHeader(e, n, seq, p) /\ Len(e) >= 6
  BY DEF HasHeader
<1> HIDE DEF d, packed, p, t
<1>7. CASE n # Len(e) \/ Len(e) = 6
  <2>1. Deserialize(e) = Fails("DeserializeError")
    BY <1>2, <1>6, <1>7, HeaderDecides
  <2> QED
    BY <1>0, <2>1
<1>8. CASE n = Len(e) /\ Len(e) # 6
  <2>1. Deserialize(e) = UnpackContent(p, e)
    BY <1>2, <1>6, <1>8, HeaderDecides
  <2>2. e[7] = d[7]
    BY <1>1, <1>5, <1>6, <1>8
  <2>3. Protocols[p].packets[e[7]] = t /\ e[7] \in Commands(p)
    BY <1>3, <2>2
  <2>4. Len(e) >= 7 /\ Len(e) \in Nat
    BY <1>6, <1>8
  <2>5. u.error \in {"none", "DeserializeError", "SerializeError"}
    BY <1>3, <1>4, CodecIsCorrect DEF CodecReads
  <2>6. ASSUME u.error = "none", u.next = Len(e) PROVE FALSE
    <3>1. CASE Len(e) < Len(d)
      <4>1. \A i \in 7 + 1 .. u.next : d[i] = e[i]
        BY <1>1, <1>5, <2>4, <2>6, <3>1
      <4>2. u.next <= Len(e) /\ u.next <= Len(d)
        BY <1>1, <2>4, <2>6, <3>1
      <4>3. Unpack(t, d, 7) = u
        BY <1>1, <1>3, <1>4, <2>6, <4>1, <4>2, CodecIsCorrect DEF CodecIsLocal
      <4>4. u.next = 7 + Len(packed)
        BY <1>1, <1>3, <1>4, <2>6, <4>3, CodecIsCorrect DEF CodecReadsBack, packed, t
      <4> QED
        BY <1>1, <2>6, <3>1, <4>4
    <3>2. CASE Len(e) > Len(d)
      <4>1. Holds(e, 7, packed)
        <5>1. 7 + Len(packed) <= Len(e)
          BY <1>1, <2>4, <3>2
        <5>2. ASSUME NEW i \in 1 .. Len(packed) PROVE e[7 + i] = packed[i]
          <6>1. d[7 + i] = packed[i]
            BY <1>1 DEF Holds
          <6>2. 7 + i \in 7 .. Len(e) /\ 7 + i <= Len(d)
            BY <1>1, <2>4, <5>1
          <6> QED
            BY <1>5, <6>1, <6>2
        <5> QED
          BY <5>1, <5>2 DEF Holds
      <4>2. u.next = 7 + Len(packed)
        BY <1>3, <1>4, <2>6, <4>1, CodecIsCorrect DEF CodecReadsBack, packed, t
      <4> QED
        BY <1>1, <2>6, <3>2, <4>2
    <3> QED
      BY <1>1, <1>5, <2>4, <3>1, <3>2
  <2> DEFINE v == Unpack(Protocols[p].packets[e[7]], e, 7)
  <2>7. v = u
    BY <2>3
  <2>8. /\ v.error # "none" => UnpackContent(p, e) = Fails(v.error)
        /\ v.error = "none" /\ v.next # Len(e) => UnpackContent(p, e) = Fails("DeserializeError")
    BY <1>2, <2>3, ContentIs
  <2> HIDE DEF u, v
  <2>9. CASE u.error = "none"
    <3>1. Deserialize(e) = Fails("DeserializeError")
      BY <2>1, <2>6, <2>7, <2>8, <2>9
    <3> QED
      BY <1>0, <3>1
  <2>10. CASE u.error # "none"
    <3>1. Deserialize(e) = Fails(u.error)
      BY <2>1, <2>7, <2>8, <2>10
    <3> QED
      BY <1>0, <2>5, <2>10, <3>1
  <2> QED
    BY <2>9, <2>10
<1> QED
  BY <1>7, <1>8

\* A datagram is dropped for its header, or its content decides.
LEMMA HeaderOutcome ==
  ASSUME NEW d \in Seq(Byte)
  PROVE  \/ Deserialize(d) \in {Fails("DeserializeError"), Fails("DeserializeVersionError")}
         \/ /\ Len(d) >= 7 /\ Len(d) \in Word
            /\ d[4] \in DOMAIN Protocols
            /\ HasHeader(d, Len(d), d[3], d[4])
            /\ Deserialize(d) = UnpackContent(d[4], d)
<1> DEFINE p == d[4]
           refused == {Fails("DeserializeError"), Fails("DeserializeVersionError")}
           version == FromBigEndian(Bytes(d, 4, 2))
           length == FromBigEndian(Bytes(d, 0, 2))
<1>1. HDR_SIZE = 6
  BY DEF HDR_SIZE
<1>2. CASE Len(d) < HDR_SIZE \/ d[4] \notin DOMAIN Protocols
  <2>1. Deserialize(d) = Fails("DeserializeError")
    BY <1>2 DEF Deserialize
  <2> QED
    BY <2>1
<1>3. CASE ~(Len(d) < HDR_SIZE \/ d[4] \notin DOMAIN Protocols)
  <2>1. Len(d) >= 6 /\ p \in DOMAIN Protocols
    BY <1>1, <1>3
  <2>2. Deserialize(d) =
          IF version # Protocols[p].version THEN Fails("DeserializeVersionError")
          ELSE IF length # Len(d) \/ Len(d) = 6 THEN Fails("DeserializeError")
                                                ELSE UnpackContent(p, d)
    BY <1>1, <1>3 DEF Deserialize
  <2>3. \/ Deserialize(d) \in refused
        \/ /\ version = Protocols[p].version /\ length = Len(d) /\ Len(d) # 6
           /\ Deserialize(d) = UnpackContent(p, d)
    <3> HIDE DEF version, length, p
    <3> QED
      BY <2>2
  <2>4. ASSUME version = Protocols[p].version, length = Len(d), Len(d) # 6,
               Deserialize(d) = UnpackContent(p, d)
        PROVE  Len(d) >= 7 /\ Len(d) \in Word /\ HasHeader(d, Len(d), d[3], d[4])
    <3>1. Len(d) >= 7
      BY <2>1, <2>4
    <3> DEFINE a == Bytes(d, 0, 2)
               b == Bytes(d, 4, 2)
    <3>2. HasBytes(d, 0, 2) /\ HasBytes(d, 4, 2)
      BY <2>1 DEF HasBytes
    <3>3. /\ a \in Seq(Byte) /\ Len(a) = 2 /\ \A i \in 1 .. 2 : a[i] = d[0 + i]
      <4>1. PICK z \in Nat : z = 0
        OBVIOUS
      <4>2. PICK w \in Nat : w = 2
        OBVIOUS
      <4> QED
        BY <3>2, <4>1, <4>2, BytesOf
    <3>4. /\ b \in Seq(Byte) /\ Len(b) = 2 /\ \A i \in 1 .. 2 : b[i] = d[4 + i]
      <4>1. PICK z \in Nat : z = 4
        OBVIOUS
      <4>2. PICK w \in Nat : w = 2
        OBVIOUS
      <4> QED
        BY <3>2, <4>1, <4>2, BytesOf
    <3>5. FromBigEndian(a) \in Word /\ BigEndian(FromBigEndian(a), 2) = a
      BY <3>3, TwoBytes
    <3>6. BigEndian(FromBigEndian(b), 2) = b
      BY <3>4, TwoBytes
    <3>7. FromBigEndian(a) = Len(d) /\ FromBigEndian(b) = Protocols[p].version
      BY <2>4
    <3> HIDE DEF a, b, version, length
    <3>8. Holds(d, 0, a) /\ Holds(d, 4, b)
      BY <2>1, <3>3, <3>4 DEF Holds
    <3>9. BigEndian(Len(d), 2) = a /\ BigEndian(Protocols[p].version, 2) = b /\ Len(d) \in Word
      BY <3>5, <3>6, <3>7
    <3> QED
      BY <2>1, <3>1, <3>8, <3>9 DEF HasHeader
  <2> HIDE DEF version, length
  <2> QED
    BY <2>1, <2>3, <2>4
<1> QED
  BY <1>2, <1>3

\* What a datagram holds that is delivered.
Delivers(d) ==
  LET p == d[4]
      t == Protocols[d[4]].packets[d[7]]
      u == Unpack(Protocols[d[4]].packets[d[7]], d, 7)
  IN /\ Len(d) >= 7 /\ Len(d) \in Word /\ HasHeader(d, Len(d), d[3], p)
     /\ p \in DOMAIN Protocols /\ d[7] \in Commands(p)
     /\ u.error = "none" /\ u.next = Len(d)
     /\ Deserialize(d) = Received(d[3], [prot |-> p, name |-> t.name, content |-> u.value])

\* A datagram that is not delivered is dropped, or a string of it is not read.
LEMMA Outcomes ==
  ASSUME NEW d \in Seq(Byte)
  PROVE  \/ Deserialize(d) \in {Fails("DeserializeError"), Fails("DeserializeVersionError")}
         \/ /\ Deserialize(d) = Fails("SerializeError")
            /\ \E i \in 8 .. Len(d) : d[i] = 0
            /\ HoldsText(Protocols[d[4]].packets[d[7]])
         \/ Delivers(d)
<1> DEFINE p == d[4]
           c == d[7]
           t == Protocols[p].packets[c]
           u == Unpack(t, d, 7)
           m == [prot |-> p, name |-> t.name, content |-> u.value]
<1> SUFFICES ASSUME Deserialize(d) \notin {Fails("DeserializeError"),
                                            Fails("DeserializeVersionError")}
             PROVE  \/ /\ Deserialize(d) = Fails("SerializeError")
                       /\ \E i \in 8 .. Len(d) : d[i] = 0
                       /\ HoldsText(t)
                    \/ Delivers(d)
  OBVIOUS
<1>1. /\ Len(d) >= 7 /\ Len(d) \in Word /\ p \in DOMAIN Protocols
      /\ HasHeader(d, Len(d), d[3], p) /\ Deserialize(d) = UnpackContent(p, d)
  BY HeaderOutcome
<1>2. /\ c \notin Commands(p) => UnpackContent(p, d) = Fails("DeserializeError")
      /\ c \in Commands(p) /\ u.error # "none" => UnpackContent(p, d) = Fails(u.error)
      /\ c \in Commands(p) /\ u.error = "none" /\ u.next # Len(d) =>
           UnpackContent(p, d) = Fails("DeserializeError")
      /\ c \in Commands(p) /\ u.error = "none" /\ u.next = Len(d) =>
           UnpackContent(p, d) = Received(d[3], m)
  BY <1>1, ContentIs
<1>3. c \in Commands(p)
  BY <1>1, <1>2
<1>4. IsType(t) /\ 7 \in Nat
  BY <1>1, <1>3, PacketsAreTypes
<1>5. /\ u.error \in {"none", "DeserializeError", "SerializeError"}
      /\ u.error = "SerializeError" => HoldsText(t) /\ \E i \in 7 + 1 .. Len(d) : d[i] = 0
  BY <1>4, CodecIsCorrect DEF CodecReads
<1>6. CASE u.error = "none"
  <2>1. u.next = Len(d) /\ Deserialize(d) = Received(d[3], m)
    BY <1>1, <1>2, <1>3, <1>6
  <2> QED
    BY <1>1, <1>3, <1>6, <2>1 DEF Delivers
<1>7. CASE u.error # "none"
  <2>1. Deserialize(d) = Fails(u.error) /\ u.error = "SerializeError"
    <3> HIDE DEF u
    <3> QED
      BY <1>1, <1>2, <1>3, <1>5, <1>7
  <2>2. \E i \in 8 .. Len(d) : d[i] = 0
    <3>1. 7 + 1 = 8
      OBVIOUS
    <3> QED
      BY <1>5, <2>1, <3>1
  <2> QED
    BY <1>5, <2>1, <2>2
<1> QED
  BY <1>6, <1>7

\* Two datagrams with the same header.
LEMMA SameHeader ==
  ASSUME NEW d, NEW e, NEW n \in Word, NEW seq, NEW p \in DOMAIN Protocols,
         HasHeader(d, n, seq, p), HasHeader(e, n, seq, p)
  PROVE  \A i \in 1 .. 6 : d[i] = e[i]
<1> DEFINE a == BigEndian(n, 2)
           v == BigEndian(Protocols[p].version, 2)
<1>1. Len(a) = 2 /\ Len(v) = 2
  BY ProtocolsAre, TwoBytes
<1>2. /\ Holds(d, 0, a) /\ Holds(e, 0, a) /\ Holds(d, 4, v) /\ Holds(e, 4, v)
      /\ d[3] = seq /\ e[3] = seq /\ d[4] = p /\ e[4] = p
  BY DEF HasHeader
<1> HIDE DEF a, v
<1>3. \A i \in 1 .. 2 : d[0 + i] = a[i] /\ e[0 + i] = a[i]
  BY <1>1, <1>2 DEF Holds
<1>4. \A i \in 1 .. 2 : d[4 + i] = v[i] /\ e[4 + i] = v[i]
  BY <1>1, <1>2 DEF Holds
<1>5. d[0 + 1] = e[0 + 1] /\ d[0 + 2] = e[0 + 2] /\ d[4 + 1] = e[4 + 1] /\ d[4 + 2] = e[4 + 2]
  BY <1>3, <1>4
<1>6. d[1] = e[1] /\ d[2] = e[2] /\ d[3] = e[3] /\ d[4] = e[4] /\ d[5] = e[5] /\ d[6] = e[6]
  BY <1>2, <1>5
<1>7. \A i \in 1 .. 6 : i = 1 \/ i = 2 \/ i = 3 \/ i = 4 \/ i = 5 \/ i = 6
  OBVIOUS
<1> QED
  BY <1>6, <1>7

\* A datagram with the header, the command and the packet of a message is the
\* message's.
LEMMA IsDatagramOf ==
  ASSUME NEW m, Registered(m), NEW seq \in Byte,
         NEW d \in Seq(Byte), Len(d) \in Word, Len(d) >= 7, HasHeader(d, Len(d), seq, m.prot),
         d[7] = CommandOf(m.prot, m.name), Pack(TypeOf(m), m.content) = SubSeq(d, 8, Len(d))
  PROVE  Serialize(m, seq) = d
<1> DEFINE packed == Pack(TypeOf(m), m.content)
           s == Serialize(m, seq)
<1>0. PICK k \in Nat : k = 7
  OBVIOUS
<1> DEFINE rest == SubSeq(d, k + 1, Len(d))
<1>1. rest \in Seq(Byte) /\ Len(rest) = Len(d) - k /\ \A i \in 1 .. Len(d) - k : rest[i] = d[k + i]
  <2>1. k <= Len(d)
    BY <1>0
  <2> QED
    BY ONLY <2>1, k \in Nat, d \in Seq(Byte)
<1>2. packed \in Seq(Byte) /\ Len(packed) = Len(d) - 7
      /\ \A i \in 1 .. Len(d) - 7 : packed[i] = d[7 + i]
  <2>1. packed = rest
    BY <1>0
  <2> HIDE DEF packed, rest
  <2> QED
    BY <1>0, <1>1, <2>1
<1>3. 7 + Len(packed) \in Word
  BY <1>2
<1>4. /\ s \in Seq(Byte) /\ Len(s) = 7 + Len(packed) /\ HasHeader(s, Len(s), seq, m.prot)
      /\ s[7] = CommandOf(m.prot, m.name) /\ Holds(s, 7, packed)
  BY <1>2, <1>3, DatagramOf
<1>5. m.prot \in DOMAIN Protocols
  BY DEF Registered
<1> HIDE DEF packed, s
<1>6. Len(s) = Len(d)
  BY <1>2, <1>4
<1>7. \A i \in 1 .. 6 : s[i] = d[i]
  BY <1>4, <1>5, <1>6, SameHeader
<1>8. ASSUME NEW i \in 1 .. Len(d) PROVE s[i] = d[i]
  <2>1. CASE i <= 6
    BY <1>7, <2>1
  <2>2. CASE i = 7
    BY <1>4, <2>2
  <2>3. CASE i >= 8
    <3>1. i - 7 \in 1 .. Len(packed) /\ 7 + (i - 7) = i
      BY <1>2, <2>3
    <3>2. s[7 + (i - 7)] = packed[i - 7]
      BY <1>4, <3>1 DEF Holds
    <3>3. packed[i - 7] = d[7 + (i - 7)]
      BY <1>2, <3>1
    <3> QED
      BY <3>1, <3>2, <3>3
  <2> QED
    BY <2>1, <2>2, <2>3
<1>9. s = d
  BY <1>4, <1>6, <1>8, SeqEqual
<1> QED
  BY <1>9 DEF s

\* A packet without fields takes no bytes.
LEMMA EmptyIsRead ==
  ASSUME NEW d, NEW at \in Nat
  PROVE  Unpack(DeprecatedPacket, d, at).next = at
<1> DEFINE t == DeprecatedPacket
           n == Len(t.fields)
<1>1. t.kind = "packet" /\ n = 0
  BY DEF DeprecatedPacket, Packet
<1> HIDE DEF t
<1>2. L5!Unpack(t, d, at) = L5!UnpackParts(t, n, d, at)
  BY <1>1 DEF L5!Unpack
<1>3. L5!UnpackParts(t, n, d, at) = L5!Rest(t, n, d, 0, at)
  BY <1>1, Zenon DEF L5!UnpackParts, L5!Rest
<1>4. L5!Rest(t, n, d, 0, at) = L5!Read(<<>>, at)
  BY L5!NothingIsLeft
<1>5. Unpack(t, d, at).next = at
  BY <1>2, <1>3, <1>4 DEF Unpack, L5!Read
<1> QED
  BY <1>5 DEF t

\* The datagram of a DeprecatedPacket, with the first command it is registered for.
LEMMA DeprecatedDatagram ==
  ASSUME NEW d \in Seq(Byte), Len(d) = 7, HasHeader(d, 7, d[3], 5), d[7] = 2
  PROVE  d = Header(HDR_SIZE + 1, d[3], 5) \o <<2>>
<1> DEFINE h == Header(7, d[3], 5)
           b == <<2>>
<1>1. HDR_SIZE + 1 = 7 /\ 5 \in DOMAIN Protocols
  BY ProtocolsAre DEF HDR_SIZE
<1>2. 7 \in Word /\ 2 \in Byte /\ d[3] \in Byte
  <2>1. 7 \in Word
    BY Words
  <2>2. 2 \in Byte
    BY DEF Byte
  <2>3. d[3] \in Byte
    OBVIOUS
  <2> QED
    BY <2>1, <2>2, <2>3
<1>3. h \in Seq(Byte) /\ Len(h) = 6 /\ HasHeader(h, 7, d[3], 5)
  BY <1>1, <1>2, HeaderBytes
<1>4. b \in Seq(Byte) /\ Len(b) = 1 /\ b[1] = 2
  BY <1>2
<1>5. \A i \in 1 .. 6 : d[i] = h[i]
  <2> HIDE DEF h
  <2> QED
    BY <1>1, <1>2, <1>3, SameHeader
<1> HIDE DEF h, b
<1>6. h \o b \in Seq(Byte) /\ Len(h \o b) = 7
  <2>1. h \o b \in Seq(Byte) /\ Len(h \o b) = Len(h) + Len(b)
    BY <1>3, <1>4, ConcatProperties
  <2> QED
    BY <1>3, <1>4, <2>1
<1>7. \A i \in 1 .. 7 : (h \o b)[i] = d[i]
  <2>1. Holds(d, 0, h)
    BY <1>3, <1>5 DEF Holds
  <2>2. Holds(d, 0 + Len(h), b)
    <3>1. \A i \in 1 .. 1 : d[6 + i] = b[i]
      <4>1. \A i \in 1 .. 1 : i = 1 /\ 6 + i = 7
        OBVIOUS
      <4> QED
        BY <1>4, <4>1
    <3> QED
      BY <1>3, <1>4, <3>1 DEF Holds
  <2>3. Holds(d, 0, h \o b)
    <3>1. 0 \in Nat
      OBVIOUS
    <3> QED
      BY ONLY <1>3, <1>4, <2>1, <2>2, <3>1, d \in Seq(Byte), HeldParts
  <2> DEFINE s == h \o b
  <2>4. Len(s) = 7 /\ Holds(d, 0, s)
    BY <1>6, <2>3
  <2> HIDE DEF s
  <2>5. \A i \in 1 .. 7 : d[0 + i] = s[i]
    BY <2>4 DEF Holds
  <2>6. \A i \in 1 .. 7 : 0 + i = i
    OBVIOUS
  <2>7. \A i \in 1 .. 7 : s[i] = d[i]
    BY ONLY <2>5, <2>6
  <2> QED
    BY <2>7 DEF s
<1>8. d = h \o b
  BY <1>6, <1>7, SeqEqual
<1> QED
  BY <1>1, <1>8 DEF h, b

\* Whatever is accepted is what serializing the message again gives.
LEMMA AcceptedIsCanonical ==
  ASSUME NEW d \in Seq(Byte), Deserialize(d).error = "none"
  PROVE  LET e == Deserialize(d)
             m == Deserialize(d).msg
         IN /\ Registered(m)
            /\ \/ Serialize(m, e.seq) = d
               \/ ~Plain(TypeOf(m), m.content)
               \/ m.name = "DeprecatedPacket" /\ d = Header(HDR_SIZE + 1, e.seq, m.prot) \o <<2>>
<1> DEFINE p == d[4]
           c == d[7]
           t == Protocols[p].packets[c]
           u == Unpack(t, d, 7)
           m == [prot |-> p, name |-> t.name, content |-> u.value]
<1>1. Delivers(d)
  <2>1. \A x : Fails(x).error = x
    BY DEF Fails
  <2> QED
    BY <2>1, Outcomes
<1>2. /\ Len(d) >= 7 /\ Len(d) \in Word /\ HasHeader(d, Len(d), d[3], p)
      /\ p \in DOMAIN Protocols /\ c \in Commands(p)
      /\ u.error = "none" /\ u.next = Len(d)
      /\ Deserialize(d) = Received(d[3], m)
  BY <1>1 DEF Delivers
<1>3. Deserialize(d).seq = d[3] /\ Deserialize(d).msg = m /\ d[3] \in Byte
  <2>1. Received(d[3], m).seq = d[3] /\ Received(d[3], m).msg = m
    BY DEF Received
  <2>2. d[3] \in Byte
    BY <1>2
  <2> QED
    BY <1>2, <2>1, <2>2
<1>4. m.prot = p /\ m.name = t.name /\ m.content = u.value
  OBVIOUS
<1>5. IsType(t) /\ 7 \in Nat
  BY <1>2, PacketsAreTypes
<1> HIDE DEF u, m
<1>6. Registered(m)
  BY <1>2, <1>4 DEF Registered
<1>7. /\ CommandOf(p, t.name) \in Commands(p) /\ Protocols[p].packets[CommandOf(p, t.name)] = t
      /\ \/ CommandOf(p, t.name) = c
         \/ p = 5 /\ c = 2 /\ t = DeprecatedPacket
  BY <1>2, CommandOfName
<1>8. TypeOf(m) = t
  BY <1>4, <1>7 DEF TypeOf
<1>9. CASE CommandOf(p, t.name) = c
  <2> SUFFICES ASSUME Plain(TypeOf(m), m.content) PROVE Serialize(m, d[3]) = d
    BY <1>3, <1>6
  <2>1. Plain(t, u.value)
    BY <1>4, <1>8
  <2>2. Pack(t, u.value) = SubSeq(d, 7 + 1, u.next)
    <3> HIDE DEF t
    <3> QED
      BY <1>2, <1>5, <2>1, CodecIsCorrect DEF CodecWritesBack, u
  <2>3. Pack(TypeOf(m), m.content) = SubSeq(d, 8, Len(d))
    <3>1. 7 + 1 = 8
      OBVIOUS
    <3> QED
      BY <1>2, <1>4, <1>8, <2>2, <3>1
  <2>4. c = CommandOf(m.prot, m.name) /\ HasHeader(d, Len(d), d[3], m.prot)
    BY <1>2, <1>4, <1>9
  <2> QED
    BY <1>2, <1>3, <1>6, <2>3, <2>4, IsDatagramOf
<1>10. CASE p = 5 /\ c = 2 /\ t = DeprecatedPacket
  <2>1. u.next = 7
    BY <1>5, <1>10, EmptyIsRead DEF u
  <2>2. d = Header(HDR_SIZE + 1, d[3], 5) \o <<2>>
    BY <1>2, <1>10, <2>1, DeprecatedDatagram
  <2>3. m.name = "DeprecatedPacket"
    BY <1>4, <1>10, PacketNames
  <2> QED
    BY <1>3, <1>4, <1>6, <1>10, <2>2, <2>3
<1> QED
  BY <1>7, <1>9, <1>10

\* A datagram whose length has been written into its header.
LEMMA LengthWritten ==
  ASSUME NEW d \in Seq(Byte), Len(d) >= 6, Len(d) \in Word,
         NEW seq, NEW p \in DOMAIN Protocols,
         d[3] = seq, d[4] = p, Holds(d, 4, BigEndian(Protocols[p].version, 2))
  PROVE  LET e == WithLength(d)
         IN /\ e \in Seq(Byte) /\ Len(e) = Len(d)
            /\ HasHeader(e, Len(d), seq, p)
            /\ \A i \in 7 .. Len(d) : e[i] = d[i]
<1> DEFINE a == BigEndian(Len(d), 2)
           r == SubSeq(d, 3, Len(d))
           v == BigEndian(Protocols[p].version, 2)
           e == a \o r
<1>1. a \in Seq(Byte) /\ Len(a) = 2
  BY TwoBytes
<1>2. v \in Seq(Byte) /\ Len(v) = 2
  BY ProtocolsAre, TwoBytes
<1>3. r \in Seq(Byte) /\ Len(r) = Len(d) - 2 /\ \A i \in 1 .. Len(d) - 2 : r[i] = d[2 + i]
  <2>1. PICK k \in Nat : k = 2
    OBVIOUS
  <2> DEFINE w == SubSeq(d, k + 1, Len(d))
  <2>2. w \in Seq(Byte) /\ Len(w) = Len(d) - k /\ \A i \in 1 .. Len(d) - k : w[i] = d[k + i]
    <3>1. k <= Len(d)
      BY <2>1
    <3> QED
      BY ONLY <3>1, k \in Nat, d \in Seq(Byte)
  <2>3. w = r
    BY <2>1
  <2> HIDE DEF w, r
  <2> QED
    BY <2>1, <2>2, <2>3
<1>4. Holds(d, 4, v)
  OBVIOUS
<1>5. WithLength(d) = e
  BY DEF WithLength
<1>6. \A x : HasHeader(x, Len(d), seq, p)
               <=> Len(x) >= 6 /\ Holds(x, 0, a) /\ x[3] = seq /\ x[4] = p /\ Holds(x, 4, v)
  BY DEF HasHeader
<1> HIDE DEF a, r, v
<1>7. e \in Seq(Byte) /\ Len(e) = Len(d)
  <2>1. a \o r \in Seq(Byte) /\ Len(a \o r) = Len(a) + Len(r)
    BY <1>1, <1>3, ConcatProperties
  <2> QED
    BY <1>1, <1>3, <2>1
<1> HIDE DEF e
<1>8. Holds(e, 0, a) /\ Holds(e, 2, r)
  <2>1. Holds(e, 0, e)
    BY <1>7 DEF Holds
  <2>2. Holds(e, 0, a \o r) /\ 0 \in Nat
    BY <2>1 DEF e
  <2>3. Holds(e, 0, a) /\ Holds(e, 0 + Len(a), r)
    BY ONLY <1>1, <1>3, <1>7, <2>2, HeldParts
  <2> QED
    BY <1>1, <2>3
<1>9. ASSUME NEW i \in 3 .. Len(d) PROVE e[i] = d[i]
  <2>1. i - 2 \in 1 .. Len(d) - 2 /\ 2 + (i - 2) = i
    OBVIOUS
  <2>2. e[2 + (i - 2)] = r[i - 2]
    BY <1>3, <1>8, <2>1 DEF Holds
  <2>3. r[i - 2] = d[2 + (i - 2)]
    BY <1>3, <2>1
  <2> QED
    BY <2>1, <2>2, <2>3
<1>10. Holds(e, 4, v)
  <2>1. ASSUME NEW i \in 1 .. Len(v) PROVE e[4 + i] = v[i]
    <3>1. d[4 + i] = v[i]
      BY <1>4 DEF Holds
    <3>2. 4 + i \in 3 .. Len(d)
      BY <1>2
    <3> QED
      BY <1>9, <3>1, <3>2
  <2> QED
    BY <1>2, <1>7, <2>1 DEF Holds
<1>11. e[3] = seq /\ e[4] = p
  BY <1>9
<1>12. HasHeader(e, Len(d), seq, p)
  BY <1>6, <1>7, <1>8, <1>10, <1>11
<1>13. \A i \in 7 .. Len(d) : e[i] = d[i]
  BY <1>9
<1> QED
  BY <1>5, <1>7, <1>12, <1>13

\* The first bytes of a datagram.
LEMMA FirstBytes ==
  ASSUME NEW d \in Seq(Byte), NEW n \in 0 .. Len(d)
  PROVE  LET e == SubSeq(d, 1, n)
         IN /\ e \in Seq(Byte) /\ Len(e) = n /\ \A i \in 1 .. n : e[i] = d[i]
            /\ \A k, seq, p : n >= 6 /\ HasHeader(d, k, seq, p) /\ Len(BigEndian(k, 2)) = 2
                              /\ p \in DOMAIN Protocols => HasHeader(e, k, seq, p)
<1> DEFINE e == SubSeq(d, 1, n)
<1>1. e \in Seq(Byte) /\ Len(e) = n /\ \A i \in 1 .. n : e[i] = d[i]
  OBVIOUS
<1> HIDE DEF e
<1>2. ASSUME NEW k, NEW seq, NEW p \in DOMAIN Protocols, n >= 6, HasHeader(d, k, seq, p),
             Len(BigEndian(k, 2)) = 2
      PROVE  HasHeader(e, k, seq, p)
  <2> DEFINE a == BigEndian(k, 2)
             v == BigEndian(Protocols[p].version, 2)
  <2>1. Len(a) = 2 /\ Len(v) = 2
    BY <1>2, ProtocolsAre, TwoBytes
  <2>2. Holds(d, 0, a) /\ Holds(d, 4, v) /\ d[3] = seq /\ d[4] = p
    BY <1>2 DEF HasHeader
  <2>3. HasHeader(e, k, seq, p)
          <=> Len(e) >= 6 /\ Holds(e, 0, a) /\ e[3] = seq /\ e[4] = p /\ Holds(e, 4, v)
    BY DEF HasHeader
  <2> HIDE DEF a, v
  <2>4. Holds(e, 0, a)
    <3>1. ASSUME NEW i \in 1 .. 2 PROVE e[0 + i] = a[i]
      BY <1>1, <1>2, <2>1, <2>2 DEF Holds
    <3> QED
      BY <1>1, <1>2, <2>1, <3>1 DEF Holds
  <2>5. Holds(e, 4, v)
    <3>1. ASSUME NEW i \in 1 .. 2 PROVE e[4 + i] = v[i]
      <4>1. 4 + i \in 1 .. n
        BY <1>2
      <4>2. d[4 + i] = v[i]
        BY <2>1, <2>2 DEF Holds
      <4> QED
        BY <1>1, <4>1, <4>2
    <3> QED
      BY <1>1, <1>2, <2>1, <3>1 DEF Holds
  <2>6. e[3] = seq /\ e[4] = p
    BY <1>1, <1>2, <2>2
  <2> QED
    BY <1>1, <1>2, <2>3, <2>4, <2>5, <2>6
<1> QED
  BY <1>1, <1>2 DEF e

Dropped == {"DeserializeError", "SerializeError"}

\* What is common to the three.
LEMMA Layout ==
  ASSUME NEW m, Serializable(m), NEW seq \in Byte
  PROVE  LET s == Serialize(m, seq)
         IN /\ s \in Seq(Byte) /\ Len(s) >= 7 /\ Len(s) \in Word
            /\ \A k \in Word : Len(BigEndian(k, 2)) = 2
            /\ m.prot \in DOMAIN Protocols
            /\ HasHeader(s, Len(s), seq, m.prot)
            /\ \A k \in Int : 0 <= k /\ k <= Len(s) + 64000 => k \in Word
<1> DEFINE s == Serialize(m, seq)
           packed == Pack(TypeOf(m), m.content)
<1>1. /\ packed \in Seq(Byte) /\ s \in Seq(Byte) /\ Len(s) = 7 + Len(packed) /\ Len(s) \in Word
      /\ Len(s) <= PACKET_SIZE_LIMIT + HDR_SIZE /\ HasHeader(s, Len(s), seq, m.prot)
  BY SentDatagram
<1>2. m.prot \in DOMAIN Protocols
  BY DEF Serializable, Registered
<1>3. \A k \in Word : Len(BigEndian(k, 2)) = 2
  BY TwoBytes
<1> HIDE DEF s, packed
<1>4. Len(s) + 64000 < 256 * 256 /\ Len(s) \in Nat
  BY <1>1 DEF PACKET_SIZE_LIMIT, HDR_SIZE
<1>5. ASSUME NEW k \in Int, 0 <= k, k <= Len(s) + 64000 PROVE k \in Word
  <2>1. k < 256 * 256
    BY <1>4, <1>5
  <2> QED
    BY <1>5, <2>1, Words
<1>6. Len(s) >= 7
  BY <1>1
<1> QED
  BY <1>1, <1>2, <1>3, <1>5, <1>6 DEF s

\* The end of the datagram is missing.
LEMMA LostIsDropped ==
  ASSUME NEW m, Serializable(m), NEW seq \in Byte,
         NEW n \in 0 .. Len(Serialize(m, seq)) - 1
  PROVE  Deserialize(SubSeq(Serialize(m, seq), 1, n)).error \in Dropped
<1> DEFINE s == Serialize(m, seq)
           e == SubSeq(s, 1, n)
<1>1. /\ s \in Seq(Byte) /\ Len(s) >= 7 /\ Len(s) \in Word /\ Len(BigEndian(Len(s), 2)) = 2
      /\ m.prot \in DOMAIN Protocols /\ HasHeader(s, Len(s), seq, m.prot)
  BY Layout
<1>2. /\ e \in Seq(Byte) /\ Len(e) = n /\ \A i \in 1 .. n : e[i] = s[i]
      /\ n >= 6 => HasHeader(e, Len(s), seq, m.prot)
  <2>1. n \in 0 .. Len(s)
    BY <1>1
  <2> HIDE DEF s
  <2> QED
    BY <1>1, <2>1, FirstBytes
<1>3. n \in Nat /\ n < Len(s)
  BY <1>1
<1> HIDE DEF s, e
<1>4. CASE n < 6
  <2>1. Deserialize(e) = Fails("DeserializeError")
    BY <1>2, <1>4 DEF Deserialize, HDR_SIZE
  <2> QED
    BY <2>1 DEF Fails, Dropped, e, s
<1>5. CASE n >= 6
  <2>1. HasHeader(e, Len(s), seq, m.prot) /\ Len(e) # Len(s)
    BY <1>2, <1>3, <1>5
  <2>2. \A i \in 7 .. Len(e) : i <= Len(s) => e[i] = s[i]
    BY <1>2
  <2>3. Deserialize(e).error \in Dropped
    BY <1>1, <1>2, <2>1, <2>2, OtherLength DEF Dropped, s
  <2> QED
    BY <2>3 DEF e, s
<1> QED
  BY <1>3, <1>4, <1>5

\* A packet with fewer bytes.
LEMMA ShorterIsDropped ==
  ASSUME NEW m, Serializable(m), NEW seq \in Byte,
         NEW n \in 6 .. Len(Serialize(m, seq)) - 1
  PROVE  LET e == WithLength(SubSeq(Serialize(m, seq), 1, n))
         IN Deserialize(e).error \in Dropped /\ e \in Seq(Byte) /\ Len(e) = n
<1> DEFINE s == Serialize(m, seq)
           c == SubSeq(s, 1, n)
           e == WithLength(c)
<1>1. /\ s \in Seq(Byte) /\ Len(s) >= 7 /\ Len(s) \in Word /\ Len(BigEndian(Len(s), 2)) = 2
      /\ m.prot \in DOMAIN Protocols /\ HasHeader(s, Len(s), seq, m.prot)
      /\ \A k \in Int : 0 <= k /\ k <= Len(s) + 64000 => k \in Word
  BY Layout
<1>2. n \in Nat /\ n >= 6 /\ n < Len(s) /\ n \in Word
  BY <1>1
<1>3. /\ c \in Seq(Byte) /\ Len(c) = n /\ \A i \in 1 .. n : c[i] = s[i]
      /\ HasHeader(c, Len(s), seq, m.prot)
  <2>1. n \in 0 .. Len(s)
    BY <1>1
  <2> HIDE DEF s
  <2> QED
    BY <1>1, <1>2, <2>1, FirstBytes
<1>4. c[3] = seq /\ c[4] = m.prot /\ Holds(c, 4, BigEndian(Protocols[m.prot].version, 2))
  BY <1>3 DEF HasHeader
<1> HIDE DEF s, c
<1>5. /\ e \in Seq(Byte) /\ Len(e) = n /\ HasHeader(e, n, seq, m.prot)
      /\ \A i \in 7 .. n : e[i] = c[i]
  <2>1. m.prot \in DOMAIN Protocols /\ c \in Seq(Byte) /\ Len(c) >= 6 /\ Len(c) \in Word
    BY <1>1, <1>2, <1>3
  <2>2. /\ e \in Seq(Byte) /\ Len(e) = Len(c) /\ HasHeader(e, Len(c), seq, m.prot)
        /\ \A i \in 7 .. Len(c) : e[i] = c[i]
    BY ONLY <1>4, <2>1, LengthWritten
  <2> HIDE DEF e
  <2> QED
    BY <1>3, <2>2
<1> HIDE DEF e
<1>6. Len(e) # Len(s) /\ \A i \in 7 .. Len(e) : i <= Len(s) => e[i] = s[i]
  BY <1>2, <1>3, <1>5
<1>7. Deserialize(e).error \in Dropped
  <2>1. Len(e) # Len(Serialize(m, seq))
    BY <1>6 DEF s
  <2>2. \A i \in 7 .. Len(e) : i <= Len(Serialize(m, seq)) => e[i] = Serialize(m, seq)[i]
    BY <1>6 DEF s
  <2>3. Deserialize(e).error \in {"DeserializeError", "SerializeError"}
    BY <1>2, <1>5, <2>1, <2>2, OtherLength
  <2> QED
    BY <2>3 DEF Dropped
<1> QED
  BY <1>5, <1>7 DEF e, c, s

\* A packet with bytes behind its last field.
LEMMA LongerIsDropped ==
  ASSUME NEW m, Serializable(m), NEW seq \in Byte,
         NEW x \in Seq(Byte), 1 <= Len(x), Len(x) <= 64000
  PROVE  /\ Deserialize(WithLength(Serialize(m, seq) \o x)).error \in Dropped
         /\ WithLength(Serialize(m, seq) \o x) \in Seq(Byte)
<1> DEFINE s == Serialize(m, seq)
           c == s \o x
           e == WithLength(c)
           v == BigEndian(Protocols[m.prot].version, 2)
<1>1. /\ s \in Seq(Byte) /\ Len(s) >= 7 /\ Len(s) \in Word /\ Len(BigEndian(Len(s), 2)) = 2
      /\ m.prot \in DOMAIN Protocols /\ HasHeader(s, Len(s), seq, m.prot)
      /\ \A k \in Int : 0 <= k /\ k <= Len(s) + 64000 => k \in Word
  BY Layout
<1>2. /\ s[3] = seq /\ s[4] = m.prot /\ Holds(s, 4, v)
  BY <1>1 DEF HasHeader
<1> HIDE DEF s
<1>3. /\ c \in Seq(Byte) /\ Len(c) = Len(s) + Len(x) /\ \A i \in 1 .. Len(s) : c[i] = s[i]
  <2>1. /\ s \o x \in Seq(Byte) /\ Len(s \o x) = Len(s) + Len(x)
        /\ \A i \in 1 .. Len(s) + Len(x) :
             (s \o x)[i] = IF i <= Len(s) THEN s[i] ELSE x[i - Len(s)]
    BY <1>1, ConcatProperties
  <2> QED
    BY <1>1, <2>1
<1>4. Len(c) \in Word /\ Len(c) >= 6
  BY <1>1, <1>3
<1> HIDE DEF c, v
<1>5. c[3] = seq /\ c[4] = m.prot
  BY <1>1, <1>2, <1>3
<1>6. Holds(c, 4, v)
  <2>1. 4 + Len(v) <= Len(s)
    BY <1>2 DEF Holds
  <2>2. Len(v) = 2
    BY <1>1, ProtocolsAre, TwoBytes DEF v
  <2>3. ASSUME NEW i \in 1 .. Len(v) PROVE c[4 + i] = v[i]
    <3>1. s[4 + i] = v[i]
      BY <1>2 DEF Holds
    <3>2. 4 + i \in 1 .. Len(s)
      BY <1>1, <2>2
    <3> QED
      BY <1>3, <3>1, <3>2
  <2> QED
    BY <1>1, <1>3, <2>1, <2>2, <2>3 DEF Holds
<1>7. /\ e \in Seq(Byte) /\ Len(e) = Len(c) /\ HasHeader(e, Len(c), seq, m.prot)
      /\ \A i \in 7 .. Len(c) : e[i] = c[i]
  <2>1. c[3] = seq /\ c[4] = m.prot /\ Holds(c, 4, BigEndian(Protocols[m.prot].version, 2))
    BY <1>5, <1>6 DEF v
  <2>2. m.prot \in DOMAIN Protocols /\ c \in Seq(Byte) /\ Len(c) >= 6 /\ Len(c) \in Word
    BY <1>1, <1>3, <1>4
  <2> QED
    BY ONLY <2>1, <2>2, LengthWritten
<1> HIDE DEF e
<1>8. Len(e) # Len(s) /\ \A i \in 7 .. Len(e) : i <= Len(s) => e[i] = s[i]
  <2>1. Len(e) = Len(s) + Len(x) /\ Len(s) \in Nat /\ Len(x) \in Nat
    BY <1>1, <1>3, <1>7
  <2>2. Len(e) # Len(s)
    BY <2>1
  <2>3. ASSUME NEW i \in 7 .. Len(e), i <= Len(s) PROVE e[i] = s[i]
    <3>1. i \in 7 .. Len(c) /\ i \in 1 .. Len(s)
      BY <1>7, <2>1, <2>3
    <3> QED
      BY <1>3, <1>7, <3>1
  <2> QED
    BY <2>2, <2>3
<1>9. Deserialize(e).error \in Dropped
  BY <1>4, <1>7, <1>8, OtherLength DEF Dropped, s
<1> QED
  BY <1>7, <1>9 DEF e, c, s

\* A datagram whose length has been written consists of bytes.
LEMMA LengthIsBytes ==
  ASSUME NEW d \in Seq(Byte), Len(d) >= 2
  PROVE  WithLength(d) \in Seq(Byte)
<1>1. Len(d) \in Nat
  OBVIOUS
<1>2. \A n \in Nat : n % 256 \in 0 .. 255
  OBVIOUS
<1>3. Len(d) \div 256 \in Nat
  BY <1>1
<1>4. BigEndian(Len(d), 2) \in Seq(Byte)
  <2>1. Len(d) % 256 \in Byte /\ (Len(d) \div 256) % 256 \in Byte
    BY <1>1, <1>2, <1>3 DEF Byte
  <2> QED
    BY <2>1 DEF BigEndian
<1>5. SubSeq(d, 3, Len(d)) \in Seq(Byte)
  BY <1>1
<1> QED
  BY <1>4, <1>5, ConcatProperties DEF WithLength

\* So does one with some bytes replaced.
LEMMA ReplacedIsBytes ==
  ASSUME NEW d \in Seq(Byte), NEW i \in Nat, NEW j \in Nat, NEW x \in Seq(Byte),
         2 <= i, i <= j, j <= Len(d)
  PROVE  Replaced(d, i, j, x) \in Seq(Byte)
<1> DEFINE a == SubSeq(d, 1, i)
           c == SubSeq(d, j + 1, Len(d))
<1>1. a \in Seq(Byte) /\ Len(a) = i
  OBVIOUS
<1>2. c \in Seq(Byte)
  OBVIOUS
<1> HIDE DEF a, c
<1>3. a \o x \in Seq(Byte) /\ Len(a \o x) = i + Len(x)
  BY <1>1, ConcatProperties
<1>4. (a \o x) \o c \in Seq(Byte) /\ Len((a \o x) \o c) = (i + Len(x)) + Len(c)
  BY <1>2, <1>3, ConcatProperties
<1>5. Len((a \o x) \o c) >= 2
  <2>1. Len(x) \in Nat /\ Len(c) \in Nat
    BY <1>2
  <2> QED
    BY <1>4, <2>1
<1> QED
  BY <1>4, <1>5, LengthIsBytes DEF Replaced, a, c

-----------------------------------------------------------------------------
(* The inductive invariant *)

Over == {"delivered", "dropped", "escaped"}

\* What there is of a message in each phase.
MessageInv ==
  /\ phase \in {"made", "unsent", "sent"} \cup Over =>
       /\ Registered(msg) /\ Valid(TypeOf(msg), msg.content)
       /\ msg = [prot |-> msg.prot, name |-> msg.name, content |-> msg.content]
  /\ phase \in {"editing", "refused", "made", "unsent"} => wire = <<>> /\ damage = "none"

\* What can arrive of the datagram s.
Arrives(s) ==
  \/ damage = "none" /\ wire = s
  \/ damage = "byte" /\ wire \in Seq(Byte) /\ Len(wire) = Len(s)
  \/ damage = "lost" /\ \E n \in 0 .. Len(s) - 1 : wire = SubSeq(s, 1, n)
  \/ damage = "shorter" /\ \E n \in 6 .. Len(s) - 1 : wire = WithLength(SubSeq(s, 1, n))
  \/ damage = "longer" /\ \E x \in Fields : wire = WithLength(s \o x)
  \/ damage \in {"inserted", "removed"} /\ wire \in Seq(Byte)

WireInv ==
  phase \in {"sent"} \cup Over =>
    Serializable(msg) /\ \E seq \in Seqs : Arrives(Serialize(msg, seq))

OutcomeInv ==
  phase \in Over =>
    /\ event = Deserialize(wire)
    /\ phase = "delivered" <=> event.error = "none"
    /\ phase = "dropped" <=> event.error \in {"DeserializeError", "DeserializeVersionError"}

KindsInv ==
  /\ phase \in {"editing", "refused", "made", "unsent", "sent"} \cup Over
  /\ source \in {"none", "args", "mac", "host", "device"}
  /\ damage \in {"none", "byte", "lost", "shorter", "longer", "inserted", "removed"}

IInv == KindsInv /\ MessageInv /\ WireInv /\ OutcomeInv

\* The invariant holds at the beginning.
LEMMA InitHolds == Init => IInv
  BY DEF Init, IInv, KindsInv, MessageInv, WireInv, OutcomeInv, Over

\* The messages of a file are registered.
LEMMA BuiltIsRegistered ==
  ASSUME NEW f, NEW b \in {"mac", "host", "device"}
  PROVE  LET m == Built(f)[b]
         IN Registered(m) /\ m = [prot |-> m.prot, name |-> m.name, content |-> m.content]
<1> DEFINE m == Built(f)[b]
<1>1. /\ m.prot = 3 /\ m.name \in {"SetMACConfig", "SetHostConfig", "SetGlobalHostConfig"}
      /\ m = [prot |-> m.prot, name |-> m.name, content |-> m.content]
  BY DEF Built, Configuration
<1>2. 3 \in DOMAIN Protocols /\ Protocols[3] = ConfigSubProt
  BY DEF Protocols
<1>3. /\ DOMAIN ConfigSubProt.packets = 1 .. 14
      /\ ConfigSubProt.packets[3] = SetMACConfig
      /\ ConfigSubProt.packets[4] = SetHostConfig
      /\ ConfigSubProt.packets[6] = SetGlobalHostConfig
  BY DEF ConfigSubProt
<1>4. /\ SetMACConfig.name = "SetMACConfig" /\ SetHostConfig.name = "SetHostConfig"
      /\ SetGlobalHostConfig.name = "SetGlobalHostConfig"
  BY PacketNames
<1>5. Commands(3) = 1 .. 14
  BY <1>2, <1>3 DEF Commands
<1> HIDE DEF m
<1>6. \E c \in 1 .. 14 : m.name = ConfigSubProt.packets[c].name
  BY <1>1, <1>3, <1>4
<1>7. Registered(m)
  BY <1>1, <1>2, <1>5, <1>6 DEF Registered
<1> QED
  BY <1>1, <1>7 DEF m

\* A packet is made.
LEMMA BecomeStep ==
  ASSUME IInv, phase = "editing", NEW m, NEW by \in {"args", "mac", "host", "device"},
         Registered(m), m = [prot |-> m.prot, name |-> m.name, content |-> m.content],
         Become(m, by)
  PROVE  IInv'
<1>1. /\ source' = by /\ msg' = m /\ wire' = <<>> /\ damage' = "none"
      /\ phase' \in {"made", "refused"}
      /\ phase' = "made" => Valid(TypeOf(m), m.content)
  BY DEF Become, IInv, MessageInv
<1>2. KindsInv'
  BY <1>1 DEF KindsInv
<1>3. MessageInv'
  BY <1>1 DEF MessageInv, Over
<1>4. WireInv' /\ OutcomeInv'
  BY <1>1 DEF WireInv, OutcomeInv, Over
<1> QED
  BY <1>2, <1>3, <1>4 DEF IInv

\* Editing the file changes nothing that the invariant is about.
LEMMA EditStep ==
  ASSUME IInv, NEW k, NEW v, Edit(k, v)
  PROVE  IInv'
<1>1. phase' = phase /\ source' = source /\ msg' = msg /\ wire' = wire /\ damage' = damage
      /\ event' = event
  BY DEF Edit
<1> QED
  BY <1>1 DEF IInv, KindsInv, MessageInv, WireInv, OutcomeInv, Arrives

\* A packet of arguments is made.
LEMMA MakeStep ==
  ASSUME IInv, NEW p \in DOMAIN Protocols, NEW c \in Commands(p), NEW v, Make(p, c, v)
  PROVE  IInv'
<1> DEFINE m == [prot |-> p, name |-> Protocols[p].packets[c].name, content |-> v]
<1>1. phase = "editing" /\ Become(m, "args")
  BY DEF Make
<1>2. m.prot = p /\ m.name = Protocols[p].packets[c].name /\ m.content = v
  OBVIOUS
<1>3. m = [prot |-> m.prot, name |-> m.name, content |-> m.content]
  OBVIOUS
<1> HIDE DEF m
<1>4. Registered(m)
  BY <1>2 DEF Registered
<1> QED
  BY <1>1, <1>3, <1>4, BecomeStep

\* A message of the file is made.
LEMMA BuildStep ==
  ASSUME IInv, NEW b \in {"mac", "host", "device"}, Build(b)
  PROVE  IInv'
<1>1. phase = "editing" /\ Become(Built(file)[b], b)
  BY DEF Build
<1> QED
  BY <1>1, BuiltIsRegistered, BecomeStep

\* A message of the file cannot be made.
LEMMA BuildFailsStep ==
  ASSUME IInv, BuildFails
  PROVE  IInv'
<1>1. /\ source' = "host" /\ phase' = "refused" /\ msg' = msg /\ wire' = <<>>
      /\ damage' = "none"
  BY DEF BuildFails, IInv, MessageInv
<1> QED
  BY <1>1 DEF IInv, KindsInv, MessageInv, WireInv, OutcomeInv, Over

\* A message is serialized and sent, or not.
LEMMA SendStep ==
  ASSUME IInv, NEW seq \in Seqs, Send(seq)
  PROVE  IInv'
<1>1. /\ phase = "made" /\ source' = source /\ msg' = msg /\ damage' = "none"
      /\ wire = <<>> /\ Registered(msg) /\ Valid(TypeOf(msg), msg.content)
      /\ msg = [prot |-> msg.prot, name |-> msg.name, content |-> msg.content]
  BY DEF Send, IInv, MessageInv
<1>2. \/ /\ PackErrors(TypeOf(msg), msg.content) = {} /\ ~TooLong(msg)
         /\ wire' = Serialize(msg, seq) /\ phase' = "sent"
      \/ phase' = "unsent" /\ wire' = wire
  BY DEF Send
<1>3. KindsInv'
  BY <1>1, <1>2 DEF IInv, KindsInv
<1>4. MessageInv'
  BY <1>1, <1>2 DEF MessageInv, Over
<1>5. OutcomeInv'
  BY <1>2 DEF OutcomeInv, Over
<1>6. WireInv'
  <2>1. CASE phase' = "unsent"
    BY <2>1 DEF WireInv, Over
  <2>2. CASE phase' = "sent"
    <3>1. Serializable(msg) /\ wire' = Serialize(msg, seq)
      BY <1>1, <1>2, <2>2 DEF Serializable
    <3>2. Arrives(Serialize(msg, seq))'
      BY <1>1, <3>1 DEF Arrives
    <3> QED
      BY <1>1, <3>1, <3>2 DEF WireInv
  <2> QED
    BY <1>2, <2>1, <2>2
<1> QED
  BY <1>3, <1>4, <1>5, <1>6 DEF IInv

\* A datagram is damaged on its way.
LEMMA DamageStep ==
  ASSUME IInv, Damage
  PROVE  IInv'
<1>1. /\ phase = "sent" /\ damage = "none" /\ phase' = "sent"
      /\ source' = source /\ msg' = msg
  BY DEF Damage
<1>2. PICK seq \in Seqs : Serializable(msg) /\ wire = Serialize(msg, seq)
  BY <1>1 DEF IInv, WireInv, Arrives
<1> DEFINE s == Serialize(msg, seq)
<1>3. wire \in Seq(Byte) /\ Len(wire) >= 7 /\ Len(wire) \in Nat
  <2>1. seq \in Byte
    BY SeqsAreBytes
  <2>2. s \in Seq(Byte) /\ Len(s) >= 7
    BY <1>2, <2>1, Layout
  <2> HIDE DEF s
  <2>3. Len(s) \in Nat
    BY <2>2
  <2> QED
    BY <1>2, <2>2, <2>3 DEF s
<1>4. \/ \E i \in Hit(wire), b \in EditedBytes :
            wire' = [wire EXCEPT ![i] = b] /\ damage' = "byte"
      \/ \E n \in Hit(wire) \ {Len(wire)} : wire' = SubSeq(wire, 1, n) /\ damage' = "lost"
      \/ \E n \in Hit(wire) \cap HDR_SIZE .. Len(wire) - 1 :
            wire' = WithLength(SubSeq(wire, 1, n)) /\ damage' = "shorter"
      \/ \E x \in Fields : wire' = WithLength(wire \o x) /\ damage' = "longer"
      \/ \E i \in Inside(wire), x \in Fields :
            wire' = Replaced(wire, i, i, x) /\ damage' = "inserted"
      \/ \E i \in Inside(wire), x \in Fields :
            /\ i + Len(x) < Len(wire)
            /\ wire' = Replaced(wire, i, i + Len(x), <<>>) /\ damage' = "removed"
  BY DEF Damage
<1>5. /\ \A i \in Hit(wire) : i \in 1 .. Len(wire)
      /\ \A i \in Inside(wire) : i \in Nat /\ 2 <= i /\ i < Len(wire)
      /\ \A x \in Fields : x \in Seq(Byte) /\ Len(x) \in Nat
  BY <1>3, FieldsAreBytes DEF Hit, Inside, HDR_SIZE
<1>6. Arrives(s)'
  <2>1. CASE \E i \in Hit(wire), b \in EditedBytes :
               wire' = [wire EXCEPT ![i] = b] /\ damage' = "byte"
    <3>1. PICK i \in Hit(wire), b \in EditedBytes :
            wire' = [wire EXCEPT ![i] = b] /\ damage' = "byte"
      BY <2>1
    <3>2. b \in Byte /\ i \in 1 .. Len(wire)
      BY <1>5, EditedAreBytes
    <3>3. wire' \in Seq(Byte) /\ Len(wire') = Len(wire)
      BY <1>3, <3>1, <3>2
    <3> QED
      BY <1>1, <1>2, <3>1, <3>3 DEF Arrives
  <2>2. CASE \E n \in Hit(wire) \ {Len(wire)} : wire' = SubSeq(wire, 1, n) /\ damage' = "lost"
    <3>1. PICK n \in Hit(wire) \ {Len(wire)} : wire' = SubSeq(wire, 1, n) /\ damage' = "lost"
      BY <2>2
    <3>2. n \in 0 .. Len(wire) - 1
      BY <1>3, <1>5
    <3> QED
      BY <1>1, <1>2, <3>1, <3>2 DEF Arrives
  <2>3. CASE \E n \in Hit(wire) \cap HDR_SIZE .. Len(wire) - 1 :
               wire' = WithLength(SubSeq(wire, 1, n)) /\ damage' = "shorter"
    <3>1. PICK n \in Hit(wire) \cap HDR_SIZE .. Len(wire) - 1 :
            wire' = WithLength(SubSeq(wire, 1, n)) /\ damage' = "shorter"
      BY <2>3
    <3>2. n \in 6 .. Len(wire) - 1
      BY <3>1 DEF HDR_SIZE
    <3> QED
      BY <1>1, <1>2, <3>1, <3>2 DEF Arrives
  <2>4. CASE \E x \in Fields : wire' = WithLength(wire \o x) /\ damage' = "longer"
    BY <1>1, <1>2, <2>4 DEF Arrives
  <2>5. CASE \E i \in Inside(wire), x \in Fields :
               wire' = Replaced(wire, i, i, x) /\ damage' = "inserted"
    <3>1. PICK i \in Inside(wire), x \in Fields :
            wire' = Replaced(wire, i, i, x) /\ damage' = "inserted"
      BY <2>5
    <3>2. i \in Nat /\ 2 <= i /\ i <= i /\ i <= Len(wire) /\ x \in Seq(Byte)
      BY <1>3, <1>5
    <3>3. wire' \in Seq(Byte)
      BY <1>3, <3>1, <3>2, ReplacedIsBytes
    <3> QED
      BY <3>1, <3>3 DEF Arrives
  <2>6. CASE \E i \in Inside(wire), x \in Fields :
               /\ i + Len(x) < Len(wire)
               /\ wire' = Replaced(wire, i, i + Len(x), <<>>) /\ damage' = "removed"
    <3>1. PICK i \in Inside(wire), x \in Fields :
            /\ i + Len(x) < Len(wire)
            /\ wire' = Replaced(wire, i, i + Len(x), <<>>) /\ damage' = "removed"
      BY <2>6
    <3>2. /\ i \in Nat /\ i + Len(x) \in Nat /\ 2 <= i /\ i <= i + Len(x)
          /\ i + Len(x) <= Len(wire)
      BY <1>3, <1>5, <3>1
    <3>3. <<>> \in Seq(Byte)
      OBVIOUS
    <3>4. wire' \in Seq(Byte)
      BY <1>3, <3>1, <3>2, <3>3, ReplacedIsBytes
    <3> QED
      BY <3>1, <3>4 DEF Arrives
  <2> QED
    BY <1>4, <2>1, <2>2, <2>3, <2>4, <2>5, <2>6
<1>7. KindsInv'
  BY <1>1, <1>4 DEF IInv, KindsInv
<1>8. MessageInv'
  BY <1>1 DEF IInv, MessageInv, Over
<1>9. WireInv'
  BY <1>1, <1>2, <1>6 DEF WireInv
<1>10. OutcomeInv'
  BY <1>1 DEF OutcomeInv, Over
<1> QED
  BY <1>7, <1>8, <1>9, <1>10 DEF IInv

\* A datagram is received.
LEMMA ReceiveStep ==
  ASSUME IInv, Receive
  PROVE  IInv'
<1>1. /\ phase = "sent" /\ source' = source /\ msg' = msg /\ wire' = wire /\ damage' = damage
      /\ event' = Deserialize(wire)
  BY DEF Receive
<1>2. /\ phase' \in Over
      /\ phase' = "delivered" <=> event'.error = "none"
      /\ phase' = "dropped" <=> event'.error \in {"DeserializeError", "DeserializeVersionError"}
  <2>1. phase' = CASE event'.error = "none" -> "delivered"
                   [] event'.error \in {"DeserializeError", "DeserializeVersionError"} -> "dropped"
                   [] OTHER -> "escaped"
    BY DEF Receive
  <2> DEFINE x == event'.error
  <2> HIDE DEF x
  <2>2. CASE x = "none"
    BY <2>1, <2>2 DEF Over, x
  <2>3. CASE x \in {"DeserializeError", "DeserializeVersionError"}
    BY <2>1, <2>3 DEF Over, x
  <2>4. CASE x \notin {"none", "DeserializeError", "DeserializeVersionError"}
    BY <2>1, <2>4 DEF Over, x
  <2> QED
    BY <2>2, <2>3, <2>4
<1>3. KindsInv'
  BY <1>1, <1>2 DEF IInv, KindsInv
<1>4. MessageInv'
  BY <1>1, <1>2 DEF IInv, MessageInv, Over
<1>5. WireInv'
  BY <1>1 DEF IInv, WireInv, Arrives
<1>6. OutcomeInv'
  BY <1>1, <1>2 DEF OutcomeInv
<1> QED
  BY <1>3, <1>4, <1>5, <1>6 DEF IInv

\* Every step keeps the invariant.
LEMMA StepHolds == IInv /\ [Next]_vars => IInv'
<1> SUFFICES ASSUME IInv, [Next]_vars PROVE IInv'
  OBVIOUS
<1>1. CASE UNCHANGED vars
  BY <1>1 DEF vars, IInv, KindsInv, MessageInv, WireInv, OutcomeInv, Arrives
<1>2. CASE Next
  BY <1>2, EditStep, MakeStep, BuildStep, BuildFailsStep, SendStep, DamageStep, ReceiveStep
     DEF Next
<1> QED
  BY <1>1, <1>2

\* The inductive invariant: how a message is known from its datagram, and what
\* became of it, in every phase of its life.
THEOREM Invariance == Spec => []IInv
  BY InitHolds, StepHolds, PTL DEF Spec

\* What arrives are bytes, in a datagram that is no longer than the one sent.
LEMMA ArrivedBytes ==
  ASSUME Serializable(msg), NEW seq \in Byte, Arrives(Serialize(msg, seq))
  PROVE  /\ wire \in Seq(Byte)
         /\ damage \notin {"longer", "inserted", "removed"} =>
              Len(wire) <= Len(Serialize(msg, seq))
<1> DEFINE s == Serialize(msg, seq)
<1>1. s \in Seq(Byte) /\ Len(s) >= 7
  BY Layout
<1>2. \/ damage = "none" /\ wire = s
      \/ damage = "byte" /\ wire \in Seq(Byte) /\ Len(wire) = Len(s)
      \/ damage = "lost" /\ \E n \in 0 .. Len(s) - 1 : wire = SubSeq(s, 1, n)
      \/ damage = "shorter" /\ \E n \in 6 .. Len(s) - 1 : wire = WithLength(SubSeq(s, 1, n))
      \/ damage = "longer" /\ \E x \in Fields : wire = WithLength(s \o x)
      \/ damage \in {"inserted", "removed"} /\ wire \in Seq(Byte)
  BY DEF Arrives
<1>3. CASE damage = "longer" /\ \E x \in Fields : wire = WithLength(s \o x)
  BY <1>3, FieldsAreBytes, LongerIsDropped
<1>7. CASE damage \in {"inserted", "removed"} /\ wire \in Seq(Byte)
  BY <1>7
<1>4. CASE damage = "shorter" /\ \E n \in 6 .. Len(s) - 1 : wire = WithLength(SubSeq(s, 1, n))
  <2>1. PICK n \in 6 .. Len(s) - 1 : wire = WithLength(SubSeq(s, 1, n))
    BY <1>4
  <2>2. wire \in Seq(Byte) /\ Len(wire) = n
    BY <2>1, ShorterIsDropped
  <2> HIDE DEF s
  <2>3. Len(wire) <= Len(s)
    BY <1>1, <2>2
  <2> QED
    BY <2>2, <2>3 DEF s
<1>5. CASE damage = "lost" /\ \E n \in 0 .. Len(s) - 1 : wire = SubSeq(s, 1, n)
  <2>1. PICK n \in 0 .. Len(s) - 1 : wire = SubSeq(s, 1, n)
    BY <1>5
  <2> HIDE DEF s
  <2>2. wire \in Seq(Byte) /\ Len(wire) <= Len(s)
    BY <1>1, <2>1
  <2> QED
    BY <2>2 DEF s
<1>6. CASE damage \in {"none", "byte"}
  <2>1. wire \in Seq(Byte) /\ Len(wire) = Len(s)
    <3> HIDE DEF s
    <3> QED
      BY <1>1, <1>2, <1>6
  <2> HIDE DEF s
  <2>2. Len(wire) <= Len(s)
    BY <1>1, <2>1
  <2> QED
    BY <2>1, <2>2 DEF s
<1> QED
  BY <1>2, <1>3, <1>4, <1>5, <1>6, <1>7

\* The datagram of a message that is over.
LEMMA OverIsReceived ==
  ASSUME IInv, phase \in Over
  PROVE  /\ wire \in Seq(Byte) /\ event = Deserialize(wire) /\ Serializable(msg)
         /\ \E seq \in Seqs : seq \in Byte /\ Arrives(Serialize(msg, seq))
<1>1. event = Deserialize(wire) /\ Serializable(msg)
  BY DEF IInv, OutcomeInv, WireInv
<1>2. PICK seq \in Seqs : Arrives(Serialize(msg, seq))
  BY DEF IInv, WireInv
<1>3. seq \in Byte
  BY SeqsAreBytes
<1>4. wire \in Seq(Byte)
  BY <1>1, <1>2, <1>3, ArrivedBytes
<1> QED
  BY <1>1, <1>2, <1>3, <1>4

\* The invariant implies TypeOK: a message that is sent is within the limit.
LEMMA TypeOKHolds == IInv => TypeOK
<1> SUFFICES ASSUME IInv PROVE TypeOK
  OBVIOUS
<1>1. KindsInv
  BY DEF IInv
<1>2. CASE phase \in {"editing", "refused", "made", "unsent"}
  <2>1. wire = <<>>
    BY <1>2 DEF IInv, MessageInv
  <2>2. Len(wire) <= PACKET_SIZE_LIMIT + HDR_SIZE
    BY <2>1 DEF PACKET_SIZE_LIMIT, HDR_SIZE
  <2> QED
    BY <1>1, <2>1, <2>2 DEF TypeOK, KindsInv, Over
<1>3. CASE phase \in {"sent"} \cup Over
  <2>1. PICK seq \in Seqs : Serializable(msg) /\ Arrives(Serialize(msg, seq))
    BY <1>3 DEF IInv, WireInv
  <2>2. seq \in Byte
    BY SeqsAreBytes
  <2>3. wire \in Seq(Byte) /\ damage \in {"none", "byte", "lost", "shorter"} => Len(wire) <= Len(Serialize(msg, seq))
    BY <2>1, <2>2, ArrivedBytes
  <2>4. Len(Serialize(msg, seq)) <= PACKET_SIZE_LIMIT + HDR_SIZE
        /\ Len(Serialize(msg, seq)) \in Nat
    <3>1. Serialize(msg, seq) \in Seq(Byte)
          /\ Len(Serialize(msg, seq)) <= PACKET_SIZE_LIMIT + HDR_SIZE
      BY <2>1, <2>2, SentDatagram
    <3> DEFINE s == Serialize(msg, seq)
    <3> HIDE DEF s
    <3>2. s \in Seq(Byte) => Len(s) \in Nat
      OBVIOUS
    <3> QED
      BY <3>1, <3>2 DEF s
  <2>5. damage \in {"none", "byte", "lost", "shorter"} => Len(wire) <= PACKET_SIZE_LIMIT + HDR_SIZE
    <3> DEFINE k == Len(Serialize(msg, seq))
    <3>1. wire \in Seq(Byte) /\ k \in Nat /\ k <= PACKET_SIZE_LIMIT + HDR_SIZE
          /\ damage \in {"none", "byte", "lost", "shorter"} => Len(wire) <= k
      BY <2>1, <2>2, <2>4, ArrivedBytes
    <3> HIDE DEF k
    <3>2. damage \in {"none", "byte", "lost", "shorter"} => Len(wire) <= k
      BY <2>1, <2>2, ArrivedBytes DEF k
    <3>3. Len(wire) \in Nat /\ k \in Nat /\ k <= PACKET_SIZE_LIMIT + HDR_SIZE
      <4>1. wire \in Seq(Byte)
        BY <2>1, <2>2, ArrivedBytes
      <4> QED
        BY <2>4, <4>1 DEF k
    <3> QED
      BY <3>2, <3>3 DEF PACKET_SIZE_LIMIT, HDR_SIZE
  <2>6. \A i \in DOMAIN wire : wire[i] \in 0 .. 255
    <3>1. wire \in Seq(Byte)
      BY <2>1, <2>2, ArrivedBytes
    <3>2. \A i \in DOMAIN wire : wire[i] \in Byte
      BY <3>1
    <3> QED
      BY <3>2 DEF Byte
  <2> QED
    BY <1>1, <2>5, <2>6 DEF TypeOK, KindsInv, Over
<1> QED
  BY <1>1, <1>2, <1>3 DEF KindsInv

\* The invariant implies RoundTrip: the datagram is that of the message.
LEMMA RoundTripHolds == IInv => RoundTrip
<1> SUFFICES ASSUME IInv, phase \in Over, damage = "none", Plain(TypeOf(msg), msg.content)
             PROVE  /\ phase = "delivered" /\ event.seq \in Seqs
                    /\ event.msg = [msg EXCEPT !.content = Filled(TypeOf(msg), msg.content)]
  BY DEF RoundTrip, Over
<1>1. PICK seq \in Seqs : seq \in Byte /\ Arrives(Serialize(msg, seq))
  BY OverIsReceived
<1>2. event = Deserialize(wire) /\ Serializable(msg)
  BY OverIsReceived
<1>3. wire = Serialize(msg, seq)
  BY <1>1 DEF Arrives
<1> DEFINE f == Filled(TypeOf(msg), msg.content)
           m == [prot |-> msg.prot, name |-> msg.name, content |-> f]
<1>4. event = Received(seq, m)
  BY <1>1, <1>2, <1>3, SentIsReceived
<1>5. event.error = "none" /\ event.seq = seq /\ event.msg = m
  BY <1>4 DEF Received
<1>6. phase = "delivered"
  BY <1>5 DEF IInv, OutcomeInv
<1>7. msg = [prot |-> msg.prot, name |-> msg.name, content |-> msg.content]
  BY DEF IInv, MessageInv
<1> HIDE DEF f
<1>8. [msg EXCEPT !.content = f] = m
  BY <1>7
<1> QED
  BY <1>5, <1>6, <1>8 DEF f

\* The invariant implies Canonical: what is delivered was read from the datagram.
LEMMA CanonicalHolds == IInv => Canonical
<1> SUFFICES ASSUME IInv, phase = "delivered" PROVE Canonical
  BY DEF Canonical
<1>1. wire \in Seq(Byte) /\ event = Deserialize(wire) /\ event.error = "none"
  BY OverIsReceived DEF Over, IInv, OutcomeInv
<1>2. \/ Serialize(event.msg, event.seq) = wire
      \/ ~Plain(TypeOf(event.msg), event.msg.content)
      \/ event.msg.name = "DeprecatedPacket"
         /\ wire = Header(HDR_SIZE + 1, event.seq, event.msg.prot) \o <<2>>
  BY <1>1, AcceptedIsCanonical
<1> QED
  BY <1>2 DEF Canonical

\* The invariant implies OtherEndDropped, for each of the three.
LEMMA OtherEndDroppedHolds == IInv => OtherEndDropped
<1> SUFFICES ASSUME IInv, damage \in {"lost", "shorter", "longer"}, phase = "delivered"
             PROVE  FALSE
  BY DEF OtherEndDropped
<1>1. PICK seq \in Seqs : seq \in Byte /\ Arrives(Serialize(msg, seq))
  BY OverIsReceived DEF Over
<1>2. event = Deserialize(wire) /\ Serializable(msg) /\ event.error = "none"
  BY OverIsReceived DEF Over, IInv, OutcomeInv
<1>3. CASE damage = "lost"
  <2>1. PICK n \in 0 .. Len(Serialize(msg, seq)) - 1 : wire = SubSeq(Serialize(msg, seq), 1, n)
    BY <1>1, <1>3 DEF Arrives
  <2>2. Deserialize(wire).error \in Dropped
    BY <1>1, <1>2, <2>1, LostIsDropped
  <2> QED
    BY <1>2, <2>2 DEF Dropped
<1>4. CASE damage = "shorter"
  <2>1. PICK n \in 6 .. Len(Serialize(msg, seq)) - 1 :
          wire = WithLength(SubSeq(Serialize(msg, seq), 1, n))
    BY <1>1, <1>4 DEF Arrives
  <2>2. Deserialize(wire).error \in Dropped
    BY <1>1, <1>2, <2>1, ShorterIsDropped
  <2> QED
    BY <1>2, <2>2 DEF Dropped
<1>5. CASE damage = "longer"
  <2>0. PICK x \in Fields : wire = WithLength(Serialize(msg, seq) \o x)
    BY <1>1, <1>5 DEF Arrives
  <2>1. Deserialize(wire).error \in Dropped
    BY <1>1, <1>2, <2>0, FieldsAreBytes, LongerIsDropped
  <2> QED
    BY <1>2, <2>1 DEF Dropped
<1> QED
  BY <1>3, <1>4, <1>5

\* The invariant implies OnlyTextEscapes: the codec raises nothing else.
LEMMA OnlyTextEscapesHolds == IInv => OnlyTextEscapes
<1> SUFFICES ASSUME IInv, phase = "escaped" PROVE OnlyTextEscapes
  BY DEF OnlyTextEscapes
<1>1. wire \in Seq(Byte) /\ event = Deserialize(wire)
  BY OverIsReceived DEF Over
<1>2. event.error \notin {"none", "DeserializeError", "DeserializeVersionError"}
  BY DEF IInv, OutcomeInv, Over
<1>3. \A x : Fails(x).error = x
  BY DEF Fails
<1>4. ~Delivers(wire)
  <2>1. \A n, m : Received(n, m).error = "none"
    BY DEF Received
  <2> QED
    BY <1>1, <1>2, <2>1 DEF Delivers
<1>5. /\ event = Fails("SerializeError")
      /\ \E i \in 8 .. Len(wire) : wire[i] = 0
      /\ HoldsText(Protocols[wire[4]].packets[wire[7]])
  BY <1>1, <1>2, <1>3, <1>4, Outcomes
<1>6. HDR_SIZE + 1 = 7 /\ HDR_SIZE + 2 = 8
  BY DEF HDR_SIZE
<1> QED
  BY <1>3, <1>5, <1>6 DEF OnlyTextEscapes

-----------------------------------------------------------------------------
(* The theorems *)

\* The phases, sources and kinds of damage are the ones named, and a datagram
\* consists of bytes, no more than the limit and the header allow.
THEOREM TypeCorrect == Spec => []TypeOK
  BY Invariance, TypeOKHolds, PTL

\* A message that arrives undamaged is the one that was sent.
THEOREM RoundTripCorrect == Spec => []RoundTrip
  BY Invariance, RoundTripHolds, PTL

\* There is one datagram for each message that is accepted, also if what was sent had a
\* field more or less at some place.
THEOREM CanonicalCorrect == Spec => []Canonical
  BY Invariance, CanonicalHolds, PTL

\* A packet whose end is missing, or with bytes behind its last field, is not
\* delivered, whatever the header says of its length and whatever the bytes are.
THEOREM OtherEndCorrect == Spec => []OtherEndDropped
  BY Invariance, OtherEndDroppedHolds, PTL

\* The only exception that a datagram raises is that of a NUL in a string.
THEOREM OnlyTextCorrect == Spec => []OnlyTextEscapes
  BY Invariance, OnlyTextEscapesHolds, PTL
=============================================================================
