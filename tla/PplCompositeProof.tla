-------------------------- MODULE PplCompositeProof --------------------------
(***************************************************************************)
(* Proofs about arrays and packets (PplComposite): if the inner types read *)
(* back what they write, write back what they read, raise only the two     *)
(* exceptions of the codec and look at no byte but those they take, then   *)
(* so do the types made of them.                                           *)
(*                                                                         *)
(* The argument is induction over the last parts of a value, which is how  *)
(* the loop of unpack() goes: Rest reads the last m of n parts, PackedLast *)
(* packs them.                                                             *)
(***************************************************************************)
EXTENDS PplComposite, SequenceTheorems, TLAPS

\* The bytes p are in the datagram d behind the first "at" bytes.
Holds(d, at, p) == at + Len(p) <= Len(d) /\ \A i \in 1 .. Len(p) : d[at + i] = p[i]

-----------------------------------------------------------------------------
(* Bytes and numbers *)

\* A number is 256 times its quotient and its remainder.
LEMMA Division ==
  ASSUME NEW n \in Int
  PROVE  \E q \in Int, r \in 0 .. 255 : n = 256 * q + r /\ n \div 256 = q /\ n % 256 = r
<1> DEFINE q == n \div 256
           r == n % 256
<1>1. q \in Int /\ r \in 0 .. 255
  OBVIOUS
<1>2. r = n - 256 * q
  OBVIOUS
<1>3. n = 256 * q + r
  <2> HIDE DEF q, r
  <2> QED
    BY <1>1, <1>2
<1> HIDE DEF q, r
<1> QED
  BY <1>1, <1>3 DEF q, r

\* Quotient and remainder are unique.
LEMMA Quotient ==
  ASSUME NEW n \in Int, NEW q \in Int, NEW r \in 0 .. 255, n = 256 * q + r
  PROVE  n \div 256 = q /\ n % 256 = r
  OBVIOUS

\* A byte is its own remainder.
LEMMA SmallRemainder ==
  ASSUME NEW k \in 0 .. 255 PROVE k % 256 = k
  OBVIOUS

\* A word is a number of less than 256 * 256.
LEMMA Words ==
  /\ \A n \in Word : n \in Int /\ 0 <= n /\ n < 256 * 256
  /\ \A n \in Int : 0 <= n /\ n < 256 * 256 => n \in Word
<1>1. Largest \in Int /\ Largest = 256 * 256 - 1
  BY DEF Largest
<1>2. \A n \in Int : n < 256 * 256 <=> n <= Largest
  BY <1>1
<1>3. Largest \in Int
  BY <1>1
<1>4. \A n \in Word : n \in Int /\ 0 <= n /\ n <= Largest
  BY ONLY <1>3 DEF Word
<1>5. \A n \in Int : 0 <= n /\ n <= Largest => n \in Word
  BY ONLY <1>3 DEF Word
<1> QED
  BY ONLY <1>2, <1>4, <1>5

\* Packing a number gives its bytes, and reading them the number again.
LEMMA BigEndianBytes ==
  ASSUME NEW w \in {1, 2}, NEW n \in Numbers(w)
  PROVE  /\ BigEndian(n, w) \in Seq(Byte)
         /\ Len(BigEndian(n, w)) = w
         /\ FromBigEndian(BigEndian(n, w)) = n
<1>1. CASE w = 1
  <2>1. n \in 0 .. 255
    BY <1>1 DEF Numbers, Byte
  <2>2. n % 256 = n
    BY <2>1, SmallRemainder
  <2>3. BigEndian(n, w) = <<n>>
    BY <1>1, <2>2 DEF BigEndian
  <2>4. n \in Byte
    BY <2>1 DEF Byte
  <2>5. Len(<<n>>) = 1 /\ <<n>> \in Seq(Byte) /\ FromBigEndian(<<n>>) = n
    BY <2>4 DEF FromBigEndian
  <2> QED
    BY ONLY <1>1, <2>3, <2>5
<1>2. CASE w = 2
  <2>1. n \in Int /\ 0 <= n /\ n < 256 * 256
    BY <1>2, Words DEF Numbers
  <2>2. PICK q \in Int, r \in 0 .. 255 : n = 256 * q + r /\ n \div 256 = q /\ n % 256 = r
    <3>1. n \in Int
      BY <2>1
    <3> QED
      BY ONLY <3>1, Division, Zenon
  <2>3. q \in 0 .. 255
    BY <2>1, <2>2
  <2>4. q % 256 = q
    BY <2>3, SmallRemainder
  <2>5. BigEndian(n, w) = <<q, r>>
    BY <1>2, <2>2, <2>4 DEF BigEndian
  <2>6. q \in Byte /\ r \in Byte
    BY <2>3 DEF Byte
  <2>7. FromBigEndian(<<q, r>>) = 256 * q + r
    BY DEF FromBigEndian
  <2>8. <<q, r>> \in Seq(Byte) /\ Len(<<q, r>>) = 2
    BY <2>6
  <2> QED
    BY ONLY <1>2, <2>2, <2>5, <2>7, <2>8
<1> QED
  BY <1>1, <1>2

\* Whatever is written in two bytes, they are bytes.
LEMMA BigEndianIsBytes ==
  ASSUME NEW n \in Int
  PROVE  BigEndian(n, 2) \in Seq(Byte) /\ Len(BigEndian(n, 2)) = 2
<1>1. n \div 256 \in Int /\ n % 256 \in 0 .. 255
  OBVIOUS
<1>2. (n \div 256) % 256 \in 0 .. 255
  BY <1>1
<1> QED
  BY <1>1, <1>2 DEF BigEndian, Byte

\* Packing a number that was read gives the bytes it was read from.
LEMMA FromBigEndianNumber ==
  ASSUME NEW b \in Seq(Byte), Len(b) \in {1, 2}
  PROVE  /\ FromBigEndian(b) \in Numbers(Len(b))
         /\ BigEndian(FromBigEndian(b), Len(b)) = b
<1>0. \A i \in 1 .. Len(b) : b[i] \in Byte
  OBVIOUS
<1>1. CASE Len(b) = 1
  <2>1. b[1] \in 0 .. 255
    BY <1>0, <1>1 DEF Byte
  <2>2. b = <<b[1]>>
    BY <1>1
  <2>3. b[1] % 256 = b[1]
    BY <2>1, SmallRemainder
  <2>4. FromBigEndian(b) = b[1]
    BY <1>1 DEF FromBigEndian
  <2>5. BigEndian(b[1], 1) = <<b[1]>>
    BY <2>3 DEF BigEndian
  <2> QED
    BY <1>1, <2>1, <2>2, <2>4, <2>5 DEF Numbers, Byte
<1>2. CASE Len(b) = 2
  <2>1. PICK q \in 0 .. 255, r \in 0 .. 255 : b[1] = q /\ b[2] = r
    <3>1. b[1] \in Byte /\ b[2] \in Byte
      BY <1>0, <1>2
    <3> QED
      BY <3>1 DEF Byte
  <2>2. b = <<q, r>>
    BY <1>2, <2>1
  <2>3. PICK n \in Int : n = 256 * q + r
    OBVIOUS
  <2>4. n \in Word
    BY <2>3, Words
  <2>5. n \div 256 = q /\ n % 256 = r
    <3>1. q \in Int
      OBVIOUS
    <3> QED
      BY ONLY <3>1, <2>3, r \in 0 .. 255, Quotient, Zenon
  <2>6. q % 256 = q
    BY SmallRemainder
  <2>7. FromBigEndian(b) = n
    BY <1>2, <2>1, <2>3 DEF FromBigEndian
  <2>8. BigEndian(n, 2) = <<q, r>>
    BY <2>5, <2>6 DEF BigEndian
  <2>9. Numbers(2) = Word
    BY DEF Numbers
  <2> QED
    BY ONLY <1>2, <2>2, <2>4, <2>7, <2>8, <2>9
<1> QED
  BY <1>1, <1>2

\* A slice of a datagram.
LEMMA BytesOf ==
  ASSUME NEW d \in Seq(Byte), NEW at \in Nat, NEW n \in Nat, HasBytes(d, at, n)
  PROVE  /\ Bytes(d, at, n) \in Seq(Byte)
         /\ Len(Bytes(d, at, n)) = n
         /\ \A i \in 1 .. n : Bytes(d, at, n)[i] = d[at + i]
  BY DEF HasBytes, Bytes

\* Two bytes of a datagram.
LEMMA TwoBytesOf ==
  ASSUME NEW d \in Seq(Byte), NEW at \in Nat, HasBytes(d, at, 2)
  PROVE  Bytes(d, at, 2) \in Seq(Byte) /\ Len(Bytes(d, at, 2)) = 2
<1>1. at + 1 <= at + 2 /\ at + 2 <= Len(d) /\ at + 1 \in 1 .. Len(d)
  BY DEF HasBytes
<1>2. SubSeq(d, at + 1, at + 2) \in Seq(Byte) /\ Len(SubSeq(d, at + 1, at + 2)) = 2
  BY <1>1
<1> QED
  BY <1>2 DEF Bytes

\* Bytes that are in a place are what is read there.
LEMMA HeldBytes ==
  ASSUME NEW d \in Seq(Byte), NEW at \in Nat, NEW p \in Seq(Byte), Holds(d, at, p)
  PROVE  HasBytes(d, at, Len(p)) /\ Bytes(d, at, Len(p)) = p
<1>1. HasBytes(d, at, Len(p))
  BY DEF Holds, HasBytes
<1>2. /\ Bytes(d, at, Len(p)) \in Seq(Byte)
      /\ Len(Bytes(d, at, Len(p))) = Len(p)
      /\ \A i \in 1 .. Len(p) : Bytes(d, at, Len(p))[i] = p[i]
  BY <1>1, BytesOf DEF Holds
<1> QED
  BY <1>1, <1>2, SeqEqual

\* A sequence of bytes is in a place if its two parts are, one behind the other.
LEMMA HeldParts ==
  ASSUME NEW d \in Seq(Byte), NEW at \in Nat, NEW p \in Seq(Byte), NEW q \in Seq(Byte)
  PROVE  Holds(d, at, p \o q) <=> Holds(d, at, p) /\ Holds(d, at + Len(p), q)
<1>1. Len(p \o q) = Len(p) + Len(q)
  OBVIOUS
<1>2. ASSUME Holds(d, at, p \o q) PROVE Holds(d, at, p) /\ Holds(d, at + Len(p), q)
  <2>1. ASSUME NEW i \in 1 .. Len(p) PROVE d[at + i] = p[i]
    <3>1. i \in 1 .. Len(p \o q) /\ (p \o q)[i] = p[i]
      BY <1>1
    <3> QED
      BY <1>2, <3>1 DEF Holds
  <2>2. ASSUME NEW i \in 1 .. Len(q) PROVE d[(at + Len(p)) + i] = q[i]
    <3>1. Len(p) + i \in 1 .. Len(p \o q) /\ (p \o q)[Len(p) + i] = q[i]
      BY <1>1
    <3>2. d[at + (Len(p) + i)] = q[i]
      BY <1>2, <3>1 DEF Holds
    <3> QED
      BY <3>2
  <2> QED
    BY <1>1, <1>2, <2>1, <2>2 DEF Holds
<1>3. ASSUME Holds(d, at, p), Holds(d, at + Len(p), q) PROVE Holds(d, at, p \o q)
  <2>1. ASSUME NEW i \in 1 .. Len(p \o q) PROVE d[at + i] = (p \o q)[i]
    <3>1. CASE i \in 1 .. Len(p)
      <4>1. (p \o q)[i] = p[i]
        BY <3>1
      <4> QED
        BY <1>3, <3>1, <4>1 DEF Holds
    <3>2. CASE i > Len(p)
      <4>1. i - Len(p) \in 1 .. Len(q) /\ (p \o q)[i] = q[i - Len(p)]
        BY <1>1, <3>2
      <4>2. d[(at + Len(p)) + (i - Len(p))] = q[i - Len(p)]
        BY <1>3, <4>1 DEF Holds
      <4>3. (at + Len(p)) + (i - Len(p)) = at + i
        OBVIOUS
      <4> QED
        BY <4>1, <4>2, <4>3
    <3> QED
      BY <1>1, <3>1, <3>2
  <2> QED
    BY <1>1, <1>3, <2>1 DEF Holds
<1> QED
  BY <1>2, <1>3

\* A slice that begins where another one ends.
LEMMA SlicesJoin ==
  ASSUME NEW d \in Seq(Byte), NEW i \in Nat, NEW j \in Nat, NEW k \in Nat,
         i <= j, j <= k, k <= Len(d)
  PROVE  SubSeq(d, i + 1, j) \o SubSeq(d, j + 1, k) = SubSeq(d, i + 1, k)
<1> DEFINE a == SubSeq(d, i + 1, j)
           b == SubSeq(d, j + 1, k)
           c == SubSeq(d, i + 1, k)
<1>1. a \in Seq(Byte) /\ Len(a) = j - i /\ \A x \in 1 .. j - i : a[x] = d[i + x]
  OBVIOUS
<1>2. b \in Seq(Byte) /\ Len(b) = k - j /\ \A x \in 1 .. k - j : b[x] = d[j + x]
  OBVIOUS
<1>3. c \in Seq(Byte) /\ Len(c) = k - i /\ \A x \in 1 .. k - i : c[x] = d[i + x]
  OBVIOUS
<1> HIDE DEF a, b, c
<1>4. a \o b \in Seq(Byte) /\ Len(a \o b) = k - i
  BY <1>1, <1>2
<1>5. ASSUME NEW x \in 1 .. k - i PROVE (a \o b)[x] = c[x]
  <2>1. CASE x <= j - i
    BY <1>1, <1>2, <1>3, <2>1
  <2>2. CASE x > j - i
    <3>1. x - (j - i) \in 1 .. k - j /\ j + (x - (j - i)) = i + x
      BY <2>2
    <3>2. (a \o b)[x] = b[x - (j - i)]
      BY <1>1, <1>2, <2>2
    <3> QED
      BY <1>2, <1>3, <3>1, <3>2
  <2>3. x <= j - i \/ x > j - i
    OBVIOUS
  <2> QED
    BY ONLY <2>1, <2>2, <2>3
<1>6. a \o b = c
  BY <1>3, <1>4, <1>5, SeqEqual
<1> QED
  BY <1>6 DEF a, b, c

-----------------------------------------------------------------------------
(* Tuples of any values, and what the loops join *)

Tuple(w, n) == w = [i \in 1 .. n |-> w[i]]

\* The n parts of w come behind the first of c.
Follows(c, w, n) == \A i \in 1 .. n : c[i + 1] = w[i]

\* The length and the domain of a tuple.
LEMMA TupleLength ==
  ASSUME NEW n \in Nat, NEW w, Tuple(w, n)
  PROVE  Len(w) = n /\ DOMAIN w = 1 .. n /\ w \in Seq({w[i] : i \in 1 .. n})
<1>1. w \in [1 .. n -> {w[i] : i \in 1 .. n}]
  BY DEF Tuple
<1>2. w \in Seq({w[i] : i \in 1 .. n})
  BY <1>1, SeqDef
<1> QED
  BY <1>1, <1>2

\* A tuple with one element put before it.
LEMMA PutFirst ==
  ASSUME NEW n \in Nat, NEW w, Tuple(w, n), NEW x
  PROVE  /\ Tuple(<<x>> \o w, n + 1)
         /\ (<<x>> \o w)[1] = x
         /\ Follows(<<x>> \o w, w, n)
<1> DEFINE S == {w[i] : i \in 1 .. n} \cup {x}
           c == <<x>> \o w
<1>1. w \in Seq(S) /\ Len(w) = n
  <2>1. w \in Seq({w[i] : i \in 1 .. n}) /\ Len(w) = n
    BY TupleLength
  <2> QED
    BY <2>1, SeqMonotonic
<1>2. <<x>> \in Seq(S) /\ Len(<<x>>) = 1 /\ <<x>>[1] = x
  OBVIOUS
<1>3. c \in Seq(S) /\ Len(c) = n + 1 /\ c[1] = x /\ \A i \in 1 .. n : c[i + 1] = w[i]
  <2> HIDE DEF S
  <2> QED
    BY <1>1, <1>2
<1>4. Tuple(c, n + 1)
  <2> HIDE DEF c, S
  <2>1. c \in [1 .. n + 1 -> S]
    BY <1>3
  <2> QED
    BY <2>1 DEF Tuple
<1> HIDE DEF c, S
<1> QED
  BY <1>3, <1>4 DEF c, Follows

\* The equation of the loop that joins packed parts.
LEMMA JoiningStep ==
  \A parts : /\ Joining!Rec(parts)[0] = <<>>
             /\ \A n \in Nat : Joining!Rec(parts)[n + 1] = Joining!Rec(parts)[n] \o parts[n + 1]
  BY Joining!RecEquation, Zenon DEF NoBytes, Attach

\* Joined bytes are bytes.
LEMMA JoinedBytes ==
  ASSUME NEW m \in Nat, NEW s, Tuple(s, m), \A i \in 1 .. m : s[i] \in Seq(Byte)
  PROVE  /\ \A k \in 0 .. m : Joining!Rec(s)[k] \in Seq(Byte)
         /\ Joined(s) \in Seq(Byte) /\ Joined(s) = Joining!Rec(s)[m]
<1> DEFINE S == {k \in Nat : k <= m => Joining!Rec(s)[k] \in Seq(Byte)}
<1>1. 0 \in S
  <2>1. Joining!Rec(s)[0] = <<>>
    BY JoiningStep
  <2>2. Joining!Rec(s)[0] \in Seq(Byte)
    BY ONLY <2>1, EmptySeq
  <2> QED
    BY ONLY <2>2
<1>2. ASSUME NEW k \in S PROVE k + 1 \in S
  <2> SUFFICES ASSUME k + 1 <= m PROVE Joining!Rec(s)[k + 1] \in Seq(Byte)
    OBVIOUS
  <2>1. Joining!Rec(s)[k] \in Seq(Byte) /\ s[k + 1] \in Seq(Byte)
    OBVIOUS
  <2>2. Joining!Rec(s)[k + 1] = Joining!Rec(s)[k] \o s[k + 1]
    BY JoiningStep
  <2> QED
    BY <2>1, <2>2
<1>3. S = Nat
  <2> HIDE DEF S
  <2>1. S \in SUBSET Nat
    BY DEF S
  <2> QED
    BY <1>1, <1>2, <2>1, Joining!SetInduction
<1>4. \A k \in 0 .. m : Joining!Rec(s)[k] \in Seq(Byte)
  BY <1>3
<1>5. Joined(s) = Joining!Rec(s)[m]
  BY TupleLength DEF Joined
<1> QED
  BY <1>4, <1>5

\* Joining is associative.
LEMMA Regrouped == \A a, b, c \in Seq(Byte) : (a \o b) \o c = a \o (b \o c)
  BY ConcatAssociative

\* The first of the parts can be joined last.
LEMMA JoinedCons ==
  ASSUME NEW m \in Nat, NEW s, Tuple(s, m), \A i \in 1 .. m : s[i] \in Seq(Byte),
         NEW c, Tuple(c, m + 1), c[1] \in Seq(Byte), \A i \in 1 .. m : c[i + 1] = s[i]
  PROVE  Joined(c) = c[1] \o Joined(s)
<1> DEFINE P(k) == Joining!Rec(c)[k + 1] = c[1] \o Joining!Rec(s)[k]
           S == {k \in Nat : k <= m => P(k)}
<1>1. 0 \in S
  <2>1. Joining!Rec(c)[0] = <<>> /\ Joining!Rec(s)[0] = <<>>
    BY JoiningStep
  <2>2. Joining!Rec(c)[0 + 1] = Joining!Rec(c)[0] \o c[0 + 1]
    BY JoiningStep
  <2>3. <<>> \o c[1] = c[1] /\ c[1] \o <<>> = c[1]
    OBVIOUS
  <2>4. 0 + 1 = 1
    OBVIOUS
  <2>5. Joining!Rec(c)[0 + 1] = c[1] \o Joining!Rec(s)[0]
    BY ONLY <2>1, <2>2, <2>3, <2>4
  <2> QED
    BY ONLY <2>5
<1>2. ASSUME NEW k \in S PROVE k + 1 \in S
  <2>0. k \in Nat /\ k + 1 \in Nat
    OBVIOUS
  <2> SUFFICES ASSUME k + 1 <= m
               PROVE  P(k + 1)
    <3> HIDE DEF P
    <3> QED
      BY <2>0
  <2>1. Joining!Rec(c)[(k + 1) + 1] = Joining!Rec(c)[k + 1] \o c[(k + 1) + 1]
    BY <2>0, JoiningStep, Zenon
  <2>2. Joining!Rec(s)[k + 1] = Joining!Rec(s)[k] \o s[k + 1]
    BY JoiningStep
  <2>3. Joining!Rec(c)[k + 1] = c[1] \o Joining!Rec(s)[k]
    <3>1. k <= m
      BY <2>0
    <3>2. P(k)
      <4> HIDE DEF P
      <4> QED
        BY ONLY <3>1, k \in S
    <3> QED
      BY <3>2
  <2>4. c[(k + 1) + 1] = s[k + 1] /\ s[k + 1] \in Seq(Byte)
    OBVIOUS
  <2>5. Joining!Rec(s)[k] \in Seq(Byte)
    BY JoinedBytes
  <2>6. c[1] \in Seq(Byte)
    OBVIOUS
  <2>7. (c[1] \o Joining!Rec(s)[k]) \o s[k + 1] = c[1] \o (Joining!Rec(s)[k] \o s[k + 1])
    BY ONLY <2>4, <2>5, <2>6, Regrouped, Zenon
  <2> QED
    BY ONLY <2>1, <2>2, <2>3, <2>4, <2>7
<1>3. S = Nat
  <2> HIDE DEF S
  <2>1. S \in SUBSET Nat
    BY DEF S
  <2> QED
    BY <1>1, <1>2, <2>1, Joining!SetInduction
<1>4. Joining!Rec(c)[m + 1] = c[1] \o Joining!Rec(s)[m]
  <2>1. P(m)
    <3> HIDE DEF P
    <3> QED
      BY <1>3
  <2> QED
    BY <2>1
<1>5. Joined(c) = Joining!Rec(c)[m + 1]
  <2>1. m + 1 \in Nat
    OBVIOUS
  <2> QED
    BY <2>1, TupleLength DEF Joined
<1> QED
  BY <1>4, <1>5, JoinedBytes

-----------------------------------------------------------------------------
(* What a codec promises: of the inner types it is assumed, of the types made  *)
(* of them it is proved.                                                       *)

\* What a valid value is packed into are bytes.
InnerWrites ==
  \A t, v : IsInner(t) /\ InnerValid(t, v) /\ InnerErrors(t, v) = {} =>
    PackInner(t, v) \in Seq(Byte)

Writes ==
  \A t, v : IsType(t) /\ Valid(t, v) /\ PackErrors(t, v) = {} => Pack(t, v) \in Seq(Byte)

\* Reading goes forward, and raises two exceptions only, one of them for a zero in
\* a type with strings.
InnerReads ==
  \A t : \A d \in Seq(Byte), at \in Nat :
    IsInner(t) =>
      /\ UnpackInner(t, d, at).error \in {"none", "DeserializeError", "SerializeError"}
      /\ UnpackInner(t, d, at).error = "none" =>
           UnpackInner(t, d, at).next \in Nat /\ at <= UnpackInner(t, d, at).next
      /\ UnpackInner(t, d, at).error = "SerializeError" =>
           HoldsTextInner(t) /\ \E i \in at + 1 .. Len(d) : d[i] = 0

Reads ==
  \A t : \A d \in Seq(Byte), at \in Nat :
    IsType(t) =>
      /\ Unpack(t, d, at).error \in {"none", "DeserializeError", "SerializeError"}
      /\ Unpack(t, d, at).error = "none" =>
           Unpack(t, d, at).next \in Nat /\ at <= Unpack(t, d, at).next
      /\ Unpack(t, d, at).error = "SerializeError" =>
           HoldsText(t) /\ \E i \in at + 1 .. Len(d) : d[i] = 0

\* Where a packed value is, a plain one is read back; of any other, no more and no
\* less than its bytes are read, if it is read.
InnerReadsBack ==
  \A t, v : \A d \in Seq(Byte), at \in Nat :
    IsInner(t) /\ InnerValid(t, v) /\ InnerErrors(t, v) = {} /\ Holds(d, at, PackInner(t, v)) =>
      /\ UnpackInner(t, d, at).error = "none" =>
           UnpackInner(t, d, at).next = at + Len(PackInner(t, v))
      /\ PlainInner(t, v) =>
           UnpackInner(t, d, at) = Read(FilledInner(t, v), at + Len(PackInner(t, v)))

ReadsBack ==
  \A t, v : \A d \in Seq(Byte), at \in Nat :
    IsType(t) /\ Valid(t, v) /\ PackErrors(t, v) = {} /\ Holds(d, at, Pack(t, v)) =>
      /\ Unpack(t, d, at).error = "none" =>
           Unpack(t, d, at).next = at + Len(Pack(t, v))
      /\ Plain(t, v) => Unpack(t, d, at) = Read(Filled(t, v), at + Len(Pack(t, v)))

\* A plain value that is read is valid, and packed into the bytes it was read from.
InnerWritesBack ==
  \A t : \A d \in Seq(Byte), at \in Nat :
    LET u == UnpackInner(t, d, at) IN
      IsInner(t) /\ u.error = "none" /\ u.next <= Len(d) /\ PlainInner(t, u.value) =>
        /\ InnerValid(t, u.value) /\ InnerErrors(t, u.value) = {}
        /\ PackInner(t, u.value) = SubSeq(d, at + 1, u.next)

WritesBack ==
  \A t : \A d \in Seq(Byte), at \in Nat :
    LET u == Unpack(t, d, at) IN
      IsType(t) /\ u.error = "none" /\ u.next <= Len(d) /\ Plain(t, u.value) =>
        /\ Valid(t, u.value) /\ PackErrors(t, u.value) = {}
        /\ Pack(t, u.value) = SubSeq(d, at + 1, u.next)

\* What is read depends on the bytes that are read only.
InnerIsLocal ==
  \A t : \A d, e \in Seq(Byte), at \in Nat :
    LET u == UnpackInner(t, d, at) IN
      /\ IsInner(t) /\ u.error = "none" /\ u.next <= Len(d) /\ u.next <= Len(e)
      /\ \A i \in at + 1 .. u.next : e[i] = d[i]
      => UnpackInner(t, e, at) = u

IsLocal ==
  \A t : \A d, e \in Seq(Byte), at \in Nat :
    LET u == Unpack(t, d, at) IN
      /\ IsType(t) /\ u.error = "none" /\ u.next <= Len(d) /\ u.next <= Len(e)
      /\ \A i \in at + 1 .. u.next : e[i] = d[i]
      => Unpack(t, e, at) = u

InnerCorrect == InnerWrites /\ InnerReads /\ InnerReadsBack /\ InnerWritesBack /\ InnerIsLocal

Correct == Writes /\ Reads /\ ReadsBack /\ WritesBack /\ IsLocal

-----------------------------------------------------------------------------
(* The loops over the parts *)

\* What reading the last m of n parts gives.
Rest(t, n, d, m, at) == Unpacking!Rec([type |-> t, count |-> n, d |-> d])[m][at]

\* The loop over no parts reads nothing.
LEMMA NothingIsLeft ==
  ASSUME NEW t, NEW n, NEW d, NEW at \in Nat
  PROVE  Rest(t, n, d, 0, at) = Read(<<>>, at)
<1> DEFINE loop == [type |-> t, count |-> n, d |-> d]
<1>1. Unpacking!Rec(loop)[0] = NoParts(loop)
  <2> HIDE DEF loop
  <2> QED
    BY Unpacking!RecEquation, Zenon
<1> QED
  BY <1>1 DEF Rest, NoParts

\* The loop over one part more reads it and goes on behind it.
LEMMA OneIsRead ==
  ASSUME NEW t, NEW n \in Nat, NEW d, NEW m \in Nat, NEW at \in Nat
  PROVE  LET first == UnpackInner(Part(t, n - m), d, at)
             others == Rest(t, n, d, m, first.next)
         IN  /\ first.error # "none" => Rest(t, n, d, m + 1, at) = first
             /\ first.error = "none" /\ others.error # "none" =>
                  Rest(t, n, d, m + 1, at) = others
             /\ first.error = "none" /\ others.error = "none" =>
                  Rest(t, n, d, m + 1, at)
                    = Read(<<first.value>> \o others.value, others.next)
<1> DEFINE loop == [type |-> t, count |-> n, d |-> d]
           rest == Unpacking!Rec(loop)[m]
           first == UnpackInner(Part(t, n - m), d, at)
           others == rest[first.next]
<1>1. Unpacking!Rec(loop)[m + 1] = OneMore(loop, m + 1, rest)
  <2> HIDE DEF loop
  <2> QED
    BY Unpacking!RecEquation, Zenon
<1>2. FirstOf(loop, m + 1, at) = first
  <2>1. (n - (m + 1)) + 1 = n - m
    OBVIOUS
  <2>2. FirstOf(loop, m + 1, at) = UnpackInner(Part(t, n - (m + 1) + 1), d, at)
    BY DEF FirstOf
  <2> QED
    BY <2>1, <2>2
<1>3. Rest(t, n, d, m + 1, at)
        = CASE first.error # "none" -> first
            [] first.error = "none" /\ others.error # "none" -> others
            [] OTHER -> Read(<<first.value>> \o others.value, others.next)
  <2> DEFINE Result(f) ==
        CASE f.error # "none" -> f
          [] f.error = "none" /\ rest[f.next].error # "none" -> rest[f.next]
          [] OTHER -> Read(<<f.value>> \o rest[f.next].value, rest[f.next].next)
  <2>1. OneMore(loop, m + 1, rest) = [a \in Nat |-> Result(FirstOf(loop, m + 1, a))]
    BY DEF OneMore
  <2> HIDE DEF Result
  <2>2. OneMore(loop, m + 1, rest)[at] = Result(FirstOf(loop, m + 1, at))
    BY <2>1
  <2>3. Rest(t, n, d, m + 1, at) = Result(first)
    BY <1>1, <1>2, <2>2 DEF Rest
  <2> QED
    BY <2>3 DEF Result
<1>4. others = Rest(t, n, d, m, first.next)
  BY DEF Rest
<1> HIDE DEF first, others
<1>5. /\ first.error # "none" => Rest(t, n, d, m + 1, at) = first
      /\ first.error = "none" /\ others.error # "none" => Rest(t, n, d, m + 1, at) = others
      /\ first.error = "none" /\ others.error = "none" =>
           Rest(t, n, d, m + 1, at) = Read(<<first.value>> \o others.value, others.next)
  BY ONLY <1>3
<1> QED
  BY <1>4, <1>5, Zenon DEF first

AllInner(t, n) == \A i \in 1 .. n : IsInner(Part(t, i))

\* Induction up to n.
LEMMA UpTo ==
  ASSUME NEW n \in Nat, NEW S \in SUBSET Nat, 0 \in S,
         \A m \in Nat : m < n /\ m \in S => m + 1 \in S
  PROVE  \A m \in 0 .. n : m \in S
<1> DEFINE T == {m \in Nat : m <= n => m \in S}
<1>1. 0 \in T
  OBVIOUS
<1>2. ASSUME NEW m \in T PROVE m + 1 \in T
  OBVIOUS
<1>3. T = Nat
  <2>1. T \in SUBSET Nat
    OBVIOUS
  <2> HIDE DEF T
  <2> QED
    BY <1>1, <1>2, <2>1, Unpacking!SetInduction
<1> QED
  BY <1>3

\* The loop raises only what reading a part may raise, and moves forward.
LEMMA RestReads ==
  ASSUME InnerReads, NEW t, NEW n \in Nat, AllInner(t, n),
         NEW d \in Seq(Byte)
  PROVE  \A m \in 0 .. n : \A at \in Nat :
           LET u == Rest(t, n, d, m, at) IN
             /\ u.error \in {"none", "DeserializeError", "SerializeError"}
             /\ u.error = "none" => u.next \in Nat /\ at <= u.next /\ Tuple(u.value, m)
             /\ u.error = "SerializeError" =>
                  /\ \E i \in 1 .. n : HoldsTextInner(Part(t, i))
                  /\ \E i \in at + 1 .. Len(d) : d[i] = 0
<1> DEFINE Good(m, at) ==
             LET u == Rest(t, n, d, m, at) IN
               /\ u.error \in {"none", "DeserializeError", "SerializeError"}
               /\ u.error = "none" => u.next \in Nat /\ at <= u.next /\ Tuple(u.value, m)
               /\ u.error = "SerializeError" =>
                    /\ \E i \in 1 .. n : HoldsTextInner(Part(t, i))
                    /\ \E i \in at + 1 .. Len(d) : d[i] = 0
           S == {m \in Nat : \A at \in Nat : Good(m, at)}
<1>1. 0 \in S
  <2> SUFFICES ASSUME NEW at \in Nat PROVE Good(0, at)
    OBVIOUS
  <2>1. Rest(t, n, d, 0, at) = Read(<<>>, at)
    BY NothingIsLeft
  <2>2. Tuple(<<>>, 0)
    BY DEF Tuple
  <2> QED
    BY <2>1, <2>2 DEF Read
<1>2. ASSUME NEW m \in Nat, m < n, m \in S PROVE m + 1 \in S
  <2> SUFFICES ASSUME NEW at \in Nat PROVE Good(m + 1, at)
    OBVIOUS
  <2> DEFINE first == UnpackInner(Part(t, n - m), d, at)
             others == Rest(t, n, d, m, first.next)
             u == Rest(t, n, d, m + 1, at)
  <2>1. n - m \in 1 .. n
    BY <1>2
  <2>2. /\ first.error \in {"none", "DeserializeError", "SerializeError"}
        /\ first.error = "none" => first.next \in Nat /\ at <= first.next
        /\ first.error = "SerializeError" =>
             HoldsTextInner(Part(t, n - m)) /\ \E i \in at + 1 .. Len(d) : d[i] = 0
    BY <2>1 DEF InnerReads, AllInner
  <2>3. first.error = "none" =>
          /\ others.error \in {"none", "DeserializeError", "SerializeError"}
          /\ others.error = "none" =>
               others.next \in Nat /\ first.next <= others.next /\ Tuple(others.value, m)
          /\ others.error = "SerializeError" =>
               /\ \E i \in 1 .. n : HoldsTextInner(Part(t, i))
               /\ \E i \in first.next + 1 .. Len(d) : d[i] = 0
    BY <1>2, <2>2
  <2>4. /\ first.error # "none" => u = first
        /\ first.error = "none" /\ others.error # "none" => u = others
        /\ first.error = "none" /\ others.error = "none" =>
             u = Read(<<first.value>> \o others.value, others.next)
    BY <1>2, OneIsRead
  <2>5. Tuple(others.value, m) => Tuple(<<first.value>> \o others.value, m + 1)
    BY PutFirst
  <2> HIDE DEF first, others, u
  <2>6. CASE first.error # "none"
    BY <2>1, <2>2, <2>4, <2>6 DEF first, u
  <2>7. CASE first.error = "none" /\ others.error # "none"
    <3>1. u = others /\ at <= first.next /\ first.next \in Nat
      BY <2>2, <2>4, <2>7
    <3>2. u.error = "SerializeError" => \E i \in at + 1 .. Len(d) : d[i] = 0
      BY <2>3, <2>7, <3>1
    <3> QED
      BY <2>3, <2>7, <3>1, <3>2 DEF u
  <2>8. CASE first.error = "none" /\ others.error = "none"
    <3>1. u = Read(<<first.value>> \o others.value, others.next)
      BY <2>4, <2>8
    <3>2. u.error = "none" /\ u.next = others.next /\ u.value = <<first.value>> \o others.value
      BY <3>1 DEF Read
    <3>3. u.next \in Nat /\ at <= u.next
      BY <2>2, <2>3, <2>8, <3>2
    <3>4. Tuple(u.value, m + 1)
      BY <2>3, <2>5, <2>8, <3>2
    <3> QED
      BY <3>2, <3>3, <3>4 DEF u
  <2> QED
    BY <2>6, <2>7, <2>8
<1>3. \A m \in 0 .. n : m \in S
  <2>1. S \in SUBSET Nat
    OBVIOUS
  <2> HIDE DEF S
  <2> QED
    BY <1>1, <1>2, <2>1, UpTo
<1> QED
  BY <1>3

\* The last m of n parts: their packed bytes, and that they may be packed.
PackedLast(t, n, m, w) == Joined([i \in 1 .. m |-> PackInner(Part(t, (n - m) + i), w[i])])

ValidLast(t, n, m, w) ==
  /\ Tuple(w, m)
  /\ \A i \in 1 .. m : /\ InnerValid(Part(t, (n - m) + i), w[i])
                       /\ InnerErrors(Part(t, (n - m) + i), w[i]) = {}

Behind(w, m) == [i \in 1 .. m |-> w[i + 1]]

\* The packed last parts of a value are bytes.
LEMMA PackedLastBytes ==
  ASSUME InnerWrites, NEW t, NEW n \in Nat, AllInner(t, n),
         NEW m \in 0 .. n, NEW w, ValidLast(t, n, m, w)
  PROVE  PackedLast(t, n, m, w) \in Seq(Byte)
<1> DEFINE s == [i \in 1 .. m |-> PackInner(Part(t, (n - m) + i), w[i])]
<1>1. ASSUME NEW i \in 1 .. m PROVE s[i] \in Seq(Byte)
  <2>1. (n - m) + i \in 1 .. n
    OBVIOUS
  <2>2. IsInner(Part(t, (n - m) + i))
    BY <2>1 DEF AllInner
  <2>3. PackInner(Part(t, (n - m) + i), w[i]) \in Seq(Byte)
    BY <2>2 DEF ValidLast, InnerWrites
  <2> QED
    BY <2>3
<1>2. Tuple(s, m)
  BY DEF Tuple
<1>3. m \in Nat
  OBVIOUS
<1> HIDE DEF s
<1>4. Joined(s) \in Seq(Byte)
  BY <1>1, <1>2, <1>3, JoinedBytes
<1> QED
  BY <1>4 DEF s, PackedLast

\* One more part in front of them.
LEMMA PackedLastStep ==
  ASSUME InnerWrites, NEW t, NEW n \in Nat, AllInner(t, n),
         NEW m \in 0 .. n - 1, NEW w, Tuple(w, m + 1),
         InnerValid(Part(t, n - m), w[1]), InnerErrors(Part(t, n - m), w[1]) = {},
         NEW r, ValidLast(t, n, m, r), Follows(w, r, m)
  PROVE  /\ ValidLast(t, n, m + 1, w)
         /\ PackInner(Part(t, n - m), w[1]) \in Seq(Byte)
         /\ PackedLast(t, n, m + 1, w)
              = PackInner(Part(t, n - m), w[1]) \o PackedLast(t, n, m, r)
<1> DEFINE s == [i \in 1 .. m |-> PackInner(Part(t, (n - m) + i), r[i])]
           c == [i \in 1 .. m + 1 |-> PackInner(Part(t, (n - (m + 1)) + i), w[i])]
<1>0. m \in Nat /\ m + 1 \in Nat /\ m \in 0 .. n /\ n - m \in 1 .. n
  OBVIOUS
<1>1. (n - (m + 1)) + 1 = n - m
  OBVIOUS
<1>2. \A i \in 1 .. m : (n - (m + 1)) + (i + 1) = (n - m) + i
  OBVIOUS
<1>3. ASSUME NEW i \in 1 .. m PROVE s[i] \in Seq(Byte)
  <2>1. (n - m) + i \in 1 .. n
    OBVIOUS
  <2>2. IsInner(Part(t, (n - m) + i))
    BY <2>1 DEF AllInner
  <2>3. PackInner(Part(t, (n - m) + i), r[i]) \in Seq(Byte)
    BY <2>2 DEF ValidLast, InnerWrites
  <2> QED
    BY <2>3
<1>4. PackInner(Part(t, n - m), w[1]) \in Seq(Byte)
  BY <1>0 DEF InnerWrites, AllInner
<1>5. c[1] = PackInner(Part(t, n - m), w[1])
  BY <1>0, <1>1
<1>6. ASSUME NEW i \in 1 .. m PROVE c[i + 1] = s[i]
  <2>1. c[i + 1] = PackInner(Part(t, (n - (m + 1)) + (i + 1)), w[i + 1])
    OBVIOUS
  <2>2. w[i + 1] = r[i]
    BY DEF Follows
  <2> QED
    BY <1>2, <2>1, <2>2
<1>7. Tuple(s, m) /\ Tuple(c, m + 1)
  BY DEF Tuple
<1>8. Joined(c) = c[1] \o Joined(s)
  <2> HIDE DEF s, c
  <2> QED
    BY <1>0, <1>3, <1>4, <1>5, <1>6, <1>7, JoinedCons
<1>9. PackedLast(t, n, m + 1, w) = PackInner(Part(t, n - m), w[1]) \o PackedLast(t, n, m, r)
  <2>1. PackedLast(t, n, m + 1, w) = Joined(c) /\ PackedLast(t, n, m, r) = Joined(s)
    BY DEF PackedLast
  <2> HIDE DEF s, c
  <2> QED
    BY ONLY <1>5, <1>8, <2>1
<1>10. ValidLast(t, n, m + 1, w)
  <2> SUFFICES ASSUME NEW i \in 1 .. m + 1
               PROVE  /\ InnerValid(Part(t, (n - (m + 1)) + i), w[i])
                      /\ InnerErrors(Part(t, (n - (m + 1)) + i), w[i]) = {}
    BY DEF ValidLast
  <2>1. CASE i = 1
    BY <1>1, <2>1
  <2>2. CASE i # 1
    <3>1. PICK j \in 1 .. m : i = j + 1
      <4>1. i - 1 \in 1 .. m /\ i = (i - 1) + 1
        BY <2>2
      <4> QED
        BY <4>1
    <3>3. w[j + 1] = r[j]
      BY DEF Follows
    <3>2. /\ InnerValid(Part(t, (n - m) + j), r[j])
          /\ InnerErrors(Part(t, (n - m) + j), r[j]) = {}
      BY DEF ValidLast
    <3> QED
      BY <1>2, <3>1, <3>2, <3>3
  <2> QED
    BY <2>1, <2>2
<1> QED
  BY <1>4, <1>9, <1>10

\* The parts behind the first one of a valid value are valid.
LEMMA BehindIsValid ==
  ASSUME NEW t, NEW n \in Nat, NEW m \in 0 .. n - 1, NEW w, ValidLast(t, n, m + 1, w)
  PROVE  /\ InnerValid(Part(t, n - m), w[1]) /\ InnerErrors(Part(t, n - m), w[1]) = {}
         /\ ValidLast(t, n, m, Behind(w, m))
         /\ Follows(w, Behind(w, m), m)
<1>1. (n - (m + 1)) + 1 = n - m /\ 1 \in 1 .. m + 1
  OBVIOUS
<1>2. InnerValid(Part(t, n - m), w[1]) /\ InnerErrors(Part(t, n - m), w[1]) = {}
  BY <1>1 DEF ValidLast
<1>3. ASSUME NEW i \in 1 .. m
      PROVE  /\ InnerValid(Part(t, (n - m) + i), w[i + 1])
             /\ InnerErrors(Part(t, (n - m) + i), w[i + 1]) = {}
  <2>1. (n - (m + 1)) + (i + 1) = (n - m) + i /\ i + 1 \in 1 .. m + 1
    OBVIOUS
  <2>2. /\ InnerValid(Part(t, (n - (m + 1)) + (i + 1)), w[i + 1])
        /\ InnerErrors(Part(t, (n - (m + 1)) + (i + 1)), w[i + 1]) = {}
    BY <2>1 DEF ValidLast
  <2> QED
    BY <2>1, <2>2
<1>4. \A i \in 1 .. m : Behind(w, m)[i] = w[i + 1]
  BY DEF Behind
<1>5. Tuple(Behind(w, m), m)
  BY DEF Tuple, Behind
<1> QED
  BY <1>2, <1>3, <1>4, <1>5 DEF ValidLast, Follows

\* The loop reads packed parts back.
LEMMA RestReadsBack ==
  ASSUME InnerWrites, InnerReads, InnerReadsBack,
         NEW t, NEW n \in Nat, AllInner(t, n), NEW d \in Seq(Byte)
  PROVE  \A m \in 0 .. n : \A at \in Nat : \A w :
           ValidLast(t, n, m, w) /\ Holds(d, at, PackedLast(t, n, m, w)) =>
             LET u == Rest(t, n, d, m, at) IN
               /\ u.error = "none" => u.next = at + Len(PackedLast(t, n, m, w))
               /\ (\A i \in 1 .. m : PlainInner(Part(t, (n - m) + i), w[i])) =>
                    u = Read([i \in 1 .. m |-> FilledInner(Part(t, (n - m) + i), w[i])],
                             at + Len(PackedLast(t, n, m, w)))
<1> DEFINE AllPlain(m, w) == \A i \in 1 .. m : PlainInner(Part(t, (n - m) + i), w[i])
           AllFilled(m, w) == [i \in 1 .. m |-> FilledInner(Part(t, (n - m) + i), w[i])]
           Good(m, at, w) ==
             ValidLast(t, n, m, w) /\ Holds(d, at, PackedLast(t, n, m, w)) =>
               LET u == Rest(t, n, d, m, at) IN
                 /\ u.error = "none" => u.next = at + Len(PackedLast(t, n, m, w))
                 /\ AllPlain(m, w) =>
                      u = Read(AllFilled(m, w), at + Len(PackedLast(t, n, m, w)))
           S == {m \in Nat : \A at \in Nat : \A w : Good(m, at, w)}
<1>1. 0 \in S
  <2> SUFFICES ASSUME NEW at \in Nat, NEW w, ValidLast(t, n, 0, w) PROVE Good(0, at, w)
    OBVIOUS
  <2>1. Rest(t, n, d, 0, at) = Read(<<>>, at)
    BY NothingIsLeft
  <2>2. PackedLast(t, n, 0, w) = <<>>
    <3> DEFINE s == [i \in 1 .. 0 |-> PackInner(Part(t, (n - 0) + i), w[i])]
    <3>1. s = <<>>
      OBVIOUS
    <3>2. PackedLast(t, n, 0, w) = Joined(<<>>)
      BY <3>1 DEF PackedLast
    <3>3. Joined(<<>>) = Joining!Rec(<<>>)[0]
      BY DEF Joined
    <3> QED
      BY <3>2, <3>3, JoiningStep
  <2>3. at + Len(<<>>) = at
    OBVIOUS
  <2>4. AllFilled(0, w) = <<>>
    OBVIOUS
  <2> HIDE DEF AllFilled, AllPlain
  <2> QED
    BY <2>1, <2>2, <2>3, <2>4 DEF Read
<1>2. ASSUME NEW m \in Nat, m < n, m \in S PROVE m + 1 \in S
  <2> SUFFICES ASSUME NEW at \in Nat, NEW w, ValidLast(t, n, m + 1, w),
                      Holds(d, at, PackedLast(t, n, m + 1, w))
               PROVE  Good(m + 1, at, w)
    OBVIOUS
  <2> DEFINE r == Behind(w, m)
             p == PackInner(Part(t, n - m), w[1])
             q == PackedLast(t, n, m, r)
             first == UnpackInner(Part(t, n - m), d, at)
             others == Rest(t, n, d, m, first.next)
             u == Rest(t, n, d, m + 1, at)
  <2>1. m \in 0 .. n - 1 /\ m \in 0 .. n /\ n - m \in 1 .. n
    BY <1>2
  <2>2. /\ InnerValid(Part(t, n - m), w[1]) /\ InnerErrors(Part(t, n - m), w[1]) = {}
        /\ ValidLast(t, n, m, r)
        /\ Follows(w, r, m)
    <3>1. InnerValid(Part(t, n - m), w[1]) /\ InnerErrors(Part(t, n - m), w[1]) = {}
      BY <2>1, BehindIsValid
    <3>2. ValidLast(t, n, m, r)
      BY <2>1, BehindIsValid
    <3>3. Follows(w, r, m)
      BY <2>1, BehindIsValid
    <3> QED
      BY <3>1, <3>2, <3>3
  <2>3. Tuple(w, m + 1)
    BY DEF ValidLast
  <2>4. p \in Seq(Byte) /\ PackedLast(t, n, m + 1, w) = p \o q
    <3> HIDE DEF r, Good, AllPlain, AllFilled
    <3>1. p \in Seq(Byte)
      BY <2>1, <2>2 DEF InnerWrites, AllInner
    <3>2. PackedLast(t, n, m + 1, w) = p \o q
      BY ONLY InnerWrites, n \in Nat, AllInner(t, n),
              <2>1, <2>2, <2>3, PackedLastStep
    <3> QED
      BY <3>1, <3>2
  <2>5. q \in Seq(Byte)
    <3> HIDE DEF r
    <3> QED
      BY <2>1, <2>2, PackedLastBytes
  <2>6. IsInner(Part(t, n - m))
    BY <2>1 DEF AllInner
  <2>7. /\ first.error # "none" => u = first
        /\ first.error = "none" /\ others.error # "none" => u = others
        /\ first.error = "none" /\ others.error = "none" =>
             u = Read(<<first.value>> \o others.value, others.next)
    BY <1>2, OneIsRead
  <2>8. Len(p \o q) = Len(p) + Len(q) /\ Len(p) \in Nat /\ Len(q) \in Nat
    BY <2>4, <2>5
  <2>9. Holds(d, at, p) /\ Holds(d, at + Len(p), q)
    <3> HIDE DEF p, q
    <3> QED
      BY <2>4, <2>5, HeldParts
  <2>10. /\ first.error = "none" => first.next = at + Len(p)
         /\ PlainInner(Part(t, n - m), w[1]) =>
              first = Read(FilledInner(Part(t, n - m), w[1]), at + Len(p))
    BY <2>2, <2>6, <2>9 DEF InnerReadsBack
  <2>11. Good(m, at + Len(p), r)
    <3>1. at + Len(p) \in Nat
      BY <2>8
    <3> HIDE DEF Good, p, r
    <3> QED
      BY <1>2, <3>1
  <2>12. u.error = "none" => u.next = at + Len(p \o q)
    <3> SUFFICES ASSUME u.error = "none" PROVE u.next = at + Len(p \o q)
      OBVIOUS
    <3> HIDE DEF first, others, u
    <3>1. first.error = "none" /\ others.error = "none" /\ u.next = others.next
      BY <2>7 DEF Read
    <3>2. first.next = at + Len(p)
      BY <2>10, <3>1
    <3>3. others = Rest(t, n, d, m, at + Len(p))
      BY <3>2 DEF others
    <3>4. others.next = (at + Len(p)) + Len(q)
      BY <2>2, <2>9, <2>11, <3>1, <3>3
    <3> HIDE DEF p, q
    <3> QED
      BY <2>8, <3>1, <3>4
  <2>13. ASSUME AllPlain(m + 1, w) PROVE u = Read(AllFilled(m + 1, w), at + Len(p \o q))
    <3>1. PlainInner(Part(t, n - m), w[1])
      <4>1. (n - (m + 1)) + 1 = n - m /\ 1 \in 1 .. m + 1
        OBVIOUS
      <4>2. PlainInner(Part(t, (n - (m + 1)) + 1), w[1])
        BY <2>13, <4>1
      <4> QED
        BY <4>1, <4>2
    <3>2. AllPlain(m, r)
      <4> SUFFICES ASSUME NEW i \in 1 .. m PROVE PlainInner(Part(t, (n - m) + i), r[i])
        OBVIOUS
      <4>1. (n - (m + 1)) + (i + 1) = (n - m) + i /\ i + 1 \in 1 .. m + 1
        OBVIOUS
      <4>2. PlainInner(Part(t, (n - (m + 1)) + (i + 1)), w[i + 1])
        BY <2>13, <4>1
      <4>3. w[i + 1] = r[i]
        BY <2>2 DEF Follows
      <4> HIDE DEF r
      <4> QED
        BY <4>1, <4>2, <4>3
    <3>3. first = Read(FilledInner(Part(t, n - m), w[1]), at + Len(p))
      BY <2>10, <3>1
    <3>4. first.error = "none" /\ first.next = at + Len(p)
          /\ first.value = FilledInner(Part(t, n - m), w[1])
      BY <3>3 DEF Read
    <3>5. others = Rest(t, n, d, m, at + Len(p))
      BY <3>4
    <3>6. others = Read(AllFilled(m, r), (at + Len(p)) + Len(q))
      <4> HIDE DEF AllPlain, AllFilled, p, first, others
      <4> QED
        BY <2>2, <2>9, <2>11, <3>2, <3>5 DEF p
    <3> DEFINE f == AllFilled(m, r)
               x == FilledInner(Part(t, n - m), w[1])
               g == AllFilled(m + 1, w)
    <3>7. u = Read(<<x>> \o f, (at + Len(p)) + Len(q))
      <4>1. others.error = "none" /\ others.next = (at + Len(p)) + Len(q) /\ others.value = f
        BY <3>6 DEF Read
      <4> HIDE DEF AllFilled, p, q, first, others, u, x, f
      <4> QED
        BY <2>7, <3>4, <4>1 DEF x
    <3>8. Tuple(f, m) /\ Tuple(g, m + 1)
      BY DEF Tuple
    <3>9. g[1] = x
      <4>1. (n - (m + 1)) + 1 = n - m /\ 1 \in 1 .. m + 1
        OBVIOUS
      <4>2. g[1] = FilledInner(Part(t, (n - (m + 1)) + 1), w[1])
        BY <4>1
      <4> QED
        BY <4>1, <4>2
    <3>10. ASSUME NEW i \in 1 .. m PROVE g[i + 1] = f[i]
      <4>1. (n - (m + 1)) + (i + 1) = (n - m) + i /\ i + 1 \in 1 .. m + 1
        OBVIOUS
      <4>2. g[i + 1] = FilledInner(Part(t, (n - (m + 1)) + (i + 1)), w[i + 1])
        BY <4>1
      <4>3. w[i + 1] = r[i]
        BY <2>2 DEF Follows
      <4>4. f[i] = FilledInner(Part(t, (n - m) + i), r[i])
        OBVIOUS
      <4> HIDE DEF r, f, g
      <4> QED
        BY <4>1, <4>2, <4>3, <4>4
    <3>11. g = <<x>> \o f
      <4> HIDE DEF f, g, x
      <4> DEFINE h == <<x>> \o f
      <4>1. Tuple(h, m + 1) /\ h[1] = x /\ Follows(h, f, m)
        BY <3>8, PutFirst
      <4> HIDE DEF h
      <4>2. ASSUME NEW i \in 1 .. m + 1 PROVE g[i] = h[i]
        <5>1. CASE i = 1
          BY <3>9, <4>1, <5>1
        <5>2. CASE i # 1
          <6>1. i - 1 \in 1 .. m /\ (i - 1) + 1 = i
            BY <5>2
          <6>2. g[(i - 1) + 1] = h[(i - 1) + 1]
            BY <3>10, <4>1, <6>1 DEF Follows
          <6> QED
            BY <6>1, <6>2
        <5> QED
          BY <5>1, <5>2
      <4>3. [i \in 1 .. m + 1 |-> g[i]] = [i \in 1 .. m + 1 |-> h[i]]
        BY <4>2
      <4>4. g = h
        BY <3>8, <4>1, <4>3 DEF Tuple
      <4> QED
        BY <4>4 DEF h
    <3>12. (at + Len(p)) + Len(q) = at + Len(p \o q)
      <4> HIDE DEF p, q
      <4> QED
        BY <2>8
    <3> HIDE DEF p, q, f, g, x, u
    <3>13. u = Read(g, at + Len(p \o q))
      BY <3>7, <3>11, <3>12
    <3> QED
      BY <3>13 DEF g
  <2> HIDE DEF AllPlain, AllFilled, u, p, q
  <2> QED
    BY <2>4, <2>12, <2>13 DEF u
<1>3. \A m \in 0 .. n : m \in S
  <2>1. S \in SUBSET Nat
    OBVIOUS
  <2> HIDE DEF S
  <2> QED
    BY <1>1, <1>2, <2>1, UpTo
<1> QED
  BY <1>3

\* Packing the parts that the loop reads gives the bytes that they were read from.
LEMMA RestWritesBack ==
  ASSUME InnerWrites, InnerReads, InnerWritesBack,
         NEW t, NEW n \in Nat, AllInner(t, n), NEW d \in Seq(Byte)
  PROVE  \A m \in 0 .. n : \A at \in Nat :
           LET u == Rest(t, n, d, m, at) IN
             /\ u.error = "none" /\ u.next <= Len(d)
             /\ \A i \in 1 .. m : PlainInner(Part(t, (n - m) + i), u.value[i])
             => /\ ValidLast(t, n, m, u.value)
                /\ PackedLast(t, n, m, u.value) = SubSeq(d, at + 1, u.next)
<1> DEFINE AllPlain(m, w) == \A i \in 1 .. m : PlainInner(Part(t, (n - m) + i), w[i])
           Good(m, at) ==
             LET u == Rest(t, n, d, m, at) IN
               u.error = "none" /\ u.next <= Len(d) /\ AllPlain(m, u.value) =>
                 /\ ValidLast(t, n, m, u.value)
                 /\ PackedLast(t, n, m, u.value) = SubSeq(d, at + 1, u.next)
           S == {m \in Nat : \A at \in Nat : Good(m, at)}
<1>1. 0 \in S
  <2> SUFFICES ASSUME NEW at \in Nat PROVE Good(0, at)
    OBVIOUS
  <2>1. Rest(t, n, d, 0, at) = Read(<<>>, at)
    BY NothingIsLeft
  <2>2. PackedLast(t, n, 0, <<>>) = <<>>
    <3> DEFINE s == [i \in 1 .. 0 |-> PackInner(Part(t, (n - 0) + i), <<>>[i])]
    <3>1. s = <<>>
      OBVIOUS
    <3>2. PackedLast(t, n, 0, <<>>) = Joined(<<>>)
      BY <3>1 DEF PackedLast
    <3>3. Joined(<<>>) = Joining!Rec(<<>>)[0]
      BY DEF Joined
    <3> QED
      BY <3>2, <3>3, JoiningStep
  <2>3. ValidLast(t, n, 0, <<>>)
    BY DEF ValidLast, Tuple
  <2>4. SubSeq(d, at + 1, at) = <<>>
    OBVIOUS
  <2>5. Rest(t, n, d, 0, at).value = <<>> /\ Rest(t, n, d, 0, at).next = at
    BY <2>1 DEF Read
  <2> HIDE DEF AllPlain
  <2> QED
    BY ONLY <2>2, <2>3, <2>4, <2>5
<1>2. ASSUME NEW m \in Nat, m < n, m \in S PROVE m + 1 \in S
  <2> DEFINE u(at) == Rest(t, n, d, m + 1, at)
  <2> SUFFICES ASSUME NEW at \in Nat, u(at).error = "none", u(at).next <= Len(d),
                      AllPlain(m + 1, u(at).value)
               PROVE  /\ ValidLast(t, n, m + 1, u(at).value)
                      /\ PackedLast(t, n, m + 1, u(at).value) = SubSeq(d, at + 1, u(at).next)
    OBVIOUS
  <2> DEFINE first == UnpackInner(Part(t, n - m), d, at)
             others == Rest(t, n, d, m, first.next)
             x == first.value
             r == others.value
             w == <<x>> \o r
  <2>1. m \in 0 .. n - 1 /\ m \in 0 .. n /\ n - m \in 1 .. n
    BY <1>2
  <2>2. IsInner(Part(t, n - m))
    BY <2>1 DEF AllInner
  <2>3. /\ first.error # "none" => u(at) = first
        /\ first.error = "none" /\ others.error # "none" => u(at) = others
        /\ first.error = "none" /\ others.error = "none" =>
             u(at) = Read(<<first.value>> \o others.value, others.next)
    BY <1>2, OneIsRead
  <2>4. first.error = "none" /\ others.error = "none" /\ u(at) = Read(w, others.next)
    <3> HIDE DEF first, others
    <3> HIDE DEF u
    <3> QED
      BY <2>3
  <2>5. first.next \in Nat /\ at <= first.next
    BY <2>2, <2>4 DEF InnerReads
  <2>6. others.next \in Nat /\ first.next <= others.next /\ Tuple(r, m)
    <3>1. \A a \in Nat :
            Rest(t, n, d, m, a).error = "none" =>
              /\ Rest(t, n, d, m, a).next \in Nat /\ a <= Rest(t, n, d, m, a).next
              /\ Tuple(Rest(t, n, d, m, a).value, m)
      BY <2>1, RestReads
    <3> QED
      BY <2>4, <2>5, <3>1
  <2>7. u(at).value = w /\ u(at).next = others.next
    <3> HIDE DEF u, w, others
    <3> QED
      BY <2>4 DEF Read
  <2>8. Tuple(w, m + 1) /\ w[1] = x /\ Follows(w, r, m)
    <3> HIDE DEF x, r
    <3> QED
      BY <2>6, PutFirst
  <2> HIDE DEF w, u
  <2>9. PlainInner(Part(t, n - m), x)
    <3>1. (n - (m + 1)) + 1 = n - m /\ 1 \in 1 .. m + 1
      OBVIOUS
    <3>2. PlainInner(Part(t, (n - (m + 1)) + 1), w[1])
      BY <2>7, <3>1
    <3> HIDE DEF x
    <3> QED
      BY <2>8, <3>1, <3>2
  <2>10. AllPlain(m, r)
    <3> SUFFICES ASSUME NEW i \in 1 .. m PROVE PlainInner(Part(t, (n - m) + i), r[i])
      OBVIOUS
    <3>1. (n - (m + 1)) + (i + 1) = (n - m) + i /\ i + 1 \in 1 .. m + 1
      OBVIOUS
    <3>2. PlainInner(Part(t, (n - (m + 1)) + (i + 1)), w[i + 1])
      BY <2>7, <3>1
    <3> HIDE DEF r
    <3>3. w[i + 1] = r[i]
      BY <2>8 DEF Follows
    <3> QED
      BY <3>1, <3>2, <3>3
  <2>11. others.next <= Len(d) /\ first.next <= Len(d)
    <3>1. others.next <= Len(d)
      BY <2>7
    <3> HIDE DEF first, others
    <3> QED
      BY <2>5, <2>6, <3>1
  <2>12. /\ InnerValid(Part(t, n - m), x) /\ InnerErrors(Part(t, n - m), x) = {}
         /\ PackInner(Part(t, n - m), x) = SubSeq(d, at + 1, first.next)
    BY <2>2, <2>4, <2>9, <2>11 DEF InnerWritesBack
  <2>13. /\ ValidLast(t, n, m, r)
         /\ PackedLast(t, n, m, r) = SubSeq(d, first.next + 1, others.next)
    <3>1. Good(m, first.next)
      <4> HIDE DEF Good
      <4> QED
        BY <1>2, <2>5
    <3> HIDE DEF AllPlain
    <3> QED
      BY <2>4, <2>10, <2>11, <3>1
  <2> HIDE DEF first, others, x, r
  <2>14. /\ ValidLast(t, n, m + 1, w)
         /\ PackedLast(t, n, m + 1, w)
              = PackInner(Part(t, n - m), w[1]) \o PackedLast(t, n, m, r)
    <3>1. InnerValid(Part(t, n - m), w[1]) /\ InnerErrors(Part(t, n - m), w[1]) = {}
      BY <2>8, <2>12
    <3> HIDE DEF AllPlain
    <3>2. ValidLast(t, n, m + 1, w)
      BY <2>1, <2>8, <2>13, <3>1, PackedLastStep
    <3>3. PackedLast(t, n, m + 1, w)
            = PackInner(Part(t, n - m), w[1]) \o PackedLast(t, n, m, r)
      <4>1. ValidLast(t, n, m, r)
        BY <2>13
      <4>2. Tuple(w, m + 1) /\ Follows(w, r, m)
        BY <2>8
      <4> QED
        BY ONLY InnerWrites, n \in Nat, AllInner(t, n), <2>1, <3>1, <4>1, <4>2, PackedLastStep
    <3> QED
      BY <3>2, <3>3
  <2>15. SubSeq(d, at + 1, first.next) \o SubSeq(d, first.next + 1, others.next)
           = SubSeq(d, at + 1, others.next)
    BY <2>5, <2>6, <2>11, SlicesJoin
  <2> QED
    BY <2>7, <2>8, <2>12, <2>13, <2>14, <2>15
<1>3. \A m \in 0 .. n : m \in S
  <2>1. S \in SUBSET Nat
    OBVIOUS
  <2> HIDE DEF S
  <2> QED
    BY <1>1, <1>2, <2>1, UpTo
<1> QED
  BY <1>3

\* The loop depends on no byte but those it takes.
LEMMA RestIsLocal ==
  ASSUME InnerReads, InnerIsLocal, NEW t, NEW n \in Nat, AllInner(t, n),
         NEW d \in Seq(Byte), NEW e \in Seq(Byte)
  PROVE  \A m \in 0 .. n : \A at \in Nat :
           LET u == Rest(t, n, d, m, at) IN
             /\ u.error = "none" /\ u.next <= Len(d) /\ u.next <= Len(e)
             /\ \A i \in at + 1 .. u.next : e[i] = d[i]
             => Rest(t, n, e, m, at) = u
<1> DEFINE Good(m, at) ==
             LET u == Rest(t, n, d, m, at) IN
               /\ u.error = "none" /\ u.next <= Len(d) /\ u.next <= Len(e)
               /\ \A i \in at + 1 .. u.next : e[i] = d[i]
               => Rest(t, n, e, m, at) = u
           S == {m \in Nat : \A at \in Nat : Good(m, at)}
<1>1. 0 \in S
  <2> SUFFICES ASSUME NEW at \in Nat PROVE Good(0, at)
    OBVIOUS
  <2>1. Rest(t, n, d, 0, at) = Read(<<>>, at) /\ Rest(t, n, e, 0, at) = Read(<<>>, at)
    BY NothingIsLeft
  <2> QED
    BY <2>1
<1>2. ASSUME NEW m \in Nat, m < n, m \in S PROVE m + 1 \in S
  <2> DEFINE u(at) == Rest(t, n, d, m + 1, at)
  <2> SUFFICES ASSUME NEW at \in Nat, u(at).error = "none", u(at).next <= Len(d),
                      u(at).next <= Len(e), \A i \in at + 1 .. u(at).next : e[i] = d[i]
               PROVE  Rest(t, n, e, m + 1, at) = u(at)
    OBVIOUS
  <2> DEFINE first == UnpackInner(Part(t, n - m), d, at)
             others == Rest(t, n, d, m, first.next)
             v == Rest(t, n, e, m + 1, at)
             first2 == UnpackInner(Part(t, n - m), e, at)
             others2 == Rest(t, n, e, m, first2.next)
  <2>1. m \in 0 .. n - 1 /\ m \in 0 .. n /\ n - m \in 1 .. n
    BY <1>2
  <2>2. IsInner(Part(t, n - m))
    BY <2>1 DEF AllInner
  <2>3. /\ first.error # "none" => u(at) = first
        /\ first.error = "none" /\ others.error # "none" => u(at) = others
        /\ first.error = "none" /\ others.error = "none" =>
             u(at) = Read(<<first.value>> \o others.value, others.next)
    BY <1>2, OneIsRead
  <2>4. first2.error = "none" /\ others2.error = "none" =>
          v = Read(<<first2.value>> \o others2.value, others2.next)
    BY <1>2, OneIsRead
  <2>5. /\ first.error = "none" /\ others.error = "none"
        /\ u(at) = Read(<<first.value>> \o others.value, others.next)
    <3> HIDE DEF first, others
    <3> HIDE DEF u
    <3> QED
      BY <2>3
  <2>6. first.next \in Nat /\ at <= first.next
    BY <2>2, <2>5 DEF InnerReads
  <2>7. others.next \in Nat /\ first.next <= others.next
    <3>1. \A a \in Nat :
            Rest(t, n, d, m, a).error = "none" =>
              Rest(t, n, d, m, a).next \in Nat /\ a <= Rest(t, n, d, m, a).next
      BY <2>1, RestReads
    <3> QED
      BY <2>5, <2>6, <3>1
  <2>8. u(at).next = others.next
    <3> HIDE DEF u, others
    <3> QED
      BY <2>5 DEF Read
  <2> HIDE DEF u
  <2>9. /\ others.next <= Len(d) /\ others.next <= Len(e)
        /\ \A i \in at + 1 .. others.next : e[i] = d[i]
    <3> HIDE DEF others
    <3> QED
      BY <2>8
  <2>10. first2 = first
    <3>1. /\ first.next <= Len(d) /\ first.next <= Len(e)
          /\ \A i \in at + 1 .. first.next : e[i] = d[i]
      <4> HIDE DEF first, others
      <4> QED
        BY <2>6, <2>7, <2>9
    <3> QED
      BY <2>2, <2>5, <3>1 DEF InnerIsLocal
  <2>11. Rest(t, n, e, m, first.next) = others
    <3>1. Good(m, first.next)
      <4> HIDE DEF Good
      <4> QED
        BY <1>2, <2>6
    <3>2. \A i \in first.next + 1 .. others.next : e[i] = d[i]
      <4> HIDE DEF first, others
      <4> QED
        BY <2>6, <2>7, <2>9
    <3> QED
      BY <2>5, <2>9, <3>1, <3>2
  <2>12. others2 = others
    <3> HIDE DEF first, first2, others
    <3> QED
      BY <2>10, <2>11
  <2> HIDE DEF first, first2, others, others2
  <2> QED
    BY <2>4, <2>5, <2>10, <2>12
<1>3. \A m \in 0 .. n : m \in S
  <2>1. S \in SUBSET Nat
    OBVIOUS
  <2> HIDE DEF S
  <2> QED
    BY <1>1, <1>2, <2>1, UpTo
<1> QED
  BY <1>3

-----------------------------------------------------------------------------
(* Arrays and packets *)

\* The parts of a composite are inner types.
LEMMA PartsAreInner ==
  ASSUME NEW t, IsType(t), Composite(t), NEW n \in Counts(t)
  PROVE  n \in Nat /\ AllInner(t, n)
<1>1. n \in Nat
  BY DEF IsType
<1>2. CASE t.kind = "packet"
  <2>1. n = Len(t.fields) /\ DOMAIN t.fields = 1 .. n
    BY <1>2 DEF IsType, Counts
  <2>2. ASSUME NEW i \in 1 .. n PROVE IsInner(Part(t, i))
    BY <1>2, <2>1 DEF IsType, Parts, Part
  <2> QED
    BY <1>1, <2>2 DEF AllInner
<1>3. CASE t.kind # "packet"
  <2>1. \A i \in 1 .. n : IsInner(Part(t, i))
    BY <1>3 DEF IsType, Parts, Part
  <2> QED
    BY <1>1, <2>1 DEF AllInner
<1> QED
  BY <1>2, <1>3

\* A value is packed as its prefix and all of its parts.
LEMMA Whole ==
  ASSUME NEW t, IsType(t), Composite(t), NEW v, NEW n, n = Len(v),
         Valid(t, v), PackErrors(t, v) = {}
  PROVE  /\ n \in Counts(t) /\ ValidLast(t, n, n, v)
         /\ Pack(t, v) = Prefix(t, n) \o PackedLast(t, n, n, v)
<1>1. n \in Counts(t) /\ Tuple(v, n)
  BY DEF Valid, Tuple
<1>2. n \in Nat
  BY <1>1, PartsAreInner
<1>3. DOMAIN v = 1 .. n
  BY <1>1, <1>2, TupleLength
<1>4. \A i \in 1 .. n : (n - n) + i = i
  BY <1>2
<1>5. ASSUME NEW i \in 1 .. n
      PROVE  /\ InnerValid(Part(t, (n - n) + i), v[i])
             /\ InnerErrors(Part(t, (n - n) + i), v[i]) = {}
  <2>1. InnerValid(Part(t, i), v[i])
    BY <1>3 DEF Valid
  <2>2. InnerErrors(Part(t, i), v[i]) = {}
    <3>1. UNION {InnerErrors(Part(t, j), v[j]) : j \in 1 .. n} = {}
      BY <1>3 DEF PackErrors
    <3> QED
      BY <3>1
  <2> QED
    BY <1>4, <2>1, <2>2
<1>6. [i \in DOMAIN v |-> PackInner(Part(t, i), v[i])]
        = [i \in 1 .. n |-> PackInner(Part(t, (n - n) + i), v[i])]
  BY <1>3, <1>4
<1>7. Pack(t, v) = Prefix(t, n) \o PackedLast(t, n, n, v)
  BY <1>6 DEF Pack, PackedLast
<1> QED
  BY <1>1, <1>5, <1>7 DEF ValidLast

\* If all parts of a value are valid, it is.
LEMMA WholeBack ==
  ASSUME NEW t, IsType(t), Composite(t), NEW n \in Counts(t), NEW v, ValidLast(t, n, n, v)
  PROVE  /\ Valid(t, v) /\ PackErrors(t, v) = {} /\ n = Len(v) /\ DOMAIN v = 1 .. n
<1>1. n \in Nat /\ Tuple(v, n)
  BY PartsAreInner DEF ValidLast
<1>2. DOMAIN v = 1 .. n /\ Len(v) = n
  BY <1>1, TupleLength
<1>3. \A i \in 1 .. n : (n - n) + i = i
  BY <1>1
<1>4. ASSUME NEW i \in 1 .. n
      PROVE  InnerValid(Part(t, i), v[i]) /\ InnerErrors(Part(t, i), v[i]) = {}
  BY <1>3 DEF ValidLast
<1>5. Valid(t, v)
  BY <1>1, <1>2, <1>4 DEF Valid, Tuple
<1>6. PackErrors(t, v) = {}
  BY <1>2, <1>4 DEF PackErrors
<1> QED
  BY <1>2, <1>5, <1>6

\* The bytes of a prefix.
LEMMA PrefixBytes ==
  ASSUME NEW t, NEW n \in Nat
  PROVE  /\ Prefix(t, n) \in Seq(Byte)
         /\ Len(Prefix(t, n)) = IF t.kind = "array" THEN 2 ELSE 0
<1>1. CASE t.kind = "array"
  BY <1>1, BigEndianIsBytes DEF Prefix
<1>2. CASE t.kind # "array"
  BY <1>2 DEF Prefix
<1> QED
  BY <1>1, <1>2

\* Fixed arrays and packets are read by the loop alone.
LEMMA UnpackSized ==
  ASSUME NEW t, Composite(t), t.kind # "array", NEW n \in Counts(t), NEW d, NEW at
  PROVE  Unpack(t, d, at) = Rest(t, n, d, n, at)
<1>1. CASE t.kind = "fixed"
  BY <1>1 DEF Unpack, UnpackParts, Rest, Counts
<1>2. CASE t.kind = "packet"
  BY <1>2 DEF Unpack, UnpackParts, Rest, Counts
<1> QED
  BY <1>1, <1>2 DEF Composite

\* An array is read by the loop behind its length.
LEMMA UnpackArray ==
  ASSUME NEW t, t.kind = "array", NEW d \in Seq(Byte), NEW at \in Nat
  PROVE  IF HasBytes(d, at, 2)
           THEN LET n == FromBigEndian(Bytes(d, at, 2)) IN
                  /\ Unpack(t, d, at) = Rest(t, n, d, n, at + 2)
                  /\ n \in Counts(t) /\ Prefix(t, n) = SubSeq(d, at + 1, at + 2)
           ELSE Unpack(t, d, at) = Unreadable
<1>1. ASSUME HasBytes(d, at, 2)
      PROVE  LET n == FromBigEndian(Bytes(d, at, 2)) IN
               /\ Unpack(t, d, at) = Rest(t, n, d, n, at + 2)
               /\ n \in Counts(t) /\ Prefix(t, n) = SubSeq(d, at + 1, at + 2)
  <2> DEFINE b == Bytes(d, at, 2)
             n == FromBigEndian(b)
  <2>1. b \in Seq(Byte) /\ Len(b) = 2
    BY <1>1, TwoBytesOf
  <2>2. Unpack(t, d, at) = Rest(t, n, d, n, at + 2)
    BY <1>1 DEF Unpack, UnpackParts, Rest
  <2>3. n \in Word /\ BigEndian(n, 2) = b
    <3>1. Len(b) = 2 /\ Len(b) \in {1, 2} /\ Numbers(2) = Word
      BY <2>1 DEF Numbers
    <3> HIDE DEF b
    <3>2. n \in Numbers(Len(b)) /\ BigEndian(n, Len(b)) = b
      BY <2>1, <3>1, FromBigEndianNumber
    <3> HIDE DEF n
    <3> QED
      BY ONLY <3>1, <3>2
  <2>4. n \in Counts(t)
    BY <2>3 DEF Counts
  <2>5. Prefix(t, n) = SubSeq(d, at + 1, at + 2)
    <3>1. Prefix(t, n) = BigEndian(n, 2)
      BY DEF Prefix
    <3>2. b = SubSeq(d, at + 1, at + 2)
      BY DEF Bytes
    <3> QED
      BY ONLY <2>3, <3>1, <3>2
  <2> QED
    BY <2>2, <2>4, <2>5
<1>2. ASSUME ~HasBytes(d, at, 2) PROVE Unpack(t, d, at) = Unreadable
  BY <1>2 DEF Unpack
<1> QED
  BY <1>1, <1>2

\* The same at once: the parts are read behind the prefix.
LEMMA UnpackBehindPrefix ==
  ASSUME NEW t, IsType(t), Composite(t), NEW n \in Counts(t),
         NEW d \in Seq(Byte), NEW at \in Nat, Holds(d, at, Prefix(t, n))
  PROVE  Unpack(t, d, at) = Rest(t, n, d, n, at + Len(Prefix(t, n)))
<1>1. n \in Nat
  BY PartsAreInner
<1>2. CASE t.kind = "array"
  <2>1. Prefix(t, n) = BigEndian(n, 2) /\ n \in Word
    BY <1>2 DEF Prefix, Counts
  <2>2. Prefix(t, n) \in Seq(Byte) /\ Len(Prefix(t, n)) = 2
    BY <1>1, <1>2, PrefixBytes
  <2>3. HasBytes(d, at, 2) /\ Bytes(d, at, 2) = Prefix(t, n)
    BY <2>2, HeldBytes
  <2>4. FromBigEndian(BigEndian(n, 2)) = n
    <3>1. n \in Numbers(2) /\ 2 \in {1, 2}
      BY <2>1 DEF Numbers
    <3> QED
      BY <3>1, BigEndianBytes
  <2>5. FromBigEndian(Bytes(d, at, 2)) = n
    BY ONLY <2>1, <2>3, <2>4
  <2>6. Unpack(t, d, at) = Rest(t, n, d, n, at + 2)
    BY <1>2, <2>3, <2>5, UnpackArray
  <2> QED
    BY ONLY <2>2, <2>6
<1>3. CASE t.kind # "array"
  <2>1. Len(Prefix(t, n)) = 0
    BY <1>1, <1>3, PrefixBytes
  <2>2. Unpack(t, d, at) = Rest(t, n, d, n, at)
    BY <1>3, UnpackSized
  <2> QED
    BY <2>1, <2>2
<1> QED
  BY <1>2, <1>3

\* And the other way round: if anything is read, there is a prefix, and parts behind it.
LEMMA UnpackHasPrefix ==
  ASSUME NEW t, IsType(t), Composite(t), NEW d \in Seq(Byte), NEW at \in Nat
  PROVE  \/ Unpack(t, d, at) = Unreadable
         \/ \E n \in Counts(t), at2 \in Nat :
              /\ at <= at2 /\ Unpack(t, d, at) = Rest(t, n, d, n, at2)
              /\ at2 <= Len(d) => Prefix(t, n) = SubSeq(d, at + 1, at2)
              /\ at2 = at + Len(Prefix(t, n))
<1>1. CASE t.kind = "array"
  <2>1. CASE HasBytes(d, at, 2)
    <3>1. PICK n \in Counts(t) : /\ Unpack(t, d, at) = Rest(t, n, d, n, at + 2)
                                 /\ Prefix(t, n) = SubSeq(d, at + 1, at + 2)
      BY <1>1, <2>1, UnpackArray
    <3>2. Len(Prefix(t, n)) = 2
      BY <1>1, PartsAreInner, PrefixBytes
    <3>3. at + 2 \in Nat /\ at + 2 <= Len(d) /\ at <= at + 2
      BY <2>1 DEF HasBytes
    <3> QED
      BY <3>1, <3>2, <3>3
  <2>2. CASE ~HasBytes(d, at, 2)
    BY <1>1, <2>2, UnpackArray
  <2> QED
    BY <2>1, <2>2
<1>2. CASE t.kind # "array"
  <2>1. PICK n : n \in Counts(t)
    <3>1. CASE t.kind = "fixed"
      BY <3>1 DEF Counts
    <3>2. CASE t.kind = "packet"
      BY <3>2 DEF Counts
    <3> QED
      BY <1>2, <3>1, <3>2 DEF Composite
  <2>2. Unpack(t, d, at) = Rest(t, n, d, n, at)
    BY <1>2, <2>1, UnpackSized
  <2>3. Prefix(t, n) = <<>> /\ at + Len(Prefix(t, n)) = at
    BY <1>2 DEF Prefix
  <2>4. SubSeq(d, at + 1, at) = <<>>
    OBVIOUS
  <2>5. /\ at <= at /\ Unpack(t, d, at) = Rest(t, n, d, n, at)
        /\ at <= Len(d) => Prefix(t, n) = SubSeq(d, at + 1, at)
        /\ at = at + Len(Prefix(t, n))
    BY ONLY at \in Nat, <2>2, <2>3, <2>4
  <2> QED
    BY <2>1, <2>5
<1> QED
  BY <1>1, <1>2

\* A type that is not made of parts is an inner one.
LEMMA NotComposite ==
  ASSUME NEW t, ~Composite(t)
  PROVE  /\ IsType(t) = IsInner(t)
         /\ \A v : /\ Valid(t, v) = InnerValid(t, v) /\ PackErrors(t, v) = InnerErrors(t, v)
                   /\ Pack(t, v) = PackInner(t, v) /\ Plain(t, v) = PlainInner(t, v)
                   /\ Filled(t, v) = FilledInner(t, v)
         /\ \A d, at : Unpack(t, d, at) = UnpackInner(t, d, at)
         /\ HoldsText(t) = HoldsTextInner(t)
<1>1. t.kind # "array" /\ t.kind # "fixed" /\ t.kind # "packet"
  BY DEF Composite
<1>2. \A d, at : Unpack(t, d, at) = UnpackInner(t, d, at)
  BY <1>1 DEF Unpack
<1> QED
  BY <1>2 DEF IsType, Valid, PackErrors, Pack, Plain, Filled, HoldsText

\* Composites of inner types that write bytes write bytes.
LEMMA CompositeWrites ==
  ASSUME InnerWrites
  PROVE  Writes
<1> SUFFICES ASSUME NEW t, NEW v, IsType(t), Valid(t, v), PackErrors(t, v) = {}
             PROVE  Pack(t, v) \in Seq(Byte)
  BY DEF Writes
<1>1. CASE ~Composite(t)
  BY <1>1, NotComposite DEF InnerWrites
<1>2. CASE Composite(t)
  <2> DEFINE n == Len(v)
  <2>1. /\ n \in Counts(t) /\ ValidLast(t, n, n, v)
        /\ Pack(t, v) = Prefix(t, n) \o PackedLast(t, n, n, v)
    BY <1>2, Whole
  <2> HIDE DEF n
  <2>2. n \in Nat /\ AllInner(t, n) /\ n \in 0 .. n
    BY <1>2, <2>1, PartsAreInner
  <2>3. PackedLast(t, n, n, v) \in Seq(Byte)
    BY <2>1, <2>2, PackedLastBytes
  <2>4. Prefix(t, n) \in Seq(Byte)
    BY <2>2, PrefixBytes
  <2> QED
    BY <2>1, <2>3, <2>4
<1> QED
  BY <1>1, <1>2

\* Composites raise what their parts may raise.
LEMMA CompositeReads ==
  ASSUME InnerReads
  PROVE  Reads
<1> SUFFICES ASSUME NEW t, NEW d \in Seq(Byte), NEW at \in Nat, IsType(t)
             PROVE  LET u == Unpack(t, d, at) IN
                      /\ u.error \in {"none", "DeserializeError", "SerializeError"}
                      /\ u.error = "none" => u.next \in Nat /\ at <= u.next
                      /\ u.error = "SerializeError" =>
                           HoldsText(t) /\ \E i \in at + 1 .. Len(d) : d[i] = 0
  BY DEF Reads
<1>1. CASE ~Composite(t)
  BY <1>1, NotComposite DEF InnerReads
<1>2. CASE Composite(t)
  <2> DEFINE u == Unpack(t, d, at)
  <2>1. ASSUME NEW n \in Counts(t), NEW at2 \in Nat, at <= at2, u = Rest(t, n, d, n, at2)
        PROVE  /\ u.error \in {"none", "DeserializeError", "SerializeError"}
               /\ u.error = "none" => u.next \in Nat /\ at <= u.next
               /\ u.error = "SerializeError" =>
                    HoldsText(t) /\ \E i \in at + 1 .. Len(d) : d[i] = 0
    <3>1. n \in Nat /\ AllInner(t, n) /\ n \in 0 .. n
      BY <1>2, PartsAreInner
    <3> HIDE DEF u
    <3>2. /\ u.error \in {"none", "DeserializeError", "SerializeError"}
          /\ u.error = "none" => u.next \in Nat /\ at2 <= u.next
          /\ u.error = "SerializeError" =>
               /\ \E i \in 1 .. n : HoldsTextInner(Part(t, i))
               /\ \E i \in at2 + 1 .. Len(d) : d[i] = 0
      BY <2>1, <3>1, RestReads
    <3>3. (\E i \in 1 .. n : HoldsTextInner(Part(t, i))) => HoldsText(t)
      <4> SUFFICES ASSUME NEW i \in 1 .. n, HoldsTextInner(Part(t, i)) PROVE HoldsText(t)
        OBVIOUS
      <4>1. CASE t.kind = "packet"
        <5>1. DOMAIN t.fields = 1 .. n
          BY <1>2, <4>1 DEF IsType, Counts
        <5> QED
          BY <1>2, <4>1, <5>1 DEF HoldsText, Parts, Part
      <4>2. CASE t.kind # "packet"
        BY <1>2, <4>2 DEF HoldsText, Parts, Part
      <4> QED
        BY <4>1, <4>2
    <3> QED
      BY <2>1, <3>2, <3>3
  <2>2. \/ u = Unreadable
        \/ \E n \in Counts(t), at2 \in Nat : at <= at2 /\ u = Rest(t, n, d, n, at2)
    BY <1>2, UnpackHasPrefix
  <2> HIDE DEF u
  <2>3. /\ u.error \in {"none", "DeserializeError", "SerializeError"}
        /\ u.error = "none" => u.next \in Nat /\ at <= u.next
        /\ u.error = "SerializeError" =>
             HoldsText(t) /\ \E i \in at + 1 .. Len(d) : d[i] = 0
    <3>1. CASE u = Unreadable
      BY <3>1 DEF Unreadable, Raises
    <3>2. CASE \E n \in Counts(t), at2 \in Nat : at <= at2 /\ u = Rest(t, n, d, n, at2)
      <4>1. PICK n \in Counts(t), at2 \in Nat : at <= at2 /\ u = Rest(t, n, d, n, at2)
        BY <3>2
      <4> QED
        BY ONLY <4>1, <2>1
    <3> QED
      BY ONLY <2>2, <3>1, <3>2
  <2> QED
    BY <2>3 DEF u
<1> QED
  BY <1>1, <1>2

\* Composites read back what they pack.
LEMMA CompositeReadsBack ==
  ASSUME InnerWrites, InnerReads, InnerReadsBack
  PROVE  ReadsBack
<1> SUFFICES ASSUME NEW t, NEW v, NEW d \in Seq(Byte), NEW at \in Nat, IsType(t),
                    Valid(t, v), PackErrors(t, v) = {}, Holds(d, at, Pack(t, v))
             PROVE  /\ Unpack(t, d, at).error = "none" =>
                         Unpack(t, d, at).next = at + Len(Pack(t, v))
                    /\ Plain(t, v) =>
                         Unpack(t, d, at) = Read(Filled(t, v), at + Len(Pack(t, v)))
  BY DEF ReadsBack
<1>1. CASE ~Composite(t)
  BY <1>1, NotComposite DEF InnerReadsBack
<1>2. CASE Composite(t)
  <2> DEFINE n == Len(v)
             p == Prefix(t, n)
             q == PackedLast(t, n, n, v)
  <2>1. n \in Counts(t) /\ ValidLast(t, n, n, v) /\ Pack(t, v) = p \o q
    BY <1>2, Whole
  <2>2. DOMAIN v = 1 .. n
    BY <1>2, <2>1, WholeBack
  <2> HIDE DEF n
  <2>3. n \in Nat /\ AllInner(t, n) /\ n \in 0 .. n
    BY <1>2, <2>1, PartsAreInner
  <2>4. p \in Seq(Byte)
    BY <2>3, PrefixBytes
  <2>5. q \in Seq(Byte)
    BY <2>1, <2>3, PackedLastBytes
  <2>6. Holds(d, at, p) /\ Holds(d, at + Len(p), q)
    <3> HIDE DEF p, q
    <3> QED
      BY <2>1, <2>4, <2>5, HeldParts
  <2>7. Unpack(t, d, at) = Rest(t, n, d, n, at + Len(p))
    BY <1>2, <2>1, <2>6, UnpackBehindPrefix
  <2>8. at + Len(p) \in Nat /\ (at + Len(p)) + Len(q) = at + Len(Pack(t, v))
    <3> HIDE DEF p, q
    <3> QED
      BY <2>1, <2>4, <2>5
  <2>9. \A i \in 1 .. n : (n - n) + i = i
    BY <2>3
  <2> DEFINE u == Rest(t, n, d, n, at + Len(p))
             f == [i \in 1 .. n |-> FilledInner(Part(t, (n - n) + i), v[i])]
  <2>10. /\ u.error = "none" => u.next = (at + Len(p)) + Len(q)
         /\ (\A i \in 1 .. n : PlainInner(Part(t, (n - n) + i), v[i])) =>
              u = Read(f, (at + Len(p)) + Len(q))
    <3> HIDE DEF p
    <3> QED
      BY <2>1, <2>3, <2>6, <2>8, RestReadsBack
  <2>11. Plain(t, v) => \A i \in 1 .. n : PlainInner(Part(t, (n - n) + i), v[i])
    BY <1>2, <2>2, <2>9 DEF Plain
  <2>12. Filled(t, v) = f
    BY <1>2, <2>2, <2>9 DEF Filled
  <2> HIDE DEF p, q, u, f
  <2> QED
    BY <2>7, <2>8, <2>10, <2>11, <2>12 DEF u
<1> QED
  BY <1>1, <1>2

\* Composites pack what they read.
LEMMA CompositeWritesBack ==
  ASSUME InnerWrites, InnerReads, InnerWritesBack
  PROVE  WritesBack
<1> SUFFICES ASSUME NEW t, NEW d \in Seq(Byte), NEW at \in Nat, NEW u, u = Unpack(t, d, at),
                    IsType(t), u.error = "none", u.next <= Len(d), Plain(t, u.value)
             PROVE  /\ Valid(t, u.value) /\ PackErrors(t, u.value) = {}
                    /\ Pack(t, u.value) = SubSeq(d, at + 1, u.next)
  BY DEF WritesBack
<1>1. CASE ~Composite(t)
  BY <1>1, NotComposite DEF InnerWritesBack
<1>2. CASE Composite(t)
  <2>1. PICK n \in Counts(t), at2 \in Nat :
          /\ at <= at2 /\ u = Rest(t, n, d, n, at2)
          /\ at2 <= Len(d) => Prefix(t, n) = SubSeq(d, at + 1, at2)
    <3>1. u # Unreadable
      BY DEF Unreadable, Raises
    <3> QED
      BY <1>2, <3>1, UnpackHasPrefix
  <2>2. n \in Nat /\ AllInner(t, n) /\ n \in 0 .. n
    BY <1>2, PartsAreInner
  <2>3. u.next \in Nat /\ at2 <= u.next /\ Tuple(u.value, n)
    BY <2>1, <2>2, RestReads
  <2>4. DOMAIN u.value = 1 .. n
    BY <2>2, <2>3, TupleLength
  <2>5. \A i \in 1 .. n : (n - n) + i = i
    BY <2>2
  <2>6. \A i \in 1 .. n : PlainInner(Part(t, (n - n) + i), u.value[i])
    BY <1>2, <2>4, <2>5 DEF Plain
  <2>7. /\ ValidLast(t, n, n, u.value)
        /\ PackedLast(t, n, n, u.value) = SubSeq(d, at2 + 1, u.next)
    BY <2>1, <2>2, <2>6, RestWritesBack
  <2>8. Valid(t, u.value) /\ PackErrors(t, u.value) = {} /\ n = Len(u.value)
    BY <1>2, <2>7, WholeBack
  <2>9. Pack(t, u.value) = Prefix(t, n) \o PackedLast(t, n, n, u.value)
    BY <1>2, <2>8, Whole
  <2>10. at2 <= Len(d)
    BY <2>3
  <2>11. SubSeq(d, at + 1, at2) \o SubSeq(d, at2 + 1, u.next) = SubSeq(d, at + 1, u.next)
    BY <2>1, <2>3, SlicesJoin
  <2> QED
    BY <2>1, <2>7, <2>8, <2>9, <2>10, <2>11
<1> QED
  BY <1>1, <1>2

\* Composites depend on no byte but those they take.
LEMMA CompositeIsLocal ==
  ASSUME InnerReads, InnerIsLocal
  PROVE  IsLocal
<1> SUFFICES ASSUME NEW t, NEW d \in Seq(Byte), NEW e \in Seq(Byte), NEW at \in Nat, NEW u,
                    u = Unpack(t, d, at), IsType(t), u.error = "none",
                    u.next <= Len(d), u.next <= Len(e),
                    \A i \in at + 1 .. u.next : e[i] = d[i]
             PROVE  Unpack(t, e, at) = u
  BY DEF IsLocal
<1>1. CASE ~Composite(t)
  BY <1>1, NotComposite DEF InnerIsLocal
<1>2. CASE Composite(t)
  <2>1. PICK n \in Counts(t), at2 \in Nat :
          /\ at <= at2 /\ u = Rest(t, n, d, n, at2)
          /\ at2 <= Len(d) => Prefix(t, n) = SubSeq(d, at + 1, at2)
          /\ at2 = at + Len(Prefix(t, n))
    <3>1. u # Unreadable
      BY DEF Unreadable, Raises
    <3> QED
      BY <1>2, <3>1, UnpackHasPrefix
  <2>2. n \in Nat /\ AllInner(t, n) /\ n \in 0 .. n
    BY <1>2, PartsAreInner
  <2>3. u.next \in Nat /\ at2 <= u.next
    BY <2>1, <2>2, RestReads
  <2>4. Holds(e, at, Prefix(t, n))
    <3>1. Prefix(t, n) = SubSeq(d, at + 1, at2) /\ at2 <= Len(e) /\ at2 <= Len(d)
      BY <2>1, <2>3
    <3>2. \A i \in 1 .. at2 - at : SubSeq(d, at + 1, at2)[i] = d[at + i]
      BY <2>1, <3>1
    <3>3. ASSUME NEW i \in 1 .. Len(Prefix(t, n)) PROVE e[at + i] = Prefix(t, n)[i]
      <4>1. Len(Prefix(t, n)) = at2 - at
        BY <2>1, <3>1
      <4>2. i \in 1 .. at2 - at /\ at + i \in at + 1 .. u.next
        BY <2>1, <2>3, <4>1
      <4> QED
        BY <3>1, <3>2, <4>2
    <3> QED
      BY <2>1, <3>1, <3>3 DEF Holds
  <2>5. Unpack(t, e, at) = Rest(t, n, e, n, at2)
    BY <1>2, <2>1, <2>4, UnpackBehindPrefix
  <2>6. \A i \in at2 + 1 .. u.next : e[i] = d[i]
    BY <2>1, <2>3
  <2>7. Rest(t, n, e, n, at2) = u
    BY <2>1, <2>2, <2>6, RestIsLocal
  <2> QED
    BY <2>5, <2>7
<1> QED
  BY <1>1, <1>2

\* Arrays and packets keep the promises of what they are made of.
THEOREM CompositesAreCorrect == InnerCorrect => Correct
  BY CompositeWrites, CompositeReads, CompositeReadsBack, CompositeWritesBack, CompositeIsLocal
  DEF InnerCorrect, Correct
=============================================================================
