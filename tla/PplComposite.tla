---------------------------- MODULE PplComposite ----------------------------
(***************************************************************************)
(* Arrays and packets of PPL (ppl/protocol.py), made of inner types whose  *)
(* operations are the parameters: fields, or types that this module has    *)
(* made.  PplCodec instantiates it once for each level of nesting.  Any    *)
(* other type is an inner type.                                            *)
(***************************************************************************)
EXTENDS PplField

CONSTANTS IsInner(_), InnerValid(_, _), InnerErrors(_, _), PackInner(_, _),
          UnpackInner(_, _, _), PlainInner(_, _), FilledInner(_, _), HoldsTextInner(_)

Composite(t) == t.kind \in {"array", "fixed", "packet"}

\* The type of the i-th part of a value, all of them, and how many parts there may be.
Part(t, i) == IF t.kind = "packet" THEN FieldType(t, i) ELSE t.of

Parts(t) == IF t.kind = "packet" THEN {FieldType(t, i) : i \in DOMAIN t.fields} ELSE {t.of}

Counts(t) ==
  CASE t.kind = "array" -> Word
    [] t.kind = "fixed" -> {t.size}
    [] t.kind = "packet" -> {Len(t.fields)}

IsType(t) ==
  IF Composite(t)
    THEN /\ Counts(t) \subseteq Nat
         /\ t.kind = "packet" => DOMAIN t.fields = 1 .. Len(t.fields)
         /\ \A u \in Parts(t) : IsInner(u)
    ELSE IsInner(t)

\* set() accepts the value.
Valid(t, v) ==
  IF Composite(t)
    THEN /\ Len(v) \in Counts(t)
         /\ v = [i \in 1 .. Len(v) |-> v[i]]
         /\ \A i \in DOMAIN v : InnerValid(Part(t, i), v[i])
    ELSE InnerValid(t, v)

\* What packing a valid value may raise.
PackErrors(t, v) ==
  IF Composite(t) THEN UNION {InnerErrors(Part(t, i), v[i]) : i \in DOMAIN v}
                  ELSE InnerErrors(t, v)

-----------------------------------------------------------------------------
(* Packing: the loops over the parts *)

NoBytes(parts) == <<>>
Attach(parts, n, packed) == packed \o parts[n]

Joining == INSTANCE Recursion WITH Base <- NoBytes, Step <- Attach

\* parts[1] \o parts[2] \o ...
Joined(parts) == Joining!Rec(parts)[Len(parts)]

\* The length is written for an array only.
Prefix(t, n) == IF t.kind = "array" THEN BigEndian(n, 2) ELSE <<>>

Pack(t, v) ==
  IF Composite(t)
    THEN Prefix(t, Len(v)) \o Joined([i \in DOMAIN v |-> PackInner(Part(t, i), v[i])])
    ELSE PackInner(t, v)

-----------------------------------------------------------------------------
(* Unpacking: the loops over the parts.  The last m of n parts are the first   *)
(* one of them and the last m - 1 behind it; the first exception ends it.      *)

\* A function from the position at which a part begins.
NoParts(loop) == [at \in Nat |-> Read(<<>>, at)]

FirstOf(loop, m, at) == UnpackInner(Part(loop.type, loop.count - m + 1), loop.d, at)

OneMore(loop, m, rest) ==
  [at \in Nat |->
     LET first == FirstOf(loop, m, at)
         others == rest[first.next]
     IN CASE first.error # "none" -> first
          [] first.error = "none" /\ others.error # "none" -> others
          [] OTHER -> Read(<<first.value>> \o others.value, others.next)]

Unpacking == INSTANCE Recursion WITH Base <- NoParts, Step <- OneMore

UnpackParts(t, n, d, at) == Unpacking!Rec([type |-> t, count |-> n, d |-> d])[n][at]

\* A fixed array is read at once: that fails when one of its numbers is missing.
Unpack(t, d, at) ==
  CASE t.kind = "array" ->
         IF HasBytes(d, at, 2) THEN UnpackParts(t, FromBigEndian(Bytes(d, at, 2)), d, at + 2)
                               ELSE Unreadable
    [] t.kind = "fixed" -> UnpackParts(t, t.size, d, at)
    [] t.kind = "packet" -> UnpackParts(t, Len(t.fields), d, at)
    [] OTHER -> UnpackInner(t, d, at)

-----------------------------------------------------------------------------
(* What a transport keeps *)

Plain(t, v) ==
  IF Composite(t) THEN \A i \in DOMAIN v : PlainInner(Part(t, i), v[i]) ELSE PlainInner(t, v)

Filled(t, v) ==
  IF Composite(t) THEN [i \in DOMAIN v |-> FilledInner(Part(t, i), v[i])] ELSE FilledInner(t, v)

HoldsText(t) ==
  IF Composite(t) THEN \E u \in Parts(t) : HoldsTextInner(u) ELSE HoldsTextInner(t)
=============================================================================
