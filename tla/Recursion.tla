----------------------------- MODULE Recursion -----------------------------
(***************************************************************************)
(* Recursion and induction over the natural numbers.  TLA+ defines a       *)
(* recursive function by CHOOSE; that the function chosen obeys its        *)
(* equation has to be proved.  Here it is, once, for functions by primitive *)
(* recursion with a parameter p: a module that needs one instantiates this *)
(* module with the base case and the step.                                 *)
(***************************************************************************)
EXTENDS Naturals, TLAPS, WellFoundedInduction

CONSTANTS Base(_), Step(_, _, _)

\* Rec(p)[0] is Base(p), and Rec(p)[n] is Step(p, n, Rec(p)[n - 1]).
Rec(p) == LET f[n \in Nat] == IF n = 0 THEN Base(p) ELSE Step(p, n, f[n - 1]) IN f

-----------------------------------------------------------------------------

\* Induction: a set with 0 and the successors of its members is Nat.
THEOREM SetInduction ==
  ASSUME NEW S \in SUBSET Nat, 0 \in S, \A n \in S : n + 1 \in S
  PROVE  S = Nat
<1> DEFINE R == OpToRel(<, Nat)
           T == Nat \ S
<1> SUFFICES ASSUME T # {} PROVE FALSE
  OBVIOUS
<1>1. PICK x \in T : \A y \in T : ~(<<y, x>> \in R)
  <2>1. IsWellFoundedOn(R, Nat)
    BY NatLessThanWellFounded
  <2> HIDE DEF R
  <2> QED
    BY <2>1, WFMin
<1>2. x - 1 \in T
  OBVIOUS
<1>3. <<x - 1, x>> \in R
  BY <1>2 DEF OpToRel
<1> QED
  BY <1>1, <1>2, <1>3

\* g is the function up to n.
Part(p, n, g) ==
  /\ g = [i \in 0 .. n |-> g[i]]
  /\ g[0] = Base(p)
  /\ \A i \in 1 .. n : g[i] = Step(p, i, g[i - 1])

\* Every part of the function exists, by induction.
LEMMA PartExists == \A p : \A n \in Nat : \E g : Part(p, n, g)
<1> SUFFICES ASSUME NEW p PROVE \A n \in Nat : \E g : Part(p, n, g)
  OBVIOUS
<1> DEFINE S == {n \in Nat : \E g : Part(p, n, g)}
<1>1. 0 \in S
  <2> DEFINE g == [i \in 0 .. 0 |-> Base(p)]
  <2>1. Part(p, 0, g)
    BY DEF Part
  <2> QED
    BY <2>1
<1>2. ASSUME NEW n \in S PROVE n + 1 \in S
  <2>1. PICK g : Part(p, n, g)
    OBVIOUS
  <2> DEFINE h == [i \in 0 .. n + 1 |-> IF i = n + 1 THEN Step(p, n + 1, g[n]) ELSE g[i]]
  <2>2. h[0] = Base(p)
    BY <2>1 DEF Part
  <2>3. ASSUME NEW i \in 1 .. n + 1 PROVE h[i] = Step(p, i, h[i - 1])
    <3>1. i - 1 \in 0 .. n /\ h[i - 1] = g[i - 1]
      OBVIOUS
    <3>2. CASE i = n + 1
      BY <3>1, <3>2
    <3>3. CASE i \in 1 .. n
      <4>1. g[i] = Step(p, i, g[i - 1])
        BY <2>1, <3>3 DEF Part
      <4>2. h[i] = g[i]
        BY <3>3
      <4> HIDE DEF h
      <4> QED
        BY <3>1, <4>1, <4>2
    <3> QED
      BY <3>2, <3>3
  <2>4. Part(p, n + 1, h)
    BY <2>2, <2>3 DEF Part
  <2> QED
    BY <2>4
<1>3. S = Nat
  <2> HIDE DEF S
  <2>1. S \in SUBSET Nat
    BY DEF S
  <2> QED
    BY <1>1, <1>2, <2>1, SetInduction
<1> QED
  BY <1>3

\* Two parts agree where both are defined.
LEMMA PartsAgree ==
  \A p, g, h : \A m, n \in Nat : m <= n /\ Part(p, m, g) /\ Part(p, n, h) => g[m] = h[m]
<1> SUFFICES ASSUME NEW p, NEW g, NEW h, NEW m \in Nat, NEW n \in Nat,
                    m <= n, Part(p, m, g), Part(p, n, h)
             PROVE  g[m] = h[m]
  OBVIOUS
<1> DEFINE S == {i \in Nat : i <= m => g[i] = h[i]}
<1>1. 0 \in S
  BY DEF Part
<1>2. ASSUME NEW i \in S PROVE i + 1 \in S
  <2> SUFFICES ASSUME i + 1 <= m PROVE g[i + 1] = h[i + 1]
    OBVIOUS
  <2>1. g[i] = h[i] /\ i + 1 \in 1 .. m /\ i + 1 \in 1 .. n /\ (i + 1) - 1 = i
    OBVIOUS
  <2>2. g[i + 1] = Step(p, i + 1, g[i]) /\ h[i + 1] = Step(p, i + 1, h[i])
    BY <2>1 DEF Part
  <2> QED
    BY <2>1, <2>2
<1>3. S = Nat
  <2> HIDE DEF S
  <2>1. S \in SUBSET Nat
    BY DEF S
  <2> QED
    BY <1>1, <1>2, <2>1, SetInduction
<1> QED
  BY <1>3

\* The function chosen obeys its equation.
THEOREM RecEquation ==
  \A p : /\ Rec(p)[0] = Base(p)
         /\ \A n \in Nat : Rec(p)[n + 1] = Step(p, n + 1, Rec(p)[n])
<1> SUFFICES ASSUME NEW p
             PROVE  /\ Rec(p)[0] = Base(p)
                    /\ \A n \in Nat : Rec(p)[n + 1] = Step(p, n + 1, Rec(p)[n])
  OBVIOUS
<1> DEFINE part(n) == CHOOSE g : Part(p, n, g)
           F == [n \in Nat |-> part(n)[n]]
           E(f) == [n \in Nat |-> IF n = 0 THEN Base(p) ELSE Step(p, n, f[n - 1])]
<1>1. \A n \in Nat : Part(p, n, part(n))
  BY PartExists
<1>2. F = E(F)
  <2> HIDE DEF part
  <2>1. F[0] = Base(p)
    BY <1>1 DEF Part
  <2>2. ASSUME NEW n \in Nat, n # 0 PROVE F[n] = Step(p, n, F[n - 1])
    <3>1. n - 1 \in Nat /\ n - 1 <= n /\ n \in 1 .. n
      BY <2>2
    <3>2. part(n)[n] = Step(p, n, part(n)[n - 1])
      BY <1>1, <3>1 DEF Part
    <3>3. part(n - 1)[n - 1] = part(n)[n - 1]
      BY <1>1, <3>1, PartsAgree
    <3> QED
      BY <3>1, <3>2, <3>3
  <2> QED
    BY <2>1, <2>2
<1>3. \E f : f = E(f)
  <2> HIDE DEF F, E
  <2> QED
    BY <1>2
<1>4. Rec(p) = CHOOSE f : f = E(f)
  BY DEF Rec
<1>5. Rec(p) = E(Rec(p))
  <2> HIDE DEF E
  <2> QED
    BY <1>3, <1>4
<1> HIDE DEF F, part
<1>6. Rec(p)[0] = Base(p)
  BY <1>5
<1>7. ASSUME NEW n \in Nat PROVE Rec(p)[n + 1] = Step(p, n + 1, Rec(p)[n])
  <2>1. n + 1 \in Nat /\ n + 1 # 0 /\ (n + 1) - 1 = n
    OBVIOUS
  <2>2. E(Rec(p))[n + 1] = Step(p, n + 1, Rec(p)[(n + 1) - 1])
    BY <2>1
  <2> QED
    BY <1>5, <2>1, <2>2
<1> QED
  BY <1>6, <1>7
=============================================================================
