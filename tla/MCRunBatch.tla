----------------------------- MODULE MCRunBatch -----------------------------
(* The instance of RunBatch for TLC. *)
EXTENDS RunBatch

CONSTANTS t1, t2, t3, c1, c2, c3, d1, d2

LineClientOf == [t \in {t1, t2, t3} |-> CASE t = t1 -> c1 [] t = t2 -> c2 [] OTHER -> c3]
LineTargets == [c \in {c1, c2, c3} |-> IF c = c3 THEN {d2} ELSE {d1}]
=============================================================================
