---------------------------- MODULE MCErciQuery -----------------------------
(* Instances of ErciQuery for TLC. *)
EXTENDS ErciQuery

CONSTANTS t1, t2, t3, c1, c2, d1, d2

\* One client, two coroutines that may collide on its lock, two devices.
OneClientOf == [t \in {t1, t2} |-> c1]
OneTargets == [c \in {c1} |-> {d1, d2}]

\* As run_batch.py, a client and a coroutine per device; and a second coroutine
\* uses the first client.
CrowdedClientOf == [t \in {t1, t2, t3} |-> IF t = t3 THEN c2 ELSE c1]
SeparateTargets == [c \in {c1, c2} |-> IF c = c1 THEN {d1} ELSE {d2}]
=============================================================================
