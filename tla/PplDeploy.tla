------------------------------ MODULE PplDeploy -----------------------------
(***************************************************************************)
(* What the commands of the ppl tool promise about the bridge, without     *)
(* queries, answers, timers and the pairing: a job may have to test the    *)
(* MAC configurations, to clear the bridge and to deploy the slots.  It    *)
(* does so in this order and commits once, a prefix of the slots, the last *)
(* one in part only if its user is advised of that.  A report without an   *)
(* error means that the whole job is done.                                 *)
(***************************************************************************)
EXTENDS Naturals

CONSTANT Slots      \* number of networks in the json file

VARIABLES job,        \* what is to be done: [tests, clears, deploys : BOOLEAN]
          validated,  \* slots whose MAC configuration the bridge accepted
          former,     \* what was stored before the job is still there
          complete,   \* slots the bridge holds with all their parts
          half,       \* slots it holds in part
          advised,    \* the user was advised to clear the bridge
          report      \* "none" while the command runs, then how it ended

vars == <<job, validated, former, complete, half, advised, report>>

Tested == job.tests => validated = 1 .. Slots
Cleared == job.clears => ~former
Deployed == job.deploys => complete = 1 .. Slots /\ half = {}
Untouched == complete = {} /\ half = {}

\* What is still under way when a command fails may reach the bridge later.
Pending == report \in {"none", "failed"}

Init ==
  /\ job \in [tests : BOOLEAN, clears : BOOLEAN, deploys : BOOLEAN]
  /\ validated = {} /\ former = TRUE /\ Untouched
  /\ advised = FALSE /\ report = "none"

\* The bridge accepts the MAC configuration of a slot.
Test(i) ==
  /\ job.tests
  /\ validated' = validated \cup {i}
  /\ UNCHANGED <<job, former, complete, half, advised, report>>

Clear ==
  /\ job.clears /\ Tested /\ Untouched /\ Pending
  /\ former' = FALSE
  /\ UNCHANGED <<job, validated, complete, half, advised, report>>

\* The bridge takes over the first k slots, and maybe some parts of the next one.
Commit ==
  /\ job.deploys /\ Tested /\ Cleared /\ Untouched /\ Pending
  /\ \E k \in 0 .. Slots :
       /\ complete' = 1 .. k
       /\ half' \subseteq {k + 1} \cap (1 .. Slots)
  /\ half' # {} => advised
  /\ UNCHANGED <<job, validated, former, advised, report>>

\* The advice is never taken back, and comes before the commit it is about.
MayAdvise ==
  \/ UNCHANGED advised
  \/ job.deploys /\ Untouched /\ advised' = TRUE

Advise ==
  /\ report = "none"
  /\ MayAdvise
  /\ UNCHANGED <<job, validated, former, complete, half, report>>

Report ==
  /\ report = "none"
  /\ \/ report' = "clean" /\ Tested /\ Cleared /\ Deployed /\ UNCHANGED advised
     \/ report' = "aborted" /\ Untouched /\ UNCHANGED advised
     \/ report' = "failed" /\ MayAdvise
  /\ UNCHANGED <<job, validated, former, complete, half>>

Next ==
  \/ \E i \in 1 .. Slots : Test(i)
  \/ Clear
  \/ Commit
  \/ Advise
  \/ Report

Spec == Init /\ [][Next]_vars
=============================================================================
