----------------------------- MODULE ErebProof -----------------------------
(***************************************************************************)
(* Proofs about Ereb, for every set of ids in 1..255.                      *)
(***************************************************************************)
EXTENDS Ereb, TLAPS

IInv == TypeOK /\ IdsFollowState

LEMMA NoIdIsNoId == NoId \notin Ids
  BY IdsAssumption DEF NoId

\* What an accepted frame makes of a device whose ids follow its state.
LEMMA AppliedFacts ==
  ASSUME NEW f \in Frame, IInv
  PROVE  /\ After(ereb, f) \in Device
         /\ After(ereb, f).state = "READY" =>
              {After(ereb, f).config, After(ereb, f).ring, After(ereb, f).antenna} = {NoId}
         /\ After(ereb, f).state # "READY" =>
              NoId \notin {After(ereb, f).config, After(ereb, f).ring, After(ereb, f).antenna}
<1> DEFINE d == ereb
           e == After(d, f)
<1>1. /\ d \in Device
      /\ f.config \in Ids /\ f.ring \in Ids /\ f.antenna \in Ids /\ f.flag \in {0, 1}
      /\ f.cmd \in Commands
  BY DEF IInv, TypeOK, Frame
<1>2. /\ d.state = "READY" => {d.config, d.ring, d.antenna} = {NoId}
      /\ d.state # "READY" => NoId \notin {d.config, d.ring, d.antenna}
  BY DEF IInv, IdsFollowState
<1>3. CASE ~Allowed(d, f.cmd)
  BY <1>1, <1>2, <1>3 DEF After
<1>4. CASE Allowed(d, f.cmd) /\ f.cmd = "SELECT_CONFIG"
  BY <1>1, <1>4, NoIdIsNoId DEF After, Applied, Device, States
<1>5. CASE Allowed(d, f.cmd) /\ f.cmd \in {"SWITCH_RING", "SWITCH_ANTENNA"}
  <2>1. d.state = "RUNNING"
    BY <1>5 DEF Allowed
  <2> QED
    BY <1>1, <1>2, <1>5, <2>1, NoIdIsNoId DEF After, Applied, Device, States
<1>6. CASE Allowed(d, f.cmd) /\ f.cmd \in {"START", "STOP", "SET_CONFIGMODE"}
  <2>1. /\ f.cmd = "START" => d.state = "CONFIGURED"
        /\ f.cmd = "STOP" => d.state = "RUNNING"
    BY <1>6 DEF Allowed
  <2> QED
    BY <1>1, <1>2, <1>6, <2>1 DEF After, Applied, Device, States
<1>7. CASE f.cmd \in {"STATE_QUERY", "dropped", "unknown"} \cup Harmless
  BY <1>1, <1>2, <1>7 DEF After, Applied, Harmless
<1> QED
  BY <1>1, <1>3, <1>4, <1>5, <1>6, <1>7 DEF Commands

LEMMA AnswerKind ==
  ASSUME NEW d, NEW f \in Frame
  PROVE  Answer(d, f).kind \in {"none", "SUCCESS", "WRONG_STATE", "STATE_RESPONSE",
                                "DIAGNOSTIC_DESCRIPTION_RESPONSE", "GET_CSI_RESPONSE"}
<1>1. CASE f.cmd \in {"dropped", "unknown"}
  BY <1>1 DEF Answer
<1>2. CASE f.cmd = "STATE_QUERY"
  BY <1>2 DEF Answer
<1>3. CASE f.cmd \in {"DIAGNOSTIC_DESCRIPTION_QUERY", "GET_CSI_QUERY"}
  BY <1>3 DEF Answer
<1>4. CASE f.cmd \notin {"dropped", "unknown", "STATE_QUERY", "DIAGNOSTIC_DESCRIPTION_QUERY",
                         "GET_CSI_QUERY"}
  BY <1>4 DEF Answer
<1> QED
  BY <1>1, <1>2, <1>3, <1>4

LEMMA Inductive == IInv /\ [Next]_erebVars => IInv'
<1> SUFFICES ASSUME IInv, [Next]_erebVars PROVE IInv'
  OBVIOUS
<1>1. ASSUME NEW f \in Frame, Receive(f) PROVE IInv'
  <2>1. ereb' = After(ereb, f) /\ reply' = Answer(ereb, f) /\ alive' \in BOOLEAN
    BY <1>1 DEF Receive
  <2>2. TypeOK'
    BY <2>1, AppliedFacts, AnswerKind DEF TypeOK
  <2>3. IdsFollowState'
    BY <2>1, AppliedFacts DEF IdsFollowState
  <2> QED
    BY <2>2, <2>3 DEF IInv
<1>2. CASE UNCHANGED erebVars
  BY <1>2 DEF erebVars, IInv, TypeOK, IdsFollowState
<1> QED
  BY <1>1, <1>2 DEF Next

LEMMA Initially == Init => IInv
  BY DEF Init, IInv, TypeOK, IdsFollowState, PowerOn, Device, States

LEMMA Invariance == Spec => []IInv
  BY Initially, Inductive, PTL DEF Spec

\* The simulator's attributes keep their types (run_simulate_ereb.py:25-33).
THEOREM TypeCorrect == Spec => []TypeOK
<1>1. IInv => TypeOK
  BY DEF IInv
<1> QED
  BY <1>1, Invariance, PTL

\* In every reachable state the ids are set exactly when a configuration is
\* loaded (run_simulate_ereb.py:96-159, 192-206).
THEOREM IdsAreConsistent == Spec => []IdsFollowState
<1>1. IInv => IdsFollowState
  BY DEF IInv
<1> QED
  BY <1>1, Invariance, PTL

\* No sequence of frames changes the configuration of a running ring
\* (run_simulate_ereb.py:96-159).
THEOREM RunningConfigIsFixed == Spec => ConfigFixedWhileRunning
<1> DEFINE Kept == /\ ereb.state = "RUNNING" /\ ereb'.state # "READY"
                        => ereb'.state = "RUNNING" /\ ereb'.config = ereb.config
                   /\ ereb.state # "RUNNING" /\ ereb'.state = "RUNNING"
                        => /\ ereb.state = "CONFIGURED"
                           /\ ereb' = [ereb EXCEPT !.state = "RUNNING"]
<1>1. ASSUME IInv, NEW f \in Frame, Receive(f) PROVE Kept
  <2> DEFINE d == ereb
  <2>1. ereb' = After(d, f) /\ d \in Device /\ f.cmd \in Commands
    BY <1>1 DEF Receive, IInv, TypeOK, Frame
  <2>2. CASE ~Allowed(d, f.cmd)
    BY <2>1, <2>2 DEF After
  <2>3. CASE Allowed(d, f.cmd) /\ f.cmd = "SELECT_CONFIG"
    BY <2>1, <2>3 DEF After, Applied, Allowed, Device
  <2>4. CASE Allowed(d, f.cmd) /\ f.cmd = "STOP"
    BY <2>1, <2>4 DEF After, Applied, Allowed, Device
  <2>5. CASE Allowed(d, f.cmd) /\ f.cmd \in {"SWITCH_RING", "SWITCH_ANTENNA"}
    BY <2>1, <2>5 DEF After, Applied, Allowed, Device
  <2>6. CASE Allowed(d, f.cmd) /\ f.cmd = "START"
    BY <2>1, <2>6 DEF After, Applied, Allowed, Device
  <2>7. CASE f.cmd \in {"SET_CONFIGMODE", "STATE_QUERY", "dropped", "unknown"} \cup Harmless
    BY <2>1, <2>7 DEF After, Applied, Device, Harmless
  <2> QED
    BY <2>1, <2>2, <2>3, <2>4, <2>5, <2>6, <2>7 DEF Commands
<1>2. ASSUME UNCHANGED erebVars PROVE Kept
  BY <1>2 DEF erebVars
<1>3. IInv /\ [Next]_erebVars => [Kept]_erebVars
  BY <1>1, <1>2 DEF Next
<1> QED
  BY <1>3, Invariance, PTL DEF Spec, ConfigFixedWhileRunning
=============================================================================
