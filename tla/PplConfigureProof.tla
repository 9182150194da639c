-------------------------- MODULE PplConfigureProof ------------------------
(***************************************************************************)
(* Proofs about the commands of the ppl tool (PplConfigure), for every number *)
(* of networks, every command line and json file, and both kinds of network. *)
(*                                                                         *)
(* The argument: a query of the transaction that times out ends the command, *)
(* so that of the Config queries only the last one can still be under way  *)
(* (OneConfigQuery); hence what the bridge holds is known from where the   *)
(* coroutine is (Rollout).                                                 *)
(*                                                                         *)
(* The second part proves that the commands implement PplDeploy.  IInv says *)
(* how far the bridge is when the coroutine is at a step.  RInv adds what the *)
(* order of a job takes: that a commit under way is the first one, that the *)
(* bridge is cleared and tested when the job told so, and what is known of a *)
(* command that has ended.  Each action is then one action of PplDeploy or *)
(* changes nothing there.                                                  *)
(***************************************************************************)
EXTENDS PplConfigure, TLAPS

Prompt == opts.network = "prompt"

\* The steps before the contents of the packets are collected, and those at
\* which nothing has been selected yet.
Early == {"forceUnpair", "pair", "validate", "unpairInvalid"}
Unselected == Early \cup {"clear", "start", "global", "unpairErr"}
OnlyConfigure == SlotSteps \cup {"start", "global", "finalizeErr", "commit",
                                 "unpairErr", "unpairInvalid"}

Query == [n : 1 .. sent, step : Steps, slot : 1 .. Slots]
Answers == [n : 1 .. sent, sub : {"Pair", "Config"}, ok : BOOLEAN]
Current == [n |-> sent, step |-> step, slot |-> slot]

Typed == TypeOK /\ wire \subseteq Query /\ answers \subseteq Answers

Beginning ==
  status = "begin" =>
    sent = 0 /\ wire = {} /\ answers = {} /\ step = "pair" /\ slot = 1

\* Which commands get where.
Placed ==
  /\ step \in OnlyConfigure => Configuring
  /\ step = "clear" => opts.command # "test"
  /\ step = "validate" => opts.command # "clear" /\ ~opts.skipTest
  /\ step \in {"forceUnpair", "pair"} => valid
  /\ opts.json \in {"badSubnet", "badRule"} => step \in Early \cup {"unpair"}

\* Of the Config queries - on a prompt network: of all - only the one the
\* coroutine is at can be under way, or the validation that timed out last.
OneConfigQuery ==
  \A q \in wire :
    q.step \in ConfigSteps \/ Prompt =>
      q = Current \/ (~Prompt /\ q.step = "validate" /\ step = "unpairInvalid")

ConfigAnswers == {a \in answers : a.sub = "Config"}
ConfigQueries == {q \in wire : q.step \in ConfigSteps}

\* ... and its answer is the only one.
OneConfigAnswer ==
  /\ step \in {"forceUnpair", "pair"} => ConfigAnswers = {}
  /\ step \in ConfigSteps =>
       /\ \A a, b \in ConfigAnswers : a = b
       /\ ConfigAnswers # {} => ConfigQueries = {}
       /\ status \in {"ok", "refused"} => ConfigQueries = {} /\ ConfigAnswers = {}

\* What the bridge has done when it accepted the current query.
CarriedOut ==
  /\ step = "validate" => slot \in bridge.validated
  /\ step = "select" => bridge.selected = slot
  /\ step \in Parts => <<slot, step>> \in bridge.staged
  /\ step = "finalize" => slot \in bridge.final
  /\ step = "commit" => bridge.config = {p \in bridge.staged : p[1] \in bridge.final}
  /\ Prompt /\ step \in PairSteps \ {"pair"} => ~bridge.paired

OkMeansCarriedOut ==
  /\ status = "ok" => CarriedOut
  /\ \A a \in answers : a.ok /\ a.sub = Subprotocol(step) => CarriedOut

SlotDone(i) == i \in bridge.final /\ {i} \X Parts \subseteq bridge.staged

\* What is staged is a prefix of the networks, the last one maybe in part.
Prefix ==
  /\ \A i \in 1 .. Slots : i < bridge.selected => SlotDone(i)
  /\ bridge.staged \subseteq (1 .. bridge.selected) \X Parts
  /\ \A i \in bridge.final :
       i <= bridge.selected /\ ({i} \X Parts \subseteq bridge.staged \/ out.advice)

\* How far the bridge is when the coroutine is at a step.
Rollout ==
  /\ step \in Unselected =>
       bridge.selected = 0 /\ bridge.staged = {} /\ bridge.final = {}
  /\ step \in Early \cup {"clear"} => ~bridge.open
  /\ opts.json \in {"badSubnet", "badRule"} => bridge.former
  /\ step \notin {"commit", "unpair"} => bridge.config = {}
  /\ step \in SlotSteps =>
       bridge.selected <= slot /\ \A i \in 1 .. Slots : i < slot => SlotDone(i)
  /\ step \in {"mac", "host", "finalize"} => bridge.selected = slot
  /\ step \in {"host", "finalize"} => <<slot, "mac">> \in bridge.staged
  /\ step = "finalize" => <<slot, "host">> \in bridge.staged
  /\ step = "finalizeErr" => out.advice

\* What has been validated.
Validation ==
  /\ step = "validate" /\ valid => 1 .. (slot - 1) \subseteq bridge.validated
  /\ step \notin Early /\ Configuring /\ ~opts.skipTest => bridge.validated = 1 .. Slots

\* An output without an ERROR: no query of the transaction was refused.
Clean ==
  /\ step = "validate" /\ ~valid => out.err
  /\ step \in {"finalizeErr", "unpairErr", "unpairInvalid"} => out.err
  /\ Configuring /\ ~out.err /\ step = "commit" =>
       \A i \in 1 .. Slots : SlotDone(i)
  /\ Configuring /\ ~out.err /\ step = "unpair" => bridge.config = AllParts
  /\ Configuring /\ ~out.err /\ ending = "returned" => step = "unpair"

\* No file turns out to be unfit when the bridge is being cleared, or from the
\* commit on.
NoLateRaise == ending \in Raised => step \notin {"clear", "commit", "unpair"}

\* What a failed roll-out leaves on the bridge ends at the slot that failed:
\* every slot before it is complete, no slot after it is touched
\* (ppl/client.py:222-246).
CommittedIsPrefix ==
  \A i, j \in 1 .. Slots :
    i < j /\ (\E p \in Parts : <<j, p>> \in bridge.config)
      => {i} \X Parts \subseteq bridge.config

\* The inductive invariant.
IInv ==
  /\ Typed /\ Beginning /\ Placed
  /\ OneConfigQuery /\ OneConfigAnswer /\ OkMeansCarriedOut
  /\ Prefix /\ Rollout /\ Validation /\ Clean /\ NoLateRaise
  /\ CommittedIsPrefix /\ HalfSlotIsReported
  /\ CleanOutputMeansUnpaired /\ PairedLeftoversExplained

-----------------------------------------------------------------------------
(* The coroutine's routes *)

AllValid == valid /\ (step = "validate" => status = "ok")
Following == After(IF step = "validate" /\ status = "refused" THEN "ok" ELSE status, AllValid)

Answered == status \in {"ok", "refused"}

\* Where the coroutine comes from when it goes to g.
Deploying(g) ==
  /\ g.slot = 1
  /\ Configuring /\ opts.json \notin {"badSubnet", "badRule"}
  /\ \/ step = "pair" /\ status = "ok" /\ opts.skipTest
     \/ step = "validate" /\ Answered /\ slot = Slots /\ AllValid

Route(g) ==
  \/ g.to = "pair" /\ g.slot = 1 /\ step = "forceUnpair"
  \/ /\ g.to = "validate" /\ g.slot = 1 /\ step = "pair" /\ status = "ok"
     /\ opts.command # "clear" /\ ~opts.skipTest /\ opts.json # "badSubnet"
  \/ /\ g.to = "validate" /\ g.slot = slot + 1 /\ slot < Slots
     /\ step = "validate" /\ Answered
  \/ /\ g.to = "clear" /\ g.slot = 1 /\ step = "pair" /\ status = "ok"
     /\ opts.command = "clear"
  \/ g.to \in {"clear", "start"} /\ Deploying(g)
  \/ g.to = "start" /\ g.slot = 1 /\ step = "clear" /\ status = "ok" /\ Configuring
  \/ g.to = "global" /\ g.slot = 1 /\ step = "start" /\ status = "ok"
  \/ g.to = "select" /\ g.slot = 1 /\ step = "global" /\ status = "ok"
  \/ /\ g.to = "select" /\ g.slot = slot + 1 /\ slot < Slots
     /\ step = "finalize" /\ status = "ok"
  \/ g.to = "mac" /\ g.slot = slot /\ step = "select" /\ status = "ok"
  \/ g.to = "host" /\ g.slot = slot /\ step = "mac" /\ status = "ok"
  \/ g.to = "finalize" /\ g.slot = slot /\ step = "host" /\ status = "ok"
  \/ g.to = "finalizeErr" /\ g.slot = slot /\ step \in SlotSteps /\ status = "refused"
  \/ g.to = "commit" /\ g.slot = slot /\ slot = Slots /\ step = "finalize" /\ status = "ok"
  \/ g.to = "commit" /\ g.slot = slot /\ step \in SlotSteps /\ status = "refused"
  \/ g.to = "commit" /\ g.slot = slot /\ step = "finalizeErr" /\ Answered
  \/ g.to = "unpair" /\ g.slot = slot /\ step = "commit" /\ Answered
  \/ g.to = "unpair" /\ g.slot = 1 /\ step = "clear" /\ Answered /\ ~Configuring
  \/ g.to = "unpair" /\ g.slot = 1 /\ step = "validate" /\ Answered /\ ~Configuring
  \/ /\ g.to = "unpairInvalid" /\ g.slot \in {slot, 1} /\ step = "validate" /\ Configuring
     /\ status = "timeout" \/ ~AllValid
  \/ /\ g.to = "unpairErr" /\ g.slot = slot /\ step \in {"clear", "start"}
     /\ status = "refused" /\ Configuring

\* Where it comes from when the command ends.
Exit(g) ==
  \/ g.to = "returned" /\ status = "timeout" /\ step # "forceUnpair"
  \/ /\ g.to = "returned" /\ status = "refused"
     /\ \/ step \in PairSteps
        \/ step \in {"clear", "start", "global"} /\ Configuring /\ ~opts.skipTest
  \/ g.to = "returned" /\ status = "ok" /\ step \in {"unpair", "unpairInvalid", "unpairErr"}
  \/ /\ g.to \in Raised /\ step \in {"pair", "validate", "global"}
     /\ step = "validate" => AllValid

LEMMA Routes ==
  ASSUME TypeOK, Placed, status \in {"ok", "refused", "timeout"}
  PROVE  /\ Following.slot \in 1 .. Slots
         /\ Route(Following) \/ Exit(Following)
<1> DEFINE g == Following
<1> USE SlotsAssumption DEF Following, After, AllValid, Answered, Steps, ConfigSteps, SlotSteps,
      PairSteps, Return, Go,
      AfterRefusal, AfterTimeout, SwallowsRefusal, SwallowsTimeout, TypeOK, Placed,
      OnlyConfigure, Route, Exit, Configuring, HalfDone, Options, Raised
<1>1. CASE step = "forceUnpair"
  BY <1>1 DEF Proceed
<1>2. CASE step = "pair"
  BY <1>2 DEF Proceed, AfterPairing, Deploy, Deploying
<1>3. CASE step = "unpairInvalid"
  BY <1>3 DEF Proceed
<1>4. CASE step = "unpairErr"
  BY <1>4 DEF Proceed
<1>5. CASE step = "unpair"
  BY <1>5 DEF Proceed
<1>6. CASE step = "validate"
  BY <1>6 DEF Proceed, AfterValidation, Loop, Deploy, Deploying
<1>7. CASE step = "clear"
  BY <1>7 DEF Proceed
<1>8. CASE step = "start"
  BY <1>8 DEF Proceed
<1>9. CASE step = "global"
  BY <1>9 DEF Proceed
<1>10. CASE step = "select"
  BY <1>10 DEF Proceed
<1>11. CASE step = "mac"
  BY <1>11 DEF Proceed
<1>12. CASE step = "host"
  BY <1>12 DEF Proceed
<1>13. CASE step = "finalize"
  BY <1>13 DEF Proceed, Loop
<1>14. CASE step = "finalizeErr"
  BY <1>14 DEF Proceed
<1>15. CASE step = "commit"
  BY <1>15 DEF Proceed
<1> QED
  BY <1>1, <1>2, <1>3, <1>4, <1>5, <1>6, <1>7, <1>8, <1>9, <1>10, <1>11, <1>12, <1>13, <1>14, <1>15

-----------------------------------------------------------------------------
(* One lemma per action *)

LEMMA InitIInv == Init => IInv
<1> SUFFICES ASSUME Init PROVE IInv
  OBVIOUS
<1> USE SlotsAssumption DEF Init
<1>1. PICK p \in BOOLEAN :
        bridge = [paired |-> p, open |-> FALSE, selected |-> 0, validated |-> {},
                  staged |-> {}, final |-> {}, former |-> TRUE, config |-> {}]
  OBVIOUS
<1>2. bridge.selected = 0 /\ bridge.staged = {} /\ bridge.final = {} /\ bridge.config = {}
      /\ bridge.former = TRUE /\ bridge.open = FALSE /\ bridge.validated = {}
  BY <1>1
<1>3. bridge \in Bridge
  BY <1>1 DEF Bridge
<1>4. Typed
  BY <1>3 DEF Typed, TypeOK, Steps, PairSteps, Query, Answers, Endings, Raised
<1>5. Beginning /\ Placed /\ OneConfigQuery /\ OneConfigAnswer
  BY DEF Beginning, Placed, OneConfigQuery, OneConfigAnswer, OnlyConfigure, SlotSteps,
     ConfigAnswers, ConfigQueries, ConfigSteps, Early
<1>6. OkMeansCarriedOut /\ Prefix /\ Rollout /\ Validation /\ Clean /\ NoLateRaise
  BY <1>2 DEF OkMeansCarriedOut, Prefix, Rollout, Validation, Clean, NoLateRaise, Unselected,
     Early, SlotSteps, Raised
<1>7. /\ CommittedIsPrefix /\ HalfSlotIsReported
      /\ CleanOutputMeansUnpaired /\ PairedLeftoversExplained
  BY <1>2 DEF CommittedIsPrefix, HalfSlotIsReported, CleanOutputMeansUnpaired,
     PairedLeftoversExplained
<1> QED
  BY <1>4, <1>5, <1>6, <1>7 DEF IInv

LEMMA StutterPreserves == IInv /\ UNCHANGED vars => IInv'
<1> SUFFICES ASSUME IInv, UNCHANGED vars PROVE IInv'
  OBVIOUS
<1> USE DEF vars, client, IInv
<1>1. Typed'
  BY DEF Typed, TypeOK, Query, Answers
<1>2. Beginning' /\ Placed' /\ OneConfigQuery' /\ OneConfigAnswer'
  BY DEF Beginning, Placed, OneConfigQuery, OneConfigAnswer, ConfigAnswers, ConfigQueries,
     Prompt, Current, Configuring
<1>3. OkMeansCarriedOut'
  BY DEF OkMeansCarriedOut, CarriedOut, Prompt
<1>4. Prefix' /\ Rollout' /\ Validation' /\ Clean' /\ NoLateRaise'
  BY DEF Prefix, SlotDone, Rollout, Validation, Clean, NoLateRaise, Configuring
<1>5. /\ CommittedIsPrefix' /\ HalfSlotIsReported'
      /\ CleanOutputMeansUnpaired' /\ PairedLeftoversExplained'
  BY DEF CommittedIsPrefix, HalfSlotIsReported, CleanOutputMeansUnpaired,
     PairedLeftoversExplained, Configuring
<1> QED
  BY <1>1, <1>2, <1>3, <1>4, <1>5

LEMMA TimerPreserves == IInv /\ TimerFires => IInv'
<1> SUFFICES ASSUME IInv, TimerFires PROVE IInv'
  OBVIOUS
<1> USE DEF TimerFires, client, IInv
<1>1. Typed'
  BY DEF Typed, TypeOK, Query, Answers
<1>2. Beginning' /\ Placed' /\ OneConfigQuery' /\ OneConfigAnswer'
  BY DEF Beginning, Placed, OneConfigQuery, OneConfigAnswer, ConfigAnswers, ConfigQueries,
     Prompt, Current, Configuring
<1>3. OkMeansCarriedOut'
  BY DEF OkMeansCarriedOut, CarriedOut, Prompt
<1>4. Prefix' /\ Rollout' /\ Validation' /\ Clean' /\ NoLateRaise'
  BY DEF Prefix, SlotDone, Rollout, Validation, Clean, NoLateRaise, Configuring
<1>5. /\ CommittedIsPrefix' /\ HalfSlotIsReported'
      /\ CleanOutputMeansUnpaired' /\ PairedLeftoversExplained'
  BY DEF CommittedIsPrefix, HalfSlotIsReported, CleanOutputMeansUnpaired,
     PairedLeftoversExplained, Configuring
<1> QED
  BY <1>1, <1>2, <1>3, <1>4, <1>5

LEMMA DispatchPreserves ==
  ASSUME IInv, NEW a \in answers, Dispatch(a) PROVE IInv'
<1> USE DEF Dispatch, client, IInv
<1>1. Typed'
  BY DEF Typed, TypeOK, Query, Answers
<1>2. Beginning' /\ Placed' /\ OneConfigQuery'
  BY DEF Beginning, Placed, OneConfigQuery, Prompt, Current, Configuring
<1>3. OneConfigAnswer'
  <2>1. ASSUME step \in ConfigSteps, status' \in {"ok", "refused"}
        PROVE  ConfigQueries = {} /\ ConfigAnswers' = {}
    <3>1. CASE a.sub = "Config"
      BY <2>1, <3>1 DEF OneConfigAnswer, ConfigAnswers
    <3>2. CASE a.sub # "Config"
      BY <2>1, <3>2 DEF OneConfigAnswer, ConfigAnswers, Subprotocol, ConfigSteps, PairSteps, SlotSteps
    <3> QED
      BY <3>1, <3>2
  <2> QED
    BY <2>1 DEF OneConfigAnswer, ConfigAnswers, ConfigQueries
<1>4. OkMeansCarriedOut'
  BY DEF OkMeansCarriedOut, CarriedOut, Prompt, Typed, Answers
<1>5. Prefix' /\ Rollout' /\ Validation' /\ Clean' /\ NoLateRaise'
  BY DEF Prefix, SlotDone, Rollout, Validation, Clean, NoLateRaise, Configuring
<1>6. /\ CommittedIsPrefix' /\ HalfSlotIsReported'
      /\ CleanOutputMeansUnpaired' /\ PairedLeftoversExplained'
  BY DEF CommittedIsPrefix, HalfSlotIsReported, CleanOutputMeansUnpaired,
     PairedLeftoversExplained, Configuring
<1> QED
  BY <1>1, <1>2, <1>3, <1>4, <1>5, <1>6

\* What is said of the bridge.
BridgeInv ==
  /\ bridge \in Bridge
  /\ Prefix /\ Rollout /\ Validation /\ Clean /\ CommittedIsPrefix /\ HalfSlotIsReported

LEMMA EffectOf ==
  ASSUME NEW q
  PROVE  /\ q.step = "pair" => Effect(q) = [bridge EXCEPT !.paired = TRUE]
         /\ q.step \in PairSteps \ {"pair"} => Effect(q) = [bridge EXCEPT !.paired = FALSE]
         /\ q.step = "validate" =>
              Effect(q) = [bridge EXCEPT !.validated = bridge.validated \cup {q.slot}]
         /\ q.step = "clear" => Effect(q) = [bridge EXCEPT !.former = FALSE, !.config = {}]
         /\ q.step = "start" =>
              Effect(q) = [bridge EXCEPT !.open = TRUE, !.selected = 0, !.staged = {}, !.final = {}]
         /\ q.step = "global" => Effect(q) = bridge
         /\ q.step = "select" => Effect(q) = [bridge EXCEPT !.selected = q.slot]
<1> USE DEF Effect, PairSteps, Parts
<1>1. q.step = "pair" => Effect(q) = [bridge EXCEPT !.paired = TRUE]
  OBVIOUS
<1>2. q.step \in PairSteps \ {"pair"} => Effect(q) = [bridge EXCEPT !.paired = FALSE]
  OBVIOUS
<1>3. q.step = "validate" =>
        Effect(q) = [bridge EXCEPT !.validated = bridge.validated \cup {q.slot}]
  OBVIOUS
<1>4. q.step = "clear" => Effect(q) = [bridge EXCEPT !.former = FALSE, !.config = {}]
  OBVIOUS
<1>5. q.step = "start" =>
        Effect(q) = [bridge EXCEPT !.open = TRUE, !.selected = 0, !.staged = {}, !.final = {}]
  OBVIOUS
<1>6. q.step = "global" => Effect(q) = bridge
  OBVIOUS
<1>7. q.step = "select" => Effect(q) = [bridge EXCEPT !.selected = q.slot]
  OBVIOUS
<1> QED
  BY <1>1, <1>2, <1>3, <1>4, <1>5, <1>6, <1>7

LEMMA EffectPreserves ==
  ASSUME IInv, NEW q \in wire, UNCHANGED client, InTime(q.n), bridge' = Effect(q)
  PROVE  BridgeInv' /\ (q = Current => CarriedOut')
<1> USE SlotsAssumption DEF client
<1> DEFINE Others == Prefix' /\ Rollout' /\ Validation' /\ Clean' /\ CommittedIsPrefix'
                     /\ HalfSlotIsReported'
<1>1. /\ bridge \in Bridge /\ slot \in 1 .. Slots /\ q.step \in Steps /\ q.slot \in 1 .. Slots
      /\ q = Current => q.step = step /\ q.slot = slot
      /\ Prompt => q = Current
      /\ q.step \in ConfigSteps => q = Current \/ (q.step = "validate" /\ step = "unpairInvalid")
  BY DEF IInv, Typed, TypeOK, Query, OneConfigQuery, Current
<1>2. Prefix /\ Rollout /\ Validation /\ Clean /\ CommittedIsPrefix /\ HalfSlotIsReported /\ Placed
  BY DEF IInv
<1> DEFINE Same == /\ bridge'.open = bridge.open /\ bridge'.selected = bridge.selected
                   /\ bridge'.staged = bridge.staged /\ bridge'.final = bridge.final
                   /\ bridge'.former = bridge.former /\ bridge'.config = bridge.config
<1>3. CASE q.step \in PairSteps
  <2>0. PICK b \in BOOLEAN : bridge' = [bridge EXCEPT !.paired = b]
    BY <1>3, EffectOf
  <2>1. bridge' \in Bridge /\ Same /\ bridge'.validated = bridge.validated
    BY <1>1, <2>0 DEF Bridge
  <2>2. q.step # "pair" => bridge'.paired = FALSE
    BY <1>1, <1>3, EffectOf DEF Bridge, PairSteps
  <2>3. Prefix' /\ Rollout'
    BY <1>2, <2>1 DEF Prefix, SlotDone, Rollout
  <2>5. Validation' /\ Clean' /\ CommittedIsPrefix' /\ HalfSlotIsReported'
    BY <1>2, <2>1 DEF SlotDone, Validation, Clean, CommittedIsPrefix, HalfSlotIsReported,
       Configuring
  <2>4. q = Current => CarriedOut'
    BY <1>1, <1>3, <2>2 DEF CarriedOut, PairSteps, Parts
  <2> QED
    BY <2>1, <2>3, <2>4, <2>5 DEF BridgeInv
<1>4. CASE q.step = "validate"
  <2>1. bridge' \in Bridge /\ Same /\ bridge'.validated = bridge.validated \cup {q.slot}
    BY <1>1, <1>4, EffectOf DEF Bridge, PairSteps
  <2>2. Prefix' /\ Rollout' /\ Validation'
    BY <1>1, <1>2, <2>1 DEF Prefix, SlotDone, Rollout, Validation, Configuring
  <2>4. Clean' /\ CommittedIsPrefix' /\ HalfSlotIsReported'
    BY <1>2, <2>1 DEF SlotDone, Clean, CommittedIsPrefix, HalfSlotIsReported, Configuring
  <2>3. q = Current => CarriedOut'
    BY <1>1, <1>4, <2>1 DEF CarriedOut, PairSteps, Parts
  <2> QED
    BY <2>1, <2>2, <2>3, <2>4 DEF BridgeInv
<1>5. ASSUME q = Current, step = "clear" PROVE BridgeInv' /\ CarriedOut'
  <2>1. bridge' = [bridge EXCEPT !.former = FALSE, !.config = {}]
    BY <1>1, <1>5, EffectOf
  <2>2. bridge' \in Bridge
    BY <1>1, <2>1 DEF Bridge
  <2>3. Others
    <3>1. Prefix' /\ Rollout'
      BY <1>1, <1>2, <1>5, <2>1 DEF Prefix, SlotDone, Rollout, Bridge, Placed, Early, Unselected
    <3>2. Validation' /\ Clean'
      BY <1>1, <1>2, <1>5, <2>1 DEF SlotDone, Validation, Clean, Configuring, Bridge, Placed, Early, Unselected
    <3>3. CommittedIsPrefix' /\ HalfSlotIsReported'
      BY <1>1, <1>2, <1>5, <2>1 DEF CommittedIsPrefix, HalfSlotIsReported, Bridge
    <3> QED
      BY <3>1, <3>2, <3>3
  <2>4. CarriedOut'
    BY <1>5 DEF CarriedOut, PairSteps, Parts
  <2> QED
    BY <2>2, <2>3, <2>4 DEF BridgeInv
<1>6. ASSUME q = Current, step = "start" PROVE BridgeInv' /\ CarriedOut'
  <2>1. bridge' = [bridge EXCEPT !.open = TRUE, !.selected = 0, !.staged = {}, !.final = {}]
    BY <1>1, <1>6, EffectOf
  <2>2. bridge' \in Bridge
    <3>1. 0 \in 0 .. Slots
      BY SlotsAssumption
    <3> QED
      BY <1>1, <2>1, <3>1 DEF Bridge
  <2>3. Others
    <3>1. Prefix' /\ Rollout'
      BY <1>1, <1>2, <1>6, <2>1 DEF Prefix, SlotDone, Rollout, Bridge, Placed, Early, Unselected, SlotSteps
    <3>2. Validation' /\ Clean'
      BY <1>1, <1>2, <1>6, <2>1 DEF SlotDone, Validation, Clean, Configuring, Bridge, Placed, Early, Unselected, SlotSteps
    <3>3. CommittedIsPrefix' /\ HalfSlotIsReported'
      BY <1>1, <1>2, <1>6, <2>1 DEF CommittedIsPrefix, HalfSlotIsReported, Bridge
    <3> QED
      BY <3>1, <3>2, <3>3
  <2>4. CarriedOut'
    BY <1>6 DEF CarriedOut, PairSteps, Parts
  <2> QED
    BY <2>2, <2>3, <2>4 DEF BridgeInv
<1>7. ASSUME q = Current, step = "global" PROVE BridgeInv' /\ CarriedOut'
  <2>1. bridge' = bridge
    BY <1>1, <1>7, EffectOf
  <2> QED
    BY <1>1, <1>2, <1>7, <2>1 DEF BridgeInv, Prefix, SlotDone, Rollout, Validation, Clean,
       CommittedIsPrefix, HalfSlotIsReported, Configuring, CarriedOut, PairSteps, Parts
<1>8. ASSUME q = Current, step = "select" PROVE BridgeInv' /\ CarriedOut'
  <2>1. bridge' = [bridge EXCEPT !.selected = slot]
    BY <1>1, <1>8, EffectOf
  <2>2. bridge' \in Bridge
    BY <1>1, <2>1 DEF Bridge
  <2>3. Prefix'
    BY <1>1, <1>2, <1>8, <2>1 DEF Prefix, SlotDone, Rollout, Bridge, SlotSteps
  <2>4. Rollout'
    BY <1>1, <1>2, <1>8, <2>1 DEF SlotDone, Rollout, Bridge, Early, Unselected, SlotSteps
  <2>5. /\ Validation' /\ Clean' /\ CommittedIsPrefix' /\ HalfSlotIsReported'
    BY <1>1, <1>2, <1>8, <2>1 DEF Validation, Clean, CommittedIsPrefix,
       HalfSlotIsReported, Configuring, Bridge
  <2>6. CarriedOut'
    BY <1>1, <1>8, <2>1 DEF CarriedOut, PairSteps, Parts, Bridge
  <2> QED
    BY <2>2, <2>3, <2>4, <2>5, <2>6 DEF BridgeInv
<1>9. ASSUME q = Current, step \in Parts PROVE BridgeInv' /\ CarriedOut'
  <2>1. bridge.selected = slot
    BY <1>2, <1>9 DEF Rollout, Parts
  <2>2. bridge' = [bridge EXCEPT !.staged = bridge.staged \cup {<<slot, step>>}]
    <3>1. bridge' = [bridge EXCEPT !.staged = @ \cup ({bridge.selected} \ {0}) \X {step}]
      BY <1>1, <1>9 DEF Effect, PairSteps, Parts
    <3>2. ({slot} \ {0}) \X {step} = {<<slot, step>>}
      BY <1>1
    <3> QED
      BY <2>1, <3>1, <3>2
  <2>3. bridge' \in Bridge
    BY <1>1, <1>9, <2>2 DEF Bridge
  <2>4. Prefix'
    BY <1>1, <1>2, <1>9, <2>1, <2>2 DEF Prefix, SlotDone, Bridge
  <2>5. Others
    <3>1. Prefix' /\ Rollout'
      BY <1>1, <1>2, <1>9, <2>1, <2>2, <2>4 DEF SlotDone, Rollout, Bridge, Early, Unselected, SlotSteps, Parts
    <3>2. Validation' /\ Clean'
      BY <1>1, <1>2, <1>9, <2>1, <2>2, <2>4 DEF SlotDone, Validation, Clean, Configuring, Bridge, Early, Unselected, SlotSteps, Parts
    <3>3. CommittedIsPrefix' /\ HalfSlotIsReported'
      BY <1>1, <1>2, <1>9, <2>1, <2>2, <2>4 DEF CommittedIsPrefix, HalfSlotIsReported, Bridge
    <3> QED
      BY <3>1, <3>2, <3>3
  <2>6. CarriedOut'
    BY <1>1, <1>9, <2>2 DEF CarriedOut, PairSteps, Parts, Bridge
  <2> QED
    BY <2>3, <2>5, <2>6 DEF BridgeInv
<1>10. ASSUME q = Current, step = "finalize" PROVE BridgeInv' /\ CarriedOut'
  <2>1. bridge.selected = slot /\ {slot} \X Parts \subseteq bridge.staged
    BY <1>2, <1>10 DEF Rollout, Parts
  <2>2. bridge' = [bridge EXCEPT !.final = bridge.final \cup {slot}]
    BY <1>1, <1>10, <2>1 DEF Effect, PairSteps, Parts
  <2>3. bridge' \in Bridge
    BY <1>1, <2>2 DEF Bridge
  <2>4. Prefix'
    BY <1>1, <1>2, <1>10, <2>1, <2>2 DEF Prefix, SlotDone, Bridge
  <2>5. Others
    <3>1. Prefix' /\ Rollout'
      BY <1>1, <1>2, <1>10, <2>1, <2>2, <2>4 DEF SlotDone, Rollout, Bridge, Early, Unselected, SlotSteps
    <3>2. Validation' /\ Clean'
      BY <1>1, <1>2, <1>10, <2>1, <2>2, <2>4 DEF SlotDone, Validation, Clean, Configuring, Bridge, Early, Unselected, SlotSteps
    <3>3. CommittedIsPrefix' /\ HalfSlotIsReported'
      BY <1>1, <1>2, <1>10, <2>1, <2>2, <2>4 DEF CommittedIsPrefix, HalfSlotIsReported, Bridge
    <3> QED
      BY <3>1, <3>2, <3>3
  <2>6. CarriedOut'
    BY <1>1, <1>10, <2>2 DEF CarriedOut, PairSteps, Parts, Bridge
  <2> QED
    BY <2>3, <2>5, <2>6 DEF BridgeInv
<1>11. ASSUME q = Current, step = "finalizeErr" PROVE BridgeInv' /\ CarriedOut'
  <2>1. out.advice
    BY <1>2, <1>11 DEF Rollout
  <2>2. bridge' = [bridge EXCEPT !.final = @ \cup ({bridge.selected} \ {0})]
    BY <1>1, <1>11, <2>1 DEF Effect, PairSteps, Parts
  <2>3. bridge' \in Bridge
    BY <1>1, <2>2 DEF Bridge
  <2>4. Prefix'
    BY <1>1, <1>2, <1>11, <2>1, <2>2 DEF Prefix, SlotDone, Bridge
  <2>5. Others
    <3>1. Prefix' /\ Rollout'
      BY <1>1, <1>2, <1>11, <2>1, <2>2, <2>4 DEF SlotDone, Rollout, Bridge, Early, Unselected, SlotSteps
    <3>2. Validation' /\ Clean'
      BY <1>1, <1>2, <1>11, <2>1, <2>2, <2>4 DEF SlotDone, Validation, Clean, Configuring, Bridge, Early, Unselected, SlotSteps
    <3>3. CommittedIsPrefix' /\ HalfSlotIsReported'
      BY <1>1, <1>2, <1>11, <2>1, <2>2, <2>4 DEF CommittedIsPrefix, HalfSlotIsReported, Bridge
    <3> QED
      BY <3>1, <3>2, <3>3
  <2>6. CarriedOut'
    BY <1>1, <1>11 DEF CarriedOut, PairSteps, Parts
  <2> QED
    BY <2>3, <2>5, <2>6 DEF BridgeInv
<1>12. ASSUME q = Current, step = "commit" PROVE BridgeInv' /\ CarriedOut'
  <2>1. bridge' = [bridge EXCEPT !.open = FALSE,
                     !.config = {p \in bridge.staged : p[1] \in bridge.final}]
    BY <1>1, <1>12 DEF Effect, PairSteps, Parts
  <2>2. bridge' \in Bridge
    BY <1>1, <2>1 DEF Bridge
  <2>3. Prefix'
    BY <1>1, <1>2, <2>1 DEF Prefix, SlotDone, Bridge
  <2>4. CommittedIsPrefix'
    BY <1>1, <1>2, <2>1 DEF Prefix, SlotDone, Bridge, CommittedIsPrefix
  <2>5. HalfSlotIsReported'
    BY <1>1, <1>2, <2>1 DEF Prefix, SlotDone, Bridge, HalfSlotIsReported
  <2>6. Others
    <3>1. Prefix' /\ Rollout'
      BY <1>1, <1>2, <1>12, <2>1, <2>3, <2>4, <2>5 DEF SlotDone, Rollout, Bridge, Early, Unselected, SlotSteps
    <3>2. Validation' /\ Clean'
      BY <1>1, <1>2, <1>12, <2>1, <2>3, <2>4, <2>5 DEF SlotDone, Validation, Clean, Configuring, Bridge, Early, Unselected, SlotSteps
    <3> QED
      BY <2>4, <2>5, <3>1, <3>2
  <2>7. CarriedOut'
    BY <1>1, <1>12, <2>1 DEF CarriedOut, PairSteps, Parts, Bridge
  <2> QED
    BY <2>2, <2>6, <2>7 DEF BridgeInv
<1> QED
  BY <1>1, <1>3, <1>4, <1>5, <1>6, <1>7, <1>8, <1>9, <1>10, <1>11, <1>12
     DEF Steps, ConfigSteps, SlotSteps, Parts

LEMMA PerformPreserves ==
  ASSUME IInv, NEW q \in wire, Perform(q) PROVE IInv'
<1> DEFINE a(ok) == [n |-> q.n, sub |-> Subprotocol(q.step), ok |-> ok]
<1>1. PICK ok \in BOOLEAN :
        /\ bridge' = IF ok THEN Effect(q) ELSE bridge
        /\ answers' = answers \cup {a(ok)} \/ answers' = answers
  BY DEF Perform
<1>2. /\ InTime(q.n) /\ UNCHANGED <<client, status>> /\ wire' = wire \ {q}
  BY DEF Perform
<1>3. BridgeInv' /\ (ok /\ q = Current => CarriedOut')
  <2>1. CASE ok
    BY <1>1, <1>2, <2>1, EffectPreserves
  <2>2. CASE ~ok
    <3>1. bridge' = bridge
      BY <1>1, <2>2
    <3>2. (bridge \in Bridge)' /\ Prefix' /\ Rollout'
      BY <1>2, <3>1 DEF IInv, Typed, TypeOK, Prefix, SlotDone, Rollout, client
    <3>3. Validation' /\ Clean'
      BY <1>2, <3>1 DEF IInv, SlotDone, Validation, Clean, Configuring, client
    <3>4. CommittedIsPrefix' /\ HalfSlotIsReported'
      BY <1>2, <3>1 DEF IInv, CommittedIsPrefix, HalfSlotIsReported, client
    <3> QED
      BY <2>2, <3>2, <3>3, <3>4 DEF BridgeInv
  <2> QED
    BY <2>1, <2>2
<1>4. /\ q \in Query /\ status # "begin" /\ Typed
      /\ q.step \in ConfigSteps \/ Prompt =>
           q = Current \/ (~Prompt /\ q.step = "validate" /\ step = "unpairInvalid")
  BY DEF IInv, Typed, Beginning, OneConfigQuery
<1>5. a(ok) \in Answers /\ (a(ok).sub = "Config" <=> q.step \in ConfigSteps)
  BY <1>4 DEF Answers, Query, Typed, TypeOK, Subprotocol, Steps, ConfigSteps, PairSteps, SlotSteps
<1>6. Typed'
  BY <1>1, <1>2, <1>3, <1>4, <1>5 DEF Typed, TypeOK, BridgeInv, Query, Answers, client
<1>7. Beginning' /\ Placed' /\ OneConfigQuery' /\ NoLateRaise'
  BY <1>2, <1>4 DEF IInv, Beginning, Placed, OneConfigQuery, NoLateRaise, Prompt, Current,
     Configuring, client
<1>8. OneConfigAnswer'
  <2>1. CASE q.step \in ConfigSteps
    <3>1. ASSUME step \in ConfigSteps
          PROVE  ConfigAnswers = {} /\ ConfigQueries' = {} /\ status \notin {"ok", "refused"}
      <4>1. ConfigQueries # {}
        BY <2>1 DEF ConfigQueries
      <4>2. \A p \in wire : p.step \in ConfigSteps => p = q
        BY <1>4, <2>1, <3>1 DEF IInv, OneConfigQuery, ConfigSteps, SlotSteps
      <4> QED
        BY <1>2, <3>1, <4>1, <4>2 DEF IInv, OneConfigAnswer, ConfigQueries
    <3>2. step \notin {"forceUnpair", "pair"}
      <4>1. CASE q = Current
        BY <2>1, <4>1 DEF Current, ConfigSteps, SlotSteps
      <4> QED
        BY <1>4, <2>1, <4>1
    <3>3. step \in ConfigSteps => ConfigAnswers' \subseteq {a(ok)}
      BY <1>1, <3>1 DEF ConfigAnswers
    <3> QED
      BY <1>2, <3>1, <3>2, <3>3 DEF OneConfigAnswer, client
  <2>2. CASE q.step \notin ConfigSteps
    <3>1. ConfigAnswers' = ConfigAnswers /\ ConfigQueries' = ConfigQueries
      BY <1>1, <1>2, <1>5, <2>2 DEF ConfigAnswers, ConfigQueries
    <3> QED
      BY <1>2, <3>1 DEF IInv, OneConfigAnswer, client
  <2> QED
    BY <2>1, <2>2
<1>9. CarriedOut => CarriedOut'
  <2>1. CASE ok /\ q = Current
    BY <1>3, <2>1
  <2>2. CASE ~ok
    BY <1>1, <1>2, <2>2 DEF CarriedOut, client, Prompt
  <2>3. CASE q.step \in PairSteps /\ ~Prompt /\ ok
    <3>1. PICK b \in BOOLEAN : bridge' = [bridge EXCEPT !.paired = b]
      BY <1>1, <2>3, EffectOf
    <3> QED
      BY <1>2, <1>4, <2>3, <3>1 DEF CarriedOut, client, Prompt, Typed, TypeOK, Bridge
  <2>4. CASE step = "unpairInvalid" /\ ~Prompt
    BY <1>2, <2>4 DEF CarriedOut, client, Prompt, Parts
  <2> QED
    BY <1>4, <2>1, <2>2, <2>3, <2>4 DEF Query, Steps, Current
<1>10. a(ok).ok /\ a(ok).sub = Subprotocol(step) => CarriedOut'
  <2>1. CASE q = Current
    BY <1>3, <2>1
  <2>2. CASE step \in PairSteps /\ ~Prompt
    BY <1>2, <2>2 DEF CarriedOut, client, Prompt, Parts, PairSteps
  <2> QED
    BY <1>4, <1>5, <2>1, <2>2 DEF Subprotocol, PairSteps, Query, Steps, Current
<1>11. OkMeansCarriedOut'
  BY <1>1, <1>2, <1>9, <1>10 DEF IInv, OkMeansCarriedOut, client
<1>12. CleanOutputMeansUnpaired' /\ PairedLeftoversExplained'
  BY <1>2, <1>4 DEF IInv, CleanOutputMeansUnpaired, PairedLeftoversExplained, InTime, client,
     Configuring
<1> QED
  BY <1>3, <1>6, <1>7, <1>8, <1>11, <1>12 DEF IInv, BridgeInv

LEMMA BeginPreserves == IInv /\ Begin => IInv'
<1> SUFFICES ASSUME IInv, Begin PROVE IInv'
  OBVIOUS
<1> DEFINE unreadable == opts.json = "invalid"
           g == FirstQuery
<1>1. /\ status = "begin" /\ Run(g) /\ out' = [out EXCEPT !.err = unreadable]
      /\ UNCHANGED <<opts, valid, history, answers, bridge>>
  BY DEF Begin
<1>2. /\ sent = 0 /\ wire = {} /\ answers = {} /\ step = "pair" /\ slot = 1
      /\ ending = "none" /\ opts \in Options /\ out \in [ok : Nat, err : BOOLEAN, advice : BOOLEAN]
  BY <1>1 DEF IInv, Beginning, Typed, TypeOK
<1>3. /\ out' \in [ok : Nat, err : BOOLEAN, advice : BOOLEAN]
      /\ out'.err = unreadable /\ out'.advice = out.advice
  BY <1>1, <1>2
<1>4. \/ /\ step' \in {"forceUnpair", "pair"} /\ slot' = 1 /\ sent' = 1 /\ status' = "waiting"
         /\ wire' = {[n |-> 1, step |-> step', slot |-> 1]} /\ ending' = "none"
      \/ /\ step' = "pair" /\ slot' = 1 /\ sent' = 0 /\ status' = "ended"
         /\ wire' = {} /\ ending' \in {"returned", "OSError", "ValueError"}
         /\ ending' = "returned" => out'.err
  BY <1>1, <1>2, <1>3 DEF Run, FirstQuery, Return, Go, Unbuildable, Steps, PairSteps, Endings, Raised,
     ConfigSteps, SlotSteps
<1>5. Typed'
  BY <1>1, <1>2, <1>3, <1>4, SlotsAssumption DEF IInv, Typed, TypeOK, Query, Answers, Endings,
     Raised, Steps, PairSteps
<1>6. Beginning' /\ Placed' /\ OneConfigQuery' /\ OneConfigAnswer' /\ NoLateRaise'
  BY <1>1, <1>2, <1>4 DEF IInv, Beginning, Placed, OneConfigQuery, OneConfigAnswer, NoLateRaise,
     Current, Prompt, OnlyConfigure, SlotSteps, ConfigSteps, ConfigAnswers, ConfigQueries,
     Configuring, Raised, Early
<1>7. OkMeansCarriedOut'
  BY <1>1, <1>2, <1>4 DEF OkMeansCarriedOut
<1>8. Prefix' /\ Rollout'
  BY <1>1, <1>2, <1>3, <1>4 DEF IInv, Prefix, SlotDone, Rollout, Early, Unselected, SlotSteps
<1>9. Validation' /\ Clean'
  BY <1>1, <1>2, <1>3, <1>4 DEF IInv, Validation, Clean, Configuring, Early
<1>10. CommittedIsPrefix' /\ HalfSlotIsReported'
  BY <1>1, <1>2, <1>3 DEF IInv, CommittedIsPrefix, HalfSlotIsReported
<1>11. CleanOutputMeansUnpaired' /\ PairedLeftoversExplained'
  BY <1>1, <1>4 DEF CleanOutputMeansUnpaired, PairedLeftoversExplained
<1> QED
  BY <1>5, <1>6, <1>7, <1>8, <1>9, <1>10, <1>11 DEF IInv

-----------------------------------------------------------------------------
(* Resume *)

LEMMA ResumeFacts ==
  ASSUME IInv, Resume
  PROVE  /\ status \in {"ok", "refused", "timeout"}
         /\ ending = "none" /\ step \in Steps /\ slot \in 1 .. Slots /\ sent \in Nat
         /\ history' = history \cup {<<step, status>>}
         /\ valid' = AllValid
         /\ out' = Output(step, status, Following)
         /\ answers' = {a \in answers : ~Prompt}
         /\ Run(Following)
         /\ opts' = opts /\ bridge' = bridge
         /\ Following.slot \in 1 .. Slots
         /\ Route(Following) \/ Exit(Following)
<1>1. /\ status \in {"ok", "refused", "timeout"}
      /\ TypeOK /\ Placed
  BY DEF Resume, IInv, Typed
<1> QED
  BY <1>1, Routes DEF Resume, AllValid, Following, Prompt, TypeOK

\* The output is only ever reset when nothing has been staged yet.
LEMMA OutputFacts ==
  ASSUME IInv, Resume
  PROVE  /\ out' \in [ok : Nat, err : BOOLEAN, advice : BOOLEAN]
         /\ Following.to = "finalizeErr" => out'.advice
         /\ step \notin {"pair", "validate"} =>
              /\ out.err => out'.err
              /\ out.advice => out'.advice
         /\ Following.to \notin {"clear", "start", "ValueError", "SerializeError"} =>
              /\ out.err => out'.err
              /\ status = "refused" \/ (status = "timeout" /\ step # "forceUnpair") => out'.err
         /\ step \notin {"pair", "validate"} =>
              (status = "refused" \/ (status = "timeout" /\ step # "forceUnpair") => out'.err)
<1>1. /\ out' = Output(step, status, Following)
      /\ out \in [ok : Nat, err : BOOLEAN, advice : BOOLEAN]
      /\ Following.to \in {"finalizeErr"} => step \notin {"pair", "validate"}
  BY ResumeFacts DEF IInv, Typed, TypeOK, Route, Exit, Deploying, SlotSteps, Raised
<1> DEFINE reset == /\ Configuring /\ step \in {"pair", "validate"}
                    /\ Following.to \in {"clear", "start", "ValueError", "SerializeError"}
<1>2. CASE reset
  <2>1. out' = [ok |-> 0, err |-> FALSE, advice |-> FALSE]
    BY <1>1, <1>2 DEF Output
  <2> QED
    BY <1>1, <1>2, <2>1
<1>3. CASE ~reset
  <2>1. out' = [ok |-> out.ok + IF status = "ok" /\ LogsOk(step) THEN 1 ELSE 0,
                err |-> out.err \/ status = "refused" \/ (status = "timeout" /\ step # "forceUnpair"),
                advice |-> out.advice \/ Following.to = "finalizeErr"]
    BY <1>1, <1>3 DEF Output
  <2>2. out'.ok \in Nat
    BY <1>1, <2>1
  <2>3. /\ out'.err = (out.err \/ status = "refused" \/ (status = "timeout" /\ step # "forceUnpair"))
        /\ out'.advice = (out.advice \/ Following.to = "finalizeErr")
        /\ out' = [ok |-> out'.ok, err |-> out'.err, advice |-> out'.advice]
    BY <2>1
  <2> QED
    BY <1>1, <2>2, <2>3
<1> QED
  BY <1>2, <1>3

GoesOn(g) ==
  /\ g.to \in Steps /\ step' = g.to /\ slot' = g.slot /\ sent' = sent + 1
  /\ wire' = {q \in wire : ~Prompt} \cup {[n |-> sent + 1, step |-> g.to, slot |-> g.slot]}
  /\ status' = "waiting" /\ ending' = ending

LEMMA ResumeCases ==
  ASSUME IInv, Resume
  PROVE  \/ GoesOn(Following) /\ Route(Following)
         \/ /\ UNCHANGED <<step, slot, sent, wire>>
            /\ status' = "ended" /\ ending' \in Endings
            /\ ending' = "returned" => Following.to = "returned" /\ Exit(Following)
            /\ ending' \in Raised => step \notin {"clear", "commit", "unpair"}
<1> DEFINE g == Following
<1>1. Run(g) /\ (Route(g) \/ Exit(g))
  BY ResumeFacts
<1>2. Exit(g) => g.to \notin Steps
  BY DEF Exit, Raised, Steps, PairSteps, ConfigSteps, SlotSteps
<1>3. Route(g) => g.to \in Steps /\ g.to \notin Endings
  BY DEF Route, Raised, Steps, PairSteps, ConfigSteps, SlotSteps, Endings
<1>4. ASSUME g.to \in Steps, UNCHANGED ending, status' = "waiting", step' = g.to, slot' = g.slot,
             sent' = sent + 1,
             wire' = {q \in wire : opts.network # "prompt"}
                       \cup {[n |-> sent + 1, step |-> g.to, slot |-> g.slot]}
      PROVE  GoesOn(g) /\ Route(g)
  BY <1>1, <1>2, <1>4 DEF GoesOn, Prompt
<1>5. ASSUME NEW how \in Endings,
             how = g.to \/ how = Unbuildable(g) \/ how = "OSError",
             ending' = how /\ status' = "ended" /\ UNCHANGED <<step, slot, sent, wire>>
      PROVE  /\ ending' = "returned" => g.to = "returned" /\ Exit(g)
             /\ ending' \in Raised => step \notin {"clear", "commit", "unpair"}
  <2>1. /\ Unbuildable(g) \in {"no", "SerializeError", "TypeError"}
        /\ Unbuildable(g) # "no" => g.to \in {"global", "validate", "mac", "host"}
    BY DEF Unbuildable
  <2>2. g.to \in {"global", "validate", "mac", "host"} => step \notin {"clear", "commit", "unpair"}
    BY <1>1, <1>2 DEF Route, Steps, PairSteps, ConfigSteps, SlotSteps
  <2>3. Exit(g) /\ g.to \in Raised => step \notin {"clear", "commit", "unpair"}
    BY DEF Exit, Raised
  <2> QED
    BY <1>1, <1>3, <1>5, <2>1, <2>2, <2>3 DEF Raised, Endings
<1> QED
  BY <1>1, <1>4, <1>5 DEF Run

LEMMA ResumeEnds ==
  ASSUME IInv, Resume, UNCHANGED <<step, slot, sent, wire>>,
         status' = "ended", ending' \in Endings,
         ending' = "returned" => Following.to = "returned" /\ Exit(Following),
         ending' \in Raised => step \notin {"clear", "commit", "unpair"}
  PROVE  IInv'
<1>1. /\ status \in {"ok", "refused", "timeout"}
      /\ ending = "none" /\ step \in Steps /\ slot \in 1 .. Slots
      /\ history' = history \cup {<<step, status>>} /\ valid' = AllValid
      /\ answers' = {a \in answers : ~Prompt} /\ opts' = opts /\ bridge' = bridge
      /\ Route(Following) \/ Exit(Following)
  BY ResumeFacts
<1>2. Typed'
  BY <1>1, OutputFacts DEF IInv, Typed, TypeOK, Query, Answers, AllValid, Endings, Raised
<1>3. Beginning' /\ OneConfigQuery' /\ OneConfigAnswer' /\ OkMeansCarriedOut' /\ NoLateRaise'
  BY <1>1 DEF IInv, Beginning, OneConfigQuery, OneConfigAnswer, OkMeansCarriedOut, CarriedOut,
     NoLateRaise, Prompt, Current, ConfigAnswers, ConfigQueries
<1>4. Placed'
  BY <1>1 DEF IInv, Placed, Configuring, AllValid
<1>5. Prefix' /\ Rollout'
  BY <1>1, OutputFacts DEF IInv, Prefix, SlotDone, Rollout, Early, Unselected
<1>6. Validation'
  BY <1>1 DEF IInv, Validation, AllValid, Configuring
<1>7. /\ ~out'.err => ~out.err \/ step \in {"pair", "validate"}
      /\ step = "validate" /\ ~valid' => out'.err
      /\ ending' = "returned" /\ ~out'.err =>
           status = "ok" /\ step \in {"unpair", "unpairInvalid", "unpairErr"}
  <2>1. ASSUME step = "validate", ~valid' PROVE out'.err
    <3>1. Following.to \notin {"clear", "start", "ValueError", "SerializeError"}
      BY <1>1, <2>1 DEF Route, Exit, Deploying, Raised
    <3> QED
      BY <1>1, <2>1, <3>1, OutputFacts DEF IInv, Clean, AllValid
  <2>2. ASSUME ending' = "returned", ~out'.err
        PROVE  status = "ok" /\ step \in {"unpair", "unpairInvalid", "unpairErr"}
    BY <1>1, <2>2, OutputFacts DEF Exit, Raised
  <2> QED
    BY <2>1, <2>2, OutputFacts
<1>8. Clean'
  BY <1>1, <1>7 DEF IInv, Clean, SlotDone, Configuring
<1>9. CommittedIsPrefix' /\ HalfSlotIsReported'
  BY <1>1, OutputFacts DEF IInv, CommittedIsPrefix, HalfSlotIsReported, Rollout
<1>10. CleanOutputMeansUnpaired'
  BY <1>1, <1>7 DEF IInv, CleanOutputMeansUnpaired, OkMeansCarriedOut, CarriedOut, Prompt, PairSteps
<1>11. PairedLeftoversExplained'
  BY <1>1 DEF IInv, PairedLeftoversExplained, OkMeansCarriedOut, CarriedOut, Prompt, PairSteps,
     Exit, Configuring, Raised
<1> QED
  BY <1>2, <1>3, <1>4, <1>5, <1>6, <1>8, <1>9, <1>10, <1>11 DEF IInv

LEMMA ResumeGoesOn ==
  ASSUME IInv, Resume, GoesOn(Following), Route(Following)
  PROVE  IInv'
<1> DEFINE g == Following
<1>1. /\ status \in {"ok", "refused", "timeout"}
      /\ ending = "none" /\ step \in Steps /\ slot \in 1 .. Slots /\ sent \in Nat
      /\ history' = history \cup {<<step, status>>} /\ valid' = AllValid
      /\ answers' = {a \in answers : ~Prompt} /\ opts' = opts /\ bridge' = bridge
      /\ g.slot \in 1 .. Slots
  BY ResumeFacts
<1>2. /\ g.to \in Steps /\ step' = g.to /\ slot' = g.slot /\ sent' = sent + 1
      /\ wire' = {q \in wire : ~Prompt} \cup {[n |-> sent + 1, step |-> g.to, slot |-> g.slot]}
      /\ status' = "waiting" /\ ending' = "none"
  BY <1>1 DEF GoesOn
<1>3. Typed'
  <2>1. wire' \subseteq Query'
    BY <1>1, <1>2 DEF IInv, Typed, Query
  <2>2. answers' \subseteq Answers'
    BY <1>1, <1>2 DEF IInv, Typed, Answers
  <2>3. history' \subseteq Steps \X {"ok", "refused", "timeout"}
    BY <1>1 DEF IInv, Typed, TypeOK
  <2> QED
    BY <1>1, <1>2, <2>1, <2>2, <2>3, OutputFacts DEF IInv, Typed, TypeOK, Query, Answers,
       AllValid, Endings, Raised
<1>4. Placed'
  BY <1>1, <1>2 DEF IInv, Typed, TypeOK, Placed, Route, Deploying, OnlyConfigure, SlotSteps, Early,
     AllValid, Configuring, Options
<1>5. /\ step \in ConfigSteps => Answered \/ (step = "validate" /\ g.to = "unpairInvalid")
      /\ step \in PairSteps => step \in {"forceUnpair", "pair"}
      /\ g.to \in {"forceUnpair", "pair"} => step = "forceUnpair"
      /\ g.to \in ConfigSteps => step = "pair" \/ (step \in ConfigSteps /\ Answered)
  BY DEF Route, Deploying, Answered, ConfigSteps, SlotSteps, PairSteps
<1>6. OneConfigQuery'
  <2> SUFFICES ASSUME NEW q \in wire, ~Prompt, q.step \in ConfigSteps
               PROVE  q.step = "validate" /\ g.to = "unpairInvalid"
    BY <1>1, <1>2 DEF OneConfigQuery, Prompt, Current
  <2>1. q = Current
    BY <1>5 DEF IInv, OneConfigQuery, PairSteps
  <2>2. ~Answered
    BY <2>1 DEF IInv, OneConfigAnswer, Current, Answered, ConfigQueries
  <2> QED
    BY <1>5, <2>1, <2>2 DEF Current
<1>7. /\ g.to \in ConfigSteps => ConfigAnswers' = {}
      /\ g.to \in {"forceUnpair", "pair"} => ConfigAnswers' = {}
  BY <1>1, <1>5 DEF IInv, OneConfigAnswer, ConfigAnswers, Answered
<1>8. Beginning' /\ OneConfigAnswer' /\ NoLateRaise'
  BY <1>2, <1>7 DEF Beginning, OneConfigAnswer, NoLateRaise, Raised
<1>9. OkMeansCarriedOut'
  BY <1>1, <1>2, <1>7 DEF OkMeansCarriedOut, CarriedOut, Subprotocol, ConfigAnswers, Prompt,
     Steps, PairSteps, Parts
<1>10. Prefix'
  BY <1>1, OutputFacts DEF IInv, Prefix, SlotDone, Rollout, Early, Unselected
<1>11. Rollout'
  <2>1. /\ g.to \in Unselected => step \in Unselected
        /\ g.to \in Early \cup {"clear"} => step \in Early
        /\ g.to \notin {"commit", "unpair"} => step \notin {"commit", "unpair"}
    BY DEF Route, Deploying, Unselected, Early, SlotSteps
  <2>2. g.to = "finalizeErr" => out'.advice
    BY OutputFacts
  <2>3. g.to = "select" => bridge.selected <= g.slot /\ \A i \in 1 .. Slots : i < g.slot => SlotDone(i)
    <3>1. CASE step = "global" /\ g.slot = 1
      BY <3>1 DEF IInv, Rollout, Unselected
    <3>2. CASE step = "finalize" /\ status = "ok" /\ g.slot = slot + 1
      <4>1. SlotDone(slot) /\ bridge.selected = slot
        BY <3>2 DEF IInv, Rollout, SlotDone, OkMeansCarriedOut, CarriedOut, Parts
      <4> QED
        BY <1>1, <3>2, <4>1 DEF IInv, Rollout, SlotSteps
    <3> QED
      BY <3>1, <3>2 DEF Route, Deploying
  <2>4. g.to = "mac" => step = "select" /\ bridge.selected = slot /\ g.slot = slot
    BY DEF Route, Deploying, IInv, OkMeansCarriedOut, CarriedOut
  <2>5. g.to = "host" => step = "mac" /\ <<slot, "mac">> \in bridge.staged /\ g.slot = slot
    BY DEF Route, Deploying, IInv, OkMeansCarriedOut, CarriedOut, Parts
  <2>6. g.to = "finalize" => step = "host" /\ <<slot, "host">> \in bridge.staged /\ g.slot = slot
    BY DEF Route, Deploying, IInv, OkMeansCarriedOut, CarriedOut, Parts
  <2> QED
    BY <1>1, <1>2, <2>1, <2>2, <2>3, <2>4, <2>5, <2>6 DEF IInv, Rollout, SlotDone, SlotSteps
<1>12. Validation'
  <2>1. ASSUME g.to = "validate", valid' PROVE 1 .. (g.slot - 1) \subseteq bridge.validated
    <3>1. CASE g.slot = 1
      BY <3>1
    <3>2. CASE g.slot = slot + 1 /\ step = "validate"
      <4>1. slot \in bridge.validated /\ 1 .. (slot - 1) \subseteq bridge.validated
        BY <1>1, <2>1, <3>2 DEF IInv, Validation, OkMeansCarriedOut, CarriedOut, AllValid
      <4>2. g.slot - 1 = slot /\ 1 .. slot = 1 .. (slot - 1) \cup {slot}
        BY <1>1, <3>2
      <4> QED
        BY <4>1, <4>2
    <3> QED
      BY <2>1, <3>1, <3>2 DEF Route, Deploying
  <2>2. ASSUME g.to \notin Early, Configuring, ~opts.skipTest
        PROVE  bridge.validated = 1 .. Slots
    <3>1. CASE step \notin Early
      BY <2>2, <3>1 DEF IInv, Validation
    <3>2. CASE step = "validate" /\ slot = Slots /\ AllValid
      <4>1. slot \in bridge.validated /\ 1 .. (slot - 1) \subseteq bridge.validated
        BY <1>1, <3>2 DEF IInv, Validation, OkMeansCarriedOut, CarriedOut, AllValid
      <4>2. 1 .. slot = 1 .. (slot - 1) \cup {slot}
        BY <1>1
      <4>3. bridge.validated \subseteq 1 .. Slots
        BY DEF IInv, Typed, TypeOK, Bridge
      <4> QED
        BY <3>2, <4>1, <4>2, <4>3
    <3> QED
      BY <2>2, <3>1, <3>2 DEF Route, Deploying, Early, Configuring, SlotSteps
  <2> QED
    BY <1>1, <1>2, <2>1, <2>2 DEF Validation, Configuring
<1>13. Clean'
  <2>1. ASSUME g.to = "validate", ~valid' PROVE out'.err
    BY <1>1, <2>1, OutputFacts DEF IInv, Clean, Placed, Route, Deploying, AllValid
  <2>2. g.to \in {"finalizeErr", "unpairErr"} => out'.err
    BY OutputFacts DEF Route, Deploying
  <2>3. g.to = "unpairInvalid" => out'.err
    BY <1>1, OutputFacts DEF Route, Deploying, IInv, Clean, AllValid
  <2>4. ASSUME g.to = "commit", ~out'.err PROVE \A i \in 1 .. Slots : SlotDone(i)
    <3>1. step = "finalize" /\ status = "ok" /\ slot = Slots
      BY <2>4, OutputFacts DEF Route, Deploying, IInv, Clean, SlotSteps
    <3>2. SlotDone(slot)
      BY <3>1 DEF IInv, Rollout, SlotDone, OkMeansCarriedOut, CarriedOut, Parts
    <3> QED
      BY <1>1, <3>1, <3>2 DEF IInv, Rollout, SlotSteps
  <2>5. ASSUME g.to = "unpair", Configuring, ~out'.err PROVE bridge.config = AllParts
    <3>1. step = "commit" /\ status = "ok" /\ ~out.err
      BY <2>5, OutputFacts DEF Route, Deploying, Answered
    <3>2. bridge.config = {p \in bridge.staged : p[1] \in bridge.final}
      BY <3>1 DEF IInv, OkMeansCarriedOut, CarriedOut
    <3>3. \A i \in 1 .. Slots : SlotDone(i)
      BY <2>5, <3>1 DEF IInv, Clean
    <3>4. bridge.staged \subseteq AllParts
      BY DEF IInv, Typed, TypeOK, Bridge, AllParts
    <3> QED
      BY <3>2, <3>3, <3>4 DEF AllParts, SlotDone
  <2> QED
    BY <1>1, <1>2, <2>1, <2>2, <2>3, <2>4, <2>5 DEF Clean, SlotDone, Configuring
<1>14. CommittedIsPrefix' /\ HalfSlotIsReported'
  BY <1>1, OutputFacts DEF IInv, CommittedIsPrefix, HalfSlotIsReported, Rollout
<1>15. CleanOutputMeansUnpaired' /\ PairedLeftoversExplained'
  BY <1>2 DEF CleanOutputMeansUnpaired, PairedLeftoversExplained
<1> QED
  BY <1>3, <1>4, <1>6, <1>8, <1>9, <1>10, <1>11, <1>12, <1>13, <1>14, <1>15 DEF IInv

LEMMA ResumePreserves == IInv /\ Resume => IInv'
  BY ResumeCases, ResumeEnds, ResumeGoesOn

-----------------------------------------------------------------------------
(* Theorems *)

LEMMA Invariance == Spec => []IInv
<1>1. IInv /\ [Next]_vars => IInv'
  BY StutterPreserves, BeginPreserves, TimerPreserves, ResumePreserves, PerformPreserves,
     DispatchPreserves DEF Next
<1> QED
  BY <1>1, InitIInv, PTL DEF Spec

\* Every variable of a command holds values of its kind (ppl/client.py).
THEOREM TypeCorrect == Spec => []TypeOK
<1>1. IInv => TypeOK
  BY DEF IInv, Typed
<1> QED
  BY <1>1, Invariance, PTL

\* An output of configure without an ERROR means that every slot is committed in
\* full, late answers or not (ppl/client.py:183-259, 103-121).
THEOREM CleanOutputIsDeployed == Spec => []CleanOutputMeansDeployed
<1>1. IInv => CleanOutputMeansDeployed
  BY DEF IInv, Clean, CleanOutputMeansDeployed
<1> QED
  BY <1>1, Invariance, PTL

\* On a prompt network an output without an ERROR means that the bridge is left
\* unpaired (ppl/client.py:162-163, 176, 247).
THEOREM CleanOutputIsUnpaired == Spec => []CleanOutputMeansUnpaired
<1>1. IInv => CleanOutputMeansUnpaired
  BY DEF IInv
<1> QED
  BY <1>1, Invariance, PTL

\* No half-set slot is committed without the advice to clear the bridge
\* (ppl/client.py:229-246).
THEOREM HalfSlotsAreReported == Spec => []HalfSlotIsReported
<1>1. IInv => HalfSlotIsReported
  BY DEF IInv
<1> QED
  BY <1>1, Invariance, PTL

\* What is committed is a prefix of the networks (ppl/client.py:222-246).
THEOREM CommitsAPrefix == Spec => []CommittedIsPrefix
<1>1. IInv => CommittedIsPrefix
  BY DEF IInv
<1> QED
  BY <1>1, Invariance, PTL

\* Unless told to skip the test, configure touches the configuration only after
\* the bridge accepted every MAC configuration (ppl/client.py:135, 149-160,
\* 190-196).
THEOREM ValidatesFirst == Spec => []ValidatedFirst
<1>1. IInv => ValidatedFirst
  <2> SUFFICES ASSUME IInv, Configuring, ~opts.skipTest,
                      bridge.open \/ \E q \in wire : q.step \in {"clear", "start"}
               PROVE  bridge.validated = 1 .. Slots
    BY DEF ValidatedFirst
  <2>1. step \notin Early
    <3>1. CASE bridge.open
      BY <3>1 DEF IInv, Rollout
    <3>2. ASSUME NEW q \in wire, q.step \in {"clear", "start"} PROVE step = q.step
      BY <3>2 DEF IInv, OneConfigQuery, Current, ConfigSteps
    <3> QED
      BY <3>1, <3>2 DEF Early
  <2> QED
    BY <2>1 DEF IInv, Validation
<1> QED
  BY <1>1, Invariance, PTL

\* On a prompt network a bridge is left paired only after a timeout, a refusal of
\* the pairing or unpairing, or where the bridge refused to open the transaction
\* after the test (ppl/client.py:248-259).
THEOREM LeftoversAreExplained == Spec => []PairedLeftoversExplained
<1>1. IInv => PairedLeftoversExplained
  BY DEF IInv
<1> QED
  BY <1>1, Invariance, PTL

\* A command whose file is no json sends nothing.
Unread ==
  opts.json = "noJson" => status \in {"begin", "ended"} /\ wire = {} /\ bridge.former

LEMMA UnreadAlways == Spec => []Unread
<1>1. Init => Unread
  BY DEF Init, Unread
<1>2. Unread /\ [Next]_vars => Unread'
  <2> SUFFICES ASSUME Unread, [Next]_vars, opts'.json = "noJson" PROVE Unread'
    BY DEF Unread
  <2>1. opts' = opts
    BY DEF Next, vars, client, Begin, TimerFires, Resume, Perform, Dispatch
  <2>2. status \in {"begin", "ended"} /\ wire = {} /\ bridge.former
    BY <2>1 DEF Unread
  <2>3. CASE Begin
    <3>1. FirstQuery = Go("ValueError", 1)
      BY <2>1 DEF FirstQuery
    <3>2. status' = "ended" /\ wire' = wire /\ bridge' = bridge
      BY <2>3, <3>1 DEF Begin, Run, Go, Steps, PairSteps, ConfigSteps, SlotSteps
    <3> QED
      BY <2>2, <3>2 DEF Unread
  <2>4. ASSUME NEW a \in answers, Dispatch(a) PROVE Unread'
    BY <2>2, <2>4 DEF Unread, Dispatch, client
  <2>5. CASE UNCHANGED vars
    BY <2>2, <2>5 DEF Unread, vars, client
  <2>6. ~TimerFires /\ ~Resume
    BY <2>2 DEF TimerFires, Resume
  <2> QED
    BY <2>2, <2>3, <2>4, <2>5, <2>6 DEF Next
<1> QED
  BY <1>1, <1>2, PTL DEF Spec

\* A file that cannot be put into packets commits nothing, and one that is no json,
\* or has a bad rule or subnet, does not clear the bridge either
\* (ppl/client.py:205-227, 262-300).
THEOREM AbortsCommitNothing == Spec => []AbortCommitsNothing
<1>1. IInv /\ Unread => AbortCommitsNothing
  BY DEF IInv, NoLateRaise, Rollout, AbortCommitsNothing, Unread
<1> QED
  BY <1>1, Invariance, UnreadAlways, PTL

-----------------------------------------------------------------------------
(* The refinement of PplDeploy: the order of a job *)

CommitOnce == \A q \in wire : q.step = "commit" => bridge.config = {}

ClearIsDone ==
  step = "clear" =>
    /\ status = "ok" => ~bridge.former
    /\ \A a \in answers : a.ok /\ a.sub = "Config" => ~bridge.former

\* The steps of the transaction, and the one after it.
Transaction == SlotSteps \cup {"start", "global", "finalizeErr", "commit"}

ClearedFirst ==
  /\ step = "clear" => ~opts.skipClear
  /\ Configuring /\ ~opts.skipClear /\ step \in Transaction \cup {"unpair"} => ~bridge.former
  /\ opts.command = "clear" /\ step = "unpair" /\ ~out.err => ~bridge.former

TestedFirst ==
  /\ opts.command = "test" /\ step = "unpair" /\ ~out.err => bridge.validated = 1 .. Slots
  /\ step = "unpairInvalid" => ~opts.skipTest

CleanAtTheEnd == ending = "returned" /\ ~out.err => step = "unpair"

AdviceInTime ==
  out.advice => Configuring /\ step \in SlotSteps \cup {"finalizeErr", "commit", "unpair"}

\* The invariant of the refinement.
RInv ==
  /\ CommitOnce /\ ClearIsDone /\ ClearedFirst /\ TestedFirst
  /\ CleanAtTheEnd /\ AdviceInTime

-----------------------------------------------------------------------------
(* RInv is an invariant *)

LEMMA InitRInv == Init => RInv
  BY DEF Init, RInv, CommitOnce, ClearIsDone, ClearedFirst, TestedFirst, CleanAtTheEnd,
     AdviceInTime, Transaction, SlotSteps

LEMMA StutterKeepsRInv == RInv /\ UNCHANGED vars => RInv'
  BY DEF vars, client, RInv, CommitOnce, ClearIsDone, ClearedFirst, TestedFirst, CleanAtTheEnd,
     AdviceInTime, Configuring

LEMMA TimerKeepsRInv == RInv /\ TimerFires => RInv'
  BY DEF TimerFires, client, RInv, CommitOnce, ClearIsDone, ClearedFirst, TestedFirst,
     CleanAtTheEnd, AdviceInTime, Configuring

LEMMA DispatchKeepsRInv ==
  ASSUME RInv, NEW a \in answers, Dispatch(a) PROVE RInv'
<1> USE DEF Dispatch, client
<1>1. ClearIsDone'
  BY DEF RInv, ClearIsDone, Subprotocol, PairSteps
<1>2. CommitOnce' /\ ClearedFirst' /\ TestedFirst' /\ CleanAtTheEnd' /\ AdviceInTime'
  BY DEF RInv, CommitOnce, ClearedFirst, TestedFirst, CleanAtTheEnd, AdviceInTime, Configuring
<1> QED
  BY <1>1, <1>2 DEF RInv

\* What a query the bridge takes changes of what PplDeploy sees.
LEMMA PerformFacts ==
  ASSUME IInv, NEW q \in wire, Perform(q)
  PROVE  /\ q \in Query /\ bridge' \in Bridge
         /\ q.step \in ConfigSteps \ {"validate"} => q = Current /\ q.step = step
         /\ \/ /\ q.step = "validate"
               /\ bridge'.validated = bridge.validated \cup {q.slot}
               /\ bridge'.former = bridge.former /\ bridge'.config = bridge.config
            \/ /\ q.step = "clear" /\ step = "clear"
               /\ bridge'.validated = bridge.validated
               /\ bridge'.former = FALSE /\ bridge'.config = {}
            \/ /\ q.step = "commit" /\ step = "commit"
               /\ bridge'.validated = bridge.validated /\ bridge'.former = bridge.former
               /\ bridge'.config = {p \in bridge.staged : p[1] \in bridge.final}
            \/ /\ bridge'.validated = bridge.validated
               /\ bridge'.former = bridge.former /\ bridge'.config = bridge.config
         /\ \A a \in answers' \ answers :
              /\ a.sub = Subprotocol(q.step)
              /\ a.ok /\ q.step = "clear" => ~bridge'.former
<1>1. /\ q \in Query /\ bridge \in Bridge
      /\ q.step \in ConfigSteps \ {"validate"} => q = Current /\ q.step = step
  BY DEF IInv, Typed, TypeOK, OneConfigQuery, Current
<1>2. PICK ok \in BOOLEAN :
        /\ bridge' = IF ok THEN Effect(q) ELSE bridge
        /\ \/ answers' = answers \cup {[n |-> q.n, sub |-> Subprotocol(q.step), ok |-> ok]}
           \/ answers' = answers
  BY DEF Perform
<1>3. bridge' \in Bridge
  BY PerformPreserves DEF IInv, Typed, TypeOK
<1> DEFINE Same == bridge'.validated = bridge.validated /\ bridge'.former = bridge.former
                   /\ bridge'.config = bridge.config
<1>4. q.step = "clear" /\ ok =>
        bridge'.former = FALSE /\ bridge'.validated = bridge.validated /\ bridge'.config = {}
  <2> SUFFICES ASSUME q.step = "clear", ok
               PROVE  /\ bridge'.former = FALSE /\ bridge'.validated = bridge.validated
                      /\ bridge'.config = {}
    OBVIOUS
  <2>1. bridge' = [bridge EXCEPT !.former = FALSE, !.config = {}]
    BY <1>2, EffectOf
  <2> QED
    BY <1>1, <2>1 DEF Bridge
<1>5. q.step = "validate" /\ ok =>
        /\ bridge'.validated = bridge.validated \cup {q.slot}
        /\ bridge'.former = bridge.former /\ bridge'.config = bridge.config
  BY <1>1, <1>2, EffectOf DEF Bridge
<1>6. q.step = "commit" /\ ok =>
        /\ bridge'.validated = bridge.validated /\ bridge'.former = bridge.former
        /\ bridge'.config = {p \in bridge.staged : p[1] \in bridge.final}
  BY <1>1, <1>2 DEF Bridge, Effect, PairSteps, Parts
<1>7. q.step \notin {"clear", "validate", "commit"} /\ ok => Same
  <2> SUFFICES ASSUME q.step \notin {"clear", "validate", "commit"}, ok PROVE Same
    OBVIOUS
  <2>1. CASE q.step \in PairSteps
    BY <1>1, <1>2, <2>1, EffectOf DEF Bridge
  <2>2. CASE q.step = "start"
    <3>1. bridge' = [bridge EXCEPT !.open = TRUE, !.selected = 0, !.staged = {}, !.final = {}]
      BY <1>2, <2>2, EffectOf
    <3> QED
      BY <1>1, <3>1 DEF Bridge
  <2>5. CASE q.step \in {"global", "select"}
    BY <1>1, <1>2, <2>5, EffectOf DEF Bridge
  <2>3. CASE q.step \in Parts
    BY <1>1, <1>2, <2>3 DEF Bridge, Effect, PairSteps, Parts
  <2>4. CASE q.step \in {"finalize", "finalizeErr"}
    BY <1>1, <1>2, <2>4 DEF Bridge, Effect, PairSteps, Parts
  <2> QED
    BY <1>1, <2>1, <2>2, <2>3, <2>4, <2>5 DEF Query, Steps, ConfigSteps, SlotSteps, Parts
<1>8. ~ok => Same
  BY <1>2
<1>9. ASSUME NEW a \in answers' \ answers
      PROVE  /\ a.sub = Subprotocol(q.step)
             /\ a.ok /\ q.step = "clear" => ~bridge'.former
  <2>1. a = [n |-> q.n, sub |-> Subprotocol(q.step), ok |-> ok]
    BY <1>2
  <2> QED
    BY <1>4, <2>1
<1> QED
  BY <1>1, <1>3, <1>4, <1>5, <1>6, <1>7, <1>8, <1>9 DEF ConfigSteps

LEMMA PerformKeepsRInv ==
  ASSUME IInv, RInv, NEW q \in wire, Perform(q) PROVE RInv'
<1>1. wire' = wire \ {q} /\ UNCHANGED <<opts, step, slot, sent, ending, out, status>>
  BY DEF Perform, client
<1>2. bridge.former = FALSE => bridge'.former = FALSE
  BY PerformFacts
<1>3. CommitOnce'
  <2> SUFFICES ASSUME NEW p \in wire', p.step = "commit" PROVE bridge'.config = {}
    BY DEF CommitOnce
  <2>1. p = Current /\ p # q /\ step = "commit" /\ bridge.config = {}
    BY <1>1 DEF IInv, RInv, OneConfigQuery, CommitOnce, ConfigSteps, Current
  <2>2. q.step # "commit"
    BY <2>1, PerformFacts DEF ConfigSteps
  <2> QED
    BY <2>1, <2>2, PerformFacts
<1>4. ClearIsDone'
  <2> SUFFICES ASSUME step = "clear"
               PROVE  /\ status = "ok" => ~bridge'.former
                      /\ \A a \in answers' : a.ok /\ a.sub = "Config" => ~bridge'.former
    BY <1>1 DEF ClearIsDone
  <2>1. status = "ok" => ~bridge'.former
    BY <1>2 DEF RInv, ClearIsDone, IInv, Typed, TypeOK, Bridge
  <2>2. ASSUME NEW a \in answers', a.ok, a.sub = "Config" PROVE ~bridge'.former
    <3>1. CASE a \in answers
      BY <1>2, <2>2, <3>1 DEF RInv, ClearIsDone, IInv, Typed, TypeOK, Bridge
    <3>2. CASE a \notin answers
      <4>1. q.step \in ConfigSteps
        BY <2>2, <3>2, PerformFacts DEF Subprotocol, Query, Steps
      <4>2. q.step = "clear"
        BY <4>1 DEF IInv, OneConfigQuery, Current
      <4> QED
        BY <2>2, <3>2, <4>2, PerformFacts
    <3> QED
      BY <3>1, <3>2
  <2> QED
    BY <2>1, <2>2
<1>5. ClearedFirst'
  BY <1>1, <1>2 DEF RInv, ClearedFirst, Configuring, IInv, Typed, TypeOK, Bridge
<1>6. TestedFirst'
  <2>1. step = "unpair" => bridge'.validated = bridge.validated
    BY PerformFacts DEF IInv, OneConfigQuery, Current, ConfigSteps
  <2> QED
    BY <1>1, <2>1 DEF RInv, TestedFirst
<1>7. CleanAtTheEnd' /\ AdviceInTime'
  BY <1>1 DEF RInv, CleanAtTheEnd, AdviceInTime, Configuring
<1> QED
  BY <1>3, <1>4, <1>5, <1>6, <1>7 DEF RInv

LEMMA BeginFacts ==
  ASSUME IInv, Begin
  PROVE  /\ step' \in {"pair", "forceUnpair"} /\ status' \in {"waiting", "ended"}
         /\ \A q \in wire' : q.step \in {"pair", "forceUnpair"}
         /\ ending = "none" /\ ending' \in {"none", "returned", "OSError", "ValueError"}
         /\ ending' = "returned" => out'.err
         /\ out'.advice = out.advice
         /\ step = "pair" /\ bridge.config = {}
         /\ UNCHANGED <<opts, answers, bridge>>
<1> DEFINE unreadable == opts.json = "invalid"
           g == FirstQuery
<1>1. /\ status = "begin" /\ Run(g) /\ out' = [out EXCEPT !.err = unreadable]
      /\ UNCHANGED <<opts, valid, history, answers, bridge>>
  BY DEF Begin
<1>2. /\ wire = {} /\ step = "pair" /\ ending = "none"
      /\ out \in [ok : Nat, err : BOOLEAN, advice : BOOLEAN]
      /\ bridge.config = {}
  BY <1>1 DEF IInv, Beginning, Typed, TypeOK, Rollout
<1>3. out'.err = unreadable /\ out'.advice = out.advice
  BY <1>1, <1>2
<1>4. \/ /\ step' \in {"forceUnpair", "pair"} /\ status' = "waiting" /\ ending' = "none"
         /\ wire' = {[n |-> sent + 1, step |-> step', slot |-> 1]}
      \/ /\ step' = "pair" /\ status' = "ended" /\ wire' = {}
         /\ ending' \in {"returned", "OSError", "ValueError"}
         /\ ending' = "returned" => out'.err
  BY <1>1, <1>2, <1>3 DEF Run, FirstQuery, Return, Go, Unbuildable, Steps, PairSteps, Endings, Raised,
     ConfigSteps, SlotSteps
<1> QED
  BY <1>1, <1>2, <1>3, <1>4

LEMMA BeginKeepsRInv == ASSUME IInv, RInv, Begin PROVE RInv'
<1>1. CommitOnce' /\ ClearIsDone'
  BY BeginFacts DEF CommitOnce, ClearIsDone
<1>2. ClearedFirst' /\ TestedFirst'
  BY BeginFacts DEF ClearedFirst, TestedFirst, Transaction, SlotSteps
<1>3. CleanAtTheEnd' /\ AdviceInTime'
  BY BeginFacts DEF RInv, CleanAtTheEnd, AdviceInTime, SlotSteps
<1> QED
  BY <1>1, <1>2, <1>3 DEF RInv

\* When the advice may change, nothing has been committed.
LEMMA AdviceFacts ==
  ASSUME IInv, RInv, Resume
  PROVE  /\ out.advice => out'.advice
         /\ out'.advice # out.advice =>
              Following.to = "finalizeErr" /\ Configuring /\ bridge.config = {}
<1>1. /\ out \in [ok : Nat, err : BOOLEAN, advice : BOOLEAN]
      /\ out' \in [ok : Nat, err : BOOLEAN, advice : BOOLEAN]
  BY OutputFacts DEF IInv, Typed, TypeOK
<1>2. out.advice => out'.advice
  BY OutputFacts DEF RInv, AdviceInTime, SlotSteps
<1>3. ASSUME out'.advice, ~out.advice PROVE Following.to = "finalizeErr"
  <2>1. out' = Output(step, status, Following)
    BY ResumeFacts
  <2>2. CASE /\ Configuring /\ step \in {"pair", "validate"}
             /\ Following.to \in {"clear", "start", "ValueError", "SerializeError"}
    <3>1. out'.advice = FALSE
      BY <2>1, <2>2 DEF Output
    <3> QED
      BY <1>3, <3>1
  <2>3. CASE ~(/\ Configuring /\ step \in {"pair", "validate"}
               /\ Following.to \in {"clear", "start", "ValueError", "SerializeError"})
    <3>1. out'.advice = (out.advice \/ Following.to = "finalizeErr")
      BY <2>1, <2>3 DEF Output
    <3> QED
      BY <1>3, <3>1
  <2> QED
    BY <2>2, <2>3
<1>4. ASSUME Following.to = "finalizeErr" PROVE Configuring /\ bridge.config = {}
  <2>1. step \in SlotSteps
    BY <1>4, ResumeFacts DEF Route, Exit, Deploying, Raised
  <2> QED
    BY <2>1 DEF IInv, Placed, Rollout, OnlyConfigure, SlotSteps
<1> QED
  BY <1>1, <1>2, <1>3, <1>4

LEMMA ResumeEndsKeepsRInv ==
  ASSUME IInv, RInv, Resume, UNCHANGED <<step, slot, sent, wire>>,
         status' = "ended",
         ending' = "returned" => Following.to = "returned" /\ Exit(Following)
  PROVE  RInv'
<1>1. /\ answers' \subseteq answers /\ UNCHANGED <<opts, bridge>>
      /\ Route(Following) \/ Exit(Following)
  BY ResumeFacts
<1>2. step \notin {"pair", "validate"} => (out.err => out'.err)
  BY OutputFacts
<1>3. CommitOnce' /\ ClearIsDone' /\ ClearedFirst' /\ TestedFirst'
  BY <1>1, <1>2 DEF RInv, CommitOnce, ClearIsDone, ClearedFirst, TestedFirst, Configuring
<1>4. CleanAtTheEnd'
  <2> SUFFICES ASSUME ending' = "returned", ~out'.err PROVE step = "unpair"
    BY DEF CleanAtTheEnd
  <2>1. status = "ok" /\ step \in {"unpair", "unpairInvalid", "unpairErr"}
    BY OutputFacts DEF Exit, Raised
  <2> QED
    BY <1>2, <2>1 DEF IInv, Clean
<1>5. AdviceInTime'
  <2> SUFFICES ASSUME out'.advice PROVE AdviceInTime'
    BY DEF AdviceInTime
  <2>1. CASE out.advice
    BY <1>1, <2>1 DEF RInv, AdviceInTime, Configuring
  <2>2. CASE ~out.advice
    <3>1. Following.to = "finalizeErr"
      BY <2>2, AdviceFacts
    <3>2. step \in SlotSteps
      BY <1>1, <3>1 DEF Route, Exit, Deploying, Raised
    <3> QED
      BY <1>1, <3>2 DEF AdviceInTime, IInv, Placed, OnlyConfigure, Configuring
  <2> QED
    BY <2>1, <2>2
<1> QED
  BY <1>3, <1>4, <1>5 DEF RInv

LEMMA ResumeGoesOnKeepsRInv ==
  ASSUME IInv, RInv, Resume, GoesOn(Following), Route(Following)
  PROVE  RInv'
<1> DEFINE g == Following
<1>1. /\ status \in {"ok", "refused", "timeout"}
      /\ ending = "none" /\ step \in Steps /\ slot \in 1 .. Slots
      /\ valid' = AllValid /\ UNCHANGED <<opts, bridge>> /\ answers' \subseteq answers
  BY ResumeFacts
<1>2. /\ g.to \in Steps /\ step' = g.to /\ status' = "waiting" /\ ending' = "none"
      /\ wire' \subseteq wire \cup {[n |-> sent + 1, step |-> g.to, slot |-> g.slot]}
  BY <1>1 DEF GoesOn
<1>3. CommitOnce'
  <2> SUFFICES ASSUME NEW q \in wire', q.step = "commit" PROVE bridge.config = {}
    BY <1>1 DEF CommitOnce
  <2>1. CASE q \in wire
    BY <2>1 DEF RInv, CommitOnce
  <2>2. CASE g.to = "commit"
    <3>1. step \in SlotSteps \cup {"finalizeErr"}
      BY <2>2 DEF Route, Deploying, SlotSteps
    <3> QED
      BY <3>1 DEF IInv, Rollout, SlotSteps
  <2> QED
    BY <1>2, <2>1, <2>2
<1>4. ClearIsDone'
  <2>1. ASSUME g.to = "clear" PROVE ConfigAnswers' = {}
    <3>1. step = "pair" \/ (step = "validate" /\ status \in {"ok", "refused"})
      BY <2>1 DEF Route, Deploying, Answered
    <3> QED
      BY <1>1, <3>1 DEF IInv, OneConfigAnswer, ConfigAnswers, ConfigSteps
  <2> QED
    BY <1>2, <2>1 DEF ClearIsDone, ConfigAnswers
<1>5. ClearedFirst'
  <2>1. ASSUME Configuring, ~opts.skipClear, g.to \in Transaction \cup {"unpair"}
        PROVE  ~bridge.former
    <3>1. CASE step \in Transaction \cup {"unpair"}
      BY <2>1, <3>1 DEF RInv, ClearedFirst
    <3>2. CASE step = "clear" /\ status = "ok"
      BY <3>2 DEF RInv, ClearIsDone
    <3>3. g.to # "start" \/ step = "clear"
      BY <1>1, <2>1 DEF Following, After, Proceed, AfterPairing, AfterValidation, Loop, Deploy,
         AfterRefusal, AfterTimeout, SwallowsRefusal, SwallowsTimeout, Go, Return, Configuring,
         Steps, PairSteps, ConfigSteps, SlotSteps
    <3> QED
      BY <2>1, <3>1, <3>2, <3>3 DEF Route, Deploying, Transaction, SlotSteps
  <2>2. ASSUME opts.command = "clear", g.to = "unpair", ~out'.err PROVE ~bridge.former
    <3>1. step = "clear"
      BY <2>2 DEF Route, Deploying, IInv, Placed, OnlyConfigure, SlotSteps, Configuring
    <3>2. status = "ok"
      BY <2>2, <3>1, OutputFacts DEF Route, Deploying, Answered
    <3> QED
      BY <3>1, <3>2 DEF RInv, ClearIsDone
  <2>3. ASSUME g.to = "clear" PROVE ~opts.skipClear
    <3>1. CASE opts.command = "clear"
      BY <3>1 DEF IInv, Typed, TypeOK, Options
    <3>2. CASE opts.command # "clear"
      BY <1>1, <2>3, <3>2 DEF Following, After, Proceed, AfterPairing, AfterValidation, Loop,
         Deploy, AfterRefusal, AfterTimeout, SwallowsRefusal, SwallowsTimeout, Go, Return,
         Configuring, Steps, PairSteps, ConfigSteps, SlotSteps
    <3> QED
      BY <3>1, <3>2
  <2> QED
    BY <1>1, <1>2, <2>1, <2>2, <2>3 DEF ClearedFirst, Configuring
<1>6. TestedFirst'
  <2>1. ASSUME opts.command = "test", g.to = "unpair", ~out'.err
        PROVE  bridge.validated = 1 .. Slots
    <3>1. step = "validate" /\ Answered
      BY <2>1 DEF Route, Deploying, IInv, Placed, OnlyConfigure, SlotSteps, Configuring
    <3>2. status = "ok" /\ ~out.err
      BY <2>1, <3>1, OutputFacts DEF Answered
    <3>3. slot = Slots
      <4>1. g = Loop("validate", slot, AfterValidation(AllValid))
        BY <3>1, <3>2 DEF Following, After, Proceed
      <4>2. slot < Slots => g.to = "validate"
        BY <4>1 DEF Loop, Go
      <4> QED
        BY <1>1, <2>1, <4>2, SlotsAssumption
    <3>4. slot \in bridge.validated /\ 1 .. (slot - 1) \subseteq bridge.validated
      BY <3>1, <3>2 DEF IInv, Validation, Clean, OkMeansCarriedOut, CarriedOut
    <3>5. 1 .. slot = 1 .. (slot - 1) \cup {slot} /\ bridge.validated \subseteq 1 .. Slots
      BY <1>1 DEF IInv, Typed, TypeOK, Bridge
    <3> QED
      BY <3>3, <3>4, <3>5
  <2>2. ASSUME g.to = "unpairInvalid" PROVE ~opts.skipTest
    BY <2>2 DEF Route, Deploying, IInv, Placed
  <2> QED
    BY <1>1, <1>2, <2>1, <2>2 DEF TestedFirst
<1>7. CleanAtTheEnd'
  BY <1>2 DEF CleanAtTheEnd
<1>8. AdviceInTime'
  <2> SUFFICES ASSUME out'.advice
               PROVE  Configuring /\ g.to \in SlotSteps \cup {"finalizeErr", "commit", "unpair"}
    BY <1>1, <1>2 DEF AdviceInTime, Configuring
  <2>1. CASE out.advice
    BY <2>1 DEF RInv, AdviceInTime, Route, Deploying, SlotSteps
  <2>2. CASE ~out.advice
    BY <2>2, AdviceFacts
  <2> QED
    BY <2>1, <2>2
<1> QED
  BY <1>3, <1>4, <1>5, <1>6, <1>7, <1>8 DEF RInv

LEMMA ResumeKeepsRInv == IInv /\ RInv /\ Resume => RInv'
  BY ResumeCases, ResumeEndsKeepsRInv, ResumeGoesOnKeepsRInv

-----------------------------------------------------------------------------
(* The mapping *)

LEMMA MapSame ==
  /\ opts' = opts => Job' = Job
  /\ bridge'.config = bridge.config => CompleteSlots' = CompleteSlots /\ HalfSlots' = HalfSlots
  /\ UNCHANGED <<ending, out>> => ReportOf' = ReportOf
<1>1. opts' = opts => Job' = Job
  BY DEF Job, Configuring
<1>2. ASSUME bridge'.config = bridge.config
      PROVE  CompleteSlots' = CompleteSlots /\ HalfSlots' = HalfSlots
  <2>1. \A i : (HeldFully(i)' <=> HeldFully(i)) /\ (HeldPart(i)' <=> HeldPart(i))
    BY <1>2 DEF HeldFully, HeldPart
  <2> QED
    BY <2>1 DEF CompleteSlots, HalfSlots
<1>3. UNCHANGED <<ending, out>> => ReportOf' = ReportOf
  BY DEF ReportOf
<1> QED
  BY <1>1, <1>2, <1>3

LEMMA ReportFacts ==
  ASSUME TypeOK
  PROVE  /\ ReportOf = "none" <=> ending = "none"
         /\ ReportOf = "aborted" <=> ending \in Raised
         /\ ReportOf = "clean" <=> ending = "returned" /\ ~out.err
         /\ ReportOf \in {"none", "aborted", "clean", "failed"}
  BY DEF TypeOK, ReportOf, Raised, Endings

\* No slot is held exactly when nothing is.
LEMMA NothingHeld ==
  bridge.config = {} => Abstract!Untouched
<1> SUFFICES ASSUME bridge.config = {} PROVE Abstract!Untouched
  OBVIOUS
<1>1. ASSUME NEW i PROVE ~HeldPart(i) /\ ~HeldFully(i)
  <2>1. <<i, "mac">> \in {i} \X Parts
    BY DEF Parts
  <2> QED
    BY <2>1 DEF HeldPart, HeldFully
<1> QED
  BY <1>1 DEF Abstract!Untouched, CompleteSlots, HalfSlots

\* A step that changes nothing PplDeploy sees.
LEMMA SameForPplDeploy ==
  ASSUME opts' = opts, ending' = ending, out' = out, bridge'.validated = bridge.validated,
         bridge'.former = bridge.former, bridge'.config = bridge.config
  PROVE  UNCHANGED Abstract!vars
  BY MapSame DEF Abstract!vars

-----------------------------------------------------------------------------
(* One lemma per action *)

LEMMA InitRefines == Init => Abstract!Init
<1> SUFFICES ASSUME Init PROVE Abstract!Init
  OBVIOUS
<1>1. opts \in Options /\ ending = "none" /\ out.advice = FALSE
      /\ bridge.validated = {} /\ bridge.former = TRUE /\ bridge.config = {}
  BY DEF Init
<1>2. Job \in [tests : BOOLEAN, clears : BOOLEAN, deploys : BOOLEAN]
  BY DEF Job, Configuring
<1>3. ReportOf = "none"
  BY <1>1 DEF ReportOf, Raised
<1> QED
  BY <1>1, <1>2, <1>3, NothingHeld DEF Abstract!Init

LEMMA QueryTests ==
  ASSUME IInv, RInv, NEW q \in wire, q.step = "validate", UNCHANGED <<opts, ending, out>>,
         bridge'.validated = bridge.validated \cup {q.slot},
         bridge'.former = bridge.former, bridge'.config = bridge.config
  PROVE  \E i \in 1 .. Slots : Abstract!Test(i)
<1>1. q.slot \in 1 .. Slots
  BY DEF IInv, Typed, Query
<1>2. Job.tests
  <2>1. step = "validate" \/ step = "unpairInvalid"
    BY DEF IInv, OneConfigQuery, ConfigSteps, Current
  <2>2. opts.command # "clear" /\ ~opts.skipTest
    BY <2>1 DEF IInv, RInv, Placed, TestedFirst, OnlyConfigure, Configuring
  <2> QED
    BY <2>2 DEF Job
<1>3. Abstract!Test(q.slot)
  BY <1>2, MapSame DEF Abstract!Test
<1> QED
  BY <1>1, <1>3

LEMMA QueryClears ==
  ASSUME IInv, RInv, step = "clear", UNCHANGED <<opts, ending, out>>,
         bridge'.validated = bridge.validated, bridge'.former = FALSE, bridge'.config = {},
         \E q \in wire : q = Current
  PROVE  Abstract!Clear
<1>1. bridge.config = {} /\ TypeOK
  BY DEF IInv, Typed, Rollout
<1>2. Job.clears /\ Abstract!Tested
  <2>1. opts \in Options /\ opts.command # "test"
    BY DEF IInv, Typed, TypeOK, Placed
  <2>2. Job.clears
    <3>1. opts.command = "clear" \/ (opts.command = "configure" /\ ~opts.skipClear)
      BY <2>1 DEF RInv, ClearedFirst, Options, Configuring
    <3> QED
      BY <3>1 DEF Job, Configuring
  <2>3. Abstract!Tested
    <3> SUFFICES ASSUME Job.tests PROVE bridge.validated = 1 .. Slots
      BY DEF Abstract!Tested
    <3>1. Configuring /\ ~opts.skipTest
      BY <2>1 DEF Job, Options, Configuring
    <3> QED
      BY <3>1 DEF IInv, Validation, Early
  <2> QED
    BY <2>2, <2>3
<1>3. Abstract!Pending
  <2>1. ending \notin Raised
    BY DEF IInv, NoLateRaise
  <2>2. ~(ending = "returned" /\ ~out.err)
    BY DEF RInv, CleanAtTheEnd
  <2> QED
    BY <1>1, <2>1, <2>2, ReportFacts DEF Abstract!Pending
<1> QED
  BY <1>1, <1>2, <1>3, NothingHeld, MapSame DEF Abstract!Clear

\* What a commit leaves on the bridge: the networks up to the one that was
\* selected last, this one in part only where the advice was given.
LEMMA CommittedSlots ==
  ASSUME IInv, bridge'.config = {p \in bridge.staged : p[1] \in bridge.final}
  PROVE  /\ \E k \in 0 .. Slots :
              /\ CompleteSlots' = 1 .. k
              /\ HalfSlots' \subseteq {k + 1} \cap (1 .. Slots)
         /\ HalfSlots' # {} => out.advice
<1> DEFINE sel == bridge.selected
<1>1. /\ sel \in 0 .. Slots /\ Slots \in Nat
      /\ bridge.staged \subseteq (1 .. sel) \X Parts
      /\ \A i \in 1 .. Slots : i < sel => SlotDone(i)
      /\ \A i \in bridge.final : i <= sel /\ ({i} \X Parts \subseteq bridge.staged \/ out.advice)
  BY SlotsAssumption DEF IInv, Typed, TypeOK, Bridge, Prefix
<1>2. \A i : HeldFully(i)' <=> SlotDone(i)
  <2> SUFFICES ASSUME NEW i PROVE HeldFully(i)' <=> SlotDone(i)
    OBVIOUS
  <2>1. <<i, "mac">> \in {i} \X Parts /\ \A p \in {i} \X Parts : p[1] = i
    BY DEF Parts
  <2> QED
    BY <2>1 DEF HeldFully, SlotDone
<1>3. ASSUME NEW i, HeldPart(i)'
      PROVE  i \in bridge.final /\ i \in 1 .. sel
  BY <1>1, <1>3 DEF HeldPart
<1>4. ASSUME NEW i \in 1 .. Slots, SlotDone(i) PROVE i <= sel
  BY <1>1, <1>4 DEF SlotDone
<1>5. HalfSlots' # {} => out.advice
  BY <1>1, <1>2, <1>3 DEF HalfSlots, SlotDone
<1>6. \A i \in HalfSlots' : i = sel /\ ~SlotDone(sel) /\ i \in 1 .. Slots
  BY <1>1, <1>2, <1>3 DEF HalfSlots
<1>7. CASE sel = 0 \/ SlotDone(sel)
  <2>1. CompleteSlots' = 1 .. sel
    BY <1>1, <1>2, <1>4, <1>7 DEF CompleteSlots
  <2>2. HalfSlots' = {}
    BY <1>6, <1>7
  <2> QED
    BY <1>1, <1>5, <2>1, <2>2
<1>8. CASE sel # 0 /\ ~SlotDone(sel)
  <2>1. sel - 1 \in 0 .. Slots /\ (sel - 1) + 1 = sel
    BY <1>1, <1>8
  <2>2. CompleteSlots' = 1 .. (sel - 1)
    BY <1>1, <1>2, <1>4, <1>8 DEF CompleteSlots
  <2>3. HalfSlots' \subseteq {(sel - 1) + 1} \cap (1 .. Slots)
    BY <1>6, <2>1
  <2> QED
    BY <1>5, <2>1, <2>2, <2>3
<1> QED
  BY <1>7, <1>8

LEMMA QueryCommits ==
  ASSUME IInv, RInv, NEW q \in wire, q.step = "commit", step = "commit",
         UNCHANGED <<opts, ending, out>>,
         bridge'.validated = bridge.validated, bridge'.former = bridge.former,
         bridge'.config = {p \in bridge.staged : p[1] \in bridge.final}
  PROVE  Abstract!Commit
<1>1. bridge.config = {} /\ TypeOK
  BY DEF IInv, Typed, RInv, CommitOnce
<1>2. Job.deploys /\ Abstract!Tested
  BY DEF IInv, Placed, OnlyConfigure, Validation, Job, Configuring, Early, Abstract!Tested
<1>3. Abstract!Cleared
  BY <1>2 DEF RInv, ClearedFirst, Transaction, Job, Configuring, Abstract!Cleared
<1>4. Abstract!Pending
  <2>1. ending \notin Raised
    BY DEF IInv, NoLateRaise
  <2>2. ~(ending = "returned" /\ ~out.err)
    BY DEF RInv, CleanAtTheEnd
  <2> QED
    BY <1>1, <2>1, <2>2, ReportFacts DEF Abstract!Pending
<1> QED
  BY <1>1, <1>2, <1>3, <1>4, CommittedSlots, NothingHeld, MapSame DEF Abstract!Commit

LEMMA PerformRefines ==
  ASSUME IInv, RInv, NEW q \in wire, Perform(q)
  PROVE  [Abstract!Next]_(Abstract!vars)
<1>1. UNCHANGED <<opts, ending, out>>
  BY DEF Perform, client
<1>2. CASE /\ q.step = "validate"
           /\ bridge'.validated = bridge.validated \cup {q.slot}
           /\ bridge'.former = bridge.former /\ bridge'.config = bridge.config
  BY <1>1, <1>2, QueryTests DEF Abstract!Next
<1>3. CASE /\ q.step = "clear" /\ step = "clear"
           /\ bridge'.validated = bridge.validated
           /\ bridge'.former = FALSE /\ bridge'.config = {}
  BY <1>1, <1>3, QueryClears, PerformFacts DEF Abstract!Next, ConfigSteps
<1>4. CASE /\ q.step = "commit" /\ step = "commit"
           /\ bridge'.validated = bridge.validated /\ bridge'.former = bridge.former
           /\ bridge'.config = {p \in bridge.staged : p[1] \in bridge.final}
  BY <1>1, <1>4, QueryCommits DEF Abstract!Next
<1>5. CASE /\ bridge'.validated = bridge.validated
           /\ bridge'.former = bridge.former /\ bridge'.config = bridge.config
  BY <1>1, <1>5, SameForPplDeploy
<1> QED
  BY <1>2, <1>3, <1>4, <1>5, PerformFacts

\* A command that has ended reports what it leaves on the bridge.
LEMMA EndReports ==
  ASSUME IInv, TypeOK', (IInv /\ RInv)', ending = "none", ending' # "none",
         UNCHANGED <<opts, bridge>>,
         out.advice => out'.advice,
         out'.advice # out.advice =>
           Configuring /\ bridge.config = {} /\ ending' = "OSError"
  PROVE  Abstract!Report
<1>1. TypeOK /\ ReportOf = "none"
  BY ReportFacts DEF IInv, Typed
<1>2. ending' \in Raised \/ (ending' = "returned" /\ ~out'.err)
        => UNCHANGED out.advice
  BY DEF Raised, TypeOK
<1>3. CASE ending' \in Raised
  <2>1. ReportOf' = "aborted"
    BY <1>3 DEF ReportOf, Raised
  <2>2. bridge.config = {}
    BY <1>3 DEF IInv, NoLateRaise, Rollout
  <2> QED
    BY <1>1, <1>2, <1>3, <2>1, <2>2, NothingHeld, MapSame DEF Abstract!Report
<1>4. CASE ending' = "returned" /\ ~out'.err
  <2>1. ReportOf' = "clean"
    BY <1>4 DEF ReportOf, Raised
  <2>2. step' = "unpair"
    BY <1>4 DEF RInv, CleanAtTheEnd
  <2>3. Abstract!Tested /\ Abstract!Cleared
    BY <1>4, <2>2 DEF RInv, IInv, TestedFirst, ClearedFirst, Validation, Early, Configuring, Job,
       TypeOK, Options, Abstract!Tested, Abstract!Cleared
  <2>4. Abstract!Deployed
    <3> SUFFICES ASSUME Configuring PROVE CompleteSlots = 1 .. Slots /\ HalfSlots = {}
      BY DEF Abstract!Deployed, Job
    <3>1. bridge.config = AllParts
      BY <1>4, <2>2 DEF IInv, Clean, Configuring, AllParts
    <3> QED
      BY <3>1 DEF AllParts, CompleteSlots, HalfSlots, HeldFully
  <2> QED
    BY <1>1, <1>2, <1>4, <2>1, <2>3, <2>4, MapSame DEF Abstract!Report
<1>5. CASE ~(ending' \in Raised \/ (ending' = "returned" /\ ~out'.err))
  <2>1. ReportOf' = "failed"
    BY <1>5 DEF ReportOf, TypeOK, Endings, Raised
  <2>2. Abstract!MayAdvise
    <3>1. out.advice \in BOOLEAN /\ out'.advice \in BOOLEAN
      BY <1>1 DEF TypeOK
    <3>2. CASE out'.advice = out.advice
      BY <3>2 DEF Abstract!MayAdvise
    <3>3. CASE out'.advice # out.advice
      BY <3>1, <3>3, NothingHeld DEF Abstract!MayAdvise, Job
    <3> QED
      BY <3>2, <3>3
  <2> QED
    BY <1>1, <2>1, <2>2, MapSame DEF Abstract!Report
<1> QED
  BY <1>3, <1>4, <1>5

LEMMA BeginRefines ==
  ASSUME IInv, RInv, Begin, IInv', RInv'
  PROVE  [Abstract!Next]_(Abstract!vars)
<1>1. TypeOK' /\ out'.advice = out.advice /\ ending = "none"
      /\ UNCHANGED <<opts, bridge>>
  BY BeginFacts DEF IInv, Typed
<1>2. CASE ending' = "none"
  <2>1. ReportOf = "none" /\ ReportOf' = "none"
    BY <1>1, <1>2 DEF ReportOf, Raised
  <2> QED
    BY <1>1, <2>1, MapSame DEF Abstract!vars
<1>3. CASE ending' # "none"
  BY <1>1, <1>3, EndReports DEF Abstract!Next
<1> QED
  BY <1>2, <1>3

LEMMA ResumeRefines ==
  ASSUME IInv, RInv, Resume, IInv', RInv'
  PROVE  [Abstract!Next]_(Abstract!vars)
<1>1. TypeOK /\ TypeOK' /\ ending = "none" /\ UNCHANGED <<opts, bridge>>
  BY ResumeFacts DEF IInv, Typed
<1>2. /\ out.advice => out'.advice
      /\ out'.advice # out.advice =>
           Following.to = "finalizeErr" /\ Configuring /\ bridge.config = {}
  BY AdviceFacts
<1>3. CASE ending' = "none"
  <2>1. ReportOf = "none" /\ ReportOf' = "none"
    BY <1>1, <1>3 DEF ReportOf, Raised
  <2>2. Abstract!MayAdvise
    <3>1. out.advice \in BOOLEAN /\ out'.advice \in BOOLEAN
      BY <1>1 DEF TypeOK
    <3> QED
      BY <1>2, <3>1, NothingHeld DEF Abstract!MayAdvise, Job
  <2>3. Abstract!Advise
    BY <1>1, <2>1, <2>2, MapSame DEF Abstract!Advise
  <2> QED
    BY <2>3 DEF Abstract!Next
<1>4. CASE ending' # "none"
  <2>1. Following.to = "finalizeErr" => ending' = "OSError"
    BY <1>1, <1>4, ResumeFacts DEF Run, Unbuildable, Endings, Raised, Steps, ConfigSteps
  <2>2. Abstract!Report
    BY <1>1, <1>2, <1>4, <2>1, EndReports
  <2> QED
    BY <2>2 DEF Abstract!Next
<1> QED
  BY <1>3, <1>4

LEMMA StepRefines ==
  ASSUME IInv, RInv, [Next]_vars, IInv', RInv'
  PROVE  [Abstract!Next]_(Abstract!vars)
<1>1. CASE Begin
  BY <1>1, BeginRefines
<1>2. CASE TimerFires
  BY <1>2, SameForPplDeploy DEF TimerFires, client
<1>3. CASE Resume
  BY <1>3, ResumeRefines
<1>4. ASSUME NEW q \in wire, Perform(q) PROVE [Abstract!Next]_(Abstract!vars)
  BY <1>4, PerformRefines
<1>5. ASSUME NEW a \in answers, Dispatch(a) PROVE [Abstract!Next]_(Abstract!vars)
  BY <1>5, SameForPplDeploy DEF Dispatch, client
<1>6. CASE UNCHANGED vars
  BY <1>6, SameForPplDeploy DEF vars, client
<1> QED
  BY <1>1, <1>2, <1>3, <1>4, <1>5, <1>6 DEF Next

-----------------------------------------------------------------------------
(* Theorems *)

LEMMA RInvariance == Spec => []RInv
<1>1. IInv /\ RInv /\ [Next]_vars => RInv'
  BY StutterKeepsRInv, BeginKeepsRInv, TimerKeepsRInv, ResumeKeepsRInv, PerformKeepsRInv,
     DispatchKeepsRInv DEF Next
<1> QED
  BY <1>1, InitRInv, Invariance, PTL DEF Spec

\* Every command is a job of PplDeploy: it tests, clears and commits in this
\* order and at most once, leaves a prefix of the slots when the roll-out fails,
\* advises before a half-set slot is committed, and reports no error only when all
\* it was told to do is done (ppl/client.py:123-259).
THEOREM CommandsImplementPplDeploy == Spec => ImplementsPplDeploy
<1>1. IInv /\ RInv /\ [Next]_vars /\ IInv' /\ RInv' => [Abstract!Next]_(Abstract!vars)
  BY StepRefines
<1> QED
  BY <1>1, InitRefines, Invariance, RInvariance, PTL
     DEF Spec, ImplementsPplDeploy, Abstract!Spec
=============================================================================
