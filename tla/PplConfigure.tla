---------------------------- MODULE PplConfigure ---------------------------
(***************************************************************************)
(* The commands "test", "clear" and "configure" of the ppl tool            *)
(* (ppl/client.py, ppl/cli/run.py): a coroutine takes a bridge through     *)
(* pairing, the validation of every MAC configuration, and a transaction   *)
(* that sets and finalizes one slot per network and commits them.  Each    *)
(* query waits for an answer or a timer and any of them may be refused.    *)
(*                                                                         *)
(* PplQuery filters answers by address and subprotocol, not by sequence    *)
(* number: with one bridge, any answer of the subprotocol ends the query   *)
(* in flight.  How much that matters depends on the network:               *)
(*   "prompt"  datagrams are lost, or arrive while their query waits       *)
(*   "late"    they may also arrive after it timed out                     *)
(*                                                                         *)
(* The bridge is not in the repository.  The model lets it refuse any      *)
(* query and gives a query it accepts the effect its name and its place    *)
(* in the workflow say it has.                                             *)
(***************************************************************************)
EXTENDS Naturals, FiniteSets

CONSTANT Slots   \* number of networks in the json file, 1..20

ASSUME SlotsAssumption == Slots \in Nat \ {0}

VARIABLES
  opts,     \* the command line, the json file and the network; never changes
  step,     \* the query the coroutine is at
  slot,     \* the network it is at, in the two loops
  status,   \* the state of that query: waiting, then how it will end
  sent,     \* number of queries sent
  ending,   \* how the command ended, "none" while it runs
  valid,    \* no ValidateMACConfig was refused so far: all(isConfigValid)
  out,      \* PplClient.output: number of OKs, any ERROR, the advice to clear
  wire,     \* queries on their way to the bridge
  answers,  \* answers on their way back
  bridge,   \* the state of the bridge
  history   \* <<step, how it ended>> of every query

client == <<opts, step, slot, sent, ending, valid, out, history>>
vars == <<client, status, wire, answers, bridge>>

-----------------------------------------------------------------------------
PairSteps == {"forceUnpair", "pair", "unpairInvalid", "unpairErr", "unpair"}
SlotSteps == {"select", "mac", "host", "finalize"}
ConfigSteps == SlotSteps \cup {"validate", "clear", "start", "global",
                               "finalizeErr", "commit"}
Steps == PairSteps \cup ConfigSteps

Subprotocol(s) == IF s \in PairSteps THEN "Pair" ELSE "Config"

\* Contents of the json file: none ("noJson"); one that does not exist or does not
\* pass the schema ("invalid"); and what it admits, but building the packets does
\* not: "badSubnet" and "badRule" when the contents
\* of all packets are collected, "badDevice", "badMac" and "badHost" when the
\* packet of that name (of the last network) is built, and "tooLarge" when the
\* last SetHostConfig does not fit a datagram.
Jsons == {"noJson", "invalid", "badSubnet", "badRule", "badDevice", "badMac", "badHost",
          "tooLarge", "ok"}

\* The command line of each command has only some of the options.  Its address may
\* be none.
Options == {o \in [command : {"test", "clear", "configure"}, address : {"ip", "none"},
                   forceUnpair : BOOLEAN, skipTest : BOOLEAN, skipClear : BOOLEAN,
                   json : Jsons, network : {"prompt", "late"}] :
              /\ o.command # "configure" => ~o.skipTest /\ ~o.skipClear
              /\ o.command = "test" =>
                   o.json \in {"noJson", "invalid", "badSubnet", "badMac", "ok"}
              /\ o.command = "clear" => o.json = "ok"}

Configuring == opts.command = "configure"

\* Mutant: a refused Commit raises.
SwallowsRefusalExceptCommit(s) ==
  \/ s \in {"finalizeErr", "unpairInvalid", "unpairErr"}
  \/ s = "clear" /\ opts.command = "clear"

\* Mutant: configure, too, goes on when the bridge refuses to clear its
\* configuration.
SwallowsRefusalOfClear(s) ==
  s \in {"commit", "finalizeErr", "unpairInvalid", "unpairErr", "clear"}

\* Steps whose refusal (raiseRespException = False) or timeout
\* (raiseTOException = False) send_command swallows.
SwallowsRefusal(s) ==
  \/ s \in {"commit", "finalizeErr", "unpairInvalid", "unpairErr"}
  \/ s = "clear" /\ opts.command = "clear"

SwallowsTimeout(s) == s \in {"forceUnpair", "unpairInvalid", "unpairErr"}

\* send_command logs an OK where logSucc was left on, and runCmdConfigure logs
\* one for each slot it has finalized.
LogsOk(s) == s \in {"validate", "finalize"} \/ (s = "clear" /\ opts.command = "clear")

-----------------------------------------------------------------------------
(* The bridge *)

Parts == {"mac", "host"}

Bridge == [paired : BOOLEAN, open : BOOLEAN, selected : 0 .. Slots,
           validated : SUBSET (1 .. Slots),
           staged : SUBSET ((1 .. Slots) \X Parts),
           final : SUBSET (1 .. Slots),
           former : BOOLEAN,   \* what was stored before the command, is it still
           config : SUBSET ((1 .. Slots) \X Parts)]

\* The effect of a query the bridge accepts.
Effect(q) ==
  CASE q.step = "pair" -> [bridge EXCEPT !.paired = TRUE]
    [] q.step \in PairSteps \ {"pair"} -> [bridge EXCEPT !.paired = FALSE]
    [] q.step = "validate" -> [bridge EXCEPT !.validated = @ \cup {q.slot}]
    [] q.step = "clear" -> [bridge EXCEPT !.former = FALSE, !.config = {}]
    [] q.step = "start" -> [bridge EXCEPT !.open = TRUE, !.selected = 0,
                                          !.staged = {}, !.final = {}]
    [] q.step = "global" -> bridge
    [] q.step = "select" -> [bridge EXCEPT !.selected = q.slot]
    [] q.step \in Parts ->
         [bridge EXCEPT !.staged = @ \cup ({bridge.selected} \ {0}) \X {q.step}]
    [] q.step \in {"finalize", "finalizeErr"} ->
         [bridge EXCEPT !.final = @ \cup ({bridge.selected} \ {0})]
    [] q.step = "commit" ->
         [bridge EXCEPT !.open = FALSE,
                        !.config = {p \in bridge.staged : p[1] \in bridge.final}]

\* A datagram of the query with number n can still arrive.
InTime(n) == opts.network # "prompt" \/ (ending = "none" /\ n = sent)

\* The bridge takes a query and accepts or refuses it; its answer may be lost.
Perform(q) ==
  /\ InTime(q.n)
  /\ wire' = wire \ {q}
  /\ \E ok \in BOOLEAN :
       /\ bridge' = IF ok THEN Effect(q) ELSE bridge
       /\ \/ answers' = answers \cup
                {[n |-> q.n, sub |-> Subprotocol(q.step), ok |-> ok]}
          \/ UNCHANGED answers
  /\ UNCHANGED <<client, status>>

\* An answer is delivered.  It wakes the waiting query, or overwrites the
\* response of one that was woken; without a matching query it is dropped.
Dispatch(a) ==
  /\ InTime(a.n)
  /\ status' = IF /\ ending = "none"
                  /\ a.sub = Subprotocol(step)
                  /\ status \in {"waiting", "ok", "refused"}
                 THEN IF a.ok THEN "ok" ELSE "refused"
                 ELSE status
  /\ answers' = answers \ {a}
  /\ UNCHANGED <<client, wire, bridge>>

-----------------------------------------------------------------------------
(* The coroutine *)

Go(to, i) == [to |-> to, slot |-> i]
Return == Go("returned", slot)

\* The contents of all packets, collected before the first query of the
\* transaction.
Deploy ==
  CASE opts.json = "badSubnet" -> Go("SerializeError", 1)
    [] opts.json = "badRule" -> Go("ValueError", 1)
    [] OTHER -> Go(IF opts.skipClear THEN "start" ELSE "clear", 1)

AfterPairing ==
  CASE opts.command = "clear" -> Go("clear", 1)
    [] Configuring /\ opts.skipTest -> Deploy
    [] opts.json = "badSubnet" -> Go("SerializeError", 1)
    [] OTHER -> Go("validate", 1)

\* Mutant: what the bridge said of the configurations is only logged.
AfterAnyValidation(allValid) == IF Configuring THEN Deploy ELSE Go("unpair", 1)

\* Mutant: test leaves the pairing to whoever comes next.
AfterValidationKeepPair(allValid) ==
  CASE ~Configuring -> Return
    [] Configuring /\ allValid -> Deploy
    [] OTHER -> Go("unpairInvalid", 1)

AfterValidation(allValid) ==
  CASE ~Configuring -> Go("unpair", 1)
    [] Configuring /\ allValid -> Deploy
    [] OTHER -> Go("unpairInvalid", 1)

\* Mutants: the loop runs once too often; its last turn is left out.
LoopTooLong(first, i, done) == IF i <= Slots THEN Go(first, i + 1) ELSE done
LoopTooShort(first, i, done) == IF i + 1 < Slots THEN Go(first, i + 1) ELSE done

\* The end of a turn of "for net in networks".
Loop(first, i, done) == IF i < Slots THEN Go(first, i + 1) ELSE done

\* Mutant: every slot is committed as soon as it is finalized.
ProceedCommitEach(s, i, allValid) ==
  CASE s = "forceUnpair" -> Go("pair", 1)
    [] s = "pair" -> AfterPairing
    [] s = "validate" -> Loop("validate", i, AfterValidation(allValid))
    [] s = "clear" -> Go(IF Configuring THEN "start" ELSE "unpair", 1)
    [] s = "start" -> Go("global", 1)
    [] s = "global" -> Go("select", 1)
    [] s = "select" -> Go("mac", i)
    [] s = "mac" -> Go("host", i)
    [] s = "host" -> Go("finalize", i)
    [] s \in {"finalize", "finalizeErr"} -> Go("commit", i)
    [] s = "commit" -> Loop("select", i, Go("unpair", i))
    [] OTHER -> Return

\* Where the coroutine goes after a query that did not raise.
Proceed(s, i, allValid) ==
  CASE s = "forceUnpair" -> Go("pair", 1)
    [] s = "pair" -> AfterPairing
    [] s = "validate" -> Loop("validate", i, AfterValidation(allValid))
    [] s = "clear" -> Go(IF Configuring THEN "start" ELSE "unpair", 1)
    [] s = "start" -> Go("global", 1)
    [] s = "global" -> Go("select", 1)
    [] s = "select" -> Go("mac", i)
    [] s = "mac" -> Go("host", i)
    [] s = "host" -> Go("finalize", i)
    [] s = "finalize" -> Loop("select", i, Go("commit", i))
    [] s = "finalizeErr" -> Go("commit", i)
    [] s = "commit" -> Go("unpair", i)
    [] OTHER -> Return

\* Some slot was finalized before the one that failed.
HalfDone == Slots # 1 /\ slot > 1

\* Mutant: after a refused SetMACConfig or SetHostConfig the roll-out goes on.
AfterRefusalGoOn(s, i) ==
  CASE s \in SlotSteps -> Go("finalize", i)
    [] s \in {"clear", "start"} /\ Configuring /\ opts.skipTest -> Go("unpairErr", i)
    [] s = "global" /\ opts.skipTest -> Go("UnboundLocalError", i)
    [] OTHER -> Return

\* The except clauses for a ResponseError.  The last one tells what failed by
\* the local names that are bound: rspPair is bound only when the test was
\* skipped, and uid is not bound yet when SetGlobalHostConfig fails.
AfterRefusal(s, i) ==
  CASE s \in SlotSteps -> Go(IF HalfDone THEN "finalizeErr" ELSE "commit", i)
    [] s \in {"clear", "start"} /\ Configuring /\ opts.skipTest -> Go("unpairErr", i)
    [] s = "global" /\ opts.skipTest -> Go("UnboundLocalError", i)
    [] OTHER -> Return

\* The except clauses for a TimeoutError: only a timeout of the validation that
\* is part of configure is followed by an unpairing.
AfterTimeout(s, i) ==
  IF s = "validate" /\ Configuring THEN Go("unpairInvalid", i) ELSE Return

After(r, allValid) ==
  CASE r = "refused" /\ ~SwallowsRefusal(step) -> AfterRefusal(step, slot)
    [] r = "timeout" /\ ~SwallowsTimeout(step) -> AfterTimeout(step, slot)
    [] OTHER -> Proceed(step, slot, allValid)

Raised == {"ValueError", "SerializeError", "TypeError", "UnboundLocalError"}
Endings == Raised \cup {"returned", "OSError"}

\* What building the packet of the next query raises: its constructor a
\* SerializeError; and createPacket a TypeError for one that does not fit, since
\* it reports that with two arguments for ts_print's one.
Unbuildable(g) ==
  CASE opts.json = "badDevice" /\ g.to = "global" -> "SerializeError"
    [] opts.json = "badMac" /\ g.to \in {"validate", "mac"} /\ g.slot = Slots -> "SerializeError"
    [] opts.json = "badHost" /\ g.to = "host" /\ g.slot = Slots -> "SerializeError"
    [] opts.json = "tooLarge" /\ g.to = "host" /\ g.slot = Slots -> "TypeError"
    [] OTHER -> "no"

\* createPacket, subscribe, sendto: the next query is in flight; or the end.
Run(g) ==
  \/ /\ g.to \in Steps
     /\ Unbuildable(g) = "no"
     /\ step' = g.to
     /\ slot' = g.slot
     /\ sent' = sent + 1
     /\ wire' = {q \in wire : opts.network # "prompt"}
                  \cup {[n |-> sent + 1, step |-> g.to, slot |-> g.slot]}
     /\ status' = "waiting"
     /\ UNCHANGED ending
  \/ \E how \in Endings :
       /\ \/ how = g.to
          \/ how = Unbuildable(g)
          \/ how = "OSError" /\ g.to \in Steps /\ Unbuildable(g) = "no"
       /\ ending' = how
       /\ status' = "ended"
       /\ UNCHANGED <<step, slot, sent, wire>>

\* The command reads its json file, if there is one, and comes to its first query.
\* A file that is no json raises JSONDecodeError, a ValueError that _validateJson
\* does not catch, and so does an address that is none, in send_command.
FirstQuery ==
  CASE opts.json = "invalid" -> Return
    [] opts.json = "noJson" -> Go("ValueError", 1)
    [] opts.json \notin {"invalid", "noJson"} /\ opts.address = "none" -> Go("ValueError", 1)
    [] OTHER -> Go(IF opts.forceUnpair THEN "forceUnpair" ELSE "pair", 1)

\* The command starts.
Begin ==
  /\ status = "begin"
  /\ out' = [out EXCEPT !.err = opts.json = "invalid"]
  /\ Run(FirstQuery)
  /\ UNCHANGED <<opts, valid, history, answers, bridge>>

\* The output starts anew where the deployment does.
Output(s, r, g) ==
  IF Configuring /\ s \in {"pair", "validate"} /\ g.to \in {"clear", "start", "ValueError", "SerializeError"}
    THEN [ok |-> 0, err |-> FALSE, advice |-> FALSE]
    ELSE [ok |-> out.ok + IF r = "ok" /\ LogsOk(s) THEN 1 ELSE 0,
          err |-> out.err \/ r = "refused" \/ (r = "timeout" /\ s # "forceUnpair"),
          advice |-> out.advice \/ g.to = "finalizeErr"]

\* Mutant: the answer is awaited without a timeout.
TimerNeverFires == FALSE

TimerFires ==
  /\ status = "waiting"
  /\ status' = "timeout"
  /\ UNCHANGED <<client, wire, answers, bridge>>

\* wait_for is over: log, raise or not, and run to the next query.
Resume ==
  LET allValid == valid /\ (step = "validate" => status = "ok")
      g == After(IF step = "validate" /\ status = "refused" THEN "ok" ELSE status,
                 allValid)
  IN
    /\ status \in {"ok", "refused", "timeout"}
    /\ history' = history \cup {<<step, status>>}
    /\ valid' = allValid
    /\ out' = Output(step, status, g)
    /\ answers' = {a \in answers : opts.network # "prompt"}
    /\ Run(g)
    /\ UNCHANGED <<opts, bridge>>

Init ==
  /\ opts \in Options
  /\ step = "pair" /\ slot = 1 /\ sent = 0
  /\ status = "begin" /\ ending = "none" /\ valid = TRUE
  /\ out = [ok |-> 0, err |-> FALSE, advice |-> FALSE]
  /\ wire = {} /\ answers = {} /\ history = {}
  /\ bridge \in {[paired |-> p, open |-> FALSE, selected |-> 0, validated |-> {},
                  staged |-> {}, final |-> {}, former |-> TRUE, config |-> {}] : p \in BOOLEAN}

Next ==
  \/ Begin
  \/ TimerFires
  \/ Resume
  \/ \E q \in wire : Perform(q)
  \/ \E a \in answers : Dispatch(a)

\* The event loop runs what is ready and a timer that is due.
Spec == Init /\ [][Next]_vars /\ WF_vars(Begin) /\ WF_vars(TimerFires) /\ WF_vars(Resume)

-----------------------------------------------------------------------------
(* Properties *)

AllParts == (1 .. Slots) \X Parts

\* Every variable holds values of its kind (ppl/client.py).
TypeOK ==
  /\ opts \in Options
  /\ step \in Steps /\ slot \in 1 .. Slots /\ sent \in Nat
  /\ status \in {"begin", "waiting", "ok", "refused", "timeout", "ended"}
  /\ ending \in Endings \cup {"none"}
  /\ (ending # "none") = (status = "ended")
  /\ valid \in BOOLEAN
  /\ out \in [ok : Nat, err : BOOLEAN, advice : BOOLEAN]
  /\ \A q \in wire : q.n \in 1 .. sent /\ q.step \in Steps
  /\ \A a \in answers : a.n \in 1 .. sent /\ a.ok \in BOOLEAN
  /\ bridge \in Bridge
  /\ history \subseteq Steps \X {"ok", "refused", "timeout"}

\* Whoever reads an output of configure without an ERROR may rely on the
\* bridge: every slot is committed with its MAC and its host part, late answers
\* or not.  A timeout inside the transaction always ends the command, so that a
\* late answer finds no later query to be taken for (ppl/client.py:183-259,
\* 103-121).
CleanOutputMeansDeployed ==
  ending = "returned" /\ Configuring /\ ~out.err => bridge.config = AllParts

\* ... and on a prompt network the bridge is left unpaired, for every command
\* (ppl/client.py:162-163, 176, 247).
CleanOutputMeansUnpaired ==
  ending = "returned" /\ ~out.err /\ opts.network = "prompt" => ~bridge.paired

\* When SetMACConfig or SetHostConfig of a later slot fails, the half-set slot
\* is finalized and committed all the same: before the bridge holds it the
\* output recommends 'ppl clear' (ppl/client.py:229-246).
HalfSlotIsReported ==
  \A i \in 1 .. Slots :
    (\E p \in Parts : <<i, p>> \in bridge.config) /\ ~({i} \X Parts \subseteq bridge.config)
      => out.advice

\* Unless told to skip the test, configure touches the bridge's configuration
\* only after the bridge accepted the MAC configuration of every network
\* (ppl/client.py:135, 149-160, 190-196).
ValidatedFirst ==
  Configuring /\ ~opts.skipTest /\ (bridge.open \/ \E q \in wire : q.step \in {"clear", "start"})
    => bridge.validated = 1 .. Slots

\* On a prompt network a command that got as far as a query and returns leaves
\* the bridge paired only after a timeout, after a refusal of the pairing or
\* unpairing itself, or where the test was not skipped and the bridge then
\* refused to open the transaction: in that case rspPair is never bound and
\* nothing is undone (ppl/client.py:248-259).
PairedLeftoversExplained ==
  ending = "returned" /\ opts.network = "prompt" /\ sent > 0 /\ bridge.paired =>
    \/ \E s \in Steps : <<s, "timeout">> \in history
    \/ \E s \in PairSteps : <<s, "refused">> \in history
    \/ /\ Configuring /\ ~opts.skipTest
       /\ \E s \in {"clear", "start", "global"} : <<s, "refused">> \in history

\* A file that cannot be read or put into packets aborts the command wherever it
\* comes to light, and the half-built transaction is not committed; that it is no
\* json, and a rule or a subnet that
\* cannot be built, come to light before the bridge is cleared.  The other
\* packets are built one by one, after ClearConfigSet has been performed
\* (ppl/client.py:205-227).
AbortCommitsNothing ==
  /\ ending \in Raised => bridge.config = {}
  /\ ending \in Raised /\ opts.json \in {"noJson", "badSubnet", "badRule"} => bridge.former

\* The command ends: every query is answered or times out, and the loops are
\* over the networks of the file (ppl/client.py:134-259).
CommandEnds == <>(ending # "none")

-----------------------------------------------------------------------------
(* What PplDeploy sees of a command *)

Job == [tests |-> opts.command # "clear" /\ ~opts.skipTest,
        clears |-> opts.command = "clear" \/ (Configuring /\ ~opts.skipClear),
        deploys |-> Configuring]

HeldPart(i) == \E p \in Parts : <<i, p>> \in bridge.config
HeldFully(i) == {i} \X Parts \subseteq bridge.config
CompleteSlots == {i \in 1 .. Slots : HeldFully(i)}
HalfSlots == {i \in 1 .. Slots : HeldPart(i) /\ ~HeldFully(i)}

\* What the output and the exception of a command tell its user.
ReportOf ==
  CASE ending = "none" -> "none"
    [] ending \in Raised -> "aborted"
    [] ending = "returned" /\ ~out.err -> "clean"
    [] OTHER -> "failed"

Abstract ==
  INSTANCE PplDeploy WITH
    job <- Job,
    validated <- bridge.validated,
    former <- bridge.former,
    complete <- CompleteSlots,
    half <- HalfSlots,
    advised <- out.advice,
    report <- ReportOf

\* Every command is a job of PplDeploy: it tests, clears and commits in this
\* order and at most once, leaves a prefix of the slots when the roll-out fails,
\* advises before a half-set slot is committed, and reports no error only when all
\* it was told to do is done; datagrams that come late change nothing of this
\* (ppl/client.py:123-259).
ImplementsPplDeploy == Abstract!Spec
=============================================================================
