# Verification of R3_Docker

TLA+ models of the programs in this repository that talk to EchoRing bridges,
TLC runs that check them on small instances, and TLAPS proofs of their central
properties for every instance. Paths are relative to the repository
(`src/` here).

## 1. Inventory

The repository holds two Python packages and a few scripts.

* `ppl/r3erci/r3erci` - **ERCI**, the run-time control of a bridge ("EREB"): UDP
  datagrams of a 4-byte header (reserved, version, command, sequence number)
  and a short body.
* `ppl/ppl` - **PPL**, the deployment of a configuration to a bridge: pairing,
  validation, and a transaction that sets one slot per network.
* `ppl/listener_ip1.py`, `listener_ip2.py` - MQTT clients in the container that
  run `r3erci` once per message; `Publisher.py` publishes to another topic.

| Part | State | Operations | Talks to | What is hard | What makes it correct |
|---|---|---|---|---|---|
| ERCI query engine (`client.py`, `udpServer.py`) | sequence byte, lock, subscriber list of the process, response and event per query | `send_command`, dispatch of a datagram, timer | devices over UDP; coroutines that share a client; other clients of the process through the class-level subscriber list | interleaved coroutines, lost/late/duplicate/reordered answers, the byte wraps, number 0 is not filtered | the answer returned is the one to the caller's own query; calls of a client exclude each other; every call ends |
| EREB simulator (`cli/run_simulate_ereb.py`) | state, config/ring/antenna ids, configmode | one handler per command | any number of controllers | controllers interleave; frames in the wrong state | ids follow the state; a running ring keeps its configuration |
| Standalone mode (`standaloneServer.py`) | a station per address, queue of answers | `sendPacket`, pump | the query engine, in process | differs from the simulator in what it tests | shows what the simulator shows, for commands in their states |
| Listeners | the MQTT inbox, the process that runs | `on_message` | broker, `r3erci` process, EREB | a process per message numbers its query 1 again; outcome told from text; a payload that is not UTF-8 ends the loop | acknowledges what happened; what may still happen is given up in an acknowledgement; every message is acknowledged while the loop runs |
| PPL commands (`ppl/client.py`) | output, local names bound so far, lists of packets | `test`, `clear`, `configure` | bridge | any step refused or timed out; swallowed errors; clean-up; late answers | the output tells the truth about the bridge; a failed roll-out is a prefix |
| PPL query engine (`ppl/udpServer.py`, `PplQuery`) | packet number, subscribers | `execute`, dispatch | bridge | answers are not matched by number | - (see PPL commands) |
| PPL packets (`protocol.py`, `packetDefinitions.py`, `enums.py`, the builders of `udpServer.py`) | none | make a packet of arguments or of the json file, serialize, deserialize | PPL commands, the network, programs of other versions | size limits, validity only at some field types, strings packed and read in different encodings, length bytes, the order of json keys | what arrives is what was sent; nothing else is accepted; the device is told what the file says |
| ERCI sequencer (`cli/run_sequencer.py`) | last message | poll, then cycle two configurations | device | polling without limit | cycles |
| ERCI batch (`cli/run_batch.py`) | a coroutine with a client of its own per line | one command to many devices at once | query engine, devices | shared subscriber list, one device named twice, one coroutine that fails | every device gets its command, every line its own outcome, the program ends |

PROJECT.json lists all parts, the ones that are not modelled too, and under
`hazards` the places in the code that are hard to test.

## 2. Modules

```
ErciCall          what a call promises                     (abstract)
   ^ refines
ErciQuery  <---  MCErciQuery       instances for TLC
   +------------ RunBatch          the batch tool on the engine
                   ^  <---  MCRunBatch, ErciProof (theorems about both)
Ereb       <---  ErebProof         theorems
   ^ ^
   | +---------  Standalone        runs in step with an Ereb
   |               ^  <---  StandaloneProof   theorems
   +-----------  Listener          listener + r3erci process + Ereb
                   ^  <---  ListenerProof     theorems
PplDeploy                          what the ppl commands promise
   : implemented by
PplConfigure                       ppl test / clear / configure + bridge
   ^       <---  PplConfigureProof   theorems: invariants, refinement
Recursion                          a recursive function, and that it is one
   ^ instantiated by
PplField  <--  PplComposite  <--  PplCompositeProof
  fields         arrays, packets    ^ instantiated five times by
               PplCodec  <--  PplPackets  <--  PplBuild  <--  PplWire  <--  MCPplWire
                 types          packets,         packets of     a message's     ^
                                messages         a json file    life     <--  PplWireProof
ErciSequencer                      the reachable part of the sequencer
```

**ErciQuery.** `Send` is `send_command` from the free lock to its suspension in
`wait_for`: lock, `_create_msg` (`NextSeq`, `NewQuery`), `subscriberFilterContext`,
`sendto`. `Refuse` is the `ResourceLocked` of line 422, `RejectArguments` every
check before it, `SendFails` the `OSError` of `sendto`. `Dispatch` is
`receiveHandler`/`dispatchPacket` with the filter `Matches`; a second matching
datagram overwrites the response of a coroutine that has not resumed, as
`responseHandler` does. `TimerFires` is the timer of `wait_for`; `Return` and
`RaiseTimeout` are what the coroutine does when it resumes, including
`_handle_response` (`Verdict`) and the two context managers (`Leave`). Nothing
suspends between the test of the lock and its acquisition, nor inside the
dispatch, so each of these is one step. `subscribers` is one set for all clients:
the attribute belongs to the class. Contents of datagrams are reduced to the
`Kinds` that `_handle_response` tells apart; kind `error` of an outcome stands for
every exception it raises. Datagrams shorter than 4 bytes are dropped before
they reach a subscriber and are the same as lost ones.

**ErciCall.** Calls are opened, performed by a device - perhaps long after they
were closed - and closed; a call is closed with the device's word only if the
device performed that call. No numbers, locks or subscriptions.

**RunBatch** extends `ErciQuery`: `ReadFile` is the loop of `main` over the lines, `Start`
one coroutine of `exec` up to its suspension - all of them run that far before the
event loop takes over (`Started`) - `Report` its end, and `Crash` and `Finish` are the
two ends of `gather`. A name that resolves is kept as it was written
(`run_batch.py:60`), so that `send_command` refuses it. `Start` may also end without a
query at all: the client is made outside of the `try`. Each variable of the engine
changes only by an action of `ErciQuery`. `BatchTypeOK` therefore also says that file, jobs and
engine agree: a line has a coroutine exactly if it is kept, and a call in flight exactly
while its coroutine runs.

**Ereb.** `Receive` is one turn of the simulator's loop: `Allowed` are the tests of the
state, `Applied` the assignments, `Answer` the frame sent back: its kind, and the ids, the
flag or the state that its text or body names (`StatusMsg`). `alive` is FALSE
after a frame with an unknown command byte, whose log line raises.

**Standalone.** `SendPacket` is the method of that name for one address, with
`Accepts` its test of the length, `Effect` its branches and `queue` the answers
the task will dispatch. The frames are those `send_command` makes of any ids, flag and
passport it is given (`Bodies`), of right and wrong lengths. The same frame goes to a twin, an
`Ereb`, by that one's own reading (`AsTwinFrame`). `legal` remembers whether the twin ever
refused. `AnswersLikeEreb` compares kinds, the numbers a success names, and the state. It does
not compare what a diagnostic description says, as the two differ: the simulator
names the ids and the flag (`run_simulate_ereb.py:297-307`), standalone mode sends a filler
(`standaloneServer.py:270-279`).

**Listener.** `Take` is `on_message` up to the start of the process, `Acknowledge`
its rest, `AckOf` the tests of the process's output. The first line of `on_message` decodes the
payload outside of its `try`: one that is not UTF-8 raises, and with it `loop_forever` ends
(`running`). In between the process waits for its answer (`Deliver`, `TimerFires`); it may
fail before it has sent anything, be killed later (`Fail`), or crash over the answer
(`unpackable`, a `GET_CSI_RESPONSE` cut short). `Perform` lets the `Ereb` handle
the command; `Answers` are what it may send back. `Control` are other controllers. `network` is
chosen in the initial state: on the `prompt` one a datagram is lost or arrives while its process
runs, on the `late` one at any time. `heard` remembers which processes received an answer while
they waited. The listeners differ in the address only.

**PplConfigure.** The coroutine's control is a table: `Proceed` says where it goes after
a query that did not raise, `AfterRefusal` and `AfterTimeout` what the except clauses
do, `SwallowsRefusal`, `SwallowsTimeout` and `LogsOk` stand for the flags passed to
`send_command`, `Run` sends the next query or ends the command. One `Resume` is what the
code does between two suspensions. `Output` is `self.output`. `Options` are the
command lines and kinds of json file, chosen in the initial state, some of which make
a builder raise. `FirstQuery` is the start of the commands: the file that is not valid ends
them with an output, the one that is no json, and the address that is none, with a `ValueError`. The except clause that looks at `locals()` is modelled by when
those names are bound.

**PplDeploy** is what the three commands promise, without queries, answers, timers and the
pairing: a job of testing, clearing and deploying, in this order, with one commit of a prefix
of the slots, advice before a half-set slot is committed, and a report. `Abstract` at the end of
`PplConfigure` is the mapping: the job are the options, slots that the bridge holds with
both parts are `complete`, others it holds `half`; the report is `clean` for an output without
an error, `aborted` for an exception - of reading the file or of a builder -, `failed` otherwise. What a failed command
still has under way may reach the bridge later (`Pending`).

The kinds of json file that cannot be built, and where that comes to light, are those
that `PplWire` exhibits (`BuildFails`, phases `refused` and `unsent`).

**PplField** has one record per field type of `protocol.py` and, by type, `DefaultField`
(`default`), `ValidField` (`validate`, as `set` uses it), `PackField`, `FieldErrors` (what `pack`
raises for a value `validate` let through) and `UnpackField` with the exception it ends in.
Numbers of more than two bytes, floats, MAC addresses and fixed arrays of bytes are their bytes,
which is what `struct` makes of them (a signalling NaN, which a conversion may quieten, is not
among the values); an IP address is its 4 or 16 octets; a string its code points, written
as latin-1 and read as UTF-8. **PplComposite** makes arrays and packets of inner types whose
operations are its parameters; its loops are functions on the number of parts, which
**Recursion** defines and proves to exist. **PplCodec** instantiates it once for each level of
nesting, `L1` on the fields and `L2` to `L5` on the level before: the deepest packet is
`SetHostConfig`, with filters in an array and rules in an array of each. So no operator of the codec is RECURSIVE, and theorems can
be proved about it. **PplPackets** are the packets and subprotocols in the
order that numbers them, and `Serialize` and `Deserialize`, the latter with every
test in its order. **PplBuild** are `createPacketDataMacConfig`, `...SetGlobalHostConfig`
and `...SetHostConfig` with the tables of words; a json object that the code takes apart by
position is a sequence of pairs, any other a function. `isOutput` branches only print.
**PplWire** runs a message: `Edit` changes an option of a file the schema lets through,
`Build` and `BuildFails` make packets of it, `Make` makes one of arguments, `Send` is
`createPacket` - which ends in a `TypeError` for a packet that is too large, as it hands
`ts_print` two arguments (`udpServer.py:84`) - `Damage` the network or a sender whose packet has
other fields: a byte changes, the end is lost, or the packet is shorter or longer at its end, or
has bytes inserted before it or removed, each with a header that fits. `Receive` is `receiveHandler` up to the dispatch. `PplConfigure` takes over
from there.

**ErciSequencer.** Lines 15-46. `msg["type"]` holds a member of an enumeration and is
compared with a string; a `Member` and a `Str` are different values in the
model as in Python, so `Decide` never goes on and the rest of the file cannot be
reached.

Operators whose comment begins with "Mutant" are plausible bugs. Each replaces one
definition, and the property it is meant for must then fail: this shows that the
property depends on the code.

## 3. Runs

| Run | Checks | Instance | Shows |
|---|---|---|---|
| `erci_one` | `TypeOK AnswerIsOwn OneCallPerClient MismatchOnlyAtZero SeqnoStableInFlight EveryCallEnds` | 1 client, 2 coroutines, 2 devices, numbers 0..1, 3 queries | the engine under every loss, delay, duplication and order |
| `erci_batch` | `ImplementsErciCall` | 2 clients with a device each, 3 coroutines, 2 queries each | refinement of `ErciCall` |
| `run_batch` | `BatchTypeOK AnswerIsOwn EveryDeviceCommanded DoneMeansAllReported BatchEnds` | 3 lines, 2 of them for one device, every kind of line | one line's failure does not keep the others from being commanded; what is reported is so, in spite of the shared subscriber list |
| `ereb` | `TypeOK IdsFollowState ConfigFixedWhileRunning` | 2 ids, every frame | the device under any controllers |
| `standalone` | `TypeOK MimicsEreb AnswersLikeEreb` | 2 ids, bodies of 0 to 3 ids with or without flag and passport, 2 queued answers | the two device emulations agree, the text of a description apart, until a command is sent in a wrong state |
| `listener` | `TypeOK ChangedMeansPerformed RingFollowsLastAck StragglersWereGivenUp EveryMessageAcked` | 3 messages, both networks | what an acknowledgement says, and that whatever can go wrong late has been given up in one |
| `ppl_configure` | `TypeOK CleanOutputMeansDeployed CleanOutputMeansUnpaired HalfSlotIsReported ValidatedFirst PairedLeftoversExplained AbortCommitsNothing CommandEnds ImplementsPplDeploy` | 3 networks, all options | what an output says, what a failure leaves; refinement of `PplDeploy` |
| `ppl_wire` | `TypeOK RoundTrip Canonical OtherEndDropped OnlyTextEscapes NoOptionIsLost RulesArrive FitsOrRefused` | every packet with one unusual value, every file with up to 2 unusual options | a message arrives as it was sent, what is accepted is what a message is serialized to, the packets say what the file says, and the capacity of a packet |
| `listener_late` | `ChangedIsOwn` (violated) | 2 messages, late answers | finding 1 |
| `listener_silence` | `NoResponseMeansSilence` (violated) | 1 message | finding 2 |
| `sequencer_reason` | `ExitReasonIsTrue` (violated) | both kinds of address | finding 3 |
| `ppl_reliability` | `MediumIsNotNone` (violated) | the file's `reliability` | finding 4 |

**Bounds.** `MaxSeq = 1` makes the number wrap to 0 on the second query and
repeat on the third, so 3 queries reach every interesting relation between two
numbers (equal, different, one of them 0, a repeat). A set of datagrams that
keeps its members models loss (never taken), delay, duplication and
reordering; it is bounded through `MaxQueries`. Two coroutines suffice for a
collision on a lock and two clients for cross-talk; the proofs cover any
number. Three networks give `configure` a first, a middle and a last slot, which
its loop and its clean-up tell apart. Three messages give the listener one that is given up, one
whose process meets what comes late of it, and a last one that is no longer concerned. Three lines give the batch tool two
that compete for one device's answers and one that does not.

In `ppl_wire` a value is unusual when it is at or just behind a limit of its type
(`Variants`), or one of the options of `EditsOfFile`: every word of the schema, largest numbers,
rules and routes in both orders of their keys or with a comment, and 69, 70, 115 and 116
routes, the last that fit and the first that do not, with 16 filters of 16 rules and without.
Rules and routes of a list differ and a file without DHCP has its addresses, as the schema asks;
an edit that breaks this is not made (`Admissible`).
`MaxEdits = 2` lets two options interact: those two, or a filter and the default length of the
queues. `Margin = 12` bytes at either end is where damage hits - the header, the command and
the first fields, and the last ones; a byte becomes one of `EditedBytes`, which are the values
that matter to lengths, codes and text. The bytes inserted or removed are a 0, a 1 or a
four-byte number (`OtherFields`): the widths of most fields, and a flag of either value. Only
messages made of arguments are damaged, as they include every packet.

**Fairness.** Weak fairness only of what the event loop does by itself: a timer that is
due fires, a coroutine that is ready resumes; the MQTT loop takes the next
message when idle; a process ends by its timer at the latest; `main` of the batch tool and
`gather` go on. Nothing is assumed
of devices, bridges or networks.

**Timers.** An answer and the timer of `wait_for` race; the first of the two decides.
That is the `wait_for` of Python 3.11, the version `src/Dockerfile:1` names: once
the event is set, a timer due in the same turn of the loop returns the answer.

**Deadlock** is checked wherever the system cannot stop. It is off for `ppl_configure` (a
command ends), `run_batch` (the program ends), `ppl_wire` (a message has arrived or is
gone), `ereb` (the process can die), and in the runs that show a finding.

**Assumptions about the network.** `Fresh`: an answer is not delivered after
`MaxSeq + 1` (256 in the code) later queries of its client, when its number comes
round again. Without it no use of an 8-bit number could be right. Datagrams nobody asked for
are not sent. The `late` network of `PplConfigure` delivers a datagram any time
but once. A *duplicated* answer is outside the model: PPL does not compare
sequence numbers (`ppl/client.py:50-53`), so a duplicate is taken for the
answer to the next query of its subprotocol; `ValidatedFirst`, for one, then fails.

## 4. Findings

1. *An acknowledged change that never happened* (`listener_late`). Each message starts
   a new process whose query is number 1; a SUCCESS that arrives after its process
   gave up is taken by the next process. `ChangedMeansPerformed` of the `listener` run says when
   this can be: only after a "No response" or "Command execution failed".
2. *"No response" from an EREB that responded* (`listener_silence`). The listener takes
   "raised error" in the output for silence; `r3erci` prints it for a malformed answer too. In the
   trace that answer reaches the process while it waits.
3. *The sequencer never gets past its first answer* (`sequencer_reason`). It compares an
   `IntEnum` member with a string.
4. *Reliability MEDIUM is deployed as NONE* (`ppl_reliability`). The schema offers the word,
   the table of `getReliabilityEnum` lacks it, and unknown words mean NONE.

Seen while modelling, without a run of their own:

* An FQDN is refused although the help of `r3erci` and the sequencer offers it and the batch
  tool resolves it first: `send_command` starts with `ip_address(address)` (`client.py:361`).
* The comment in `SizeStringType` (`protocol.py:286-289`) speaks of a terminating null. There is
  none; a NUL in a string that arrives raises a `SerializeError` that nothing catches
  (`OnlyTextEscapes`).
* A non-ASCII string does not survive: it is packed as latin-1 and read as UTF-8. `RoundTrip`
  is claimed for ASCII; and for IPv4, as `ip_address` also takes small IPv6 addresses and packs
  them into the four bytes.
* `{"val": 7, "pos": 23}` and `{"pos": 23, "val": 7}` are different rules (`udpServer.py:327`), and
  one with a `comment`, which the schema admits, is an error. `RulesArrive` is claimed for the
  schema's order.
* Without `queueSizes` the packet gets as many zeros as the highest priority plus two, up to
  7 (`udpServer.py:240`), where the schema allows five entries.
* The schema lets a file have 200 routes; from 116 on (70 beside 16 filters of 16 rules) its
  `SetHostConfig` does not fit a datagram, and the command ends in a `TypeError` (`FitsOrRefused`).
* A message whose payload is not UTF-8 ends a listener (`listener_ip1.py:21`), and with it the
  acknowledgement of every later one (`EveryMessageAcked`).
* A json file that is none ends a `ppl` command with a `JSONDecodeError`, which `_validateJson`
  does not catch (`client.py:276-284`).
* A field inserted before the end of a packet is not always noticed: where a count, a code or the
  length byte of a blob comes to stand on a byte that fits, `deserialize_message` reads another
  message of the same packet. In the instance this happens to `ZeusSecurityConfig`,
  `SetMACConfig`, `ValidateMACConfig` and `StartConfigSetTransaction`. What is claimed is
  that this other message is read as it would have been written (`Canonical`), and that more or
  fewer bytes *at the end* are always noticed (`OtherEndDropped`).

## 5. Proofs

`ErciProof` proves about `ErciQuery`, for every set of callers, clients and devices, every largest
number and every bound, `TypeOK`, `AnswerIsOwn`, `OneCallPerClient`,
`MismatchOnlyAtZero` and `SeqnoStableInFlight`. It uses `ConstantsAssumption` and nothing
else. The invariant is

* `Requested`: what a device performed was requested, and what it answered it performed;
* `Numbered`: a query's byte is determined by its number in the client's history, and
  the client's byte by the count of queries: without this, equal bytes would say
  nothing about equal queries;
* `InFlightInv`: the query of a call in flight is its client's latest, carries the
  client's current byte, and an accepted response matches it;
* with `TypeOK`, `OneCallPerClient`, `AnswerIsOwn` and `MismatchOnlyAtZero`.

The heart is arithmetic: two queries of one client with the same byte are a
multiple of `MaxSeq + 1` apart, and `Fresh` bounds the distance at delivery below that,
so they are the same query. `InFlightInv` carries this from the delivery to the
resumption: no query of the client can be numbered in between, because the lock
is held.

It also proves that the engine implements `ErciCall` (`ImplementsErciCall`), for every
instance with `SeparateDevices`: no two clients query the same device. That is so in
`r3erci`, which has one client, and in `r3erci-batch` as long as no two lines name one device;
where two do, the class-level subscriber list may hand one client the answer to the other's
query, and a call could end with a success although the device has not performed it.
The invariant is the one above and `OwnTargets`, that a query goes to a device of its
client. There is one lemma per action: `Send` opens a call, `SendFails` burns a number,
`RejectArguments` and `Refuse` refuse, `Handle` performs, `Return` and `RaiseTimeout` close,
`Dispatch` and `TimerFires` are stuttering steps. `BusyMeansLocked` links the lock to the open
calls; `WordIsOwn` is where separate devices are needed. `AnswersAreOwn` is the same fact as an
invariant: without shared devices the exception in `AnswerIsOwn` is empty.

About `RunBatch` it proves, for every file and every number of lines, `BatchTypeOK`,
`AnswerIsOwn`, `EveryDeviceCommanded` and `DoneMeansAllReported`, from `ConstantsAssumption`
and `BatchAssumption` (a client per line, a device per client). Every step of the
tool is a step of the engine or leaves it alone, so the engine's invariant carries over
(`EngineStep`); to it `LineInv` adds, line by line, what a coroutine's state says about
its call: it runs exactly while its call is in flight, a line that has been started has sent its
query or crashed without an outcome, a reported success carries an answer of the line's own
device. `EveryDeviceCommanded` then follows because `main` waits only when no line is
queued, and `DoneMeansAllReported` with `AnswerIsOwn`. For a file that names no device twice it
also proves that the tool implements `ErciCall`, a call per line, and that the word a line is
given is on its own query (`SeparateInv`, from the engine's theorem by `EngineStep`).

`ErebProof` proves `TypeOK`, `IdsFollowState` and `ConfigFixedWhileRunning` for every
set of ids, with `TypeOK /\ IdsFollowState` as the inductive invariant.

`StandaloneProof` proves `TypeOK`, `MimicsEreb` and `AnswersLikeEreb` for every set of ids
in 1..255 and every bound on the queue (`StandaloneAssumption`). An id is never 0, which both
EREBs use for "none". The invariant adds to the types and `MimicsEreb` that each queued entry is
`Faithful`, which is `AnswersLikeEreb` for that entry at the time it was made. Its
centre are `StaySame` and `AnswerSame`, command by command: a frame that the simulator does not
refuse turns two devices that are `Same` into two that are, and the answers are of the same kind
and name the same ids, flag or state.

`ListenerProof` proves `TypeOK`, `ChangedMeansPerformed`, `RingFollowsLastAck` and
`StragglersWereGivenUp`, for every number of messages and on both networks
(`ListenerAssumption` only). Late datagrams are not excluded: the properties say what they can
do, and that an acknowledgement has announced it. The invariant is

* `Ordered` and `Begun`: messages are published, taken and finished in the order of their numbers,
  and only commands of messages taken are under way or performed;
* `Single`: a command is performed once and answered at most once, and a SUCCESS says that the
  device carried it out;
* `Own`: what is under way belongs to the process that runs, or its message or one before it was
  given up (`LateUpTo`); a SUCCESS that the process has accepted is its own, or one
  before it was given up (`LateBefore`). This is where late answers come in: a
  process that took an answer which was not its own leaves its command on the wire although it is
  acknowledged as `changed`, and the message to blame is then an earlier one;
* `RingOfLastPerformed`: without other controllers, the ring is that of the youngest command
  carried out. `RingFollowsLastAck` speaks of acknowledgements and is not inductive; a
  command may be carried out without its answer arriving.

`PplConfigureProof` proves the seven invariants of the `ppl_configure` run for every
number of networks, command line, json file and both networks (`SlotsAssumption` only), and that
the slots the bridge holds are a prefix of the file's (`CommitsAPrefix`). The
difficulty is that a late answer may be taken for the answer to another query. The
argument: a query of the transaction that times out ends the command, so that of all `Config`
queries only the one the coroutine is at can be under way (`OneConfigQuery`), with
one answer at most (`OneConfigAnswer`); an accepting answer therefore means that the bridge has
done *this* step (`OkMeansCarriedOut`), and what the bridge holds is known from the place of
the coroutine: `Rollout` says how far the transaction is, `Prefix` that
what is staged is complete up to the selected slot, `Validation` what has been tested, `Clean`
what an output without an error excludes. The exceptions are `unpairInvalid`, which follows a
validation that may have timed out, and the pairing queries, about which only the
prompt network says something. `Routes` states once where a coroutine can go from where; the
proof of a step has a case per route, the proof of the bridge's step one per query
(`EffectOf`). `AbortCommitsNothing` needs `Unread` besides: a command whose file is no json has
not sent anything.

It also proves that the commands implement `PplDeploy` (`ImplementsPplDeploy`), under
the same assumption. What the invariants above do not say, and this does: a refused
`ClearConfigSet` is never followed by a commit, the clean report of `test` and `clear` too
means that the job is done, a transaction is committed at most once and never taken back, and
the advice is there before the commit it is about. `IInv` is not enough for that; `RInv` adds
that a commit under way finds nothing committed (`CommitOnce`), that an accepted clear has
been carried out (`ClearIsDone`), that the steps of the transaction come after it and after the
test (`ClearedFirst`, `TestedFirst`), that an output without an error ends at the last step
(`CleanAtTheEnd`) and that the advice belongs to a transaction (`AdviceInTime`). There is a lemma
per action: the bridge's step (`Perform`) is `Test`, `Clear` or `Commit` by the query it performs, or
changes nothing that `PplDeploy` sees; `Resume` is `Advise`, `Report` or a stutter, `Begin` `Report`
(a file that cannot be read) or a stutter; `TimerFires` and `Dispatch` stutter.
`CommittedSlots` is the centre: what a commit takes over are all slots up to the selected one,
of which the last may be half set only if the coroutine has stored the advice.

The theorems about PPL messages climb from bytes to behaviours. `Correct` says five things of a
type (`PplCompositeProof`): `Writes`, that packing a valid value without an error gives bytes;
`Reads`, that unpacking any bytes ends in a value or in one of the two exceptions of the codec,
and in a `SerializeError` only at a NUL; `ReadsBack`, that unpacking takes exactly what packing
wrote, and gives a plain value back; `WritesBack`, that packing a plain value that was unpacked
gives the bytes taken; `IsLocal`, that unpacking depends on no byte but those it takes.

* `Recursion` proves that a definition by recursion on the number of steps satisfies its
  equations; `PplComposite` has one for `pack`, which joins the parts, and one for `unpack`.
* `CompositesAreCorrect`: if the inner types are correct, so are the arrays and packets of them.
  The induction is over the last `m` of `n` parts, as the loop of `unpack` goes.
* `PplWireProof` proves the field types correct, one lemma each. The hard ones are TLVs, whose
  length counts words and whose padding is read as data (`TlvIsCorrect`), and strings, of which only
  ASCII is written and read alike (`StringIsCorrect`).
* `CodecIsCorrect`: by `CompositesAreCorrect`, level by level, all types are correct.
* `PacketsAreTypes`: every registered packet is a type of the codec. `HeaderOutcome` and
  `Outcomes` say what `deserialize_message` makes of a datagram.
* `IInv` says in every phase how the datagram was made of the message: serialized with a
  sequence number in use, and damaged in one of the ways of `Damage` (`Arrives`).

From `IInv` follow `TypeOK`, `RoundTrip`, `Canonical`, `OtherEndDropped` and `OnlyTextEscapes`,
for every json file, all arguments (`Samples`), all sequence numbers, every bound on the
damage, all bytes it may write and all bytes it may insert or remove (`SeqsAreBytes`,
`EditedAreBytes` and `FieldsAreBytes` only). `OtherEndDropped`
is where the parts meet: a datagram that lacks its last bytes, or has more of them, would have to be
read to its end; by `IsLocal` it is read like the undamaged one as far as it goes, and by
`ReadsBack` that takes as many bytes as were written, which is another length (`OtherLength`). Of bytes inserted
or removed before the end nothing is claimed but `Canonical`, by `WritesBack`.
`IInv` was model-checked on the instance of `ppl_wire` first. `tlapm` takes about 17 minutes for `PplWireProof`.

Model-checked only, and why:

* `EveryCallEnds`, `EveryMessageAcked`, `BatchEnds` and `CommandEnds`: liveness under fairness
  is out of the prover's reach.
* `NoOptionIsLost`, `RulesArrive` and `FitsOrRefused`: they speak of the values that the options
  of a file have, and hold for those that the schema lets through. The schema is data; what it lets
  through are the values of `BaseFile` and `Edits` in `MCPplWire`, and a theorem would have to
  assume as much about these constants as it would conclude.
* The four violated properties, for which a counterexample is the result.

## 6. Not modelled

* The validation of the json file against the schema, which is `jsonschema`'s; `PplWire` starts
  from files it lets through. It is called without a format checker, so that `format` constrains
  nothing and an address may be any string.
* The text of addresses (`macaddress.py`, `ipaddress`), `getDict` and other printing, the
  `isOutput` branches of the builders, and field types that no packet has.
* What follows line 46 of the sequencer, which cannot be reached.
* Argument parsing, printing, resolving names in `r3erci-batch`, writing the output file.
* Several coroutines on one `PplClient`: no program of the repository does that.
* `SO_REUSEPORT`: when several processes bind the port, the kernel chooses which of them
  gets a datagram; a process that does not get its answer sees a lost one. The
  listener's `late` network covers the case that another process gets it.
* `Publisher.py`, packaging.

## 7. Plan

Done: the models and runs above; theorems for every safety property of the passing runs but
three that speak of the values in a json file, and the refinements of `ErciCall` and `PplDeploy`.

1. `PplQuery`: several coroutines on one `PplClient`, which queue at the lock, and
   duplicated answers.
2. Several programs on one host that share the port (`SO_REUSEPORT`) as a composition of `ErciQuery`
   instances.
