----------------------------- MODULE Standalone -----------------------------
(***************************************************************************)
(* r3erci's standalone mode (standaloneServer.py): sendPacket plays the    *)
(* EREB itself, for every address that is sent to, and queues the answer   *)
(* for a task that dispatches it.  Addresses do not influence each other:  *)
(* there is one here.                                                      *)
(*                                                                         *)
(* Beside it runs a twin, the EREB of cli/run_simulate_ereb.py, that gets  *)
(* the same frames.  Standalone mode does not test the state of the        *)
(* station (its TODOs), so the two can only agree for as long as no        *)
(* command is sent in a state in which the twin refuses it.                *)
(***************************************************************************)
EXTENDS Naturals, Sequences

CONSTANTS Ids,       \* the config, ring and antenna ids that are sent
          MaxQueue   \* bound: answers queued

ASSUME StandaloneAssumption == Ids \subseteq 1 .. 255 /\ MaxQueue \in Nat

VARIABLES
  station,   \* erebStates[address], NoStation before its setdefault
  queue,     \* queuedPackets: answers, each with what the twin answered
  twin,      \* the other EREB
  legal      \* the twin has refused no command so far (history)

vars == <<station, queue, twin, legal>>

Twin == INSTANCE Ereb WITH ereb <- twin, reply <- [kind |-> "none"], alive <- TRUE

NoStation == [state |-> "none"]

\* Mutant: it starts in the protocol's state STARTUP.
DefaultStartup == [Twin!PowerOn EXCEPT !.state = "STARTUP"]

Default == [state |-> "READY", config |-> Twin!NoId, ring |-> Twin!NoId,
            antenna |-> Twin!NoId, configmode |-> 0]

\* What send_command can be asked to send: the ids, the flag and the passport
\* (MAC address and serial number) that are given follow the header in this order,
\* antenna last of the ids, whatever the command.  No caller gives a flag to
\* another command than SET_CONFIGMODE.
SentCommands == {"SELECT_CONFIG", "SWITCH_RING", "SWITCH_ANTENNA", "START", "STOP",
                 "STATE_QUERY", "SET_CONFIGMODE", "PASSPORT_QUERY"} \cup Twin!Harmless

Passport == [i \in 1 .. 32 |-> 0]

Bodies(cmd) ==
  LET ids == UNION {[1 .. k -> Ids] : k \in 0 .. 3}
      flags == IF cmd = "SET_CONFIGMODE" THEN {<<0>>, <<1>>} ELSE {<<>>}
  IN
    {b[1] \o b[2] \o b[3] : b \in ids \X flags \X {<<>>, Passport}}

Frame == UNION {[cmd : {c}, body : Bodies(c)] : c \in SentCommands}

\* GetPacketLength: the number of bytes, and whether it is exact.
PacketLength(cmd) ==
  CASE cmd = "SELECT_CONFIG" -> 7
    [] cmd = "SWITCH_RING" -> 6
    [] cmd \in {"SWITCH_ANTENNA", "SET_CONFIGMODE"} -> 5
    [] cmd = "PASSPORT_QUERY" -> 36
    [] OTHER -> 4

LengthOk(cmd, n) ==
  IF cmd = "GET_CSI_QUERY" THEN n >= PacketLength(cmd) ELSE n = PacketLength(cmd)

Bytes(f) == 4 + Len(f.body)

\* Mutant: trailing bytes are ignored.
AcceptsLonger(f) == Bytes(f) >= PacketLength(f.cmd)

Accepts(f) == LengthOk(f.cmd, Bytes(f))

\* The commands that look up the station, and create it.
LooksUp(cmd) ==
  cmd \notin {"DIAGNOSTIC_DESCRIPTION_QUERY", "REBOOT", "GET_CSI_QUERY", "PASSPORT_QUERY"}

Current == IF station = NoStation THEN Default ELSE station

\* The effect on the station of a frame of the right length.
Effect(d, f) ==
  LET b == f.body IN
    CASE f.cmd = "SELECT_CONFIG" ->
           [d EXCEPT !.state = "CONFIGURED", !.config = b[1], !.ring = b[2],
                     !.antenna = b[3]]
      [] f.cmd = "SWITCH_RING" -> [d EXCEPT !.ring = b[1], !.antenna = b[2]]
      [] f.cmd = "SWITCH_ANTENNA" -> [d EXCEPT !.antenna = b[1]]
      [] f.cmd = "START" -> [d EXCEPT !.state = "RUNNING"]
      [] f.cmd = "STOP" -> [d EXCEPT !.state = "READY"]
      [] f.cmd = "SET_CONFIGMODE" -> [d EXCEPT !.configmode = b[1]]
      [] OTHER -> d

\* Mutant: the bytes of the ring and of the antenna change places.
StateResponseSwapped(d) ==
  [kind |-> "STATE_RESPONSE",
   ereb |-> [d EXCEPT !.ring = d.antenna, !.antenna = d.ring]]

StateResponse(d) == [kind |-> "STATE_RESPONSE", ereb |-> d]

\* The numbers in the message of a SUCCESS.
StatusMsg(d, cmd) ==
  CASE cmd = "SELECT_CONFIG" -> <<d.config, d.ring, d.antenna>>
    [] cmd = "SWITCH_RING" -> <<d.ring, d.antenna>>
    [] cmd = "SWITCH_ANTENNA" -> <<d.antenna>>
    [] cmd = "SET_CONFIGMODE" -> <<d.configmode>>
    [] OTHER -> <<>>

\* The answer to a frame that left the station as d.  The description is a filler
\* that says nothing of the station.
AnswerTo(f, d) ==
  CASE ~Accepts(f) -> [kind |-> "INVALID_DATA_RECEIVED"]
    [] Accepts(f) /\ f.cmd = "STATE_QUERY" -> StateResponse(d)
    [] Accepts(f) /\ f.cmd = "DIAGNOSTIC_DESCRIPTION_QUERY" ->
         [kind |-> "DIAGNOSTIC_DESCRIPTION_RESPONSE", msg |-> <<>>]
    [] OTHER -> [kind |-> "SUCCESS", msg |-> StatusMsg(d, f.cmd)]

\* "Not answering", and nothing at all for REBOOT.
Unanswered(f) == Accepts(f) /\ f.cmd \in {"REBOOT", "GET_CSI_QUERY", "PASSPORT_QUERY"}

\* The frame as the twin takes it: by its own test of the length and by position.
AsTwinFrame(f) ==
  LET n == Len(f.body)
      FromEnd(k) == IF n >= k THEN f.body[n - k + 1] ELSE Twin!NoId
  IN
    [cmd |-> IF LengthOk(f.cmd, Bytes(f)) /\ f.cmd # "PASSPORT_QUERY"
               THEN f.cmd ELSE "dropped",
     config |-> FromEnd(3), ring |-> FromEnd(2), antenna |-> FromEnd(1),
     flag |-> FromEnd(1)]

Init == station = NoStation /\ queue = <<>> /\ twin = Twin!PowerOn /\ legal = TRUE

\* sendPacket: carry out the command and queue the answer, all in one go.
SendPacket(f) ==
  LET g == AsTwinFrame(f)
      s == IF Accepts(f) /\ LooksUp(f.cmd) THEN Effect(Current, f) ELSE station
  IN
    /\ Len(queue) < MaxQueue
    /\ station' = s
    /\ twin' = Twin!After(twin, g)
    /\ legal' = (legal /\ Twin!Allowed(twin, g.cmd))
    /\ queue' = IF Unanswered(f) THEN queue
                ELSE Append(queue, [answer |-> AnswerTo(f, s),
                                    expected |-> Twin!Answer(twin, g),
                                    legal |-> legal'])

\* pumpPackets: the task takes an answer and dispatches it.
PumpPackets ==
  /\ queue # <<>>
  /\ queue' = Tail(queue)
  /\ UNCHANGED <<station, twin, legal>>

Next == PumpPackets \/ \E f \in Frame : SendPacket(f)

Spec == Init /\ [][Next]_vars

-----------------------------------------------------------------------------
(* Properties *)

\* Every variable holds values of its kind (standaloneServer.py:28-36).
TypeOK ==
  /\ station \in Twin!Device \cup {NoStation}
  /\ twin \in Twin!Device
  /\ legal \in BOOLEAN
  /\ Len(queue) <= MaxQueue
  /\ \A i \in 1 .. Len(queue) :
       queue[i].answer.kind \in {"SUCCESS", "STATE_RESPONSE", "INVALID_DATA_RECEIVED",
                                 "DIAGNOSTIC_DESCRIPTION_RESPONSE"}

\* Two EREBs that show the same: the ids of a station that has been stopped are
\* left over in standalone mode.
Same(d, e) ==
  /\ d.state = e.state
  /\ d.configmode = e.configmode
  /\ d.state # "READY" => d = e

\* Both of the repository's EREBs go through the same states as long as no
\* command is sent in a wrong state - also when frames of a wrong length are
\* sent, which one answers with an error and the other ignores
\* (standaloneServer.py:133-318, run_simulate_ereb.py:71-217).
MimicsEreb == legal => Same(Current, twin)

\* ... and a caller that is answered in standalone mode gets the kind of answer
\* the other EREB would have given: a success that names the same ids or flag, the
\* same state - up to the error for a wrong length.  What a diagnostic description
\* says is excepted: here it is a filler, there it names the ids
\* (standaloneServer.py:81-91, 175-315).
AnswersLikeEreb ==
  \A i \in 1 .. Len(queue) :
    LET a == queue[i].answer
        e == queue[i].expected
    IN
      queue[i].legal /\ a.kind # "INVALID_DATA_RECEIVED" =>
        /\ a.kind = e.kind
        /\ a.kind = "SUCCESS" => a.msg = e.msg
        /\ a.kind = "STATE_RESPONSE" => Same(a.ereb, e.ereb)
=============================================================================
