-------------------------------- MODULE Ereb -------------------------------
(***************************************************************************)
(* The EREB as cli/run_simulate_ereb.py plays it: one loop receives a      *)
(* frame, moves the state machine and answers the sender before it looks   *)
(* at the next frame.  Any number of controllers may send to it, in any    *)
(* order; nothing ties a frame to the answer before it.                    *)
(***************************************************************************)
EXTENDS Naturals

CONSTANT Ids   \* the config, ring and antenna ids controllers send

\* ErciClient.send_command admits 1..255 only.
ASSUME IdsAssumption == Ids \subseteq 1 .. 255

VARIABLES
  ereb,    \* the attributes of SimulateEreb
  reply,   \* what it sent for the last frame
  alive    \* the process runs

erebVars == <<ereb, reply, alive>>

States == {"READY", "CONFIGURED", "RUNNING"}

\* Commands that are answered and change nothing.
Harmless == {"REBOOT", "DIAGNOSTIC_DESCRIPTION_QUERY", "GET_CSI_QUERY"}

\* Frames.  "unknown" has a command byte outside ErciCmd; "dropped" stands for
\* short frames, wrong lengths, INVALID, the types only a device sends and
\* PASSPORT_QUERY.
Commands == {"SELECT_CONFIG", "SWITCH_RING", "SWITCH_ANTENNA", "START", "STOP",
             "STATE_QUERY", "SET_CONFIGMODE", "dropped", "unknown"} \cup Harmless

Frame == [cmd : Commands, config : Ids, ring : Ids, antenna : Ids, flag : {0, 1}]

\* The id fields that say nothing (ErciInvalid).
NoId == 0

Device == [state : States, config : Ids \cup {NoId}, ring : Ids \cup {NoId},
           antenna : Ids \cup {NoId}, configmode : {0, 1}]

\* Mutant: it starts in the protocol's state STARTUP, and nothing leaves that.
PowerOnStartup == [state |-> "STARTUP", config |-> NoId, ring |-> NoId,
                   antenna |-> NoId, configmode |-> 0]

\* SimulateEreb.__init__.
PowerOn == [state |-> "READY", config |-> NoId, ring |-> NoId, antenna |-> NoId,
            configmode |-> 0]

\* Mutant: the configuration may be selected in any state.
AllowedAnySelect(d, cmd) ==
  CASE cmd = "START" -> d.state = "CONFIGURED"
    [] cmd \in {"STOP", "SWITCH_RING", "SWITCH_ANTENNA"} -> d.state = "RUNNING"
    [] OTHER -> TRUE

\* The states in which the commands that depend on one are accepted.
Allowed(d, cmd) ==
  CASE cmd = "SELECT_CONFIG" -> d.state \in {"READY", "CONFIGURED"}
    [] cmd = "START" -> d.state = "CONFIGURED"
    [] cmd \in {"STOP", "SWITCH_RING", "SWITCH_ANTENNA"} -> d.state = "RUNNING"
    [] OTHER -> TRUE

\* The effect of an accepted frame.
Applied(d, f) ==
  CASE f.cmd = "SELECT_CONFIG" ->
         [d EXCEPT !.state = "CONFIGURED", !.config = f.config, !.ring = f.ring,
                   !.antenna = f.antenna]
    [] f.cmd = "SWITCH_RING" -> [d EXCEPT !.ring = f.ring, !.antenna = f.antenna]
    [] f.cmd = "SWITCH_ANTENNA" -> [d EXCEPT !.antenna = f.antenna]
    [] f.cmd = "START" -> [d EXCEPT !.state = "RUNNING"]
    [] f.cmd = "STOP" -> [d EXCEPT !.state = "READY", !.config = NoId,
                                   !.ring = NoId, !.antenna = NoId]
    [] f.cmd = "SET_CONFIGMODE" -> [d EXCEPT !.configmode = f.flag]
    [] OTHER -> d

\* Mutant: a frame in the wrong state is refused and carried out all the same.
AfterAnyState(d, f) == Applied(d, f)

After(d, f) == IF Allowed(d, f.cmd) THEN Applied(d, f) ELSE d

\* The numbers that the message of a SUCCESS names, from the device as it then
\* is; the words between them depend on the command alone.
StatusMsg(d, cmd) ==
  CASE cmd = "SELECT_CONFIG" -> <<d.config, d.ring, d.antenna>>
    [] cmd = "SWITCH_RING" -> <<d.ring, d.antenna>>
    [] cmd = "SWITCH_ANTENNA" -> <<d.antenna>>
    [] cmd = "SET_CONFIGMODE" -> <<d.configmode>>
    [] OTHER -> <<>>

\* The answer: a COMMAND_RESULT, the state, a description that names ids and flag,
\* an invented CSI table, or nothing.
Answer(d, f) ==
  CASE f.cmd \in {"dropped", "unknown"} -> [kind |-> "none"]
    [] f.cmd = "STATE_QUERY" -> [kind |-> "STATE_RESPONSE", ereb |-> d]
    [] f.cmd = "DIAGNOSTIC_DESCRIPTION_QUERY" ->
         [kind |-> "DIAGNOSTIC_DESCRIPTION_RESPONSE",
          msg |-> <<d.config, d.ring, d.antenna, d.configmode>>]
    [] f.cmd = "GET_CSI_QUERY" -> [kind |-> "GET_CSI_RESPONSE"]
    [] OTHER -> IF Allowed(d, f.cmd)
                  THEN [kind |-> "SUCCESS", msg |-> StatusMsg(After(d, f), f.cmd)]
                  ELSE [kind |-> "WRONG_STATE", msg |-> d.state]

Init == ereb = PowerOn /\ reply = [kind |-> "none"] /\ alive = TRUE

\* One turn of the loop.  str(ErciCmd(cmd)) in the log line raises for an unknown
\* command byte, and the process ends.
Receive(f) ==
  /\ alive
  /\ ereb' = After(ereb, f)
  /\ reply' = Answer(ereb, f)
  /\ alive' = (f.cmd # "unknown")

Next == \E f \in Frame : Receive(f)

Spec == Init /\ [][Next]_erebVars

-----------------------------------------------------------------------------
(* Properties *)

\* Every variable holds values of its kind (run_simulate_ereb.py:25-33).
TypeOK ==
  /\ ereb \in Device
  /\ reply.kind \in {"none", "SUCCESS", "WRONG_STATE", "STATE_RESPONSE",
                     "DIAGNOSTIC_DESCRIPTION_RESPONSE", "GET_CSI_RESPONSE"}
  /\ alive \in BOOLEAN

\* The ids say what is loaded: all of them in CONFIGURED and RUNNING, none in
\* READY, however controllers interleave selecting, starting, switching and
\* stopping (run_simulate_ereb.py:96-159, 192-206).
IdsFollowState ==
  /\ ereb.state = "READY" => {ereb.config, ereb.ring, ereb.antenna} = {NoId}
  /\ ereb.state # "READY" => NoId \notin {ereb.config, ereb.ring, ereb.antenna}

\* A running ring keeps its configuration until it is stopped, and a ring that
\* starts runs the ids it was configured with: no frame of a second controller
\* replaces them in between (run_simulate_ereb.py:96-159).
ConfigFixedWhileRunning ==
  [][/\ ereb.state = "RUNNING" /\ ereb'.state # "READY"
          => ereb'.state = "RUNNING" /\ ereb'.config = ereb.config
     /\ ereb.state # "RUNNING" /\ ereb'.state = "RUNNING"
          => ereb.state = "CONFIGURED" /\ ereb' = [ereb EXCEPT !.state = "RUNNING"]]_erebVars
=============================================================================
