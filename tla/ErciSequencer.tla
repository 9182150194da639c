---------------------------- MODULE ErciSequencer ---------------------------
(***************************************************************************)
(* The start of cli/run_sequencer.py: ask for the state until the device   *)
(* answers, then decide whether to go on.  What follows line 46 is not     *)
(* modelled: the first of these decisions never lets the program get there.*)
(***************************************************************************)
EXTENDS Naturals

CONSTANT MaxPolls   \* bound: queries sent while the device is offline

VARIABLES address,  \* what the command line names the device by
          polls,    \* STATE_QUERYs sent
          msg,      \* the message send_command returned
          ending    \* why run() ended, "none" while it runs

vars == <<address, polls, msg, ending>>

\* A member of an enumeration (ErciCmd, ErciState are IntEnums) and a string are
\* different values in Python, and so they are here.
Member(enum, name) == [enum |-> enum, name |-> name]
Str(name) == [str |-> name]

NoMessage == [type |-> Str("None")]

\* What _handle_response returns: "type" and "state" hold members.
StateResponse(s) == [type |-> Member("ErciCmd", "STATE_RESPONSE"),
                     state |-> Member("ErciState", s)]
CommandResult == [type |-> Member("ErciCmd", "COMMAND_RESULT")]

DeviceAnswers == {StateResponse(s) : s \in {"STARTUP", "READY", "RUNNING", "FAULT"}}
                   \cup {CommandResult}

Init == /\ address \in {"ip", "fqdn"}
        /\ polls = 0 /\ msg = NoMessage /\ ending = "none"

Running == ending = "none" /\ msg = NoMessage

\* ip_address(address) raises ValueError before anything is sent.
Reject == /\ Running /\ address = "fqdn"
          /\ ending' = "ValueError"
          /\ UNCHANGED <<address, polls, msg>>

\* STATE_QUERY: asked again after a TimeoutError, given up on a ResponseError.
Poll == /\ Running /\ address = "ip" /\ polls < MaxPolls
        /\ polls' = polls + 1
        /\ \/ UNCHANGED <<msg, ending>>
           \/ ending' = "ResponseError" /\ UNCHANGED msg
           \/ msg' \in DeviceAnswers /\ UNCHANGED ending
        /\ UNCHANGED address

\* Lines 37 to 46.
Decide == /\ ending = "none" /\ msg # NoMessage
          /\ ending' = CASE msg.type # Str("STATE_RESPONSE") -> "noStateResponse"
                         [] msg.type = Str("STATE_RESPONSE")
                            /\ msg.state = Str("FAULT") -> "fault"
                         [] OTHER -> "goesOn"
          /\ UNCHANGED <<address, polls, msg>>

Next == Reject \/ Poll \/ Decide

Spec == Init /\ [][Next]_vars

-----------------------------------------------------------------------------
(* What the program's texts say of it *)

\* "device did not return a STATE_RESPONSE !" is printed for a device that did
\* not (run_sequencer.py:37-42).
ExitReasonIsTrue ==
  ending = "noStateResponse" => msg.type # Member("ErciCmd", "STATE_RESPONSE")

=============================================================================
