------------------------------ MODULE Listener -----------------------------
(***************************************************************************)
(* listener_ip1.py (listener_ip2.py differs in the address): for every     *)
(* MQTT message "echoOn" or "echoOff" it runs the process "r3erci <ip>     *)
(* ring 2|1 1", waits for it to exit, and publishes an acknowledgement     *)
(* that it derives from the text the process printed.  Other controllers   *)
(* may select, start and stop the ring of the same EREB meanwhile.         *)
(*                                                                         *)
(* Every process is a new ErciClient, whose first and only query has       *)
(* sequence number 1: on the wire the queries of two processes differ in   *)
(* nothing.  On a "prompt" network a datagram is lost or arrives while its *)
(* process runs; on a "late" one a query may reach the device, and an      *)
(* answer the listener's host, when a later process runs, or none.         *)
(***************************************************************************)
EXTENDS Naturals, Sequences

CONSTANTS
  MaxMessages,   \* bound: messages published
  Networks,      \* the networks looked at: "prompt", "late"
  Malformed      \* may the EREB answer with a frame _handle_response refuses

ASSUME ListenerAssumption ==
  /\ MaxMessages \in Nat
  /\ Networks \subseteq {"prompt", "late"}
  /\ Malformed \in BOOLEAN

VARIABLES
  network,    \* which of the networks connects host and EREB
  running,    \* does loop_forever still run
  payload,    \* message number |-> its payload, "none" before it is published
  inbox,      \* numbers of the messages not taken yet
  current,    \* the message whose process runs, 0 when none does
  status,     \* of the process: waiting, answered, expired
  response,   \* the kind of answer the process accepted last
  wire,       \* messages whose SWITCH_RING is under way
  answers,    \* answers under way: <<message, kind>>
  ereb,       \* the device
  performed,  \* messages whose command the device accepted (history)
  heard,      \* messages whose process received an answer while it waited (history)
  interfered, \* another controller has acted on the EREB (history)
  acks        \* message number |-> what was published on /ack for it

mqtt == <<running, payload, inbox>>
process == <<current, status, response>>
vars == <<network, mqtt, process, wire, answers, ereb, performed, heard, interfered, acks>>

Messages == 1 .. MaxMessages
\* "junk" is some other text, "binary" what is not UTF-8.
Payloads == {"echoOn", "echoOff", "junk", "binary"}
AckKinds == {"none", "changed", "noResponse", "output", "executionFailed"}

\* The rings the listener switches between.
RingOf(p) == IF p = "echoOn" THEN 2 ELSE 1

Device == INSTANCE Ereb WITH Ids <- {1, 2}, reply <- [kind |-> "none"], alive <- TRUE

SwitchRing(p) == [cmd |-> "SWITCH_RING", config |-> 1, ring |-> RingOf(p),
                  antenna |-> 1, flag |-> 0]

Published == {n \in Messages : payload[n] # "none"}

Init ==
  /\ network \in Networks
  /\ running = TRUE
  /\ payload = [n \in Messages |-> "none"]
  /\ inbox = <<>>
  /\ current = 0 /\ status = "none" /\ response = "none"
  /\ wire = {} /\ answers = {}
  /\ ereb \in {Device!PowerOn,
               [Device!PowerOn EXCEPT !.state = "RUNNING", !.config = 1,
                                      !.ring = 1, !.antenna = 1]}
  /\ performed = {} /\ heard = {} /\ interfered = FALSE
  /\ acks = [n \in Messages |-> "none"]

\* The MQTT client queues messages in the order of their arrival.
Publish(n, p) ==
  /\ n \notin Published /\ \A m \in 1 .. (n - 1) : m \in Published
  /\ payload' = [payload EXCEPT ![n] = p]
  /\ inbox' = Append(inbox, n)
  /\ UNCHANGED <<network, running, process, wire, answers, ereb, performed, heard,
                 interfered, acks>>

\* on_message, up to the start of the process.  loop_forever calls it for one
\* message at a time.  Its decode of a payload that is not UTF-8 raises, which
\* nothing catches: loop_forever ends.
Take ==
  LET n == Head(inbox) IN
    /\ running /\ current = 0
    /\ inbox # <<>>
    /\ inbox' = Tail(inbox)
    /\ running' = (payload[n] # "binary")
    /\ \/ /\ payload[n] \in {"junk", "binary"}
          /\ UNCHANGED <<process, wire, acks>>
       \/ /\ payload[n] \in {"echoOn", "echoOff"}
          /\ current' = n /\ status' = "waiting" /\ response' = "none"
          /\ wire' = wire \cup {n}
          /\ UNCHANGED acks
       \/ (* the process exits with an error before it has sent anything *)
          /\ payload[n] \in {"echoOn", "echoOff"}
          /\ acks' = [acks EXCEPT ![n] = "executionFailed"]
          /\ UNCHANGED <<process, wire>>
    /\ UNCHANGED <<network, payload, answers, ereb, performed, heard, interfered>>

InTime(n) == network = "late" \/ n = current

\* What the EREB may send for an answer: its verdict; a frame that fails a test
\* of _handle_response ("malformed"); or a GET_CSI_RESPONSE cut short, over which
\* the process crashes ("unpackable").
Answers(verdict) ==
  {verdict} \cup (IF Malformed THEN {"malformed", "unpackable"} ELSE {})

\* The EREB receives the command of a message and answers it; the answer may be
\* lost.
Perform(n) ==
  LET f == SwitchRing(payload[n])
      verdict == Device!Answer(ereb, f).kind
  IN
    /\ InTime(n)
    /\ wire' = wire \ {n}
    /\ ereb' = Device!After(ereb, f)
    /\ performed' = performed \cup (IF verdict = "SUCCESS" THEN {n} ELSE {})
    /\ \/ \E k \in Answers(verdict) : answers' = answers \cup {<<n, k>>}
       \/ UNCHANGED answers
    /\ UNCHANGED <<network, mqtt, process, heard, interfered, acks>>

\* An answer arrives: at the process that has the port, whichever that is.
Deliver(a) ==
  /\ InTime(a[1])
  /\ answers' = answers \ {a}
  /\ IF current # 0
       THEN /\ response' = a[2]
            /\ status' = IF status = "waiting" THEN "answered" ELSE status
            /\ heard' = IF status = "waiting" THEN heard \cup {current} ELSE heard
       ELSE UNCHANGED <<response, status, heard>>
  /\ UNCHANGED <<network, mqtt, current, wire, ereb, performed, interfered, acks>>

TimerFires ==
  /\ status = "waiting"
  /\ status' = "expired"
  /\ UNCHANGED <<network, mqtt, current, response, wire, answers, ereb, performed, heard,
                 interfered, acks>>

\* Mutant: whatever the EREB answers counts as a success.
AckAnyAnswer(s, r) ==
  CASE s = "answered" /\ r \notin {"malformed", "unpackable"} -> "changed"
    [] OTHER -> "noResponse"

\* Mutant: nothing is published when the process runs into its timer.
AckSilentTimeout(s, r) ==
  CASE s = "answered" /\ r = "SUCCESS" -> "changed"
    [] s = "expired" -> "none"
    [] OTHER -> "output"

\* Mutant: the word of the device is published as it is.
AckPayload(s, r) == IF s = "answered" THEN r ELSE "noResponse"

\* Mutant: the output is not turned to lower case, and "Raised error" not found.
AckCaseSensitive(s, r) ==
  CASE s = "answered" /\ r = "SUCCESS" -> "changed"
    [] OTHER -> "output"

\* The acknowledgement: "SUCCESS" in the output; "raised error" in it, which
\* r3erci prints for a TimeoutError and for a ResponseError alike; that of an
\* exit status; or the output itself.
AckOf(s, r) ==
  CASE s = "answered" /\ r = "SUCCESS" -> "changed"
    [] s = "expired" \/ r = "malformed" -> "noResponse"
    [] s = "answered" /\ r = "unpackable" -> "executionFailed"
    [] OTHER -> "output"

\* on_message publishes an acknowledgement once the process has exited.
Exit(kind) ==
  /\ acks' = [acks EXCEPT ![current] = kind]
  /\ current' = 0 /\ status' = "none" /\ response' = "none"
  /\ wire' = {n \in wire : network = "late"}
  /\ answers' = {a \in answers : network = "late"}
  /\ UNCHANGED <<network, mqtt, ereb, performed, heard, interfered>>

Acknowledge == status \in {"answered", "expired"} /\ Exit(AckOf(status, response))

\* The process is killed, before or after it has an answer.
Fail == current # 0 /\ Exit("executionFailed")

\* Another controller.
Control ==
  /\ interfered' = TRUE
  /\ \E cmd \in {"SELECT_CONFIG", "START", "STOP"} :
       ereb' = Device!After(ereb, [cmd |-> cmd, config |-> 1, ring |-> 1,
                                   antenna |-> 1, flag |-> 0])
  /\ UNCHANGED <<network, mqtt, process, wire, answers, performed, heard, acks>>

Next ==
  \/ \E n \in Messages, p \in Payloads : Publish(n, p)
  \/ Take
  \/ \E n \in wire : Perform(n)
  \/ \E a \in answers : Deliver(a)
  \/ TimerFires
  \/ Acknowledge
  \/ Fail
  \/ Control

\* The listener takes messages as they come; a process ends by its timer at the
\* latest.
Fairness == WF_vars(Take) /\ WF_vars(TimerFires) /\ WF_vars(Acknowledge)

Spec == Init /\ [][Next]_vars /\ Fairness

-----------------------------------------------------------------------------
(* Properties *)

\* Acknowledgements of a process that may have left its command, or the answer
\* to it, on the wire.
GivenUp == {"noResponse", "executionFailed"}

\* Something under way may belong to a message before n, or up to n.
LateBefore(n) ==
  network = "late" /\ \E j \in Messages : j < n /\ acks[j] \in GivenUp

LateUpTo(n) ==
  network = "late" /\ \E j \in Messages : j <= n /\ acks[j] \in GivenUp

\* Every variable holds values of its kind (listener_ip1.py:20-50).
TypeOK ==
  /\ network \in Networks /\ running \in BOOLEAN
  /\ payload \in [Messages -> Payloads \cup {"none"}]
  /\ inbox \in Seq(Published)
  /\ current \in Published \cup {0}
  /\ status \in {"none", "waiting", "answered", "expired"}
  /\ (current = 0) = (status = "none")
  /\ response \in {"none", "SUCCESS", "WRONG_STATE", "malformed", "unpackable"}
  /\ wire \subseteq Published
  /\ answers \subseteq Published \X {"SUCCESS", "WRONG_STATE", "malformed", "unpackable"}
  /\ ereb \in Device!Device
  /\ performed \subseteq Published /\ heard \subseteq Published
  /\ interfered \in BOOLEAN
  /\ acks \in [Messages -> AckKinds]

\* An acknowledgement that something changed is given for a command the EREB
\* accepted - the very command of that message - as long as nothing of an earlier
\* message can come in late (listener_ip1.py:38-39).
ChangedMeansPerformed ==
  \A n \in Messages : acks[n] = "changed" => n \in performed \/ LateBefore(n)

\* Whoever sent the last message and is told that it changed something can rely
\* on the ring, unless another controller has acted, or the command of an earlier
\* message that was given up may come in late (listener_ip1.py:20-50).
RingFollowsLastAck ==
  LET handled == {n \in Published : acks[n] # "none"} IN
    current = 0 /\ ~interfered =>
      \A n \in handled :
        acks[n] = "changed" /\ (\A m \in handled : m <= n) /\ ~LateBefore(n)
          => ereb.ring = RingOf(payload[n])

\* Every message that asks for something is acknowledged, unless an earlier one
\* was not UTF-8 and has ended the listener (listener_ip1.py:20-50).
EveryMessageAcked ==
  \A n \in Messages :
    payload[n] \in {"echoOn", "echoOff"} /\ (\A m \in 1 .. (n - 1) : payload[m] # "binary")
      ~> acks[n] # "none"

\* A command that is carried out after one of a later message is no surprise to
\* whoever reads the acknowledgements: "No response" or "Command execution failed"
\* was published, for its message or for one before it (listener_ip1.py:36-50).
StragglersWereGivenUp ==
  [][\A n \in Messages :
       n \in performed' \ performed =>
         (\A m \in performed : m < n) \/ LateUpTo(n)]_vars

\* The plain wish: "changed" is published for a command the EREB accepted
\* (listener_ip1.py:38-39).
ChangedIsOwn ==
  \A n \in Messages : acks[n] = "changed" => n \in performed

\* "Error: No response from <ip>" is published when no response has reached the
\* process (listener_ip1.py:40-41).
NoResponseMeansSilence ==
  \A n \in Messages : acks[n] = "noResponse" => n \notin heard
=============================================================================
