------------------------------ MODULE ErciCall ------------------------------
(***************************************************************************)
(* What ErciClient.send_command promises, without network, sequence        *)
(* numbers, subscriptions or locks: a caller opens at most one call, a     *)
(* client has at most one open call, the device may perform a call once it *)
(* has been opened - also after the caller gave up - and a call that ends  *)
(* with the device's word on it ("success" or "failure") was performed.    *)
(***************************************************************************)
EXTENDS Naturals

CONSTANTS Callers,        \* coroutines that call send_command
          Clients,        \* instances of ErciClient
          ClientOf        \* the client each caller uses

VARIABLES open,           \* caller |-> the number of its open call, 0 when none
          issued,         \* client |-> number of calls opened so far
          performed,      \* calls <<client, number>> a device has carried out
          result          \* caller |-> how its last call ended

vars == <<open, issued, performed, result>>

\* The word of the device on a call.
DeviceResults == {"success", "failure"}

\* A call may also end without it.
OtherResults == {"error", "timeout"}

CallOf(t) == <<ClientOf[t], open[t]>>

Busy(c) == \E t \in Callers : ClientOf[t] = c /\ open[t] # 0

Init == /\ open = [t \in Callers |-> 0]
        /\ issued = [c \in Clients |-> 0]
        /\ performed = {}
        /\ result = [t \in Callers |-> "none"]

\* A caller opens the next call of a client that has none open.
Open(t) ==
  LET c == ClientOf[t] IN
    /\ ~Busy(c)
    /\ issued' = [issued EXCEPT ![c] = @ + 1]
    /\ open' = [open EXCEPT ![t] = issued[c] + 1]
    /\ UNCHANGED <<performed, result>>

\* The packet of a call cannot be sent: the call was never really open.
OpenFails(t) ==
  LET c == ClientOf[t] IN
    /\ ~Busy(c)
    /\ issued' = [issued EXCEPT ![c] = @ + 1]
    /\ result' = [result EXCEPT ![t] = "error"]
    /\ UNCHANGED <<open, performed>>

\* The caller is turned away: its client is busy, or its arguments are bad.
Refuse(t) ==
  /\ open[t] = 0
  /\ result' = [result EXCEPT ![t] = "refused"]
  /\ UNCHANGED <<open, issued, performed>>

\* The device carries out a call, now or long after it was closed.
Perform(c, n) ==
  /\ n \in 1 .. issued[c]
  /\ performed' = performed \cup {<<c, n>>}
  /\ UNCHANGED <<open, issued, result>>

Close(t) ==
  /\ open[t] # 0
  /\ \/ /\ CallOf(t) \in performed
        /\ \E r \in DeviceResults : result' = [result EXCEPT ![t] = r]
     \/ \E r \in OtherResults : result' = [result EXCEPT ![t] = r]
  /\ open' = [open EXCEPT ![t] = 0]
  /\ UNCHANGED <<issued, performed>>

Next ==
  \/ \E t \in Callers : Open(t) \/ OpenFails(t) \/ Refuse(t) \/ Close(t)
  \/ \E c \in Clients : \E n \in 1 .. issued[c] : Perform(c, n)

Spec == Init /\ [][Next]_vars
=============================================================================
