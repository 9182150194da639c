------------------------------ MODULE RunBatch ------------------------------
(***************************************************************************)
(* The batch tool (r3erci/cli/run_batch.py): main reads a file with one    *)
(* device per line, makes a coroutine with an ErciClient of its own for    *)
(* every line it keeps, and gathers them: they run to their first          *)
(* suspension one after the other, each with its query sent, before the    *)
(* event loop looks at the network or at a timer.                          *)
(*                                                                         *)
(* Here Callers are the lines of the file, ClientOf and Targets give each  *)
(* of them a client and a device of its own; two lines may name the same   *)
(* device.  The order of the lines makes no difference to what is modelled *)
(* and is left open.  Every client sends one query, and each of them       *)
(* numbers it 1.                                                           *)
(***************************************************************************)
EXTENDS ErciQuery

\* Line by line: the address of a device, a name that resolves to one, or what
\* main does not keep (an empty line, a comment, a name that does not resolve).
LineKinds == {"address", "name", "other"}

ASSUME BatchAssumption ==
  /\ \A t, u \in Callers : ClientOf[t] = ClientOf[u] => t = u
  /\ \A c \in Clients : \E a \in Addresses : Targets[c] = {a}
  /\ MaxQueries >= 1

VARIABLES
  file,   \* line |-> its kind; never changes
  job,    \* line |-> the state of the coroutine exec made for it
  main    \* the state of the main program

batchVars == <<vars, file, job, main>>

JobStates == {"unread", "skipped", "queued", "running", "reported", "crashed"}

Become(t, state) == job' = [job EXCEPT ![t] = state]

BatchInit ==
  /\ Init
  /\ file \in [Callers -> LineKinds]
  /\ job = [t \in Callers |-> "unread"]
  /\ main = "reading"

\* Mutant: the handler of a name that does not resolve lacks its "continue".
ReadFileKeepsAll ==
  /\ main = "reading"
  /\ main' = "starting"
  /\ job' = [t \in Callers |-> "queued"]
  /\ UNCHANGED <<vars, file>>

\* main reads the file, and async_main makes the coroutines.
ReadFile ==
  /\ main = "reading"
  /\ main' = "starting"
  /\ job' = [t \in Callers |-> IF file[t] = "other" THEN "skipped" ELSE "queued"]
  /\ UNCHANGED <<vars, file>>

\* exec catches ValueError and ErciException around send_command only: an
\* OSError of sendto, and whatever the constructor raises outside of the try,
\* end the coroutine.
Start(t) ==
  /\ main = "starting" /\ job[t] = "queued"
  /\ \/ /\ file[t] = "address"
        /\ \E a \in Targets[ClientOf[t]] : Send(t, a)
        /\ Become(t, "running")
     \/ /\ file[t] = "address"
        /\ \E a \in Targets[ClientOf[t]] : SendFails(t, a)
        /\ Become(t, "crashed")
     \/ /\ file[t] = "name"   \* main appends the name, not what it resolved to
        /\ RejectArguments(t)
        /\ Become(t, "reported")
     \/ UNCHANGED vars /\ Become(t, "crashed")
  /\ UNCHANGED <<file, main>>

\* Every coroutine has run once: the event loop takes over.
Started ==
  /\ main = "starting"
  /\ \A t \in Callers : job[t] # "queued"
  /\ main' = "waiting"
  /\ UNCHANGED <<vars, file, job>>

Expire(t) ==
  /\ main = "waiting"
  /\ TimerFires(t)
  /\ UNCHANGED <<file, job, main>>

\* send_command returns or raises, and exec reports it.  Of the exceptions of
\* _handle_response one kind is not caught: the IndexError or struct.error of a
\* GET_CSI_RESPONSE that is too short, one of the bodies "badBody" stands for.
Report(t) ==
  /\ main = "waiting"
  /\ Return(t) \/ RaiseTimeout(t)
  /\ \/ Become(t, "reported")
     \/ /\ pc[t] = "answered" /\ response[t].kind = "badBody"
        /\ Verdict(response[t], seqno[ClientOf[t]]) = "error"
        /\ Become(t, "crashed")
  /\ UNCHANGED <<file, main>>

Deliver(p) ==
  /\ main = "waiting"
  /\ Dispatch(p)
  /\ UNCHANGED <<file, job, main>>

Crashed == \E t \in Callers : job[t] = "crashed"

\* Mutant: a coroutine that ends with an exception ends the program at once.
CrashAtOnce ==
  /\ main \in {"starting", "waiting"}
  /\ Crashed
  /\ main' = "raised"
  /\ UNCHANGED <<vars, file, job>>

\* gather raises the exception of the first coroutine that ended with one, in
\* a later turn of the event loop; the program ends with the others unreported.
Crash ==
  /\ main = "waiting"
  /\ Crashed
  /\ main' = "raised"
  /\ UNCHANGED <<vars, file, job>>

\* Mutant: the program does not wait for coroutines that run.
FinishEarly ==
  /\ main = "waiting"
  /\ \A t \in Callers : job[t] \in {"skipped", "reported", "running"}
  /\ main' = "done"
  /\ UNCHANGED <<vars, file, job>>

Finish ==
  /\ main = "waiting"
  /\ \A t \in Callers : job[t] \in {"skipped", "reported"}
  /\ main' = "done"
  /\ UNCHANGED <<vars, file, job>>

\* Devices do not know about the program.
DeviceHandles(q) == Handle(q) /\ UNCHANGED <<file, job, main>>

BatchNext ==
  \/ ReadFile \/ Started \/ Crash \/ Finish
  \/ \E t \in Callers : Start(t) \/ Expire(t) \/ Report(t)
  \/ \E p \in answers : Deliver(p)
  \/ \E q \in requests : DeviceHandles(q)

\* As for ErciQuery: the event loop runs what is ready and a timer that is due.
BatchFairness ==
  /\ WF_batchVars(ReadFile) /\ WF_batchVars(Started)
  /\ WF_batchVars(Crash) /\ WF_batchVars(Finish)
  /\ \A t \in Callers :
       WF_batchVars(Start(t)) /\ WF_batchVars(Expire(t)) /\ WF_batchVars(Report(t))

BatchSpec == BatchInit /\ [][BatchNext]_batchVars /\ BatchFairness

-----------------------------------------------------------------------------
(* Properties *)

\* Every variable of the tool holds values of its kind, and file, coroutines and
\* engine agree: a line has a coroutine exactly if main keeps it, whose client has
\* a call in flight exactly while the coroutine runs - none is left behind by one
\* that has reported or crashed (run_batch.py:20-66).
BatchTypeOK ==
  /\ file \in [Callers -> LineKinds]
  /\ job \in [Callers -> JobStates]
  /\ main \in {"reading", "starting", "waiting", "raised", "done"}
  /\ main # "reading" => \A t \in Callers : job[t] = "skipped" <=> file[t] = "other"
  /\ \A t \in Callers : InFlight(t) <=> job[t] = "running"

\* Once the coroutines have been started, and also when one of them ended the
\* program: the command has been sent to the address of every line, except
\* where that line's own client could not be made or could not send
\* (run_batch.py:30-34).
EveryDeviceCommanded ==
  main \in {"waiting", "raised", "done"} =>
    \A t \in Callers :
      file[t] = "address" =>
        \/ \E q \in requests : q.client = ClientOf[t] /\ q.addr \in Targets[ClientOf[t]]
        \/ job[t] = "crashed" /\ outcome[t].kind \in {"none", "oserror"}

\* The program ends normally only with the outcome of every line it kept
\* reported, and a success it reports is the word of the line's own device,
\* which has carried out a command of this program (run_batch.py:20-34).
DoneMeansAllReported ==
  main = "done" =>
    \A t \in Callers :
      file[t] = "address" =>
        /\ outcome[t].kind \in Kinds \cup {"timeout", "error", "mismatch"}
        /\ outcome[t].kind = "success" =>
             \E q \in performed : q.addr \in Targets[ClientOf[t]]

\* The program ends, whatever devices and network do (run_batch.py:64-66).
BatchEnds == <>(main \in {"raised", "done"})
=============================================================================
