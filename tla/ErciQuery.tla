------------------------------ MODULE ErciQuery -----------------------------
(***************************************************************************)
(* The query engine of the ERCI client (r3erci/client.py and               *)
(* r3erci/udpServer.py): coroutines call ErciClient.send_command, which    *)
(* numbers the query with one byte, subscribes to the answers of the       *)
(* addressed device, sends a datagram and waits for an answer or for its   *)
(* timer.                                                                  *)
(*                                                                         *)
(* The event loop runs a coroutine to its next suspension, so the steps    *)
(* are: everything send_command does up to wait_for; the dispatch of one   *)
(* datagram to every subscriber; the timer; and what send_command does     *)
(* when wait_for resumes it.                                               *)
(*                                                                         *)
(* The network loses, delays, duplicates and reorders: a datagram once     *)
(* sent stays in requests (answers) and may be taken at any time, any      *)
(* number of times, or never.  Only one thing is assumed of it: an answer  *)
(* is not delivered after MaxSeq + 1 later queries of the same client,     *)
(* when its sequence number may have come round again (see Fresh).         *)
(***************************************************************************)
EXTENDS Naturals, FiniteSets

CONSTANTS
  Callers,     \* coroutines that call send_command
  Clients,     \* instances of ErciClient
  ClientOf,    \* the client each caller uses
  Targets,     \* client |-> the device addresses it queries
  Replies,     \* the kinds of datagrams devices answer with, see Kinds
  MaxSeq,      \* the largest sequence number: 255 in the code
  MaxQueries,  \* bound: the queries of one client
  NoQuery,     \* stands for None
  NoAnswer     \* stands for None

\* What _handle_response makes of a datagram depends on: a wrong RESERVED or
\* VERSION byte; a body with an unknown or forbidden command, a wrong length or
\* an unknown code; a result that reports success or failure; the CSI matrix,
\* for which the method returns nothing.  A datagram under 4 bytes is dropped
\* before it reaches anybody, like a lost one.
Kinds == {"badHeader", "badBody", "success", "failure", "csi"}

Addresses == UNION {Targets[c] : c \in Clients}

ASSUME ConstantsAssumption ==
  /\ ClientOf \in [Callers -> Clients]
  /\ Targets \in [Clients -> SUBSET Addresses]
  /\ Replies \subseteq Kinds
  /\ MaxSeq \in Nat \ {0}
  /\ MaxQueries \in Nat

VARIABLES
  pc,          \* caller |-> where its call is suspended
  seqno,       \* client |-> ErciClient.seqno
  issued,      \* client |-> number of queries so far (history)
  lock,        \* client |-> is its queryLock held
  subscribers, \* UdpServer.subscribers, one list for the whole process
  query,       \* caller |-> the query its call waits for
  response,    \* caller |-> ErciQuery.response
  requests,    \* datagrams sent to devices
  performed,   \* queries a device has carried out (history)
  answers,     \* datagrams sent by devices
  outcome      \* caller |-> how its last call ended

network == <<requests, performed, answers>>
client == <<seqno, issued, lock, subscribers>>
call == <<pc, query, response, outcome>>
vars == <<call, client, network>>

-----------------------------------------------------------------------------
(* Data *)

Seqs == 0 .. MaxSeq

\* A query: its client, its number in the client's history, the device and
\* the byte that stands for the number on the wire.
Query == [client : Clients, n : Nat, addr : Addresses, seq : Seqs]

\* A device echoes the sequence byte and answers from its own address.
Answer == [query : Query, kind : Kinds]

\* How a call ends.  "answered" is the query the accepted datagram was for.
Outcome == [kind : Kinds \cup {"none", "rejected", "locked", "oserror",
                               "timeout", "error", "mismatch"},
            query : Query \cup {NoQuery},
            answered : Query \cup {NoQuery}]

Ended(kind, q, a) == [kind |-> kind, query |-> q, answered |-> a]

\* Mutant: the number is not wrapped.
NextSeqUnwrapped(s) == s + 1

\* self.seqno + 1, and 0 beyond the byte.
NextSeq(s) == IF s + 1 > MaxSeq THEN 0 ELSE s + 1

\* The assumption about the network: at most MaxSeq queries are younger.
Fresh(q) == issued[q.client] - q.n <= MaxSeq

InFlight(t) == pc[t] \in {"waiting", "answered", "expired"}

\* Mutant: the filter compares no addresses.
MatchesAnySender(p, t) == query[t].seq # 0 => p.query.seq = query[t].seq

\* Mutant: the filter compares no numbers.
MatchesAnyNumber(p, t) == p.query.addr = query[t].addr

\* The filter of a subscription: the address always, the sequence byte only if
\* it is not 0 ("seq if seq else None").
Matches(p, t) ==
  /\ p.query.addr = query[t].addr
  /\ query[t].seq # 0 => p.query.seq = query[t].seq

\* Mutant: the number is not looked at again.
VerdictUnnumbered(p, s) == IF p.kind = "badHeader" THEN "error" ELSE p.kind

\* _handle_response, in the order of its tests.
Verdict(p, s) ==
  CASE p.kind = "badHeader" -> "error"
    [] p.kind # "badHeader" /\ p.query.seq # s -> "mismatch"
    [] p.kind = "badBody" /\ p.query.seq = s -> "error"
    [] OTHER -> p.kind

-----------------------------------------------------------------------------
Init ==
  /\ pc = [t \in Callers |-> "idle"]
  /\ seqno = [c \in Clients |-> 0]
  /\ issued = [c \in Clients |-> 0]
  /\ lock = [c \in Clients |-> FALSE]
  /\ subscribers = {}
  /\ query = [t \in Callers |-> NoQuery]
  /\ response = [t \in Callers |-> NoAnswer]
  /\ requests = {}
  /\ performed = {}
  /\ answers = {}
  /\ outcome = [t \in Callers |-> Ended("none", NoQuery, NoQuery)]

\* ip_address, the assertions and the range tests come before the lock.
RejectArguments(t) ==
  /\ pc[t] = "idle"
  /\ outcome' = [outcome EXCEPT ![t] = Ended("rejected", NoQuery, NoQuery)]
  /\ UNCHANGED <<pc, query, response, client, network>>

\* Another query of this client is active: ResourceLocked.
Refuse(t) ==
  /\ pc[t] = "idle"
  /\ lock[ClientOf[t]]
  /\ outcome' = [outcome EXCEPT ![t] = Ended("locked", NoQuery, NoQuery)]
  /\ UNCHANGED <<pc, query, response, client, network>>

\* Mutant: the number is taken before the lock is looked at.
TakesNumberUnlocked(t) ==
  LET c == ClientOf[t] IN
    /\ pc[t] = "idle"
    /\ issued[c] < MaxQueries
    /\ seqno' = [seqno EXCEPT ![c] = NextSeq(@)]
    /\ issued' = [issued EXCEPT ![c] = @ + 1]

\* _create_msg under the lock takes the next sequence number.
TakesNumber(t) ==
  LET c == ClientOf[t] IN
    /\ pc[t] = "idle"
    /\ ~lock[c]
    /\ issued[c] < MaxQueries
    /\ seqno' = [seqno EXCEPT ![c] = NextSeq(@)]
    /\ issued' = [issued EXCEPT ![c] = @ + 1]

NewQuery(t, a) ==
  LET c == ClientOf[t] IN
    [client |-> c, n |-> issued[c] + 1, addr |-> a, seq |-> NextSeq(seqno[c])]

\* The lock is free: acquire it, subscribe, send, wait.
Send(t, a) ==
  /\ TakesNumber(t)
  /\ lock' = [lock EXCEPT ![ClientOf[t]] = TRUE]
  /\ subscribers' = subscribers \cup {t}
  /\ query' = [query EXCEPT ![t] = NewQuery(t, a)]
  /\ response' = [response EXCEPT ![t] = NoAnswer]
  /\ requests' = requests \cup {NewQuery(t, a)}
  /\ pc' = [pc EXCEPT ![t] = "waiting"]
  /\ UNCHANGED <<performed, answers, outcome>>

\* sendto raises: the subscription and the lock are given back, the number is
\* not.
SendFails(t, a) ==
  /\ TakesNumber(t)
  /\ outcome' = [outcome EXCEPT ![t] = Ended("oserror", NewQuery(t, a), NoQuery)]
  /\ UNCHANGED <<pc, lock, subscribers, query, response, network>>

\* A device receives a query, carries it out and may answer it.
Handle(q) ==
  /\ performed' = performed \cup {q}
  /\ \/ UNCHANGED answers
     \/ \E k \in Replies : answers' = answers \cup {[query |-> q, kind |-> k]}
  /\ UNCHANGED <<call, client, requests>>

\* One datagram is given to every subscription it passes the filter of.  A
\* later one overwrites the response of a call that has not resumed yet.
Dispatch(p) ==
  /\ Fresh(p.query)
  /\ response' = [t \in Callers |-> IF t \in subscribers /\ Matches(p, t)
                                      THEN p ELSE response[t]]
  /\ pc' = [t \in Callers |->
              IF t \in subscribers /\ Matches(p, t) /\ pc[t] = "waiting"
                THEN "answered" ELSE pc[t]]
  /\ UNCHANGED <<query, outcome, client, network>>

\* Mutant: the event is awaited without a timeout.
TimerNeverFires(t) == FALSE

\* The timer of wait_for: from here on the call times out, whatever arrives.
TimerFires(t) ==
  /\ pc[t] = "waiting"
  /\ pc' = [pc EXCEPT ![t] = "expired"]
  /\ UNCHANGED <<query, response, outcome, client, network>>

\* Mutant: the subscription outlives the call.
LeaveSubscribed(t) ==
  /\ pc' = [pc EXCEPT ![t] = "idle"]
  /\ lock' = [lock EXCEPT ![ClientOf[t]] = FALSE]
  /\ query' = [query EXCEPT ![t] = NoQuery]
  /\ response' = [response EXCEPT ![t] = NoAnswer]
  /\ UNCHANGED <<subscribers, seqno, issued, network>>

\* The call leaves the subscription's context and the lock.
Leave(t) ==
  /\ pc' = [pc EXCEPT ![t] = "idle"]
  /\ subscribers' = subscribers \ {t}
  /\ lock' = [lock EXCEPT ![ClientOf[t]] = FALSE]
  /\ query' = [query EXCEPT ![t] = NoQuery]
  /\ response' = [response EXCEPT ![t] = NoAnswer]
  /\ UNCHANGED <<seqno, issued, network>>

Return(t) ==
  /\ pc[t] = "answered"
  /\ outcome' = [outcome EXCEPT ![t] =
                   Ended(Verdict(response[t], seqno[ClientOf[t]]),
                         query[t], response[t].query)]
  /\ Leave(t)

RaiseTimeout(t) ==
  /\ pc[t] = "expired"
  /\ outcome' = [outcome EXCEPT ![t] = Ended("timeout", query[t], NoQuery)]
  /\ Leave(t)

Next ==
  \/ \E t \in Callers : \/ RejectArguments(t)
                        \/ Refuse(t)
                        \/ TimerFires(t)
                        \/ Return(t)
                        \/ RaiseTimeout(t)
  \/ \E t \in Callers : \E a \in Targets[ClientOf[t]] :
       Send(t, a) \/ SendFails(t, a)
  \/ \E q \in requests : Handle(q)
  \/ \E p \in answers : Dispatch(p)

\* The event loop runs what is ready and a timer that is due.  Nothing is
\* assumed of devices and of the network.
Fairness ==
  \A t \in Callers :
    WF_vars(TimerFires(t)) /\ WF_vars(Return(t)) /\ WF_vars(RaiseTimeout(t))

Spec == Init /\ [][Next]_vars /\ Fairness

-----------------------------------------------------------------------------
(* Properties *)

\* Every variable holds values of its kind (client.py:39-97, udpServer.py:33).
TypeOK ==
  /\ pc \in [Callers -> {"idle", "waiting", "answered", "expired"}]
  /\ seqno \in [Clients -> Seqs]
  /\ issued \in [Clients -> Nat]
  /\ lock \in [Clients -> BOOLEAN]
  /\ subscribers \in SUBSET Callers
  /\ query \in [Callers -> Query \cup {NoQuery}]
  /\ response \in [Callers -> Answer \cup {NoAnswer}]
  /\ requests \in SUBSET Query
  /\ performed \in SUBSET Query
  /\ answers \in SUBSET Answer
  /\ outcome \in [Callers -> Outcome]

\* The result a caller is given is the device's word on the caller's own query,
\* which the device has carried out.  The one exception: a query of another
\* client, to the same device and with the same sequence number, is answered,
\* and the list of subscribers that all servers share hands its answer over
\* (send_command, subscriberFilterContext, _handle_response).
AnswerIsOwn ==
  \A t \in Callers :
    LET o == outcome[t] IN
      o.kind \in {"success", "failure", "csi"} =>
        /\ o.answered \in performed
        /\ \/ o.answered = o.query
           \/ /\ o.answered.client # o.query.client
              /\ o.answered.addr = o.query.addr
              /\ o.answered.seq = o.query.seq

\* The check-then-acquire of the lock, its release and the subscription's
\* clean-up on every path out of a call: a client has at most one call in
\* flight, and nobody but the calls in flight is subscribed or holds the lock
\* (client.py:64-75, 422-448, udpServer.py:151-156).
OneCallPerClient ==
  /\ subscribers = {t \in Callers : InFlight(t)}
  /\ \A c \in Clients : lock[c] <=> \E t \in Callers : InFlight(t) /\ ClientOf[t] = c
  /\ \A t, u \in Callers :
       InFlight(t) /\ InFlight(u) /\ ClientOf[t] = ClientOf[u] => t = u

\* _handle_response's test of the sequence number is the only guard left when
\* the number is 0 and the subscription therefore not filtered by it: a stale
\* answer of the same device ends exactly such a query with a ResponseError,
\* and no other (client.py:67 and 116-121).
MismatchOnlyAtZero ==
  \A t \in Callers : outcome[t].kind = "mismatch" => outcome[t].query.seq = 0

\* _handle_response compares with self.seqno, read after the wait: nobody may
\* renumber the client while a call is in flight (client.py:116-118, 328-330).
SeqnoStableInFlight ==
  [][\A c \in Clients : lock[c] /\ lock'[c] => seqno'[c] = seqno[c]]_vars

\* A call never hangs, whatever devices and network do (client.py:71-75).
EveryCallEnds == \A t \in Callers : InFlight(t) ~> pc[t] = "idle"

\* The engine implements ErciCall.
ResultOf(kind) ==
  CASE kind \in {"rejected", "locked"} -> "refused"
    [] kind \in {"mismatch", "oserror", "csi"} -> "error"
    [] OTHER -> kind

Abstract ==
  INSTANCE ErciCall WITH
    open <- [t \in Callers |-> IF InFlight(t) THEN query[t].n ELSE 0],
    performed <- {<<q.client, q.n>> : q \in performed},
    result <- [t \in Callers |-> ResultOf(outcome[t].kind)]

\* With devices that are not shared between clients, every call is one call of
\* ErciCall: one at a time, and ended with the device's word only when the
\* device performed that very call (client.py:350-448).
ImplementsErciCall == Abstract!Spec
=============================================================================
