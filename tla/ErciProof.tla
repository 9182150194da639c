------------------------------ MODULE ErciProof -----------------------------
(***************************************************************************)
(* Proofs about the query engine (ErciQuery) and the batch tool that runs on *)
(* it (RunBatch), for every number of callers, clients, devices, lines and *)
(* queries, and every MaxSeq > 0.                                          *)
(*                                                                         *)
(* The engine comes first: its inductive invariant IInv, and that it       *)
(* implements what send_command promises (ErciCall), when no two clients query *)
(* the same device (SeparateDevices).  Every step of the batch tool is a step *)
(* of the engine or leaves the engine alone (EngineStep), so IInv carries over. *)
(* What is new is the relation between a line's coroutine and its call     *)
(* (LineInv).                                                              *)
(***************************************************************************)
EXTENDS RunBatch, TLAPS

-----------------------------------------------------------------------------
(* The inductive invariant *)

\* The sequence number d queries before the one numbered s.
Back(s, d) == IF d <= s THEN s - d ELSE s - d + MaxSeq + 1

\* Devices perform only what was sent, and answer only what they perform.
Requested ==
  /\ performed \subseteq requests
  /\ \A p \in answers : p.query \in performed

\* A query has a number of its client's history, and while it is fresh its
\* sequence byte is determined by how many queries are younger.
Numbered ==
  /\ \A q \in requests :
       /\ q.n >= 1
       /\ q.n <= issued[q.client]
       /\ Fresh(q) => q.seq = Back(seqno[q.client], issued[q.client] - q.n)
  /\ \A q, r \in requests : q.client = r.client /\ q.n = r.n => q = r

\* A call in flight waits for the youngest query of its client.
Awaits(t) ==
  LET c == ClientOf[t] IN
    /\ query[t] \in requests
    /\ query[t].client = c
    /\ query[t].n = issued[c]
    /\ query[t].seq = seqno[c]

\* The datagram a call was woken with has passed its filter.  If it is for a
\* query of another client, that client may go on and let it go stale.
Accepted(t) ==
  /\ response[t] \in answers
  /\ response[t].query.client = ClientOf[t] => Fresh(response[t].query)
  /\ Matches(response[t], t)

InFlightInv ==
  \A t \in Callers : /\ InFlight(t) => Awaits(t)
                     /\ pc[t] = "answered" => Accepted(t)

IInv == /\ TypeOK
        /\ Requested
        /\ Numbered
        /\ InFlightInv
        /\ OneCallPerClient
        /\ AnswerIsOwn
        /\ MismatchOnlyAtZero

-----------------------------------------------------------------------------
(* Lemmas about the operators *)

\* Going one query further moves the number of every older query back by one.
LEMMA BackOfNext ==
  ASSUME MaxSeq \in Nat \ {0}, NEW s \in Seqs, NEW d \in Nat, d + 1 <= MaxSeq
  PROVE  /\ NextSeq(s) \in Seqs
         /\ Back(NextSeq(s), d + 1) = Back(s, d)
  BY DEF Seqs, NextSeq, Back

LEMMA NextSeqType ==
  ASSUME MaxSeq \in Nat \ {0}, NEW s \in Seqs
  PROVE  NextSeq(s) \in Seqs /\ Back(NextSeq(s), 0) = NextSeq(s)
  BY DEF Seqs, NextSeq, Back

\* Among MaxSeq + 1 consecutive queries only the youngest has its number.
LEMMA BackIsInjective ==
  ASSUME MaxSeq \in Nat \ {0}, NEW s \in Seqs, NEW d \in Nat,
         d <= MaxSeq, Back(s, d) = s
  PROVE  d = 0
  BY DEF Seqs, Back

\* _handle_response gives the device's word only on an equal number, and
\* complains of a mismatch only on a different one.
LEMMA VerdictFacts ==
  ASSUME NEW p \in Answer, NEW s \in Seqs
  PROVE  /\ Verdict(p, s) \in Kinds \cup {"error", "mismatch"}
         /\ Verdict(p, s) \in {"success", "failure", "csi"} => p.query.seq = s
         /\ Verdict(p, s) = "mismatch" => p.query.seq # s
<1>1. p.kind \in Kinds
  BY DEF Answer
<1>2. CASE p.kind = "badHeader"
  BY <1>2 DEF Verdict, Kinds
<1>3. CASE p.kind # "badHeader" /\ p.query.seq # s
  BY <1>3 DEF Verdict, Kinds
<1>4. CASE p.kind = "badBody" /\ p.query.seq = s
  BY <1>4 DEF Verdict, Kinds
<1>5. CASE p.kind \in {"success", "failure", "csi"} /\ p.query.seq = s
  <2>1. Verdict(p, s) = p.kind
    BY <1>5 DEF Verdict
  <2> QED
    BY <1>5, <2>1, <1>1
<1> QED
  BY <1>1, <1>2, <1>3, <1>4, <1>5 DEF Kinds

-----------------------------------------------------------------------------
(* Every step preserves the invariant *)

\* What the steps before the lock, and sendto's failure, do to the outcomes.
LEMMA EndedType ==
  ASSUME NEW k \in Kinds \cup {"none", "rejected", "locked", "oserror",
                               "timeout", "error", "mismatch"},
         NEW q \in Query \cup {NoQuery}, NEW a \in Query \cup {NoQuery}
  PROVE  /\ Ended(k, q, a) \in Outcome
         /\ Ended(k, q, a).kind = k
         /\ Ended(k, q, a).query = q
         /\ Ended(k, q, a).answered = a
  BY DEF Ended, Outcome

\* Where only outcomes change, and none to a device's word or a mismatch, the
\* invariant survives.
LEMMA RejectStep ==
  ASSUME IInv, NEW t \in Callers, RejectArguments(t) \/ Refuse(t)
  PROVE  IInv'
<1> DEFINE o == outcome'[t]
<1>1. /\ UNCHANGED <<pc, query, response, client, network>>
      /\ \E k \in {"rejected", "locked"} :
            outcome' = [outcome EXCEPT ![t] = Ended(k, NoQuery, NoQuery)]
  BY DEF RejectArguments, Refuse
<1>2. PICK k \in {"rejected", "locked"} :
        outcome' = [outcome EXCEPT ![t] = Ended(k, NoQuery, NoQuery)]
  BY <1>1
<1>3. Ended(k, NoQuery, NoQuery) \in Outcome /\ Ended(k, NoQuery, NoQuery).kind = k
  BY EndedType
<1>4. TypeOK'
  BY <1>1, <1>2, <1>3 DEF IInv, TypeOK, client, network
<1>5. (Requested /\ Numbered)'
  BY <1>1 DEF IInv, Requested, Numbered, Fresh, client, network
<1>6. InFlightInv' /\ OneCallPerClient'
  BY <1>1 DEF IInv, InFlightInv, InFlight, Awaits, Accepted, Matches, Fresh,
              OneCallPerClient, client, network
<1>7. \A u \in Callers : outcome'[u] = IF u = t THEN Ended(k, NoQuery, NoQuery)
                                                ELSE outcome[u]
  BY <1>2 DEF IInv, TypeOK
<1>8. AnswerIsOwn' /\ MismatchOnlyAtZero'
  BY <1>1, <1>3, <1>7 DEF IInv, AnswerIsOwn, MismatchOnlyAtZero, network
<1> QED
  BY <1>4, <1>5, <1>6, <1>8 DEF IInv

\* Taking a number renumbers nothing: the older queries that stay fresh keep
\* the number that their age gives them.
LEMMA NumberStep ==
  ASSUME IInv, ConstantsAssumption, NEW t \in Callers, TakesNumber(t)
  PROVE  /\ seqno' \in [Clients -> Seqs]
         /\ issued' \in [Clients -> Nat]
         /\ \A q \in requests :
              /\ q.n <= issued'[q.client]
              /\ q.client = ClientOf[t] => q.n < issued'[q.client]
              /\ Fresh(q)' =>
                   q.seq = Back(seqno'[q.client], issued'[q.client] - q.n)
<1> DEFINE c == ClientOf[t]
<1>1. c \in Clients /\ MaxSeq \in Nat \ {0}
  BY DEF ConstantsAssumption
<1>2. /\ seqno \in [Clients -> Seqs]
      /\ issued \in [Clients -> Nat]
      /\ requests \in SUBSET Query
  BY DEF IInv, TypeOK
<1>3. /\ seqno' = [seqno EXCEPT ![c] = NextSeq(seqno[c])]
      /\ issued' = [issued EXCEPT ![c] = issued[c] + 1]
  BY DEF TakesNumber
<1>4. NextSeq(seqno[c]) \in Seqs
  BY <1>1, <1>2, NextSeqType
<1>5. ASSUME NEW q \in requests
      PROVE  /\ q.n <= issued'[q.client]
             /\ q.client = c => q.n < issued'[q.client]
             /\ Fresh(q)' =>
                  q.seq = Back(seqno'[q.client], issued'[q.client] - q.n)
  <2>1. /\ q.client \in Clients /\ q.n \in Nat /\ q.n <= issued[q.client]
        /\ Fresh(q) => q.seq = Back(seqno[q.client], issued[q.client] - q.n)
    BY <1>2 DEF IInv, Numbered, Query
  <2>2. CASE q.client # c
    <3>1. issued'[q.client] = issued[q.client] /\ seqno'[q.client] = seqno[q.client]
      BY <1>2, <1>3, <2>1, <2>2
    <3> QED
      BY <2>1, <2>2, <3>1 DEF Fresh
  <2>3. CASE q.client = c
    <3> DEFINE d == issued[c] - q.n
    <3>1. issued'[c] = issued[c] + 1 /\ seqno'[c] = NextSeq(seqno[c])
      BY <1>1, <1>2, <1>3
    <3>2. d \in Nat /\ issued'[c] - q.n = d + 1
      BY <1>1, <1>2, <2>1, <2>3, <3>1
    <3>3. ASSUME Fresh(q)'
          PROVE  q.seq = Back(seqno'[c], issued'[c] - q.n)
      <4>1. d + 1 <= MaxSeq
        BY <2>3, <3>2, <3>3 DEF Fresh
      <4>2. Fresh(q)
        BY <1>1, <2>3, <3>2, <4>1 DEF Fresh
      <4>3. seqno[c] \in Seqs
        BY <1>1, <1>2
      <4>4. Back(NextSeq(seqno[c]), d + 1) = Back(seqno[c], d)
        BY ONLY <1>1, <3>2, <4>1, <4>3, BackOfNext
      <4> QED
        BY <2>1, <2>3, <3>1, <3>2, <4>2, <4>4
    <3>4. q.n < issued'[c] /\ q.n <= issued'[c]
      BY <1>1, <1>2, <2>1, <2>3, <3>1
    <3> QED
      BY <2>3, <3>3, <3>4
  <2> QED
    BY <2>2, <2>3
<1>6. seqno' \in [Clients -> Seqs] /\ issued' \in [Clients -> Nat]
  BY <1>1, <1>2, <1>3, <1>4
<1> QED
  BY <1>5, <1>6

\* The new query: well typed, the youngest of its client, numbered like it.
LEMMA NewQueryFacts ==
  ASSUME IInv, ConstantsAssumption,
         NEW t \in Callers, NEW a \in Targets[ClientOf[t]], TakesNumber(t)
  PROVE  LET q == NewQuery(t, a) IN
           /\ q \in Query
           /\ q.client = ClientOf[t]
           /\ q.n = issued'[ClientOf[t]]
           /\ q.n >= 1
           /\ q.seq = seqno'[ClientOf[t]]
           /\ q.seq = Back(seqno'[ClientOf[t]], 0)
           /\ q.addr = a
<1>1. /\ ClientOf[t] \in Clients /\ MaxSeq \in Nat \ {0}
      /\ a \in Addresses
  BY DEF ConstantsAssumption, Addresses
<1>2. seqno \in [Clients -> Seqs] /\ issued \in [Clients -> Nat]
  BY DEF IInv, TypeOK
<1>3. /\ NextSeq(seqno[ClientOf[t]]) \in Seqs
      /\ Back(NextSeq(seqno[ClientOf[t]]), 0) = NextSeq(seqno[ClientOf[t]])
  BY <1>1, <1>2, NextSeqType
<1>4. /\ issued'[ClientOf[t]] = issued[ClientOf[t]] + 1
      /\ seqno'[ClientOf[t]] = NextSeq(seqno[ClientOf[t]])
      /\ issued[ClientOf[t]] \in Nat
  BY <1>1, <1>2 DEF TakesNumber
<1> QED
  BY <1>1, <1>3, <1>4 DEF NewQuery, Query

LEMMA SendStep ==
  ASSUME IInv, ConstantsAssumption,
         NEW t \in Callers, NEW a \in Targets[ClientOf[t]], Send(t, a)
  PROVE  IInv'
<1> DEFINE c == ClientOf[t]
           nq == NewQuery(t, a)
<1> USE DEF InFlight
<1>1. TakesNumber(t) /\ c \in Clients
  BY DEF Send, ConstantsAssumption
<1>2. /\ nq \in Query
      /\ nq.client = c
      /\ nq.n = issued'[c]
      /\ nq.n >= 1
      /\ nq.seq = seqno'[c]
      /\ nq.seq = Back(seqno'[c], 0)
  BY <1>1, NewQueryFacts
<1>3. /\ seqno' \in [Clients -> Seqs]
      /\ issued' \in [Clients -> Nat]
      /\ \A q \in requests :
           /\ q.n <= issued'[q.client]
           /\ q.client = c => q.n < issued'[q.client]
           /\ Fresh(q)' => q.seq = Back(seqno'[q.client], issued'[q.client] - q.n)
  BY <1>1, NumberStep
<1>4. /\ lock' = [lock EXCEPT ![c] = TRUE]
      /\ subscribers' = subscribers \cup {t}
      /\ query' = [query EXCEPT ![t] = nq]
      /\ response' = [response EXCEPT ![t] = NoAnswer]
      /\ requests' = requests \cup {nq}
      /\ pc' = [pc EXCEPT ![t] = "waiting"]
      /\ UNCHANGED <<performed, answers, outcome>>
  BY DEF Send
<1>5. /\ ~lock[c] /\ pc[t] = "idle"
      /\ \A e \in Clients \ {c} : seqno'[e] = seqno[e] /\ issued'[e] = issued[e]
  BY <1>1 DEF TakesNumber, IInv, TypeOK
<1>6. TypeOK'
  BY <1>1, <1>2, <1>3, <1>4 DEF IInv, TypeOK
<1>7. Requested'
  BY <1>4 DEF IInv, Requested
<1>8. Numbered'
  <2>1. requests \in SUBSET Query
    BY DEF IInv, TypeOK
  <2>2. ASSUME NEW q \in requests'
        PROVE  /\ q.n >= 1
               /\ q.n <= issued'[q.client]
               /\ Fresh(q)' =>
                    q.seq = Back(seqno'[q.client], issued'[q.client] - q.n)
    <3>1. CASE q \in requests
      BY <1>3, <3>1 DEF IInv, Numbered
    <3>2. CASE q = nq
      <4>1. issued'[c] \in Nat
        BY <1>1, <1>3
      <4>2. issued'[q.client] - q.n = 0
        BY <1>2, <3>2, <4>1
      <4> QED
        BY <1>2, <3>2, <4>1, <4>2
    <3> QED
      BY <1>4, <3>1, <3>2
  <2>3. ASSUME NEW q \in requests', NEW r \in requests',
               q.client = r.client, q.n = r.n
        PROVE  q = r
    <3>1. CASE q \in requests /\ r \in requests
      BY <2>3, <3>1 DEF IInv, Numbered
    <3>2. ASSUME NEW x \in requests, x.client = c
          PROVE  x.n # issued'[c]
      <4>1. x.n \in Nat /\ issued'[c] \in Nat /\ x.n < issued'[c]
        BY <1>1, <1>3, <2>1, <3>2 DEF Query
      <4> QED
        BY <4>1
    <3> QED
      BY <1>2, <1>4, <2>3, <3>1, <3>2
  <2> QED
    BY <2>2, <2>3 DEF Numbered
<1>9. \A u \in Callers : ClientOf[u] = c => ~InFlight(u)
  BY <1>1, <1>5 DEF IInv, OneCallPerClient
<1>10. InFlightInv'
  <2>1. ASSUME NEW u \in Callers
        PROVE  /\ InFlight(u)' => Awaits(u)'
               /\ (pc[u] = "answered" => Accepted(u))'
    <3>1. CASE u = t
      <4>1. pc'[t] = "waiting" /\ query'[t] = nq /\ nq \in requests'
        BY <1>4 DEF IInv, TypeOK
      <4> QED
        BY <1>2, <3>1, <4>1 DEF Awaits
    <3>2. CASE u # t
      <4>1. pc'[u] = pc[u] /\ query'[u] = query[u] /\ response'[u] = response[u]
        BY <1>4, <3>2 DEF IInv, TypeOK
      <4>2. SUFFICES ASSUME InFlight(u)
                     PROVE  Awaits(u)' /\ (pc[u] = "answered" => Accepted(u))'
        BY <4>1
      <4>3. ClientOf[u] # c /\ ClientOf[u] \in Clients
        BY <1>9, <4>2 DEF ConstantsAssumption
      <4>4. Awaits(u) /\ Awaits(u)'
        BY <1>4, <1>5, <4>1, <4>2, <4>3 DEF IInv, InFlightInv, Awaits
      <4>5. ASSUME pc[u] = "answered"
            PROVE  Accepted(u)'
        <5>1. Accepted(u)
          BY <4>5 DEF IInv, InFlightInv
        <5>2. response[u].query.client = ClientOf[u] => Fresh(response[u].query)'
          BY <1>5, <4>1, <4>3, <5>1 DEF Fresh, Accepted
        <5> QED
          BY <1>4, <4>1, <5>1, <5>2 DEF Accepted, Matches
      <4> QED
        BY <4>1, <4>4, <4>5
    <3> QED
      BY <3>1, <3>2
  <2> QED
    BY <2>1 DEF InFlightInv
<1>11. OneCallPerClient'
  <2>1. \A u \in Callers : InFlight(u)' <=> u = t \/ InFlight(u)
    BY <1>4 DEF IInv, TypeOK
  <2>2. \A e \in Clients : lock'[e] <=> e = c \/ lock[e]
    BY <1>4 DEF IInv, TypeOK
  <2> QED
    BY <1>1, <1>4, <1>9, <2>1, <2>2 DEF IInv, OneCallPerClient
<1>12. AnswerIsOwn' /\ MismatchOnlyAtZero'
  BY <1>4 DEF IInv, AnswerIsOwn, MismatchOnlyAtZero
<1> QED
  BY <1>6, <1>7, <1>8, <1>10, <1>11, <1>12 DEF IInv

\* A failing sendto burns a number: nobody of this client is in flight, and
\* the others do not look at its numbers.
LEMMA SendFailsStep ==
  ASSUME IInv, ConstantsAssumption,
         NEW t \in Callers, NEW a \in Targets[ClientOf[t]], SendFails(t, a)
  PROVE  IInv'
<1> DEFINE c == ClientOf[t]
           end == Ended("oserror", NewQuery(t, a), NoQuery)
<1> USE DEF InFlight
<1>1. TakesNumber(t) /\ c \in Clients
  BY DEF SendFails, ConstantsAssumption
<1>2. /\ outcome' = [outcome EXCEPT ![t] = end]
      /\ UNCHANGED <<pc, lock, subscribers, query, response, requests,
                     performed, answers>>
  BY DEF SendFails, network
<1>3. end \in Outcome /\ end.kind = "oserror"
  <2>1. NewQuery(t, a) \in Query
    BY <1>1, NewQueryFacts
  <2> QED
    BY <2>1 DEF Ended, Outcome
<1>4. /\ seqno' \in [Clients -> Seqs]
      /\ issued' \in [Clients -> Nat]
      /\ \A q \in requests :
           /\ q.n <= issued'[q.client]
           /\ Fresh(q)' => q.seq = Back(seqno'[q.client], issued'[q.client] - q.n)
  BY <1>1, NumberStep
<1>5. /\ ~lock[c]
      /\ \A e \in Clients \ {c} : seqno'[e] = seqno[e] /\ issued'[e] = issued[e]
  BY <1>1 DEF TakesNumber, IInv, TypeOK
<1>6. TypeOK'
  BY <1>2, <1>3, <1>4 DEF IInv, TypeOK
<1>7. Requested' /\ Numbered'
  BY <1>2, <1>4 DEF IInv, Requested, Numbered
<1>8. InFlightInv'
  <2>1. ASSUME NEW u \in Callers, InFlight(u)
        PROVE  ClientOf[u] # c /\ ClientOf[u] \in Clients
    BY <1>1, <1>5, <2>1 DEF IInv, OneCallPerClient, ConstantsAssumption
  <2> QED
    BY <1>2, <1>5, <2>1 DEF IInv, InFlightInv, Awaits, Accepted, Matches, Fresh
<1>9. OneCallPerClient'
  BY <1>2 DEF IInv, OneCallPerClient
<1>10. \A u \in Callers : outcome'[u] = IF u = t THEN end ELSE outcome[u]
  BY <1>2 DEF IInv, TypeOK
<1>11. AnswerIsOwn' /\ MismatchOnlyAtZero'
  BY <1>2, <1>3, <1>10 DEF IInv, AnswerIsOwn, MismatchOnlyAtZero
<1> QED
  BY <1>6, <1>7, <1>8, <1>9, <1>11 DEF IInv

\* Devices only add to what was performed and answered.
LEMMA HandleStep ==
  ASSUME IInv, ConstantsAssumption, NEW q \in requests, Handle(q)
  PROVE  IInv'
<1>1. /\ performed' = performed \cup {q}
      /\ UNCHANGED <<pc, query, response, outcome, seqno, issued, lock,
                     subscribers, requests>>
  BY DEF Handle, call, client
<1>2. /\ answers \subseteq answers'
      /\ \A p \in answers' \ answers : p \in Answer /\ p.query = q
  <2>1. q \in Query /\ Replies \subseteq Kinds
    BY DEF IInv, TypeOK, ConstantsAssumption
  <2>2. CASE UNCHANGED answers
    BY <2>2
  <2>3. CASE \E k \in Replies : answers' = answers \cup {[query |-> q, kind |-> k]}
    BY <2>1, <2>3 DEF Answer
  <2> QED
    BY <2>2, <2>3 DEF Handle
<1>3. TypeOK'
  BY <1>1, <1>2 DEF IInv, TypeOK
<1>4. Requested' /\ Numbered'
  BY <1>1, <1>2 DEF IInv, Requested, Numbered, Fresh
<1>5. InFlightInv' /\ OneCallPerClient'
  BY <1>1, <1>2 DEF IInv, InFlightInv, InFlight, Awaits, Accepted, Matches,
                    Fresh, OneCallPerClient
<1>6. AnswerIsOwn' /\ MismatchOnlyAtZero'
  BY <1>1 DEF IInv, AnswerIsOwn, MismatchOnlyAtZero
<1> QED
  BY <1>3, <1>4, <1>5, <1>6 DEF IInv

LEMMA DispatchStep ==
  ASSUME IInv, NEW p \in answers, Dispatch(p)
  PROVE  IInv'
<1> DEFINE gets(t) == t \in subscribers /\ Matches(p, t)
<1> USE DEF InFlight
<1>1. /\ Fresh(p.query)
      /\ UNCHANGED <<query, outcome, seqno, issued, lock, subscribers,
                     requests, performed, answers>>
  BY DEF Dispatch, client, network
<1>2. \A t \in Callers :
        /\ response'[t] = IF gets(t) THEN p ELSE response[t]
        /\ pc'[t] = IF gets(t) /\ pc[t] = "waiting" THEN "answered" ELSE pc[t]
  BY DEF Dispatch
<1>3. TypeOK'
  <2>1. pc' \in [Callers -> {"idle", "waiting", "answered", "expired"}]
    BY DEF IInv, TypeOK, Dispatch
  <2>2. response' \in [Callers -> Answer \cup {NoAnswer}]
    BY DEF IInv, TypeOK, Dispatch
  <2> QED
    BY <1>1, <2>1, <2>2 DEF IInv, TypeOK
<1>4. Requested' /\ Numbered'
  BY <1>1 DEF IInv, Requested, Numbered, Fresh
<1>5. \A t \in Callers : InFlight(t)' <=> InFlight(t)
  BY <1>2
<1>6. InFlightInv'
  <2>1. ASSUME NEW t \in Callers
        PROVE  /\ InFlight(t)' => Awaits(t)'
               /\ (pc[t] = "answered" => Accepted(t))'
    <3>1. InFlight(t)' => Awaits(t)'
      BY <1>1, <1>5 DEF IInv, InFlightInv, Awaits
    <3>2. CASE gets(t)
      <4>1. response'[t] = p /\ p \in answers'
        BY <1>1, <1>2, <3>2
      <4>2. Fresh(p.query)'
        BY <1>1 DEF Fresh
      <4>3. Matches(p, t)' /\ response'[t] = p
        BY <1>1, <3>2, <4>1 DEF Matches
      <4>4. Matches(response[t], t)'
        BY <4>3 DEF Matches
      <4> QED
        BY <3>1, <4>1, <4>2, <4>4 DEF Accepted, Fresh
    <3>3. CASE ~gets(t)
      BY <1>1, <1>2, <3>1, <3>3 DEF IInv, InFlightInv, Accepted, Matches, Fresh
    <3> QED
      BY <3>1, <3>2, <3>3
  <2> QED
    BY <2>1 DEF InFlightInv
<1>7. OneCallPerClient'
  BY <1>1, <1>5 DEF IInv, OneCallPerClient
<1>8. AnswerIsOwn' /\ MismatchOnlyAtZero'
  BY <1>1 DEF IInv, AnswerIsOwn, MismatchOnlyAtZero
<1> QED
  BY <1>3, <1>4, <1>6, <1>7, <1>8 DEF IInv

LEMMA TimerStep ==
  ASSUME IInv, NEW t \in Callers, TimerFires(t)
  PROVE  IInv'
<1> USE DEF InFlight
<1>1. /\ pc[t] = "waiting"
      /\ UNCHANGED <<query, response, outcome, seqno, issued, lock, subscribers,
                     requests, performed, answers>>
  BY DEF TimerFires, client, network
<1>2. \A u \in Callers : pc'[u] = IF u = t THEN "expired" ELSE pc[u]
  BY DEF TimerFires, IInv, TypeOK
<1>3. TypeOK'
  BY <1>1 DEF IInv, TypeOK, TimerFires
<1>4. Requested' /\ Numbered'
  BY <1>1 DEF IInv, Requested, Numbered, Fresh
<1>5. InFlightInv'
  BY <1>1, <1>2 DEF IInv, InFlightInv, Awaits, Accepted, Matches, Fresh
<1>6. OneCallPerClient'
  BY <1>1, <1>2 DEF IInv, OneCallPerClient
<1>7. AnswerIsOwn' /\ MismatchOnlyAtZero'
  BY <1>1 DEF IInv, AnswerIsOwn, MismatchOnlyAtZero
<1> QED
  BY <1>3, <1>4, <1>5, <1>6, <1>7 DEF IInv

\* What leaving a call does to everything but its outcome.
LEMMA LeaveStep ==
  ASSUME IInv, ConstantsAssumption, NEW t \in Callers, InFlight(t), Leave(t)
  PROVE  /\ pc' \in [Callers -> {"idle", "waiting", "answered", "expired"}]
         /\ lock' \in [Clients -> BOOLEAN]
         /\ subscribers' \in SUBSET Callers
         /\ query' \in [Callers -> Query \cup {NoQuery}]
         /\ response' \in [Callers -> Answer \cup {NoAnswer}]
         /\ (Requested /\ Numbered /\ InFlightInv /\ OneCallPerClient)'
<1> USE DEF InFlight
<1>1. /\ UNCHANGED <<seqno, issued, requests, performed, answers>>
      /\ subscribers' = subscribers \ {t}
  BY DEF Leave, network
<1>2. \A u \in Callers :
        /\ pc'[u] = IF u = t THEN "idle" ELSE pc[u]
        /\ u # t => query'[u] = query[u] /\ response'[u] = response[u]
  BY DEF Leave, IInv, TypeOK
<1>3. \A e \in Clients : lock'[e] = IF e = ClientOf[t] THEN FALSE ELSE lock[e]
  BY DEF Leave, IInv, TypeOK
<1>4. /\ pc' \in [Callers -> {"idle", "waiting", "answered", "expired"}]
      /\ lock' \in [Clients -> BOOLEAN]
      /\ subscribers' \in SUBSET Callers
      /\ query' \in [Callers -> Query \cup {NoQuery}]
      /\ response' \in [Callers -> Answer \cup {NoAnswer}]
  BY DEF Leave, IInv, TypeOK
<1>5. Requested' /\ Numbered'
  BY <1>1 DEF IInv, Requested, Numbered, Fresh
<1>6. InFlightInv'
  BY <1>1, <1>2 DEF IInv, InFlightInv, Awaits, Accepted, Matches, Fresh
<1>7. OneCallPerClient'
  <2>1. \A u \in Callers : InFlight(u)' <=> InFlight(u) /\ u # t
    BY <1>2
  <2>2. \A u \in Callers :
          InFlight(u) /\ ClientOf[u] = ClientOf[t] => u = t
    BY DEF IInv, OneCallPerClient
  <2>3. subscribers' = {u \in Callers : InFlight(u)'}
    BY <1>1, <2>1 DEF IInv, OneCallPerClient
  <2>4. \A e \in Clients :
          lock'[e] <=> \E u \in Callers : InFlight(u)' /\ ClientOf[u] = e
    <3> TAKE e \in Clients
    <3>1. lock[e] <=> \E u \in Callers : InFlight(u) /\ ClientOf[u] = e
      BY DEF IInv, OneCallPerClient
    <3> HIDE DEF InFlight
    <3>2. CASE e = ClientOf[t]
      BY <1>3, <2>1, <2>2, <3>2
    <3>3. CASE e # ClientOf[t]
      BY <1>3, <2>1, <3>1, <3>3
    <3> QED
      BY <3>2, <3>3
  <2>5. \A u, v \in Callers :
          InFlight(u)' /\ InFlight(v)' /\ ClientOf[u] = ClientOf[v] => u = v
    BY <2>1 DEF IInv, OneCallPerClient
  <2> QED
    BY <2>3, <2>4, <2>5 DEF OneCallPerClient
<1> QED
  BY <1>4, <1>5, <1>6, <1>7

\* An accepted answer with the number of the call's own client is for the
\* call's own query, or for one of another client.
LEMMA AcceptedIsOwn ==
  ASSUME IInv, ConstantsAssumption, NEW t \in Callers, pc[t] = "answered",
         response[t].query.seq = seqno[ClientOf[t]]
  PROVE  /\ response[t].query \in performed
         /\ \/ response[t].query = query[t]
            \/ /\ response[t].query.client # query[t].client
               /\ response[t].query.addr = query[t].addr
               /\ response[t].query.seq = query[t].seq
<1> DEFINE c == ClientOf[t]
           pq == response[t].query
<1>1. Awaits(t) /\ Accepted(t)
  BY DEF IInv, InFlightInv, InFlight
<1>2. /\ pq \in performed /\ pq \in requests /\ pq \in Query
      /\ pq.addr = query[t].addr /\ pq.seq = query[t].seq
  BY <1>1 DEF IInv, TypeOK, Requested, Accepted, Awaits, Matches
<1>3. CASE pq.client = c
  <2> DEFINE d == issued[c] - pq.n
  <2>1. /\ c \in Clients /\ MaxSeq \in Nat \ {0}
        /\ seqno[c] \in Seqs /\ issued[c] \in Nat
    BY DEF ConstantsAssumption, IInv, TypeOK
  <2>2. pq.n \in Nat /\ d \in Nat
    BY <1>2, <1>3, <2>1 DEF IInv, Numbered, Query
  <2>3. d <= MaxSeq /\ Back(seqno[c], d) = seqno[c]
    BY <1>1, <1>2, <1>3 DEF IInv, Numbered, Accepted, Fresh
  <2>4. d = 0
    BY ONLY <2>1, <2>2, <2>3, BackIsInjective
  <2>5. pq.n = query[t].n /\ pq.client = query[t].client /\ query[t] \in requests
    BY <1>1, <1>3, <2>1, <2>2, <2>4 DEF Awaits
  <2>6. pq = query[t]
    BY <1>2, <2>5 DEF IInv, Numbered
  <2> QED
    BY <1>2, <2>6
<1>4. CASE pq.client # c
  BY <1>1, <1>2, <1>4 DEF Awaits
<1> QED
  BY <1>3, <1>4

LEMMA ReturnStep ==
  ASSUME IInv, ConstantsAssumption, NEW t \in Callers, Return(t)
  PROVE  IInv'
<1> DEFINE p == response[t]
           s == seqno[ClientOf[t]]
           end == Ended(Verdict(p, s), query[t], p.query)
<1>1. /\ pc[t] = "answered" /\ InFlight(t) /\ Leave(t)
      /\ outcome' = [outcome EXCEPT ![t] = end]
  BY DEF Return, InFlight
<1>2. Awaits(t) /\ Accepted(t)
  BY <1>1 DEF IInv, InFlightInv
<1>3. /\ p \in Answer /\ p.query \in Query /\ query[t] \in Query /\ s \in Seqs
      /\ query[t].seq = s
  BY <1>2 DEF IInv, TypeOK, Awaits, Accepted, Answer, ConstantsAssumption
<1>4. /\ Verdict(p, s) \in Kinds \cup {"error", "mismatch"}
      /\ Verdict(p, s) \in {"success", "failure", "csi"} => p.query.seq = s
      /\ Verdict(p, s) = "mismatch" => p.query.seq # s
  BY <1>3, VerdictFacts
<1>5. /\ Ended(Verdict(p, s), query[t], p.query) \in Outcome
      /\ end.kind = Verdict(p, s) /\ end.query = query[t] /\ end.answered = p.query
  <2>1. Verdict(p, s) \in Kinds \cup {"none", "rejected", "locked", "oserror",
                                      "timeout", "error", "mismatch"}
    BY <1>4
  <2> QED
    BY <1>3, <2>1, EndedType
<1>6. /\ pc' \in [Callers -> {"idle", "waiting", "answered", "expired"}]
      /\ lock' \in [Clients -> BOOLEAN]
      /\ subscribers' \in SUBSET Callers
      /\ query' \in [Callers -> Query \cup {NoQuery}]
      /\ response' \in [Callers -> Answer \cup {NoAnswer}]
      /\ (Requested /\ Numbered /\ InFlightInv /\ OneCallPerClient)'
  BY <1>1, LeaveStep
<1>7. UNCHANGED <<seqno, issued, requests, performed, answers>>
  BY <1>1 DEF Leave, network
<1>8. TypeOK'
  BY <1>1, <1>5, <1>6, <1>7 DEF IInv, TypeOK
<1>9. \A u \in Callers : outcome'[u] = IF u = t THEN end ELSE outcome[u]
  BY <1>1 DEF IInv, TypeOK
<1>10. AnswerIsOwn'
  <2>1. Verdict(p, s) \in {"success", "failure", "csi"} =>
          /\ p.query \in performed
          /\ \/ p.query = query[t]
             \/ /\ p.query.client # query[t].client
                /\ p.query.addr = query[t].addr
                /\ p.query.seq = query[t].seq
    BY <1>1, <1>4, AcceptedIsOwn
  <2> HIDE DEF end
  <2> QED
    BY <1>5, <1>7, <1>9, <2>1 DEF IInv, AnswerIsOwn
<1>11. MismatchOnlyAtZero'
  <2>1. Verdict(p, s) = "mismatch" => query[t].seq = 0
    BY <1>2, <1>3, <1>4 DEF Accepted, Matches
  <2> HIDE DEF end
  <2> QED
    BY <1>5, <1>9, <2>1 DEF IInv, MismatchOnlyAtZero
<1> QED
  BY <1>6, <1>8, <1>10, <1>11 DEF IInv

LEMMA RaiseTimeoutStep ==
  ASSUME IInv, ConstantsAssumption, NEW t \in Callers, RaiseTimeout(t)
  PROVE  IInv'
<1> DEFINE end == Ended("timeout", query[t], NoQuery)
<1>1. /\ InFlight(t) /\ Leave(t)
      /\ outcome' = [outcome EXCEPT ![t] = end]
  BY DEF RaiseTimeout, InFlight
<1>2. end \in Outcome /\ end.kind = "timeout"
  BY DEF IInv, TypeOK, Ended, Outcome
<1>3. /\ pc' \in [Callers -> {"idle", "waiting", "answered", "expired"}]
      /\ lock' \in [Clients -> BOOLEAN]
      /\ subscribers' \in SUBSET Callers
      /\ query' \in [Callers -> Query \cup {NoQuery}]
      /\ response' \in [Callers -> Answer \cup {NoAnswer}]
      /\ (Requested /\ Numbered /\ InFlightInv /\ OneCallPerClient)'
  BY <1>1, LeaveStep
<1>4. UNCHANGED <<seqno, issued, requests, performed, answers>>
  BY <1>1 DEF Leave, network
<1>5. TypeOK'
  BY <1>1, <1>2, <1>3, <1>4 DEF IInv, TypeOK
<1>6. \A u \in Callers : outcome'[u] = IF u = t THEN end ELSE outcome[u]
  BY <1>1 DEF IInv, TypeOK
<1>7. AnswerIsOwn' /\ MismatchOnlyAtZero'
  BY <1>2, <1>4, <1>6 DEF IInv, AnswerIsOwn, MismatchOnlyAtZero
<1> QED
  BY <1>3, <1>5, <1>7 DEF IInv

-----------------------------------------------------------------------------
(* The theorems *)

LEMMA InitEstablishes == ASSUME ConstantsAssumption, Init PROVE IInv
<1> USE DEF Init
<1>1. TypeOK
  <2>1. 0 \in Seqs
    BY DEF ConstantsAssumption, Seqs
  <2>2. Ended("none", NoQuery, NoQuery) \in Outcome
    BY DEF Ended, Outcome
  <2> QED
    BY <2>1, <2>2 DEF TypeOK
<1>2. Requested /\ Numbered
  BY DEF Requested, Numbered
<1>3. InFlightInv /\ OneCallPerClient
  BY DEF InFlightInv, InFlight, OneCallPerClient
<1>4. AnswerIsOwn /\ MismatchOnlyAtZero
  BY DEF AnswerIsOwn, MismatchOnlyAtZero, Ended
<1> QED
  BY <1>1, <1>2, <1>3, <1>4 DEF IInv

LEMMA NextPreserves == ASSUME ConstantsAssumption, IInv, [Next]_vars PROVE IInv'
<1>1. ASSUME NEW t \in Callers, RejectArguments(t) \/ Refuse(t) PROVE IInv'
  BY <1>1, RejectStep
<1>2. ASSUME NEW t \in Callers, TimerFires(t) PROVE IInv'
  BY <1>2, TimerStep
<1>3. ASSUME NEW t \in Callers, Return(t) PROVE IInv'
  BY <1>3, ReturnStep
<1>4. ASSUME NEW t \in Callers, RaiseTimeout(t) PROVE IInv'
  BY <1>4, RaiseTimeoutStep
<1>5. ASSUME NEW t \in Callers, NEW a \in Targets[ClientOf[t]], Send(t, a)
      PROVE  IInv'
  BY <1>5, SendStep
<1>6. ASSUME NEW t \in Callers, NEW a \in Targets[ClientOf[t]], SendFails(t, a)
      PROVE  IInv'
  BY <1>6, SendFailsStep
<1>7. ASSUME NEW q \in requests, Handle(q) PROVE IInv'
  BY <1>7, HandleStep
<1>8. ASSUME NEW p \in answers, Dispatch(p) PROVE IInv'
  BY <1>8, DispatchStep
<1>9. CASE UNCHANGED vars
  BY <1>9 DEF IInv, TypeOK, Requested, Numbered, InFlightInv, InFlight, Awaits,
              Accepted, Matches, Fresh, OneCallPerClient, AnswerIsOwn,
              MismatchOnlyAtZero, vars, call, client, network
<1> QED
  BY <1>1, <1>2, <1>3, <1>4, <1>5, <1>6, <1>7, <1>8, <1>9 DEF Next

\* The inductive invariant holds in every reachable state.
THEOREM Invariance == Spec => []IInv
<1>1. Init => IInv
  BY InitEstablishes, ConstantsAssumption
<1>2. IInv /\ [Next]_vars => IInv'
  BY NextPreserves, ConstantsAssumption
<1> QED
  BY <1>1, <1>2, PTL DEF Spec

\* Every variable of the engine keeps its type (client.py, udpServer.py).
THEOREM TypeCorrect == Spec => []TypeOK
<1>1. IInv => TypeOK
  BY DEF IInv
<1> QED
  BY <1>1, Invariance, PTL

\* However many callers, clients and devices there are, and whatever the
\* network delays or repeats, a caller is given the device's word on its own
\* query only, or on one of another client that is told apart by nothing on
\* the wire (send_command, _handle_response).
THEOREM OwnAnswers == Spec => []AnswerIsOwn
<1>1. IInv => AnswerIsOwn
  BY DEF IInv
<1> QED
  BY <1>1, Invariance, PTL

\* A client's queryLock admits one call, and every way out of a call gives back
\* the lock and the subscription (client.py:64-75, 422-448).
THEOREM MutualExclusion == Spec => []OneCallPerClient
<1>1. IInv => OneCallPerClient
  BY DEF IInv
<1> QED
  BY <1>1, Invariance, PTL

\* "Mismatching sequence number" is an error of queries numbered 0 only
\* (client.py:67 and 118).
THEOREM MismatchesAtZero == Spec => []MismatchOnlyAtZero
<1>1. IInv => MismatchOnlyAtZero
  BY DEF IInv
<1> QED
  BY <1>1, Invariance, PTL

\* No step renumbers a client whose lock is held before and after it
\* (client.py:116-118, 328-330, 422-438).
THEOREM StableNumbers == Spec => SeqnoStableInFlight
<1>1. ASSUME IInv, [Next]_vars, NEW c \in Clients, lock[c], lock'[c]
      PROVE  seqno'[c] = seqno[c]
  <2>1. ASSUME NEW t \in Callers, TakesNumber(t)
        PROVE  seqno'[c] = seqno[c]
    BY <1>1, <2>1 DEF TakesNumber, IInv, TypeOK
  <2>2. CASE UNCHANGED seqno
    BY <2>2
  <2>3. \/ \E t \in Callers : TakesNumber(t)
        \/ UNCHANGED seqno
    BY <1>1 DEF Next, RejectArguments, Refuse, Send, SendFails, Handle, Dispatch,
                TimerFires, Return, RaiseTimeout, Leave, vars, client
  <2> QED
    BY <2>1, <2>2, <2>3
<1>2. IInv /\ [Next]_vars =>
        [\A c \in Clients : lock[c] /\ lock'[c] => seqno'[c] = seqno[c]]_vars
  BY <1>1
<1> QED
  BY <1>2, Invariance, PTL DEF Spec, SeqnoStableInFlight

-----------------------------------------------------------------------------
(* Devices that are not shared *)

\* r3erci has one client, and r3erci-batch one per line, which are separate when
\* no two lines name the same device: the answers to two clients' queries then
\* differ in the address they come from.
SeparateDevices ==
  \A c, d \in Clients : c # d => Targets[c] \cap Targets[d] = {}

\* A client sends its queries to its own devices only.
OwnTargets == \A q \in requests : q.addr \in Targets[q.client]

\* What the refinement needs of a state.
RInv == IInv /\ OwnTargets

-----------------------------------------------------------------------------
(* The refinement mapping *)

\* The substitutions of Abstract, by name.
OpenCalls == [t \in Callers |-> IF InFlight(t) THEN query[t].n ELSE 0]

PerformedCalls == {<<q.client, q.n>> : q \in performed}

Results == [t \in Callers |-> ResultOf(outcome[t].kind)]

\* A client is busy in ErciCall exactly while its queryLock is held.
LEMMA BusyMeansLocked ==
  ASSUME IInv, NEW c \in Clients
  PROVE  Abstract!Busy(c) <=> lock[c]
<1>1. \A t \in Callers : InFlight(t) => query[t].n # 0
  BY DEF IInv, TypeOK, InFlightInv, Awaits, Numbered, Query
<1>2. lock[c] <=> \E t \in Callers : InFlight(t) /\ ClientOf[t] = c
  BY DEF IInv, OneCallPerClient
<1> QED
  BY <1>1, <1>2 DEF Abstract!Busy

\* The results of the ways a call can end.
LEMMA ResultFacts ==
  /\ ResultOf("none") = "none"
  /\ ResultOf("rejected") = "refused"
  /\ ResultOf("locked") = "refused"
  /\ ResultOf("oserror") = "error"
  /\ ResultOf("mismatch") = "error"
  /\ ResultOf("csi") = "error"
  /\ ResultOf("error") = "error"
  /\ ResultOf("timeout") = "timeout"
  /\ ResultOf("success") = "success"
  /\ ResultOf("failure") = "failure"
  BY DEF ResultOf

\* _handle_response raises for a bad header and a bad body.
LEMMA VerdictKinds ==
  ASSUME NEW p \in Answer, NEW s \in Seqs
  PROVE  Verdict(p, s) \in {"success", "failure", "csi", "error", "mismatch"}
<1>1. p.kind \in Kinds
  BY DEF Answer
<1>2. CASE p.kind = "badHeader"
  BY <1>2 DEF Verdict
<1>3. CASE p.kind # "badHeader" /\ p.query.seq # s
  BY <1>3 DEF Verdict
<1>4. CASE p.kind = "badBody" /\ p.query.seq = s
  BY <1>4 DEF Verdict
<1>5. CASE p.kind \in {"success", "failure", "csi"} /\ p.query.seq = s
  BY <1>5 DEF Verdict
<1> QED
  BY <1>1, <1>2, <1>3, <1>4, <1>5 DEF Kinds

\* The result of one caller changes, the others keep theirs.
LEMMA ResultsChange ==
  ASSUME IInv, NEW t \in Callers, NEW o \in Outcome,
         outcome' = [outcome EXCEPT ![t] = o]
  PROVE  Results' = [Results EXCEPT ![t] = ResultOf(o.kind)]
<1>1. \A u \in Callers : outcome'[u] = IF u = t THEN o ELSE outcome[u]
  BY DEF IInv, TypeOK
<1> DEFINE r(u) == IF u = t THEN ResultOf(o.kind) ELSE ResultOf(outcome[u].kind)
<1>2. \A u \in Callers : ResultOf(outcome'[u].kind) = r(u)
  BY <1>1
<1>3. Results' = [u \in Callers |-> r(u)]
  BY <1>2 DEF Results
<1>4. [Results EXCEPT ![t] = ResultOf(o.kind)] = [u \in Callers |-> r(u)]
  BY DEF Results
<1> QED
  BY <1>3, <1>4

-----------------------------------------------------------------------------
(* Every step is a step of ErciCall, or none *)

\* Bad arguments and a held lock turn the caller away.
LEMMA RejectRefuses ==
  ASSUME IInv, NEW t \in Callers, RejectArguments(t) \/ Refuse(t)
  PROVE  Abstract!Refuse(t)
<1>1. PICK k \in {"rejected", "locked"} :
        outcome' = [outcome EXCEPT ![t] = Ended(k, NoQuery, NoQuery)]
  BY DEF RejectArguments, Refuse
<1>2. /\ pc[t] = "idle"
      /\ UNCHANGED <<pc, query, response, client, network>>
  BY DEF RejectArguments, Refuse
<1>3. /\ Ended(k, NoQuery, NoQuery) \in Outcome
      /\ Ended(k, NoQuery, NoQuery).kind = k
  BY EndedType
<1>4. Results' = [Results EXCEPT ![t] = "refused"]
  <2>1. Results' = [Results EXCEPT ![t] = ResultOf(k)]
    BY <1>1, <1>3, ResultsChange
  <2>2. ResultOf(k) = "refused"
    BY ResultFacts
  <2> QED
    BY <2>1, <2>2
<1>5. OpenCalls[t] = 0 /\ UNCHANGED <<OpenCalls, issued, PerformedCalls>>
  BY <1>2 DEF OpenCalls, InFlight, PerformedCalls, client, network
<1> QED
  BY <1>4, <1>5 DEF Abstract!Refuse, OpenCalls, PerformedCalls, Results

\* The query that is sent is the call that is opened.
LEMMA SendOpens ==
  ASSUME IInv, ConstantsAssumption,
         NEW t \in Callers, NEW a \in Targets[ClientOf[t]], Send(t, a)
  PROVE  Abstract!Open(t)
<1> DEFINE c == ClientOf[t]
<1>1. TakesNumber(t) /\ c \in Clients
  BY DEF Send, ConstantsAssumption
<1>2. ~Abstract!Busy(c)
  BY <1>1, BusyMeansLocked DEF TakesNumber
<1>3. issued' = [issued EXCEPT ![c] = issued[c] + 1]
  BY <1>1 DEF TakesNumber
<1>4. \A u \in Callers :
        OpenCalls'[u] = IF u = t THEN issued[c] + 1 ELSE OpenCalls[u]
  <2>1. \A u \in Callers :
          /\ pc'[u] = IF u = t THEN "waiting" ELSE pc[u]
          /\ query'[u] = IF u = t THEN NewQuery(t, a) ELSE query[u]
    BY DEF Send, IInv, TypeOK
  <2>2. NewQuery(t, a).n = issued[c] + 1
    BY DEF NewQuery
  <2> QED
    BY <2>1, <2>2 DEF OpenCalls, InFlight
<1>5. OpenCalls' = [OpenCalls EXCEPT ![t] = issued[c] + 1]
  BY <1>4 DEF OpenCalls
<1>6. UNCHANGED <<PerformedCalls, Results>>
  BY DEF Send, PerformedCalls, Results
<1> QED
  BY <1>2, <1>3, <1>5, <1>6
     DEF Abstract!Open, OpenCalls, PerformedCalls, Results

\* A failing sendto burns the number of a call that never was.
LEMMA SendFailsOpensNothing ==
  ASSUME IInv, ConstantsAssumption,
         NEW t \in Callers, NEW a \in Targets[ClientOf[t]], SendFails(t, a)
  PROVE  Abstract!OpenFails(t)
<1> DEFINE c == ClientOf[t]
           end == Ended("oserror", NewQuery(t, a), NoQuery)
<1>1. TakesNumber(t) /\ c \in Clients
  BY DEF SendFails, ConstantsAssumption
<1>2. ~Abstract!Busy(c)
  BY <1>1, BusyMeansLocked DEF TakesNumber
<1>3. issued' = [issued EXCEPT ![c] = issued[c] + 1]
  BY <1>1 DEF TakesNumber
<1>4. Results' = [Results EXCEPT ![t] = "error"]
  <2>1. NewQuery(t, a) \in Query
    BY <1>1, NewQueryFacts
  <2>2. end \in Outcome /\ end.kind = "oserror"
    BY <2>1 DEF Ended, Outcome
  <2>3. outcome' = [outcome EXCEPT ![t] = end]
    BY DEF SendFails
  <2> HIDE DEF end
  <2> QED
    BY <2>2, <2>3, ResultsChange, ResultFacts
<1>5. UNCHANGED <<OpenCalls, PerformedCalls>>
  BY DEF SendFails, network, OpenCalls, InFlight, PerformedCalls
<1> QED
  BY <1>2, <1>3, <1>4, <1>5
     DEF Abstract!OpenFails, OpenCalls, PerformedCalls, Results

\* A device performs a call whenever it receives a copy of the query: also
\* again, and also after its caller gave up.
LEMMA HandlePerforms ==
  ASSUME IInv, NEW q \in requests, Handle(q)
  PROVE  /\ q.client \in Clients
         /\ q.n \in 1 .. issued[q.client]
         /\ Abstract!Perform(q.client, q.n)
<1>1. /\ q.client \in Clients /\ q.n \in 1 .. issued[q.client]
  BY DEF IInv, TypeOK, Numbered, Query
<1>2. PerformedCalls' = PerformedCalls \cup {<<q.client, q.n>>}
  BY DEF Handle, PerformedCalls
<1>3. UNCHANGED <<OpenCalls, issued, Results>>
  BY DEF Handle, call, client, OpenCalls, InFlight, Results
<1> QED
  BY <1>1, <1>2, <1>3
     DEF Abstract!Perform, OpenCalls, PerformedCalls, Results

\* An answer taken and a timer fired change nothing that a caller sees yet.
LEMMA DispatchStutters ==
  ASSUME NEW p \in answers, Dispatch(p)
  PROVE  UNCHANGED Abstract!vars
<1>1. \A t \in Callers : InFlight(t)' <=> InFlight(t)
  BY DEF Dispatch, InFlight
<1>2. UNCHANGED <<query, outcome, issued, performed>>
  BY DEF Dispatch, client, network
<1> QED
  BY <1>1, <1>2 DEF Abstract!vars

LEMMA TimerStutters ==
  ASSUME IInv, NEW t \in Callers, TimerFires(t)
  PROVE  UNCHANGED Abstract!vars
<1>1. \A u \in Callers : InFlight(u)' <=> InFlight(u)
  BY DEF TimerFires, InFlight, IInv, TypeOK
<1>2. UNCHANGED <<query, outcome, issued, performed>>
  BY DEF TimerFires, client, network
<1> QED
  BY <1>1, <1>2 DEF Abstract!vars

\* Leaving a call closes it.
LEMMA LeaveCloses ==
  ASSUME IInv, NEW t \in Callers, InFlight(t), Leave(t)
  PROVE  /\ OpenCalls[t] # 0
         /\ OpenCalls' = [OpenCalls EXCEPT ![t] = 0]
         /\ UNCHANGED <<issued, PerformedCalls>>
<1>1. OpenCalls[t] # 0
  BY DEF OpenCalls, IInv, TypeOK, InFlightInv, Awaits, Numbered, Query
<1>2. \A u \in Callers :
        OpenCalls'[u] = IF u = t THEN 0 ELSE OpenCalls[u]
  <2>1. \A u \in Callers :
          /\ pc'[u] = IF u = t THEN "idle" ELSE pc[u]
          /\ u # t => query'[u] = query[u]
    BY DEF Leave, IInv, TypeOK
  <2> QED
    BY <2>1 DEF OpenCalls, InFlight
<1>3. OpenCalls' = [OpenCalls EXCEPT ![t] = 0]
  BY <1>2 DEF OpenCalls
<1>4. UNCHANGED <<issued, PerformedCalls>>
  BY DEF Leave, network, PerformedCalls
<1> QED
  BY <1>1, <1>3, <1>4

\* The device's word on a call is the word on the caller's own query, since
\* only the client that sent it queries that device.
LEMMA WordIsOwn ==
  ASSUME RInv, ConstantsAssumption, SeparateDevices,
         NEW t \in Callers, pc[t] = "answered",
         Verdict(response[t], seqno[ClientOf[t]]) \in {"success", "failure", "csi"}
  PROVE  /\ response[t].query = query[t]
         /\ query[t] \in performed
<1>1. Awaits(t) /\ Accepted(t)
  BY DEF RInv, IInv, InFlightInv, InFlight
<1>2. response[t] \in Answer /\ seqno[ClientOf[t]] \in Seqs
  BY <1>1 DEF RInv, IInv, TypeOK, Accepted, ConstantsAssumption
<1>3. response[t].query.seq = seqno[ClientOf[t]]
  BY <1>2, VerdictFacts
<1>4. /\ response[t].query \in performed
      /\ \/ response[t].query = query[t]
         \/ /\ response[t].query.client # query[t].client
            /\ response[t].query.addr = query[t].addr
  BY <1>3, AcceptedIsOwn DEF RInv
<1>5. response[t].query.client = query[t].client
  <2>1. query[t] \in requests /\ response[t].query \in requests
    BY <1>1, <1>4 DEF Awaits, RInv, IInv, Requested
  <2>2. /\ query[t].client \in Clients /\ response[t].query.client \in Clients
        /\ query[t].addr \in Targets[query[t].client]
        /\ response[t].query.addr \in Targets[response[t].query.client]
    BY <2>1 DEF RInv, OwnTargets, IInv, TypeOK, Query
  <2> QED
    BY <1>4, <2>2 DEF SeparateDevices
<1> QED
  BY <1>4, <1>5

LEMMA ReturnCloses ==
  ASSUME RInv, ConstantsAssumption, SeparateDevices,
         NEW t \in Callers, Return(t)
  PROVE  Abstract!Close(t)
<1> DEFINE v == Verdict(response[t], seqno[ClientOf[t]])
           end == Ended(v, query[t], response[t].query)
<1>1. /\ IInv /\ pc[t] = "answered" /\ InFlight(t) /\ Leave(t)
      /\ outcome' = [outcome EXCEPT ![t] = end]
  BY DEF Return, InFlight, RInv
<1>2. Awaits(t) /\ Accepted(t)
  BY <1>1 DEF IInv, InFlightInv
<1>3. /\ response[t] \in Answer /\ response[t].query \in Query
      /\ query[t] \in Query /\ seqno[ClientOf[t]] \in Seqs
  BY <1>1, <1>2 DEF IInv, TypeOK, Awaits, Accepted, Answer, ConstantsAssumption
<1>4. v \in {"success", "failure", "csi", "error", "mismatch"}
  BY <1>3, VerdictKinds
<1>5. v \in {"success", "failure"} => query[t] \in performed
  BY <1>1, WordIsOwn
<1> HIDE DEF v
<1>6. end \in Outcome /\ end.kind = v
  BY <1>3, <1>4, EndedType DEF Kinds
<1> HIDE DEF end
<1>7. Results' = [Results EXCEPT ![t] = ResultOf(v)]
  BY <1>1, <1>6, ResultsChange
<1>8. /\ OpenCalls[t] # 0
      /\ OpenCalls' = [OpenCalls EXCEPT ![t] = 0]
      /\ UNCHANGED <<issued, PerformedCalls>>
  BY <1>1, LeaveCloses
<1>9. query[t] \in performed => <<ClientOf[t], OpenCalls[t]>> \in PerformedCalls
  BY <1>1, <1>2 DEF Awaits, OpenCalls, PerformedCalls
<1>10. \/ /\ <<ClientOf[t], OpenCalls[t]>> \in PerformedCalls
          /\ ResultOf(v) \in {"success", "failure"}
       \/ ResultOf(v) = "error"
  BY <1>4, <1>5, <1>9, ResultFacts
<1> QED
  BY <1>7, <1>8, <1>10
     DEF Abstract!Close, Abstract!CallOf, Abstract!DeviceResults,
         Abstract!OtherResults, OpenCalls, PerformedCalls, Results

LEMMA TimeoutCloses ==
  ASSUME IInv, NEW t \in Callers, RaiseTimeout(t)
  PROVE  Abstract!Close(t)
<1> DEFINE end == Ended("timeout", query[t], NoQuery)
<1>1. /\ InFlight(t) /\ Leave(t)
      /\ outcome' = [outcome EXCEPT ![t] = end]
  BY DEF RaiseTimeout, InFlight
<1>2. end \in Outcome /\ end.kind = "timeout"
  BY DEF IInv, TypeOK, Ended, Outcome
<1> HIDE DEF end
<1>3. Results' = [Results EXCEPT ![t] = "timeout"]
  <2>1. Results' = [Results EXCEPT ![t] = ResultOf(end.kind)]
    BY <1>1, <1>2, ResultsChange
  <2> QED
    BY <1>2, <2>1, ResultFacts
<1>4. /\ OpenCalls[t] # 0
      /\ OpenCalls' = [OpenCalls EXCEPT ![t] = 0]
      /\ UNCHANGED <<issued, PerformedCalls>>
  BY <1>1, LeaveCloses
<1> QED
  BY <1>3, <1>4
     DEF Abstract!Close, Abstract!OtherResults, OpenCalls, PerformedCalls, Results

-----------------------------------------------------------------------------
(* The theorems *)

LEMMA InitRefines == ASSUME Init PROVE Abstract!Init
  BY ResultFacts DEF Init, Abstract!Init, InFlight, Ended

LEMMA StepRefines ==
  ASSUME RInv, ConstantsAssumption, SeparateDevices, [Next]_vars
  PROVE  [Abstract!Next]_(Abstract!vars)
<1> USE DEF RInv
<1>1. ASSUME NEW t \in Callers, RejectArguments(t) \/ Refuse(t)
      PROVE  Abstract!Next
  BY <1>1, RejectRefuses DEF Abstract!Next
<1>2. ASSUME NEW t \in Callers, TimerFires(t)
      PROVE  UNCHANGED Abstract!vars
  BY <1>2, TimerStutters
<1>3. ASSUME NEW t \in Callers, Return(t)
      PROVE  Abstract!Next
  BY <1>3, ReturnCloses DEF Abstract!Next
<1>4. ASSUME NEW t \in Callers, RaiseTimeout(t)
      PROVE  Abstract!Next
  BY <1>4, TimeoutCloses DEF Abstract!Next
<1>5. ASSUME NEW t \in Callers, NEW a \in Targets[ClientOf[t]], Send(t, a)
      PROVE  Abstract!Next
  BY <1>5, SendOpens DEF Abstract!Next
<1>6. ASSUME NEW t \in Callers, NEW a \in Targets[ClientOf[t]], SendFails(t, a)
      PROVE  Abstract!Next
  BY <1>6, SendFailsOpensNothing DEF Abstract!Next
<1>7. ASSUME NEW q \in requests, Handle(q)
      PROVE  Abstract!Next
  BY <1>7, HandlePerforms DEF Abstract!Next
<1>8. ASSUME NEW p \in answers, Dispatch(p)
      PROVE  UNCHANGED Abstract!vars
  BY <1>8, DispatchStutters
<1>9. CASE UNCHANGED vars
  BY <1>9 DEF vars, call, client, network, Abstract!vars, InFlight
<1> QED
  BY <1>1, <1>2, <1>3, <1>4, <1>5, <1>6, <1>7, <1>8, <1>9 DEF Next

LEMMA TargetsPreserved ==
  ASSUME IInv, ConstantsAssumption, OwnTargets, [Next]_vars
  PROVE  OwnTargets'
<1>1. ASSUME NEW t \in Callers, NEW a \in Targets[ClientOf[t]], Send(t, a)
      PROVE  OwnTargets'
  <2>1. NewQuery(t, a).client = ClientOf[t] /\ NewQuery(t, a).addr = a
    BY DEF NewQuery
  <2>2. requests' = requests \cup {NewQuery(t, a)}
    BY <1>1 DEF Send
  <2> QED
    BY <2>1, <2>2 DEF OwnTargets
<1>2. CASE UNCHANGED requests
  BY <1>2 DEF OwnTargets
<1>3. \/ UNCHANGED requests
      \/ \E t \in Callers : \E a \in Targets[ClientOf[t]] : Send(t, a)
  BY DEF Next, RejectArguments, Refuse, SendFails, Handle, Dispatch, TimerFires,
         Return, RaiseTimeout, Leave, vars, network
<1> QED
  BY <1>1, <1>2, <1>3

\* A client queries its own devices, and the invariant of the engine holds.
LEMMA RefinementInvariance == Spec => []RInv
<1>1. Init => OwnTargets
  BY DEF Init, OwnTargets
<1>2. IInv /\ OwnTargets /\ [Next]_vars => OwnTargets'
  BY TargetsPreserved, ConstantsAssumption
<1> QED
  BY <1>1, <1>2, Invariance, PTL DEF Spec, RInv

\* send_command keeps its promise: a caller has one call open at a time, a
\* client too, and a call that ends with the device's word was performed by the
\* device, that very call and no older one - whatever the network loses,
\* delays, repeats or reorders within MaxSeq queries (client.py:350-448).
THEOREM EngineImplementsErciCall ==
  ASSUME SeparateDevices
  PROVE  Spec => ImplementsErciCall
<1>1. Init => Abstract!Init
  BY InitRefines
<1>2. RInv /\ [Next]_vars => [Abstract!Next]_(Abstract!vars)
  BY StepRefines, ConstantsAssumption
<1> QED
  BY <1>1, <1>2, RefinementInvariance, PTL
     DEF Spec, ImplementsErciCall, Abstract!Spec

\* An outcome that is a device's word is about a query that was sent.
WordOnSent ==
  \A t \in Callers :
    outcome[t].kind \in {"success", "failure", "csi"} => outcome[t].query \in requests

LEMMA WordOnSentPreserved ==
  ASSUME IInv, ConstantsAssumption, WordOnSent, [Next]_vars
  PROVE  WordOnSent'
<1>1. requests \subseteq requests'
  BY DEF Next, RejectArguments, Refuse, Send, SendFails, Handle, Dispatch,
         TimerFires, Return, RaiseTimeout, Leave, vars, network
<1>2. CASE UNCHANGED outcome
  BY <1>1, <1>2 DEF WordOnSent
<1>3. ASSUME NEW t \in Callers, NEW k \in {"rejected", "locked", "oserror", "timeout"},
             NEW q, outcome' = [outcome EXCEPT ![t] = Ended(k, q, NoQuery)]
      PROVE  WordOnSent'
  <2>1. \A u \in Callers :
          outcome'[u] = IF u = t THEN Ended(k, q, NoQuery) ELSE outcome[u]
    BY <1>3 DEF IInv, TypeOK
  <2>2. Ended(k, q, NoQuery).kind \notin {"success", "failure", "csi"}
    BY DEF Ended
  <2> QED
    BY <1>1, <2>1, <2>2 DEF WordOnSent
<1>4. ASSUME NEW t \in Callers, Return(t)
      PROVE  WordOnSent'
  <2> DEFINE end == Ended(Verdict(response[t], seqno[ClientOf[t]]),
                          query[t], response[t].query)
  <2>1. query[t] \in requests
    BY <1>4 DEF Return, IInv, InFlightInv, InFlight, Awaits
  <2>2. end.query = query[t]
    BY DEF Ended
  <2>3. \A u \in Callers : outcome'[u] = IF u = t THEN end ELSE outcome[u]
    BY <1>4 DEF Return, IInv, TypeOK
  <2> HIDE DEF end
  <2> QED
    BY <1>1, <2>1, <2>2, <2>3 DEF WordOnSent
<1>5. \/ UNCHANGED outcome
      \/ \E t \in Callers : Return(t)
      \/ \E t \in Callers :
           \E k \in {"rejected", "locked", "oserror", "timeout"} : \E q :
             outcome' = [outcome EXCEPT ![t] = Ended(k, q, NoQuery)]
  <2>1. ASSUME NEW t \in Callers, RejectArguments(t) \/ Refuse(t) \/ RaiseTimeout(t)
        PROVE  \E k \in {"rejected", "locked", "oserror", "timeout"} : \E q :
                 outcome' = [outcome EXCEPT ![t] = Ended(k, q, NoQuery)]
    BY <2>1 DEF RejectArguments, Refuse, RaiseTimeout
  <2>2. ASSUME NEW t \in Callers, NEW a \in Targets[ClientOf[t]], SendFails(t, a)
        PROVE  outcome' = [outcome EXCEPT ![t] =
                             Ended("oserror", NewQuery(t, a), NoQuery)]
    BY <2>2 DEF SendFails
  <2>3. CASE \/ \E t \in Callers :
                  \/ TimerFires(t)
                  \/ \E a \in Targets[ClientOf[t]] : Send(t, a)
             \/ \E q \in requests : Handle(q)
             \/ \E p \in answers : Dispatch(p)
             \/ UNCHANGED vars
    BY <2>3 DEF TimerFires, Send, Handle, Dispatch, vars, call
  <2> QED
    BY <2>1, <2>2, <2>3 DEF Next
<1> QED
  BY <1>2, <1>3, <1>4, <1>5

\* The device's word that a caller is given is on the caller's own query.
OnlyOwnAnswers ==
  \A t \in Callers :
    outcome[t].kind \in {"success", "failure", "csi"} =>
      outcome[t].answered = outcome[t].query

LEMMA OwnFacts ==
  ASSUME RInv, WordOnSent, SeparateDevices PROVE OnlyOwnAnswers
<1> SUFFICES ASSUME NEW t \in Callers,
                    outcome[t].kind \in {"success", "failure", "csi"}
             PROVE  outcome[t].answered = outcome[t].query
  BY DEF OnlyOwnAnswers
<1> DEFINE q == outcome[t].query
           a == outcome[t].answered
<1>1. q \in requests /\ a \in requests
  BY DEF WordOnSent, RInv, IInv, AnswerIsOwn, Requested
<1>2. /\ q.client \in Clients /\ q.addr \in Targets[q.client]
      /\ a.client \in Clients /\ a.addr \in Targets[a.client]
  BY <1>1 DEF RInv, OwnTargets, IInv, TypeOK, Query
<1>3. a = q \/ (a.client # q.client /\ a.addr = q.addr)
  BY DEF RInv, IInv, AnswerIsOwn
<1> QED
  BY <1>2, <1>3 DEF SeparateDevices

\* When no device is shared, the exception that AnswerIsOwn makes for the
\* subscriber list of the process disappears: the device's word that a caller is
\* given is always on its own query (udpServer.py:33, client.py:64-75).
THEOREM AnswersAreOwn ==
  ASSUME SeparateDevices
  PROVE  Spec => []OnlyOwnAnswers
<1>1. Init => WordOnSent
  BY DEF Init, WordOnSent, Ended
<1>2. IInv /\ WordOnSent /\ [Next]_vars => WordOnSent'
  BY WordOnSentPreserved, ConstantsAssumption
<1>3. RInv /\ WordOnSent => OnlyOwnAnswers
  BY OwnFacts
<1> QED
  BY <1>1, <1>2, <1>3, RefinementInvariance, PTL DEF Spec, RInv

-----------------------------------------------------------------------------
(* The inductive invariant of the batch tool *)

BatchTypes ==
  /\ file \in [Callers -> LineKinds]
  /\ job \in [Callers -> JobStates]
  /\ main \in {"reading", "starting", "waiting", "raised", "done"}

Sent(t) ==
  \E q \in requests : q.client = ClientOf[t] /\ q.addr \in Targets[ClientOf[t]]

\* The line's own client could not be made, or could not send.
Unsent(t) == job[t] = "crashed" /\ outcome[t].kind \in {"none", "oserror"}

\* How exec may report a line that is an address.
Reported(t) ==
  /\ outcome[t].kind \in Kinds \cup {"timeout", "error", "mismatch"}
  /\ outcome[t].kind = "success" => outcome[t].query.addr \in Targets[ClientOf[t]]

LineInv(t) ==
  /\ main = "reading" <=> job[t] = "unread"
  /\ job[t] = "queued" => main = "starting"
  /\ main = "done" => job[t] \in {"skipped", "reported"}
  /\ main # "reading" => (job[t] = "skipped" <=> file[t] = "other")
  /\ job[t] \in {"unread", "queued"} => outcome[t].kind = "none"
  /\ InFlight(t) <=> job[t] = "running"
  /\ InFlight(t) => query[t].addr \in Targets[ClientOf[t]]
  /\ file[t] = "address" /\ job[t] \in {"running", "reported", "crashed"} =>
       Sent(t) \/ Unsent(t)
  /\ file[t] = "address" /\ job[t] = "reported" => Reported(t)

BatchInv == /\ IInv
            /\ BatchTypes
            /\ \A t \in Callers : LineInv(t)

-----------------------------------------------------------------------------
(* The engine's part *)

\* Every step of the tool is a step of the engine, or none of its business.
LEMMA EngineStep == ASSUME BatchNext PROVE Next \/ UNCHANGED vars
<1>1. CASE ReadFile \/ Started \/ Crash \/ Finish
  BY <1>1 DEF ReadFile, Started, Crash, Finish
<1>2. ASSUME NEW t \in Callers, Start(t) PROVE Next \/ UNCHANGED vars
  BY <1>2 DEF Start, Next
<1>3. ASSUME NEW t \in Callers, Expire(t) PROVE Next
  BY <1>3 DEF Expire, Next
<1>4. ASSUME NEW t \in Callers, Report(t) PROVE Next
  BY <1>4 DEF Report, Next
<1>5. ASSUME NEW p \in answers, Deliver(p) PROVE Next
  BY <1>5 DEF Deliver, Next
<1>6. ASSUME NEW q \in requests, DeviceHandles(q) PROVE Next
  BY <1>6 DEF DeviceHandles, Next
<1> QED
  BY <1>1, <1>2, <1>3, <1>4, <1>5, <1>6 DEF BatchNext

\* An address of a line is a member of Addresses, and its query is well typed.
LEMMA LineFacts ==
  ASSUME ConstantsAssumption, NEW t \in Callers
  PROVE  /\ ClientOf[t] \in Clients
         /\ \A a \in Targets[ClientOf[t]] : a \in Addresses
  BY DEF ConstantsAssumption, Addresses

-----------------------------------------------------------------------------
(* The lines *)

\* A step leaves a line's invariant alone when it leaves the line and its call
\* alone; more may have been sent.
LEMMA Untouched ==
  ASSUME NEW u \in Callers, LineInv(u), UNCHANGED <<file, main>>,
         InFlight(u)' <=> InFlight(u),
         job'[u] = job[u], query'[u] = query[u], outcome'[u] = outcome[u],
         requests \subseteq requests'
  PROVE  LineInv(u)'
  BY DEF LineInv, Sent, Unsent, Reported

\* What a step of one line may change.
OnlyLine(t) ==
  /\ requests \subseteq requests'
  /\ \A u \in Callers \ {t} :
       /\ pc'[u] = pc[u] /\ query'[u] = query[u] /\ outcome'[u] = outcome[u]
       /\ job'[u] = job[u]
  /\ UNCHANGED <<file, main>>

LEMMA OthersKeep ==
  ASSUME NEW t \in Callers, \A u \in Callers : LineInv(u), OnlyLine(t), LineInv(t)'
  PROVE  \A u \in Callers : LineInv(u)'
<1>1. ASSUME NEW u \in Callers, u # t PROVE LineInv(u)'
  <2>1. InFlight(u)' <=> InFlight(u)
    BY <1>1 DEF OnlyLine, InFlight
  <2> QED
    BY <1>1, <2>1, Untouched DEF OnlyLine
<1> QED
  BY <1>1

LEMMA StartStep ==
  ASSUME BatchInv, ConstantsAssumption, NEW t \in Callers, Start(t)
  PROVE  BatchTypes' /\ \A u \in Callers : LineInv(u)'
<1>1. /\ main = "starting" /\ job[t] = "queued" /\ ~InFlight(t)
      /\ UNCHANGED <<file, main>>
      /\ outcome[t].kind = "none"
  BY DEF Start, BatchInv, LineInv
<1>2. /\ job \in [Callers -> JobStates] /\ pc \in [Callers -> {"idle", "waiting", "answered", "expired"}]
      /\ outcome \in [Callers -> Outcome]
      /\ query \in [Callers -> Query \cup {NoQuery}]
  BY DEF BatchInv, BatchTypes, IInv, TypeOK
<1>3. ASSUME NEW a \in Targets[ClientOf[t]], file[t] = "address", Send(t, a),
             Become(t, "running")
      PROVE  OnlyLine(t) /\ LineInv(t)'
  <2> DEFINE nq == NewQuery(t, a)
  <2>1. /\ query'[t] = nq /\ pc'[t] = "waiting" /\ job'[t] = "running"
        /\ nq \in requests'
    BY <1>2, <1>3 DEF Send, Become
  <2>2. nq.client = ClientOf[t] /\ nq.addr = a
    BY DEF NewQuery
  <2>3. OnlyLine(t)
    BY <1>1, <1>2, <1>3 DEF Send, Become, OnlyLine
  <2>4. Sent(t)'
    BY <2>1, <2>2 DEF Sent
  <2>5. InFlight(t)'
    BY <2>1 DEF InFlight
  <2> QED
    BY <1>1, <1>3, <2>1, <2>2, <2>3, <2>4, <2>5 DEF LineInv
<1>4. ASSUME NEW a \in Targets[ClientOf[t]], file[t] = "address", SendFails(t, a),
             Become(t, "crashed")
      PROVE  OnlyLine(t) /\ LineInv(t)'
  <2>1. outcome'[t].kind = "oserror" /\ pc'[t] = pc[t] /\ job'[t] = "crashed"
    BY <1>2, <1>4 DEF SendFails, Become, Ended
  <2>2. OnlyLine(t)
    BY <1>1, <1>2, <1>4 DEF SendFails, Become, OnlyLine, network
  <2>3. Unsent(t)' /\ ~InFlight(t)'
    BY <1>1, <2>1 DEF Unsent, InFlight
  <2> QED
    BY <1>1, <1>4, <2>1, <2>2, <2>3 DEF LineInv
<1>5. ASSUME file[t] = "name", RejectArguments(t), Become(t, "reported")
      PROVE  OnlyLine(t) /\ LineInv(t)'
  <2>1. pc' = pc /\ job'[t] = "reported"
    BY <1>2, <1>5 DEF RejectArguments, Become
  <2>2. OnlyLine(t)
    BY <1>1, <1>2, <1>5 DEF RejectArguments, Become, OnlyLine, network
  <2>3. ~InFlight(t)'
    BY <1>1, <2>1 DEF InFlight
  <2> QED
    BY <1>1, <1>5, <2>1, <2>2, <2>3 DEF LineInv
<1>6. ASSUME UNCHANGED vars, Become(t, "crashed")
      PROVE  OnlyLine(t) /\ LineInv(t)'
  <2>1. pc' = pc /\ outcome' = outcome /\ job'[t] = "crashed"
    BY <1>2, <1>6 DEF Become, vars, call
  <2>2. OnlyLine(t)
    BY <1>1, <1>2, <1>6 DEF Become, OnlyLine, vars, call, network
  <2>3. Unsent(t)' /\ ~InFlight(t)'
    BY <1>1, <2>1 DEF Unsent, InFlight
  <2>4. file[t] # "other"
    BY <1>1 DEF BatchInv, LineInv
  <2>5. LineInv(t)'
    BY <1>1, <2>1, <2>3, <2>4 DEF LineInv
  <2> QED
    BY <2>2, <2>5
<1>7. OnlyLine(t) /\ LineInv(t)'
  BY <1>3, <1>4, <1>5, <1>6 DEF Start
<1>8. BatchTypes'
  BY <1>1 DEF Start, Become, BatchInv, BatchTypes, JobStates
<1> QED
  BY <1>7, <1>8, OthersKeep DEF BatchInv

LEMMA ReportStep ==
  ASSUME BatchInv, ConstantsAssumption, NEW t \in Callers, Report(t)
  PROVE  BatchTypes' /\ \A u \in Callers : LineInv(u)'
<1>1. /\ main = "waiting" /\ UNCHANGED <<file, main>>
      /\ pc[t] \in {"answered", "expired"}
      /\ Leave(t)
      /\ Become(t, "reported") \/ Become(t, "crashed")
  BY DEF Report, Return, RaiseTimeout
<1>2. /\ job \in [Callers -> JobStates]
      /\ pc \in [Callers -> {"idle", "waiting", "answered", "expired"}]
      /\ outcome \in [Callers -> Outcome]
      /\ query \in [Callers -> Query \cup {NoQuery}]
  BY DEF BatchInv, BatchTypes, IInv, TypeOK
<1>3. /\ InFlight(t) /\ job[t] = "running"
      /\ query[t].addr \in Targets[ClientOf[t]]
      /\ file[t] = "address" => Sent(t)
  BY <1>1 DEF InFlight, BatchInv, LineInv, Unsent
<1>4. /\ outcome'[t].kind \in Kinds \cup {"timeout", "error", "mismatch"}
      /\ outcome'[t].query = query[t]
      /\ \A u \in Callers \ {t} : outcome'[u] = outcome[u]
  <2>1. CASE Return(t)
    <3>1. response[t] \in Answer /\ seqno[ClientOf[t]] \in Seqs
      BY <2>1, LineFacts DEF Return, BatchInv, IInv, TypeOK, InFlightInv, Accepted
    <3>2. Verdict(response[t], seqno[ClientOf[t]]) \in Kinds \cup {"error", "mismatch"}
      BY <3>1, VerdictFacts
    <3>3. outcome' = [outcome EXCEPT ![t] =
                        Ended(Verdict(response[t], seqno[ClientOf[t]]),
                              query[t], response[t].query)]
      BY <2>1 DEF Return
    <3> QED
      BY <1>2, <3>2, <3>3 DEF Ended
  <2>2. CASE RaiseTimeout(t)
    BY <1>2, <2>2 DEF RaiseTimeout, Ended
  <2> QED
    BY <2>1, <2>2 DEF Report
<1>5. /\ job'[t] \in {"reported", "crashed"}
      /\ \A u \in Callers \ {t} : job'[u] = job[u]
      /\ job' \in [Callers -> JobStates]
  BY <1>1, <1>2 DEF Become, JobStates
<1>6. OnlyLine(t)
  BY <1>1, <1>2, <1>4, <1>5 DEF Leave, OnlyLine, network
<1>7. LineInv(t)'
  <2>1. ~InFlight(t)'
    BY <1>1, <1>2 DEF Leave, InFlight
  <2>2. file[t] = "address" => Sent(t)'
    BY <1>1, <1>3 DEF Sent, Leave, network
  <2>3. Reported(t)'
    BY <1>3, <1>4 DEF Reported
  <2>4. file'[t] # "other" /\ main' # "reading" /\ main' # "done"
    BY <1>1, <1>3 DEF BatchInv, LineInv
  <2>5. /\ file'[t] = "address" => Sent(t)' \/ Unsent(t)'
        /\ file'[t] = "address" => Reported(t)'
    BY <1>1, <2>2, <2>3
  <2>6. job'[t] \notin {"unread", "queued", "skipped", "running"}
    BY <1>5
  <2> QED
    BY ONLY <2>1, <2>4, <2>5, <2>6 DEF LineInv
<1>8. BatchTypes'
  BY <1>1, <1>5 DEF BatchInv, BatchTypes
<1> QED
  BY <1>6, <1>7, <1>8, OthersKeep DEF BatchInv

\* Timers, datagrams and devices change no line.
LEMMA WorldStep ==
  ASSUME BatchInv,
         \/ \E t \in Callers : Expire(t)
         \/ \E p \in answers : Deliver(p)
         \/ \E q \in requests : DeviceHandles(q)
  PROVE  BatchTypes' /\ \A u \in Callers : LineInv(u)'
<1>1. /\ UNCHANGED <<file, job, main, query, outcome, requests>>
      /\ \A u \in Callers : InFlight(u)' <=> InFlight(u)
  BY DEF BatchInv, IInv, TypeOK, InFlight, Expire, TimerFires, Deliver, Dispatch,
         DeviceHandles, Handle, call, client, network
<1>2. \A u \in Callers : LineInv(u)'
  BY <1>1, Untouched DEF BatchInv
<1> QED
  BY <1>1, <1>2 DEF BatchInv, BatchTypes

\* Steps of the main program.
LEMMA MainStep ==
  ASSUME BatchInv, ReadFile \/ Started \/ Crash \/ Finish
  PROVE  BatchTypes' /\ \A u \in Callers : LineInv(u)'
<1>1. UNCHANGED <<vars, file>>
  BY DEF ReadFile, Started, Crash, Finish
<1>2. \A u \in Callers : /\ InFlight(u)' <=> InFlight(u)
                         /\ query'[u] = query[u] /\ outcome'[u] = outcome[u]
                         /\ Sent(u)' <=> Sent(u)
  BY <1>1 DEF vars, call, network, InFlight, Sent
<1>3. CASE ReadFile
  <2>1. ASSUME NEW u \in Callers PROVE LineInv(u)'
    <3>1. job'[u] = IF file[u] = "other" THEN "skipped" ELSE "queued"
      BY <1>3 DEF ReadFile
    <3>2. job[u] = "unread" /\ main' = "starting" /\ LineInv(u)
      BY <1>3 DEF ReadFile, BatchInv, LineInv
    <3>3. CASE file[u] = "other"
      BY <1>1, <1>2, <3>1, <3>2, <3>3 DEF LineInv
    <3>4. CASE file[u] # "other"
      BY <1>1, <1>2, <3>1, <3>2, <3>4 DEF LineInv
    <3> QED
      BY <3>3, <3>4
  <2>2. BatchTypes'
    BY <1>3 DEF ReadFile, BatchInv, BatchTypes, JobStates
  <2> QED
    BY <2>1, <2>2
<1>4. CASE Started \/ Crash \/ Finish
  <2>1. /\ job' = job /\ main # "reading"
        /\ main' \in {"waiting", "raised", "done"}
    BY <1>4 DEF Started, Crash, Finish
  <2>2. ASSUME NEW u \in Callers PROVE LineInv(u)'
    <3>1. LineInv(u) /\ job[u] # "queued"
      BY <1>4 DEF BatchInv, LineInv, Started, Crash, Finish
    <3>2. /\ Unsent(u)' <=> Unsent(u)
          /\ Reported(u)' <=> Reported(u)
      BY <1>2, <2>1 DEF Unsent, Reported
    <3>3. main' = "done" => job[u] \in {"skipped", "reported"}
      BY <1>4 DEF Started, Crash, Finish
    <3> QED
      BY <1>1, <1>2, <2>1, <3>1, <3>2, <3>3 DEF LineInv
  <2> QED
    BY <1>1, <2>1, <2>2 DEF BatchInv, BatchTypes
<1> QED
  BY <1>3, <1>4

LEMMA BatchInitEstablishes == ASSUME ConstantsAssumption, BatchInit PROVE BatchInv
<1>1. IInv
  BY InitEstablishes DEF BatchInit
<1>2. BatchTypes
  BY DEF BatchInit, BatchTypes, JobStates
<1>3. ASSUME NEW u \in Callers PROVE LineInv(u)
  <2>1. /\ main = "reading" /\ job[u] = "unread" /\ pc[u] = "idle"
        /\ outcome[u].kind = "none"
    BY DEF BatchInit, Init, Ended
  <2> QED
    BY <2>1 DEF LineInv, InFlight
<1> QED
  BY <1>1, <1>2, <1>3 DEF BatchInv

LEMMA BatchNextPreserves ==
  ASSUME ConstantsAssumption, BatchInv, [BatchNext]_batchVars
  PROVE  BatchInv'
<1>1. IInv'
  <2>1. [Next]_vars
    BY EngineStep DEF batchVars
  <2> QED
    BY <2>1, NextPreserves DEF BatchInv
<1>2. CASE BatchNext
  <2>1. BatchTypes' /\ \A u \in Callers : LineInv(u)'
    BY <1>2, StartStep, ReportStep, WorldStep, MainStep DEF BatchNext
  <2> QED
    BY <1>1, <2>1 DEF BatchInv
<1>3. CASE UNCHANGED batchVars
  <2>1. /\ UNCHANGED <<file, job, main, pc, query, outcome, requests>>
    BY <1>3 DEF batchVars, vars, call, network
  <2>2. \A u \in Callers : LineInv(u)'
    BY <2>1, Untouched DEF BatchInv, InFlight
  <2> QED
    BY <1>1, <2>1, <2>2 DEF BatchInv, BatchTypes
<1> QED
  BY <1>2, <1>3

-----------------------------------------------------------------------------
(* The theorems *)

\* The inductive invariant holds in every reachable state of the tool.
THEOREM BatchInvariance == BatchSpec => []BatchInv
<1>1. BatchInit => BatchInv
  BY BatchInitEstablishes, ConstantsAssumption
<1>2. BatchInv /\ [BatchNext]_batchVars => BatchInv'
  BY BatchNextPreserves, ConstantsAssumption
<1> QED
  BY <1>1, <1>2, PTL DEF BatchSpec

\* For every file the tool's variables keep their types, exactly the lines that are
\* kept have a coroutine, and exactly the coroutines that run have a call in flight
\* (run_batch.py:20-66).
THEOREM BatchTypeCorrect == BatchSpec => []BatchTypeOK
<1>1. BatchInv => BatchTypeOK
  BY DEF BatchInv, BatchTypes, BatchTypeOK, LineInv
<1> QED
  BY <1>1, BatchInvariance, PTL

\* However long the file is and however often it names a device: a line is
\* given the word of its device on its own query, or on that of another line
\* that names the same device (run_batch.py:20-34).
THEOREM BatchOwnAnswers == BatchSpec => []AnswerIsOwn
<1>1. BatchInv => AnswerIsOwn
  BY DEF BatchInv, IInv
<1> QED
  BY <1>1, BatchInvariance, PTL

\* A coroutine that ends with an exception keeps no other line's command from
\* being sent (run_batch.py:30-34).
THEOREM AllCommanded == BatchSpec => []EveryDeviceCommanded
<1>1. ASSUME BatchInv PROVE EveryDeviceCommanded
  <2>1. ASSUME main \in {"waiting", "raised", "done"},
               NEW t \in Callers, file[t] = "address"
        PROVE  Sent(t) \/ Unsent(t)
    <3>1. job[t] \in JobStates /\ LineInv(t)
      BY <1>1 DEF BatchInv, BatchTypes
    <3> QED
      BY <2>1, <3>1 DEF LineInv, JobStates
  <2> QED
    BY <2>1 DEF EveryDeviceCommanded, Sent, Unsent
<1> QED
  BY <1>1, BatchInvariance, PTL

\* A program that ends normally has reported every line, and a success only
\* where the line's device has carried out a command of the program
\* (run_batch.py:20-34).
THEOREM AllReported == BatchSpec => []DoneMeansAllReported
<1>1. ASSUME BatchInv PROVE DoneMeansAllReported
  <2>1. ASSUME main = "done", NEW t \in Callers, file[t] = "address"
        PROVE  Reported(t)
    BY <1>1, <2>1 DEF BatchInv, LineInv
  <2>2. ASSUME NEW t \in Callers, Reported(t), outcome[t].kind = "success"
        PROVE  \E q \in performed : q.addr \in Targets[ClientOf[t]]
    <3>1. /\ outcome[t].answered \in performed
          /\ outcome[t].answered.addr = outcome[t].query.addr
      BY <1>1, <2>2 DEF BatchInv, IInv, AnswerIsOwn
    <3> QED
      BY <2>2, <3>1 DEF Reported
  <2> QED
    BY <2>1, <2>2 DEF DoneMeansAllReported, Reported
<1> QED
  BY <1>1, BatchInvariance, PTL

-----------------------------------------------------------------------------
(* A file that names no device twice *)

\* BatchInv with what the refinement needs.
SeparateInv == BatchInv /\ OwnTargets /\ WordOnSent

LEMMA SeparateInvariance == BatchSpec => []SeparateInv
<1>1. BatchInit => OwnTargets /\ WordOnSent
  BY DEF BatchInit, Init, OwnTargets, WordOnSent, Ended
<1>2. BatchInv /\ OwnTargets /\ WordOnSent /\ [BatchNext]_batchVars
        => OwnTargets' /\ WordOnSent'
  <2> SUFFICES ASSUME BatchInv, OwnTargets, WordOnSent, [BatchNext]_batchVars
               PROVE  OwnTargets' /\ WordOnSent'
    OBVIOUS
  <2>1. IInv /\ [Next]_vars
    BY EngineStep DEF batchVars, BatchInv
  <2> QED
    BY <2>1, TargetsPreserved, WordOnSentPreserved, ConstantsAssumption
<1> QED
  BY <1>1, <1>2, BatchInvariance, PTL DEF BatchSpec, SeparateInv

\* If no two lines name the same device, each line is one call of ErciCall: a
\* line that is given its device's word was carried out, whatever became of the
\* other lines (run_batch.py:20-34).
THEOREM BatchImplementsErciCall ==
  ASSUME SeparateDevices
  PROVE  BatchSpec => ImplementsErciCall
<1>1. BatchInit => Abstract!Init
  BY InitRefines DEF BatchInit
<1>2. SeparateInv /\ [BatchNext]_batchVars => [Abstract!Next]_(Abstract!vars)
  <2> SUFFICES ASSUME SeparateInv, [BatchNext]_batchVars
               PROVE  [Abstract!Next]_(Abstract!vars)
    OBVIOUS
  <2>1. RInv /\ [Next]_vars
    BY EngineStep DEF batchVars, SeparateInv, BatchInv, RInv
  <2> QED
    BY <2>1, StepRefines, ConstantsAssumption
<1> QED
  BY <1>1, <1>2, SeparateInvariance, PTL
     DEF BatchSpec, ImplementsErciCall, Abstract!Spec

\* ... and a result that is reported is the device's word on the line's own
\* query: it takes a device named twice to mix them up (run_batch.py:20-34,
\* udpServer.py:33).
THEOREM BatchAnswersAreOwn ==
  ASSUME SeparateDevices
  PROVE  BatchSpec => []OnlyOwnAnswers
<1>1. SeparateInv => OnlyOwnAnswers
  BY OwnFacts DEF SeparateInv, BatchInv, RInv
<1> QED
  BY <1>1, SeparateInvariance, PTL
=============================================================================
