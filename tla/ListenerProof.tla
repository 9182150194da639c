---------------------------- MODULE ListenerProof --------------------------
(***************************************************************************)
(* Proofs about the MQTT listener, for any number of messages and on either *)
(* network.  The argument: what is under way belongs to the process that    *)
(* runs, or an acknowledgement of its message or of one before it says that *)
(* a process has been given up.                                             *)
(***************************************************************************)
EXTENDS Listener, TLAPS

Handled == {n \in Messages : acks[n] # "none"}

\* Messages are published, taken and finished in the order of their numbers.
Ordered ==
  /\ \A n \in Published, m \in Messages : m < n => m \in Published
  /\ Handled \subseteq Published
  /\ \A i, j \in 1 .. Len(inbox) : i < j => inbox[i] < inbox[j]
  /\ \A i \in 1 .. Len(inbox) :
       (current # 0 => current < inbox[i]) /\ \A m \in Handled : m < inbox[i]
  /\ current # 0 => \A m \in Handled : m < current

\* Only commands of messages that are or were handled are about.
Begun ==
  /\ performed \subseteq Handled \cup {current}
  /\ wire \subseteq Handled \cup {current}
  /\ \A a \in answers : a[1] \in Handled \cup {current}

\* Every command is answered once, and "SUCCESS" by the device that obeyed.
Single ==
  /\ \A a \in answers : a[1] \notin wire /\ (a[2] = "SUCCESS" => a[1] \in performed)
  /\ \A a, b \in answers : a[1] = b[1] => a = b

\* What is under way is that of the running process, or announced as late; a
\* process that took an answer took its own, or a late one.
Own ==
  /\ \A m \in wire : m = current \/ LateUpTo(m)
  /\ \A a \in answers : a[1] = current \/ LateUpTo(a[1])
  /\ response = "SUCCESS" => current \in performed \/ LateBefore(current)
  /\ status = "answered" =>
       LateBefore(current) \/ (current \notin wire /\ \A a \in answers : a[1] # current)

\* The ring is that of the last command carried out.
RingOfLastPerformed ==
  ~interfered =>
    \A n \in performed :
      (\A m \in performed : m <= n) /\ ~LateUpTo(n) => ereb.ring = RingOf(payload[n])

\* The inductive invariant.
IInv ==
  /\ TypeOK
  /\ Ordered
  /\ Begun
  /\ Single
  /\ Own
  /\ ChangedMeansPerformed
  /\ RingOfLastPerformed

-----------------------------------------------------------------------------
(* The device *)

LEMMA SwitchFacts ==
  ASSUME NEW d \in Device!Device, NEW p
  PROVE  LET f == SwitchRing(p)
             verdict == Device!Answer(d, f).kind
         IN /\ Device!After(d, f) \in Device!Device
            /\ verdict \in {"SUCCESS", "WRONG_STATE"}
            /\ verdict = "SUCCESS" => Device!After(d, f).ring = RingOf(p)
            /\ verdict # "SUCCESS" => Device!After(d, f) = d
<1> DEFINE f == SwitchRing(p)
<1>1. /\ f.cmd = "SWITCH_RING" /\ f.ring = RingOf(p) /\ f.antenna = 1
      /\ RingOf(p) \in {1, 2}
  BY DEF SwitchRing, RingOf
<1>2. Device!Answer(d, f).kind = IF Device!Allowed(d, f.cmd) THEN "SUCCESS" ELSE "WRONG_STATE"
  BY <1>1 DEF Device!Answer
<1>3. CASE Device!Allowed(d, f.cmd)
  <2>1. Device!After(d, f) = [d EXCEPT !.ring = f.ring, !.antenna = f.antenna]
    BY <1>1, <1>3 DEF Device!After, Device!Applied
  <2> QED
    BY <1>1, <1>2, <1>3, <2>1 DEF Device!Device
<1>4. CASE ~Device!Allowed(d, f.cmd)
  BY <1>2, <1>4 DEF Device!After
<1> QED
  BY <1>3, <1>4

LEMMA ControlFacts ==
  ASSUME NEW d \in Device!Device, NEW cmd \in {"SELECT_CONFIG", "START", "STOP"}
  PROVE  Device!After(d, [cmd |-> cmd, config |-> 1, ring |-> 1, antenna |-> 1, flag |-> 0])
           \in Device!Device
  BY DEF Device!After, Device!Applied, Device!Device, Device!States, Device!NoId

-----------------------------------------------------------------------------
(* The types *)

LEMMA PublishedFacts ==
  /\ Published \subseteq Messages
  /\ \A n \in Messages : n \in Nat /\ n # 0
  BY ListenerAssumption DEF Published, Messages

LEMMA TypeInit == Init => TypeOK
<1> SUFFICES ASSUME Init PROVE TypeOK
  OBVIOUS
<1>1. inbox \in Seq(Published)
  BY DEF Init
<1>2. ereb \in Device!Device
  <2>1. Device!PowerOn \in Device!Device
    BY DEF Device!PowerOn, Device!Device, Device!States, Device!NoId
  <2>2. [Device!PowerOn EXCEPT !.state = "RUNNING", !.config = 1, !.ring = 1, !.antenna = 1]
          \in Device!Device
    BY <2>1 DEF Device!Device, Device!States
  <2> QED
    BY <2>1, <2>2 DEF Init
<1> QED
  BY <1>1, <1>2 DEF Init, TypeOK, Payloads, AckKinds

LEMMA TypePublish ==
  ASSUME TypeOK, NEW n \in Messages, NEW p \in Payloads, Publish(n, p)
  PROVE  TypeOK' /\ Published' = Published \cup {n} /\ n \notin Published
<1>1. /\ n \notin Published /\ payload' = [payload EXCEPT ![n] = p]
      /\ payload \in [Messages -> Payloads \cup {"none"}]
      /\ inbox' = Append(inbox, n) /\ inbox \in Seq(Published)
      /\ UNCHANGED <<network, running, process, wire, answers, ereb, performed, heard,
                     interfered, acks>>
  BY DEF Publish, TypeOK
<1>2. p # "none"
  BY DEF Payloads
<1>3. Published' = Published \cup {n}
  BY <1>1, <1>2 DEF Published
<1>4. inbox' \in Seq(Published')
  <2>1. inbox \in Seq(Published')
    BY <1>1, <1>3
  <2> QED
    BY <1>1, <1>3, <2>1
<1>5. payload' \in [Messages -> Payloads \cup {"none"}]
  BY <1>1
<1> QED
  BY <1>1, <1>3, <1>4, <1>5 DEF TypeOK, process

LEMMA TypeTake ==
  ASSUME TypeOK, Take
  PROVE  /\ TypeOK' /\ Published' = Published /\ Head(inbox) \in Published
         /\ inbox # <<>> /\ inbox' \in Seq(Published) /\ Len(inbox') = Len(inbox) - 1
         /\ \A i \in 1 .. Len(inbox') : inbox'[i] = inbox[i + 1]
         /\ Head(inbox) = inbox[1] /\ 1 \in 1 .. Len(inbox)
<1>1. /\ inbox \in Seq(Published) /\ inbox # <<>> /\ inbox' = Tail(inbox) /\ current = 0
      /\ payload' = payload /\ running' \in BOOLEAN
  BY DEF Take, TypeOK
<1>2. Published' = Published
  BY <1>1 DEF Published
<1>3. /\ Head(inbox) \in Published /\ inbox' \in Seq(Published)
      /\ Len(inbox') = Len(inbox) - 1 /\ Head(inbox) = inbox[1] /\ 1 \in 1 .. Len(inbox)
      /\ \A i \in 1 .. Len(inbox') : inbox'[i] = inbox[i + 1]
  BY <1>1
<1>4. Head(inbox) # 0
  BY <1>3, PublishedFacts
<1>5. TypeOK'
  <2> DEFINE n == Head(inbox)
  <2>1. n \in Published /\ n # 0 /\ n \in Messages
    BY <1>3, <1>4, PublishedFacts
  <2>2. /\ UNCHANGED <<network, payload, answers, ereb, performed, heard, interfered>>
        /\ \/ UNCHANGED <<process, wire, acks>>
           \/ /\ current' = n /\ status' = "waiting" /\ response' = "none"
              /\ wire' = wire \cup {n} /\ UNCHANGED acks
           \/ acks' = [acks EXCEPT ![n] = "executionFailed"] /\ UNCHANGED <<process, wire>>
    BY DEF Take
  <2> HIDE DEF n
  <2> QED
    BY <1>1, <1>2, <1>3, <2>1, <2>2 DEF TypeOK, process, AckKinds
<1> QED
  BY <1>1, <1>2, <1>3, <1>5

LEMMA TypePerform ==
  ASSUME TypeOK, NEW n \in wire, Perform(n)
  PROVE  TypeOK' /\ Published' = Published
<1> DEFINE f == SwitchRing(payload[n])
           verdict == Device!Answer(ereb, f).kind
<1>1. /\ n \in Published /\ wire' = wire \ {n} /\ ereb' = Device!After(ereb, f)
      /\ performed' \subseteq performed \cup {n}
      /\ UNCHANGED <<network, mqtt, process, heard, interfered, acks>>
  BY DEF TypeOK, Perform
<1>2. ereb' \in Device!Device /\ verdict \in {"SUCCESS", "WRONG_STATE"}
  BY <1>1, SwitchFacts DEF TypeOK
<1>3. answers' \subseteq Published \X {"SUCCESS", "WRONG_STATE", "malformed", "unpackable"}
  <2>1. CASE UNCHANGED answers
    BY <2>1 DEF TypeOK
  <2>2. ASSUME NEW k \in Answers(verdict), answers' = answers \cup {<<n, k>>}
        PROVE  answers' \subseteq Published \X {"SUCCESS", "WRONG_STATE", "malformed", "unpackable"}
    <3>1. k \in {"SUCCESS", "WRONG_STATE", "malformed", "unpackable"}
      BY <1>2, <2>2 DEF Answers
    <3> QED
      BY <1>1, <2>2, <3>1 DEF TypeOK
  <2> QED
    BY <2>1, <2>2 DEF Perform
<1>4. Published' = Published
  BY <1>1 DEF Published, mqtt
<1> QED
  BY <1>1, <1>2, <1>3, <1>4 DEF TypeOK, mqtt, process

LEMMA TypeDeliver ==
  ASSUME TypeOK, NEW a \in answers, Deliver(a)
  PROVE  TypeOK' /\ Published' = Published
<1>1. a[2] \in {"SUCCESS", "WRONG_STATE", "malformed", "unpackable"}
  BY DEF TypeOK
<1>2. Published' = Published
  BY DEF Deliver, mqtt, Published
<1>3. heard' \subseteq Published
  BY DEF TypeOK, Deliver
<1> QED
  BY <1>1, <1>2, <1>3 DEF TypeOK, Deliver, mqtt

LEMMA TypeExit ==
  ASSUME TypeOK, current # 0, NEW kind \in AckKinds, Exit(kind)
  PROVE  TypeOK' /\ Published' = Published /\ current \in Messages
<1>1. current \in Published /\ current \in Messages
  BY PublishedFacts DEF TypeOK
<1>2. Published' = Published
  BY DEF Exit, mqtt, Published
<1> QED
  BY <1>1, <1>2 DEF TypeOK, Exit, mqtt

\* What a process may exit with.
LEMMA AckFacts ==
  ASSUME TypeOK, Acknowledge \/ Fail
  PROVE  /\ current # 0
         /\ \E kind \in AckKinds \ {"none"} :
              /\ Exit(kind)
              /\ kind = "changed" => response = "SUCCESS"
              /\ kind \notin GivenUp => status = "answered"
<1>1. CASE Acknowledge
  <2>1. current # 0 /\ Exit(AckOf(status, response)) /\ status \in {"answered", "expired"}
    BY <1>1 DEF Acknowledge, TypeOK
  <2>2. /\ AckOf(status, response) \in AckKinds \ {"none"}
        /\ AckOf(status, response) = "changed" => response = "SUCCESS"
        /\ AckOf(status, response) \notin GivenUp => status = "answered"
    BY <2>1 DEF AckOf, AckKinds, GivenUp
  <2> QED
    BY <2>1, <2>2
<1>2. CASE Fail
  BY <1>2 DEF Fail, AckKinds, GivenUp
<1> QED
  BY <1>1, <1>2

LEMMA TypeOthers ==
  ASSUME TypeOK, TimerFires \/ Control \/ UNCHANGED vars
  PROVE  TypeOK' /\ Published' = Published
<1>1. CASE TimerFires
  <2>1. Published' = Published
    BY <1>1 DEF TimerFires, mqtt, Published
  <2> QED
    BY <1>1, <2>1 DEF TypeOK, TimerFires, mqtt
<1>2. CASE Control
  <2>1. Published' = Published
    BY <1>2 DEF Control, mqtt, Published
  <2>2. ereb' \in Device!Device
    BY <1>2, ControlFacts DEF Control, TypeOK
  <2> QED
    BY <1>2, <2>1, <2>2 DEF TypeOK, Control, mqtt, process
<1>3. CASE UNCHANGED vars
  <2>1. Published' = Published
    BY <1>3 DEF vars, mqtt, Published
  <2> QED
    BY <1>3, <2>1 DEF TypeOK, vars, mqtt, process
<1> QED
  BY <1>1, <1>2, <1>3

\* Every variable of the listener holds values of its kind (listener_ip1.py:20-50).
THEOREM TypeCorrect == Spec => []TypeOK
<1>1. TypeOK /\ [Next]_vars => TypeOK'
  <2>1. ASSUME TypeOK, Acknowledge \/ Fail PROVE TypeOK'
    BY <2>1, AckFacts, TypeExit
  <2> QED
    BY <2>1, TypePublish, TypeTake, TypePerform, TypeDeliver, TypeOthers DEF Next
<1> QED
  BY <1>1, TypeInit, PTL DEF Spec

-----------------------------------------------------------------------------
(* What is under way *)

LEMMA OrderFacts ==
  ASSUME TypeOK
  PROVE  /\ Published \subseteq Nat /\ performed \subseteq Published
         /\ current \in Published \cup {0} /\ current \in Nat /\ 0 \notin Published
         /\ inbox \in Seq(Published)
         /\ \A i \in 1 .. Len(inbox) : inbox[i] \in Published
         /\ \A m \in Handled : m \in Nat /\ m # 0
  BY PublishedFacts DEF TypeOK, Handled

\* An acknowledgement given up stays one, whichever is published after it.
LEMMA LateStays ==
  ASSUME TypeOK, NEW c \in Messages, c \notin Handled, NEW kind \in AckKinds,
         acks' = [acks EXCEPT ![c] = kind], network' = network
  PROVE  /\ Handled' = Handled \cup (IF kind = "none" THEN {} ELSE {c})
         /\ \A n \in Nat : LateBefore(n) => LateBefore(n)'
         /\ \A n \in Nat : LateUpTo(n) => LateUpTo(n)'
         /\ kind \in GivenUp /\ network = "late" => LateUpTo(c)'
<1>1. /\ \A j \in Messages : acks'[j] = IF j = c THEN kind ELSE acks[j]
      /\ acks[c] = "none" /\ c \in Nat
  BY PublishedFacts DEF TypeOK, Handled
<1>2. \A j \in Messages : acks[j] \in GivenUp => acks'[j] \in GivenUp
  BY <1>1 DEF GivenUp
<1>3. kind \in GivenUp => acks'[c] \in GivenUp /\ c <= c
  BY <1>1
<1> QED
  BY <1>1, <1>2, <1>3 DEF LateBefore, LateUpTo, Handled

\* Without a new acknowledgement nothing changes.
LEMMA LateSame ==
  ASSUME acks' = acks, network' = network
  PROVE  /\ Handled' = Handled
         /\ \A n : LateBefore(n)' = LateBefore(n) /\ LateUpTo(n)' = LateUpTo(n)
  BY DEF LateBefore, LateUpTo, Handled

LEMMA LateGrows ==
  ASSUME NEW m \in Nat, NEW n \in Nat
  PROVE  /\ LateUpTo(m) /\ m <= n => LateUpTo(n)
         /\ LateUpTo(m) /\ m < n => LateBefore(n)
         /\ LateBefore(n) => LateUpTo(n)
  BY PublishedFacts DEF LateBefore, LateUpTo

LEMMA InitIInv == Init => IInv
<1> SUFFICES ASSUME Init PROVE IInv
  OBVIOUS
<1>1. Published = {} /\ Handled = {} /\ inbox = <<>> /\ Len(inbox) = 0
  BY DEF Init, Published, Handled
<1>2. Ordered /\ Begun
  BY <1>1 DEF Init, Ordered, Begun
<1>3. Single /\ Own /\ ChangedMeansPerformed /\ RingOfLastPerformed
  BY DEF Init, Single, Own, ChangedMeansPerformed, RingOfLastPerformed
<1> QED
  BY <1>2, <1>3, TypeInit DEF IInv

LEMMA PublishPreserves ==
  ASSUME IInv, NEW n \in Messages, NEW p \in Payloads, Publish(n, p) PROVE IInv'
<1>1. /\ TypeOK /\ TypeOK' /\ Published' = Published \cup {n} /\ n \notin Published
      /\ inbox' = Append(inbox, n) /\ payload' = [payload EXCEPT ![n] = p]
      /\ UNCHANGED <<network, process, wire, answers, ereb, performed, interfered, acks>>
      /\ \A m \in 1 .. (n - 1) : m \in Published
  BY TypePublish DEF IInv, Publish
<1>2. /\ Handled' = Handled
      /\ \A k : LateBefore(k)' = LateBefore(k) /\ LateUpTo(k)' = LateUpTo(k)
  BY <1>1, LateSame
<1>3. Begun' /\ Single' /\ Own' /\ ChangedMeansPerformed'
  BY <1>1, <1>2 DEF IInv, Begun, Single, Own, ChangedMeansPerformed, process
<1>4. \A m \in Published : m < n
  BY <1>1, OrderFacts, PublishedFacts DEF IInv, Ordered, Messages
<1>5. RingOfLastPerformed'
  <2>1. \A m \in performed : payload'[m] = payload[m]
    BY <1>1, OrderFacts, PublishedFacts DEF TypeOK
  <2> QED
    BY <1>1, <1>2, <2>1 DEF IInv, RingOfLastPerformed
<1>6. Ordered'
  <2>1. /\ Len(inbox') = Len(inbox) + 1
        /\ \A i \in 1 .. Len(inbox') : inbox'[i] = IF i <= Len(inbox) THEN inbox[i] ELSE n
    BY <1>1, OrderFacts
  <2>2. current' = current
    BY <1>1 DEF process
  <2>3. Len(inbox) \in Nat /\ n \in Nat
    BY <1>1, OrderFacts, PublishedFacts
  <2>4. \A k, m \in Messages : k \in Published' /\ m < k => m \in Published'
    BY <1>1, <1>4, PublishedFacts DEF IInv, Ordered, Messages
  <2>5. \A i, j \in 1 .. Len(inbox') : i < j => inbox'[i] < inbox'[j]
    <3> SUFFICES ASSUME NEW i \in 1 .. Len(inbox'), NEW j \in 1 .. Len(inbox'), i < j
                 PROVE  inbox'[i] < inbox'[j]
      OBVIOUS
    <3>1. i \in 1 .. Len(inbox) /\ inbox'[i] = inbox[i] /\ inbox[i] \in Published
      BY <2>1, <2>3, OrderFacts, <1>1
    <3>2. CASE j <= Len(inbox)
      <4>1. j \in 1 .. Len(inbox) /\ inbox'[j] = inbox[j]
        BY <2>1, <2>3, <3>2
      <4> QED
        BY <3>1, <4>1 DEF IInv, Ordered
    <3>3. CASE ~(j <= Len(inbox))
      BY <1>4, <2>1, <3>1, <3>3
    <3> QED
      BY <3>2, <3>3
  <2>6. \A i \in 1 .. Len(inbox') :
          (current # 0 => current < inbox'[i]) /\ \A m \in Handled : m < inbox'[i]
    BY <1>1, <1>4, <2>1, <2>3, OrderFacts DEF IInv, Ordered
  <2> QED
    BY <1>1, <1>2, <2>2, <2>4, <2>5, <2>6, PublishedFacts DEF IInv, Ordered
<1> QED
  BY <1>1, <1>3, <1>5, <1>6 DEF IInv

LEMMA TakePreserves ==
  ASSUME IInv, Take PROVE IInv'
<1> DEFINE n == Head(inbox)
<1>1. /\ TypeOK /\ TypeOK' /\ Published' = Published /\ n \in Published /\ n = inbox[1]
      /\ 1 \in 1 .. Len(inbox) /\ Len(inbox') = Len(inbox) - 1
      /\ \A i \in 1 .. Len(inbox') : inbox'[i] = inbox[i + 1]
  BY TypeTake DEF IInv
<1>2. /\ current = 0
      /\ UNCHANGED <<network, payload, answers, ereb, performed, interfered>>
      /\ \/ UNCHANGED <<process, wire, acks>>
         \/ /\ current' = n /\ status' = "waiting" /\ response' = "none"
            /\ wire' = wire \cup {n} /\ UNCHANGED acks
         \/ acks' = [acks EXCEPT ![n] = "executionFailed"] /\ UNCHANGED <<process, wire>>
  BY DEF Take
<1>3. n \in Messages /\ n \in Nat /\ n # 0
  BY <1>1, PublishedFacts
<1> HIDE DEF n
<1>4. /\ \A m \in Handled : m < n /\ m \in Nat
      /\ n \notin Handled /\ status = "none"
  BY <1>1, <1>2, <1>3, OrderFacts DEF IInv, Ordered, TypeOK
<1>5. /\ Handled' \subseteq Handled \cup {n} /\ Handled \subseteq Handled'
      /\ \A k \in Nat : LateBefore(k) => LateBefore(k)'
      /\ \A k \in Nat : LateUpTo(k) => LateUpTo(k)'
  <2>1. CASE acks' = acks
    BY <1>2, <2>1, LateSame
  <2>2. CASE acks' = [acks EXCEPT ![n] = "executionFailed"]
    BY <1>1, <1>2, <1>3, <1>4, <2>2, LateStays DEF AckKinds
  <2> QED
    BY <1>2, <2>1, <2>2
<1>6. /\ current' \in {0, n} /\ status' # "answered"
      /\ current' = n => Handled' = Handled
      /\ response' = "none" \/ (response' = response /\ current' = current)
      /\ wire' \subseteq wire \cup {current'} /\ wire \subseteq wire'
      /\ current' = 0 => wire' = wire
  <2>1. acks' = acks => Handled' = Handled
    BY DEF Handled
  <2> QED
    BY <1>2, <1>3, <1>4, <2>1 DEF process
<1>7. Begun'
  <2>1. /\ performed \subseteq Handled /\ wire \subseteq Handled
        /\ \A a \in answers : a[1] \in Handled
    BY <1>1, <1>2, OrderFacts DEF IInv, Begun, TypeOK
  <2> QED
    BY <1>2, <1>5, <1>6, <2>1 DEF Begun
<1>8. Single'
  <2>1. \A a \in answers : a[1] # n
    BY <1>2, <1>3, <1>4 DEF IInv, Begun
  <2> QED
    BY <1>2, <1>6, <2>1 DEF IInv, Single
<1>9. Own'
  <2>1. \A m \in wire : LateUpTo(m) /\ m \in Nat
    BY <1>1, <1>2, OrderFacts DEF IInv, Own, TypeOK
  <2>2. \A a \in answers : LateUpTo(a[1]) /\ a[1] \in Nat
    BY <1>1, <1>2, OrderFacts DEF IInv, Own, TypeOK
  <2>3. \A m \in wire' : m = current' \/ LateUpTo(m)'
    BY <1>5, <1>6, <2>1
  <2>4. \A a \in answers' : a[1] = current' \/ LateUpTo(a[1])'
    BY <1>2, <1>5, <2>2
  <2>5. response' = "SUCCESS" => current' \in performed' \/ LateBefore(current)'
    BY <1>1, <1>2, <1>5, <1>6, OrderFacts DEF IInv, Own
  <2> QED
    BY <1>6, <2>3, <2>4, <2>5 DEF Own, LateBefore
<1>10. ChangedMeansPerformed'
  <2>1. \A k \in Messages : k \in Nat /\ (acks'[k] = "changed" => acks[k] = "changed")
    BY <1>1, <1>2, PublishedFacts DEF TypeOK
  <2> QED
    BY <1>2, <1>5, <2>1 DEF IInv, ChangedMeansPerformed
<1>11. RingOfLastPerformed'
  BY <1>1, <1>2, <1>5, OrderFacts DEF IInv, RingOfLastPerformed
<1>12. Ordered'
  <2>1. \A i \in 1 .. Len(inbox') : i + 1 \in 1 .. Len(inbox) /\ i + 1 > 1
    BY <1>1
  <2>2. \A i \in 1 .. Len(inbox') : n < inbox'[i]
    BY <1>1, <2>1 DEF IInv, Ordered
  <2>3. \A i, j \in 1 .. Len(inbox') : i < j => inbox'[i] < inbox'[j]
    BY <1>1, <2>1 DEF IInv, Ordered
  <2>4. \A i \in 1 .. Len(inbox'), m \in Handled : m < inbox'[i]
    BY <1>1, <2>1 DEF IInv, Ordered
  <2> QED
    BY <1>1, <1>2, <1>3, <1>4, <1>5, <1>6, <2>2, <2>3, <2>4 DEF IInv, Ordered
<1> QED
  BY <1>1, <1>7, <1>8, <1>9, <1>10, <1>11, <1>12 DEF IInv

\* A command that is carried out is that of the running process, to which all
\* others are earlier, or announced as late.
LEMMA PerformFacts ==
  ASSUME IInv, NEW n \in wire, Perform(n)
  PROVE  /\ n \in Messages /\ n \in Nat /\ n # 0
         /\ (\A m \in performed : m <= n) \/ LateUpTo(n)
         /\ performed' \subseteq performed \cup {n}
<1>1. n \in Messages /\ n \in Nat /\ n # 0 /\ TypeOK
  BY PublishedFacts DEF IInv, TypeOK
<1>2. CASE n = current
  BY <1>1, <1>2, OrderFacts DEF IInv, Ordered, Begun, Perform
<1>3. CASE LateUpTo(n)
  BY <1>1, <1>3 DEF Perform
<1> QED
  BY <1>2, <1>3 DEF IInv, Own

LEMMA PerformPreserves ==
  ASSUME IInv, NEW n \in wire, Perform(n) PROVE IInv'
<1> DEFINE f == SwitchRing(payload[n])
           verdict == Device!Answer(ereb, f).kind
<1>1. /\ TypeOK /\ TypeOK' /\ Published' = Published
      /\ wire' = wire \ {n} /\ ereb' = Device!After(ereb, f)
      /\ performed' = performed \cup (IF verdict = "SUCCESS" THEN {n} ELSE {})
      /\ UNCHANGED <<network, mqtt, process, interfered, acks>>
  BY TypePerform DEF IInv, Perform
<1>2. /\ verdict \in {"SUCCESS", "WRONG_STATE"}
      /\ verdict = "SUCCESS" => ereb'.ring = RingOf(payload[n])
      /\ verdict # "SUCCESS" => ereb' = ereb
  BY <1>1, SwitchFacts DEF TypeOK
<1>3. /\ n \in Messages /\ n \in Nat /\ n # 0
      /\ (\A m \in performed : m <= n) \/ LateUpTo(n)
  BY PerformFacts
<1>4. /\ Handled' = Handled
      /\ \A k : LateBefore(k)' = LateBefore(k) /\ LateUpTo(k)' = LateUpTo(k)
  BY <1>1, LateSame
<1>5. PICK k \in Answers(verdict) : answers' \in {answers, answers \cup {<<n, k>>}}
  BY DEF Perform, Answers
<1>6. k = "SUCCESS" => verdict = "SUCCESS"
  BY <1>2, <1>5 DEF Answers
<1> HIDE DEF verdict
<1>7. Begun'
  BY <1>1, <1>4, <1>5 DEF IInv, Begun, process
<1>8. Single'
  BY <1>1, <1>5, <1>6 DEF IInv, Single
<1>9. Own'
  BY <1>1, <1>4, <1>5 DEF IInv, Own, process
<1>10. Ordered'
  BY <1>1, <1>4 DEF IInv, Ordered, mqtt, process
<1>11. ChangedMeansPerformed'
  BY <1>1, <1>4 DEF IInv, ChangedMeansPerformed
<1>12. RingOfLastPerformed'
  <2>1. CASE verdict = "SUCCESS"
    <3>1. performed' = performed \cup {n} /\ payload' = payload
      BY <1>1, <2>1 DEF mqtt
    <3>2. \A m \in performed' : m \in Nat
      BY <1>1, <1>3, <3>1, OrderFacts
    <3>3. ASSUME NEW i \in performed', \A m \in performed' : m <= i, ~LateUpTo(i)
          PROVE  i = n
      <4>1. n <= i
        BY <3>1, <3>3
      <4>2. i <= n
        BY <1>3, <3>1, <3>2, <3>3, <4>1, LateGrows
      <4> QED
        BY <1>3, <3>2, <4>1, <4>2
    <3> QED
      BY <1>2, <1>4, <2>1, <3>1, <3>3 DEF RingOfLastPerformed
  <2>2. CASE verdict # "SUCCESS"
    BY <1>1, <1>2, <1>4, <2>2 DEF IInv, RingOfLastPerformed, mqtt
  <2> QED
    BY <2>1, <2>2
<1> QED
  BY <1>1, <1>7, <1>8, <1>9, <1>10, <1>11, <1>12 DEF IInv

LEMMA DeliverPreserves ==
  ASSUME IInv, NEW a \in answers, Deliver(a) PROVE IInv'
<1>1. TypeOK /\ TypeOK' /\ Published' = Published
  BY TypeDeliver DEF IInv
<1>2. /\ answers' = answers \ {a}
      /\ UNCHANGED <<network, mqtt, current, wire, ereb, performed, interfered, acks>>
      /\ \/ response' = a[2] /\ current # 0
            /\ status' = IF status = "waiting" THEN "answered" ELSE status
         \/ UNCHANGED <<response, status>>
  BY DEF Deliver
<1>3. /\ Handled' = Handled
      /\ \A k : LateBefore(k)' = LateBefore(k) /\ LateUpTo(k)' = LateUpTo(k)
  BY <1>2, LateSame
<1>4. Ordered' /\ Begun' /\ Single' /\ ChangedMeansPerformed' /\ RingOfLastPerformed'
  <2>1. Ordered' /\ Begun'
    BY <1>1, <1>2, <1>3 DEF IInv, Ordered, Begun, mqtt
  <2>2. Single' /\ ChangedMeansPerformed' /\ RingOfLastPerformed'
    BY <1>2, <1>3 DEF IInv, Single, ChangedMeansPerformed, RingOfLastPerformed, mqtt
  <2> QED
    BY <2>1, <2>2
<1>5. current # 0 => a[1] = current \/ LateBefore(current)
  <2> SUFFICES ASSUME current # 0, a[1] # current PROVE LateBefore(current)
    OBVIOUS
  <2>1. LateUpTo(a[1]) /\ a[1] \in Handled
    BY DEF IInv, Own, Begun
  <2>2. a[1] \in Nat /\ current \in Nat /\ a[1] < current
    BY <1>1, <2>1, OrderFacts DEF IInv, Ordered
  <2> QED
    BY <2>1, <2>2, LateGrows
<1>6. Own'
  <2>1. \A m \in wire' : m = current' \/ LateUpTo(m)'
    BY <1>2, <1>3 DEF IInv, Own
  <2>2. \A b \in answers' : b[1] = current' \/ LateUpTo(b[1])'
    BY <1>2, <1>3 DEF IInv, Own
  <2>3. response' = "SUCCESS" => current' \in performed' \/ LateBefore(current)'
    BY <1>2, <1>3, <1>5 DEF IInv, Own, Single
  <2>4. status' = "answered" =>
          LateBefore(current)'
            \/ (current' \notin wire' /\ \A b \in answers' : b[1] # current')
    <3>1. a[1] = current => current \notin wire /\ \A b \in answers' : b[1] # current
      BY <1>2 DEF IInv, Single
    <3> QED
      BY <1>2, <1>3, <1>5, <3>1 DEF IInv, Own
  <2> QED
    BY <2>1, <2>2, <2>3, <2>4 DEF Own
<1> QED
  BY <1>1, <1>4, <1>6 DEF IInv

LEMMA ExitPreserves ==
  ASSUME IInv, Acknowledge \/ Fail PROVE IInv'
<1>1. PICK kind \in AckKinds \ {"none"} :
        /\ Exit(kind)
        /\ kind = "changed" => response = "SUCCESS"
        /\ kind \notin GivenUp => status = "answered"
  BY AckFacts DEF IInv
<1>2. TypeOK /\ TypeOK' /\ Published' = Published /\ current \in Messages /\ current # 0
  BY <1>1, AckFacts, TypeExit DEF IInv
<1> PICK c \in Messages : c = current
  BY <1>2
<1>3. /\ acks' = [acks EXCEPT ![c] = kind] /\ current' = 0
      /\ response' = "none" /\ status' = "none"
      /\ wire' = {m \in wire : network = "late"}
      /\ answers' = {a \in answers : network = "late"}
      /\ UNCHANGED <<network, mqtt, ereb, performed, interfered>>
  BY <1>1 DEF Exit
<1>4. c \in Published /\ c \in Nat /\ c \notin Handled
  BY <1>2, OrderFacts DEF IInv, Ordered
<1>5. /\ Handled' = Handled \cup {c}
      /\ \A n \in Nat : LateBefore(n) => LateBefore(n)'
      /\ \A n \in Nat : LateUpTo(n) => LateUpTo(n)'
      /\ kind \in GivenUp /\ network = "late" => LateUpTo(c)'
  BY <1>1, <1>2, <1>3, <1>4, LateStays
<1>6. Ordered'
  BY <1>2, <1>3, <1>4, <1>5 DEF IInv, Ordered, mqtt
<1>7. Begun' /\ Single'
  BY <1>3, <1>5 DEF IInv, Begun, Single
<1>8. Own'
  <2>1. kind \in GivenUp \/ LateBefore(c)
          \/ (c \notin wire /\ \A a \in answers : a[1] # c)
    BY <1>1 DEF IInv, Own
  <2>2. LateBefore(c) => LateUpTo(c)'
    BY <1>4, <1>5, LateGrows
  <2>3. \A m \in wire' : LateUpTo(m)'
    <3> SUFFICES ASSUME NEW m \in wire, network = "late" PROVE LateUpTo(m)'
      BY <1>3
    <3>1. CASE m # c
      BY <1>2, <1>5, <3>1, OrderFacts DEF IInv, Own, TypeOK
    <3>2. CASE m = c
      BY <1>5, <2>1, <2>2, <3>2
    <3> QED
      BY <3>1, <3>2
  <2>4. \A a \in answers' : LateUpTo(a[1])'
    <3> SUFFICES ASSUME NEW a \in answers, network = "late" PROVE LateUpTo(a[1])'
      BY <1>3
    <3>1. CASE a[1] # c
      BY <1>2, <1>5, <3>1, OrderFacts DEF IInv, Own, TypeOK
    <3>2. CASE a[1] = c
      BY <1>5, <2>1, <2>2, <3>2
    <3> QED
      BY <3>1, <3>2
  <2> QED
    BY <1>3, <2>3, <2>4 DEF Own
<1>9. ChangedMeansPerformed'
  <2> SUFFICES ASSUME NEW n \in Messages, acks'[n] = "changed"
               PROVE  n \in performed \/ LateBefore(n)'
    BY <1>3 DEF ChangedMeansPerformed
  <2>1. n \in Nat
    BY PublishedFacts
  <2>2. CASE n # c
    BY <1>2, <1>3, <1>5, <2>1, <2>2 DEF IInv, ChangedMeansPerformed, TypeOK
  <2>3. CASE n = c
    BY <1>1, <1>2, <1>3, <1>5, <2>1, <2>3 DEF IInv, Own, TypeOK
  <2> QED
    BY <2>2, <2>3
<1>10. RingOfLastPerformed'
  BY <1>2, <1>3, <1>5, OrderFacts DEF IInv, RingOfLastPerformed, mqtt
<1> QED
  BY <1>2, <1>6, <1>7, <1>8, <1>9, <1>10 DEF IInv

LEMMA OthersPreserve ==
  ASSUME IInv, TimerFires \/ Control \/ UNCHANGED vars PROVE IInv'
<1>1. TypeOK /\ TypeOK' /\ Published' = Published
  BY TypeOthers DEF IInv
<1>2. /\ UNCHANGED <<network, payload, inbox, current, response, wire, answers, performed, acks>>
      /\ status' = status \/ status' = "expired"
      /\ interfered' \/ UNCHANGED <<ereb, interfered>>
  BY DEF TimerFires, Control, vars, mqtt, process
<1>3. /\ Handled' = Handled
      /\ \A k : LateBefore(k)' = LateBefore(k) /\ LateUpTo(k)' = LateUpTo(k)
  BY <1>2, LateSame
<1>4. Ordered' /\ Begun' /\ Single' /\ Own' /\ ChangedMeansPerformed'
  <2>1. Ordered' /\ Begun'
    BY <1>1, <1>2, <1>3 DEF IInv, Ordered, Begun
  <2>2. Single' /\ Own' /\ ChangedMeansPerformed'
    BY <1>2, <1>3 DEF IInv, Single, Own, ChangedMeansPerformed
  <2> QED
    BY <2>1, <2>2
<1>5. RingOfLastPerformed'
  BY <1>2, <1>3 DEF IInv, RingOfLastPerformed
<1> QED
  BY <1>1, <1>4, <1>5 DEF IInv

LEMMA Inductive == IInv /\ [Next]_vars => IInv'
  BY PublishPreserves, TakePreserves, PerformPreserves, DeliverPreserves, ExitPreserves,
     OthersPreserve DEF Next

LEMMA Invariance == Spec => []IInv
  BY Inductive, InitIInv, PTL DEF Spec

\* "changed" is acknowledged only for a command the EREB carried out, that of the
\* very message, or after an acknowledgement of an earlier message said that
\* its process was given up (listener_ip1.py:38-39).
THEOREM ChangedIsPerformed == Spec => []ChangedMeansPerformed
<1>1. IInv => ChangedMeansPerformed
  BY DEF IInv
<1> QED
  BY <1>1, Invariance, PTL

\* Whoever is told that the last message changed something can rely on the ring,
\* unless another controller acted or an earlier process was given up on a late
\* network (listener_ip1.py:20-50).
THEOREM RingIsThatOfLastAck == Spec => []RingFollowsLastAck
<1>1. IInv => RingFollowsLastAck
  <2> DEFINE handled == {n \in Published : acks[n] # "none"}
  <2> SUFFICES ASSUME IInv, current = 0, ~interfered, NEW n \in handled, acks[n] = "changed",
                      \A m \in handled : m <= n, ~LateBefore(n)
               PROVE  ereb.ring = RingOf(payload[n])
    BY DEF RingFollowsLastAck
  <2>1. n \in Messages /\ n \in Nat
    BY PublishedFacts
  <2>2. n \in performed /\ \A m \in performed : m \in handled
    <3>1. performed \subseteq Handled /\ 0 \notin performed
      BY OrderFacts DEF IInv, Begun
    <3> QED
      BY <2>1, <3>1, OrderFacts DEF IInv, ChangedMeansPerformed, Ordered, Handled
  <2>3. ~LateUpTo(n)
    <3>1. \A j \in Messages : j <= n /\ acks[j] \in GivenUp => j < n
      BY <2>1, PublishedFacts DEF GivenUp
    <3> QED
      BY <3>1 DEF LateUpTo, LateBefore
  <2> QED
    BY <2>2, <2>3 DEF IInv, RingOfLastPerformed
<1> QED
  BY <1>1, Invariance, PTL

\* A command carried out after one of a later message was announced: for its
\* message or one before it a process had been acknowledged as given up
\* (listener_ip1.py:36-50).
THEOREM StragglersAreAnnounced == Spec => StragglersWereGivenUp
<1> DEFINE Step == \A n \in Messages :
                     n \in performed' \ performed =>
                       (\A m \in performed : m < n) \/ LateUpTo(n)
<1>1. ASSUME IInv, NEW k \in wire, Perform(k) PROVE Step
  <2> SUFFICES ASSUME NEW n \in performed' \ performed, ~LateUpTo(n), NEW m \in performed
               PROVE  m < n
    OBVIOUS
  <2>1. n = k /\ m <= k /\ m # k /\ k \in Nat /\ m \in Nat
    BY <1>1, PerformFacts, OrderFacts DEF IInv
  <2> QED
    BY <2>1
<1>2. ASSUME performed' = performed PROVE Step
  BY <1>2
<1>3. IInv /\ [Next]_vars => [Step]_vars
  <2> SUFFICES ASSUME IInv, Next PROVE Step
    OBVIOUS
  <2>1. (\E n \in wire : Perform(n)) \/ performed' = performed
    BY DEF Next, Publish, Take, Deliver, TimerFires, Acknowledge, Fail, Exit, Control
  <2> QED
    BY <1>1, <1>2, <2>1
<1> QED
  BY <1>3, Invariance, PTL DEF Spec, StragglersWereGivenUp
=============================================================================
