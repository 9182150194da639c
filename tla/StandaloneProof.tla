--------------------------- MODULE StandaloneProof -------------------------
(***************************************************************************)
(* Proofs about Standalone, for every set of ids in 1..255 and every bound *)
(* on the queue: standalone mode and the EREB of run_simulate_ereb.py stay *)
(* in step for as long as every command is legal.                          *)
(***************************************************************************)
EXTENDS Standalone, SequenceTheorems, TLAPS

Answers == [kind : {"INVALID_DATA_RECEIVED"}]
             \cup [kind : {"SUCCESS", "DIAGNOSTIC_DESCRIPTION_RESPONSE"}, msg : Seq(Nat)]
             \cup [kind : {"STATE_RESPONSE"}, ereb : Twin!Device]

TwinAnswers == [kind : {"none", "GET_CSI_RESPONSE"}]
                 \cup [kind : {"WRONG_STATE"}, msg : Twin!States]
                 \cup [kind : {"SUCCESS", "DIAGNOSTIC_DESCRIPTION_RESPONSE"}, msg : Seq(Nat)]
                 \cup [kind : {"STATE_RESPONSE"}, ereb : Twin!Device]

Entry == [answer : Answers, expected : TwinAnswers, legal : BOOLEAN]

\* What MimicsEreb and AnswersLikeEreb say of one answer.
Faithful(x) ==
  x.legal /\ x.answer.kind # "INVALID_DATA_RECEIVED" =>
    /\ x.answer.kind = x.expected.kind
    /\ x.answer.kind = "SUCCESS" => x.answer.msg = x.expected.msg
    /\ x.answer.kind = "STATE_RESPONSE" => Same(x.answer.ereb, x.expected.ereb)

\* The inductive invariant.
IInv ==
  /\ station \in Twin!Device \cup {NoStation}
  /\ twin \in Twin!Device
  /\ legal \in BOOLEAN
  /\ queue \in Seq(Entry)
  /\ Len(queue) <= MaxQueue
  /\ \A i \in 1 .. Len(queue) : Faithful(queue[i])
  /\ MimicsEreb

-----------------------------------------------------------------------------
(* Frames *)

\* A body is ids, a flag for the command that takes one, and maybe a passport; its
\* length alone tells the commands that were given what they ask for.
LEMMA BodyFacts ==
  ASSUME NEW f \in Frame
  PROVE  /\ f.cmd \in SentCommands
         /\ Len(f.body) \in Nat
         /\ f.cmd # "SET_CONFIGMODE" /\ Len(f.body) < 32
              => \A i \in 1 .. Len(f.body) : f.body[i] \in Ids
         /\ f.cmd = "SET_CONFIGMODE" /\ Len(f.body) = 1 => f.body[1] \in {0, 1}
<1> DEFINE ids == UNION {[1 .. k -> Ids] : k \in 0 .. 3}
           flags == IF f.cmd = "SET_CONFIGMODE" THEN {<<0>>, <<1>>} ELSE {<<>>}
<1>1. f.cmd \in SentCommands /\ f.body \in Bodies(f.cmd)
  BY DEF Frame
<1>2. PICK b \in ids \X flags \X {<<>>, Passport} : f.body = b[1] \o b[2] \o b[3]
  BY <1>1 DEF Bodies
<1>3. PICK u \in ids, v \in flags, w \in {<<>>, Passport} : f.body = (u \o v) \o w
  <2>1. b[1] \in ids /\ b[2] \in flags /\ b[3] \in {<<>>, Passport}
    <3> HIDE DEF ids, flags
    <3> QED
      BY <1>2
  <2> QED
    BY <1>2, <2>1
<1>4. u \in Seq(Nat) /\ \A i \in 1 .. Len(u) : u[i] \in Ids
  <2>1. PICK k \in 0 .. 3 : u \in [1 .. k -> Ids]
    BY <1>3
  <2>2. u \in [1 .. k -> Nat]
    <3>1. Ids \subseteq Nat
      BY StandaloneAssumption
    <3> QED
      BY <2>1, <3>1
  <2>3. u \in Seq(Nat)
    BY <2>1, <2>2, SeqDef
  <2>4. Len(u) = k
    BY <2>1, <2>2, LenProperties
  <2> QED
    BY <2>1, <2>3, <2>4
<1>5. /\ v \in Seq(Nat)
      /\ f.cmd # "SET_CONFIGMODE" => v = <<>>
      /\ f.cmd = "SET_CONFIGMODE" => Len(v) = 1 /\ v[1] \in {0, 1}
  <2>1. CASE f.cmd = "SET_CONFIGMODE"
    <3>1. v = <<0>> \/ v = <<1>>
      BY <1>3, <2>1
    <3>2. v \in Seq(Nat)
      <4>1. <<0>> \in Seq(Nat) /\ <<1>> \in Seq(Nat)
        OBVIOUS
      <4> QED
        BY <3>1, <4>1
    <3>3. Len(v) = 1 /\ v[1] \in {0, 1}
      BY <3>1
    <3> QED
      BY <2>1, <3>2, <3>3
  <2>2. CASE f.cmd # "SET_CONFIGMODE"
    <3>1. v = <<>>
      BY <1>3, <2>2
    <3> QED
      BY <2>2, <3>1
  <2> QED
    BY <2>1, <2>2
<1>6. w \in Seq(Nat) /\ (Len(w) = 0 \/ Len(w) = 32)
  <2>1. Passport \in Seq(Nat) /\ Len(Passport) = 32
    BY DEF Passport
  <2>2. CASE w = Passport
    BY <2>1, <2>2
  <2>3. CASE w = <<>>
    BY <2>3
  <2> QED
    BY <1>3, <2>2, <2>3
<1>7. f.body = (u \o v) \o w
  BY <1>3
<1> HIDE DEF ids, flags
<1>8. /\ f.body \in Seq(Nat) /\ Len(f.body) = Len(u) + Len(v) + Len(w)
      /\ Len(u) \in Nat /\ Len(v) \in Nat /\ Len(w) \in Nat
      /\ \A i \in 1 .. Len(u) : f.body[i] = u[i]
      /\ Len(u) = 0 /\ Len(v) = 1 => f.body[1] = v[1]
  <2>1. /\ u \o v \in Seq(Nat) /\ Len(u \o v) = Len(u) + Len(v)
        /\ Len(u) \in Nat /\ Len(v) \in Nat /\ Len(w) \in Nat
        /\ \A i \in 1 .. Len(u) + Len(v) :
             (u \o v)[i] = IF i <= Len(u) THEN u[i] ELSE v[i - Len(u)]
    BY <1>4, <1>5, <1>6
  <2> DEFINE uv == u \o v
  <2>2. f.body = uv \o w /\ uv \in Seq(Nat) /\ Len(uv) = Len(u) + Len(v)
    BY <1>7, <2>1
  <2> HIDE DEF uv
  <2>3. /\ f.body \in Seq(Nat) /\ Len(f.body) = Len(u) + Len(v) + Len(w)
        /\ \A i \in 1 .. Len(u) + Len(v) : f.body[i] = uv[i]
    <3>1. uv \o w \in Seq(Nat) /\ Len(uv \o w) = Len(uv) + Len(w)
      <4>1. uv \in Seq(Nat) /\ w \in Seq(Nat)
        BY <1>6, <2>2
      <4> QED
        BY ONLY <4>1, ConcatProperties
    <3>2. \A i \in 1 .. Len(uv) : (uv \o w)[i] = uv[i]
      BY <1>6, <2>2, ConcatProperties
    <3> QED
      BY <2>2, <3>1, <3>2
  <2>4. \A i \in 1 .. Len(u) + Len(v) :
          uv[i] = IF i <= Len(u) THEN u[i] ELSE v[i - Len(u)]
    BY <2>1 DEF uv
  <2>5. \A i \in 1 .. Len(u) : i \in 1 .. Len(u) + Len(v) /\ f.body[i] = u[i]
    BY <2>1, <2>3, <2>4
  <2>6. ASSUME Len(u) = 0, Len(v) = 1 PROVE f.body[1] = v[1]
    <3>1. 1 \in 1 .. Len(u) + Len(v) /\ ~(1 <= Len(u)) /\ 1 - Len(u) = 1
      BY <2>6
    <3>2. f.body[1] = uv[1] /\ uv[1] = v[1 - Len(u)]
      BY <2>3, <2>4, <3>1
    <3> QED
      BY <3>1, <3>2
  <2> QED
    BY <2>1, <2>3, <2>5, <2>6
<1>9. Len(f.body) < 32 => Len(w) = 0
  <2>1. \A k, l, m \in Nat : (m = 0 \/ m = 32) /\ k + l + m < 32 => m = 0
    OBVIOUS
  <2>2. /\ Len(u) \in Nat /\ Len(v) \in Nat /\ Len(w) \in Nat
        /\ Len(f.body) = Len(u) + Len(v) + Len(w)
    BY <1>8
  <2>3. Len(w) = 0 \/ Len(w) = 32
    BY <1>6
  <2> QED
    BY ONLY <2>1, <2>2, <2>3
<1>10. ASSUME f.cmd # "SET_CONFIGMODE", Len(f.body) < 32
       PROVE  \A i \in 1 .. Len(f.body) : f.body[i] \in Ids
  <2>1. Len(v) = 0
    <3>1. v = <<>>
      BY <1>5, <1>10
    <3> QED
      BY <3>1
  <2> QED
    BY <1>4, <1>8, <1>9, <1>10, <2>1
<1>11. ASSUME f.cmd = "SET_CONFIGMODE", Len(f.body) = 1
       PROVE  f.body[1] \in {0, 1}
  <2>1. Len(u) = 0
    BY <1>5, <1>8, <1>11
  <2> QED
    BY <1>5, <1>8, <1>11, <2>1
<1> QED
  BY <1>1, <1>8, <1>10, <1>11

\* The bytes of an accepted frame.
LEMMA AcceptedFacts ==
  ASSUME NEW f \in Frame, Accepts(f)
  PROVE  /\ f.cmd = "SELECT_CONFIG" =>
              /\ Len(f.body) = 3
              /\ f.body[1] \in Ids /\ f.body[2] \in Ids /\ f.body[3] \in Ids
         /\ f.cmd = "SWITCH_RING" =>
              Len(f.body) = 2 /\ f.body[1] \in Ids /\ f.body[2] \in Ids
         /\ f.cmd = "SWITCH_ANTENNA" => Len(f.body) = 1 /\ f.body[1] \in Ids
         /\ f.cmd = "SET_CONFIGMODE" => Len(f.body) = 1 /\ f.body[1] \in {0, 1}
<1> DEFINE n == Len(f.body)
<1>1. n \in Nat /\ (f.cmd # "GET_CSI_QUERY" => 4 + n = PacketLength(f.cmd))
  BY BodyFacts DEF Accepts, LengthOk, Bytes
<1>2. /\ f.cmd = "SELECT_CONFIG" => PacketLength(f.cmd) = 7
      /\ f.cmd = "SWITCH_RING" => PacketLength(f.cmd) = 6
      /\ f.cmd \in {"SWITCH_ANTENNA", "SET_CONFIGMODE"} => PacketLength(f.cmd) = 5
  BY DEF PacketLength
<1>3. \A k \in Nat, l \in {5, 6, 7} : 4 + k = l => k = l - 4
  OBVIOUS
<1>4. /\ f.cmd = "SELECT_CONFIG" => n = 3
      /\ f.cmd = "SWITCH_RING" => n = 2
      /\ f.cmd \in {"SWITCH_ANTENNA", "SET_CONFIGMODE"} => n = 1
  <2> HIDE DEF n
  <2> QED
    BY <1>1, <1>2, <1>3
<1>5. f.cmd # "SET_CONFIGMODE" /\ n < 32 => \A i \in 1 .. n : f.body[i] \in Ids
  BY BodyFacts
<1>6. f.cmd = "SET_CONFIGMODE" /\ n = 1 => f.body[1] \in {0, 1}
  BY BodyFacts
<1> HIDE DEF n
<1>7. f.cmd = "SELECT_CONFIG" =>
        n = 3 /\ f.body[1] \in Ids /\ f.body[2] \in Ids /\ f.body[3] \in Ids
  BY <1>4, <1>5
<1>8. f.cmd = "SWITCH_RING" => n = 2 /\ f.body[1] \in Ids /\ f.body[2] \in Ids
  BY <1>4, <1>5
<1>9. f.cmd = "SWITCH_ANTENNA" => n = 1 /\ f.body[1] \in Ids
  BY <1>4, <1>5
<1>10. f.cmd = "SET_CONFIGMODE" => n = 1 /\ f.body[1] \in {0, 1}
  BY <1>4, <1>6
<1> QED
  BY <1>7, <1>8, <1>9, <1>10 DEF n

\* The station and the twin after the same frame.
LEMMA EffectFacts ==
  ASSUME NEW d \in Twin!Device, NEW f \in Frame, Accepts(f)
  PROVE  /\ Effect(d, f) \in Twin!Device
         /\ AsTwinFrame(f).cmd = IF f.cmd = "PASSPORT_QUERY" THEN "dropped" ELSE f.cmd
<1>1. Effect(d, f) \in Twin!Device
  <2>1. CASE f.cmd = "SELECT_CONFIG"
    BY <2>1, AcceptedFacts DEF Effect, Twin!Device, Twin!States
  <2>2. CASE f.cmd = "SWITCH_RING"
    BY <2>2, AcceptedFacts DEF Effect, Twin!Device
  <2>3. CASE f.cmd = "SWITCH_ANTENNA"
    BY <2>3, AcceptedFacts DEF Effect, Twin!Device
  <2>4. CASE f.cmd \in {"START", "STOP"}
    BY <2>4 DEF Effect, Twin!Device, Twin!States
  <2>5. CASE f.cmd = "SET_CONFIGMODE"
    BY <2>5, AcceptedFacts DEF Effect, Twin!Device
  <2> QED
    BY <2>1, <2>2, <2>3, <2>4, <2>5 DEF Effect
<1>2. AsTwinFrame(f).cmd = IF f.cmd = "PASSPORT_QUERY" THEN "dropped" ELSE f.cmd
  BY DEF AsTwinFrame, Accepts
<1> QED
  BY <1>1, <1>2

LEMMA FrameFacts ==
  ASSUME NEW f \in Frame, Accepts(f), f.cmd # "PASSPORT_QUERY"
  PROVE  LET g == AsTwinFrame(f) IN
         /\ g.cmd = f.cmd
         /\ f.cmd = "SELECT_CONFIG" =>
              g.config = f.body[1] /\ g.ring = f.body[2] /\ g.antenna = f.body[3]
         /\ f.cmd = "SWITCH_RING" => g.ring = f.body[1] /\ g.antenna = f.body[2]
         /\ f.cmd = "SWITCH_ANTENNA" => g.antenna = f.body[1]
         /\ f.cmd = "SET_CONFIGMODE" => g.flag = f.body[1]
<1> DEFINE n == Len(f.body)
           g == AsTwinFrame(f)
<1>1. /\ g.cmd = f.cmd
      /\ g.config = IF n >= 3 THEN f.body[n - 3 + 1] ELSE Twin!NoId
      /\ g.ring = IF n >= 2 THEN f.body[n - 2 + 1] ELSE Twin!NoId
      /\ g.antenna = IF n >= 1 THEN f.body[n - 1 + 1] ELSE Twin!NoId
      /\ g.flag = IF n >= 1 THEN f.body[n - 1 + 1] ELSE Twin!NoId
  BY EffectFacts DEF AsTwinFrame, Accepts
<1>2. f.cmd = "SELECT_CONFIG" =>
        g.config = f.body[1] /\ g.ring = f.body[2] /\ g.antenna = f.body[3]
  <2> SUFFICES ASSUME f.cmd = "SELECT_CONFIG"
               PROVE  g.config = f.body[1] /\ g.ring = f.body[2] /\ g.antenna = f.body[3]
    OBVIOUS
  <2>1. n = 3
    BY AcceptedFacts
  <2> HIDE DEF n, g
  <2>2. n - 3 + 1 = 1 /\ n - 2 + 1 = 2 /\ n - 1 + 1 = 3
    BY <2>1
  <2> QED
    BY <1>1, <2>1, <2>2
<1>3. f.cmd = "SWITCH_RING" => g.ring = f.body[1] /\ g.antenna = f.body[2]
  <2> SUFFICES ASSUME f.cmd = "SWITCH_RING"
               PROVE  g.ring = f.body[1] /\ g.antenna = f.body[2]
    OBVIOUS
  <2>1. n = 2
    BY AcceptedFacts
  <2> HIDE DEF n, g
  <2> QED
    BY <1>1, <2>1
<1>4. ASSUME f.cmd \in {"SWITCH_ANTENNA", "SET_CONFIGMODE"}
      PROVE  g.antenna = f.body[1] /\ g.flag = f.body[1]
  <2>1. n = 1
    BY <1>4, AcceptedFacts
  <2> HIDE DEF n, g
  <2> QED
    BY <1>1, <2>1
<1> QED
  BY <1>1, <1>2, <1>3, <1>4

LEMMA TwinFacts ==
  ASSUME NEW e \in Twin!Device, NEW f \in Frame
  PROVE  Twin!After(e, AsTwinFrame(f)) \in Twin!Device
<1> DEFINE g == AsTwinFrame(f)
<1>1. CASE ~Accepts(f) \/ f.cmd = "PASSPORT_QUERY"
  <2>1. g.cmd = "dropped"
    BY <1>1 DEF AsTwinFrame, Accepts
  <2> QED
    BY <2>1 DEF Twin!After, Twin!Applied
<1>2. CASE Accepts(f) /\ f.cmd # "PASSPORT_QUERY"
  <2>0. g.cmd = f.cmd
    BY <1>2, FrameFacts
  <2>2. CASE f.cmd = "SELECT_CONFIG"
    BY <1>2, FrameFacts, <2>2, AcceptedFacts DEF Twin!After, Twin!Applied, Twin!Device, Twin!States
  <2>3. CASE f.cmd = "SWITCH_RING"
    BY <1>2, FrameFacts, <2>3, AcceptedFacts DEF Twin!After, Twin!Applied, Twin!Device
  <2>4. CASE f.cmd = "SWITCH_ANTENNA"
    BY <1>2, FrameFacts, <2>4, AcceptedFacts DEF Twin!After, Twin!Applied, Twin!Device
  <2>5. CASE f.cmd \in {"START", "STOP"}
    BY <2>0, <2>5 DEF Twin!After, Twin!Applied, Twin!Device, Twin!States, Twin!NoId
  <2>6. CASE f.cmd = "SET_CONFIGMODE"
    BY <1>2, FrameFacts, <2>6, AcceptedFacts DEF Twin!After, Twin!Applied, Twin!Device
  <2> QED
    BY <2>0, <2>2, <2>3, <2>4, <2>5, <2>6 DEF Twin!After, Twin!Applied
<1> QED
  BY <1>1, <1>2

LEMMA DevicesAreRecords ==
  ASSUME NEW d \in Twin!Device, NEW e \in Twin!Device,
         d.state = e.state, d.config = e.config, d.ring = e.ring, d.antenna = e.antenna,
         d.configmode = e.configmode
  PROVE  d = e
  BY DEF Twin!Device

\* Two devices that show the same still do after a frame the twin allows.
LEMMA StaySame ==
  ASSUME NEW d \in Twin!Device, NEW e \in Twin!Device, NEW f \in Frame, Accepts(f),
         f.cmd # "PASSPORT_QUERY", Twin!Allowed(e, f.cmd), Same(d, e)
  PROVE  Same(Effect(d, f), Twin!After(e, AsTwinFrame(f)))
<1> DEFINE g == AsTwinFrame(f)
<1>1. g.cmd = f.cmd /\ Twin!After(e, g) = Twin!Applied(e, g)
  BY FrameFacts DEF Twin!After
<1>3. Effect(d, f) \in Twin!Device /\ Twin!Applied(e, g) \in Twin!Device
  BY <1>1, EffectFacts, TwinFacts
<1>4. CASE f.cmd = "SELECT_CONFIG"
  <2> DEFINE x == Effect(d, f)
             y == Twin!Applied(e, g)
  <2>1. /\ x.state = "CONFIGURED" /\ x.config = f.body[1] /\ x.ring = f.body[2]
        /\ x.antenna = f.body[3] /\ x.configmode = d.configmode
    BY <1>4 DEF Effect, Twin!Device
  <2>2. /\ y.state = "CONFIGURED" /\ y.config = f.body[1] /\ y.ring = f.body[2]
        /\ y.antenna = f.body[3] /\ y.configmode = e.configmode
    BY <1>1, <1>4, FrameFacts DEF Twin!Applied, Twin!Device
  <2>3. d.configmode = e.configmode
    BY DEF Same
  <2>4. x = y
    BY <1>3, <2>1, <2>2, <2>3, DevicesAreRecords
  <2> QED
    BY <1>1, <2>1, <2>4 DEF Same
<1>5. CASE f.cmd \in {"SWITCH_RING", "SWITCH_ANTENNA"}
  <2>1. d = e
    BY <1>5 DEF Twin!Allowed, Same
  <2> QED
    BY <1>1, <1>5, <2>1, FrameFacts DEF Effect, Twin!Applied, Twin!Device, Same
<1>6. CASE f.cmd = "START"
  <2>1. d = e
    BY <1>6 DEF Twin!Allowed, Same
  <2> QED
    BY <1>1, <1>6, <2>1 DEF Effect, Twin!Applied, Same
<1>7. CASE f.cmd = "STOP"
  BY <1>1, <1>7 DEF Effect, Twin!Applied, Twin!Device, Same
<1>8. CASE f.cmd = "SET_CONFIGMODE"
  BY <1>1, <1>8, FrameFacts DEF Effect, Twin!Applied, Twin!Device, Same
<1> QED
  BY <1>1, <1>4, <1>5, <1>6, <1>7, <1>8 DEF Effect, Twin!Applied

-----------------------------------------------------------------------------
(* Answers *)

LEMMA MessageTypes ==
  ASSUME NEW d \in Twin!Device, NEW cmd
  PROVE  /\ StatusMsg(d, cmd) \in Seq(Nat)
         /\ Twin!StatusMsg(d, cmd) = StatusMsg(d, cmd)
         /\ <<d.config, d.ring, d.antenna, d.configmode>> \in Seq(Nat)
<1>1. d.config \in Nat /\ d.ring \in Nat /\ d.antenna \in Nat /\ d.configmode \in Nat
  <2>1. Ids \cup {0} \subseteq Nat /\ {0, 1} \subseteq Nat
    BY StandaloneAssumption
  <2>2. /\ d.config \in Ids \cup {0} /\ d.ring \in Ids \cup {0} /\ d.antenna \in Ids \cup {0}
        /\ d.configmode \in {0, 1}
    BY DEF Twin!Device, Twin!NoId
  <2> QED
    BY <2>1, <2>2
<1>2. Twin!StatusMsg(d, cmd) = StatusMsg(d, cmd)
  BY DEF StatusMsg, Twin!StatusMsg
<1>3. StatusMsg(d, cmd) \in Seq(Nat)
  <2>1. CASE cmd = "SELECT_CONFIG"
    <3>1. StatusMsg(d, cmd) = <<d.config, d.ring, d.antenna>>
      BY <2>1 DEF StatusMsg
    <3> QED
      BY <1>1, <3>1
  <2>2. CASE cmd = "SWITCH_RING"
    <3>1. StatusMsg(d, cmd) = <<d.ring, d.antenna>>
      BY <2>2 DEF StatusMsg
    <3> QED
      BY <1>1, <3>1
  <2>3. CASE cmd = "SWITCH_ANTENNA"
    <3>1. StatusMsg(d, cmd) = <<d.antenna>>
      BY <2>3 DEF StatusMsg
    <3> QED
      BY <1>1, <3>1
  <2>4. CASE cmd = "SET_CONFIGMODE"
    <3>1. StatusMsg(d, cmd) = <<d.configmode>>
      BY <2>4 DEF StatusMsg
    <3> QED
      BY <1>1, <3>1
  <2>5. CASE cmd \notin {"SELECT_CONFIG", "SWITCH_RING", "SWITCH_ANTENNA", "SET_CONFIGMODE"}
    <3>1. StatusMsg(d, cmd) = <<>>
      BY <2>5 DEF StatusMsg
    <3> QED
      BY <3>1
  <2> QED
    BY <2>1, <2>2, <2>3, <2>4, <2>5
<1> QED
  BY <1>1, <1>2, <1>3

LEMMA AnswerTypes ==
  ASSUME NEW f \in Frame, NEW s, NEW e \in Twin!Device,
         Accepts(f) /\ LooksUp(f.cmd) => s \in Twin!Device
  PROVE  AnswerTo(f, s) \in Answers /\ Twin!Answer(e, AsTwinFrame(f)) \in TwinAnswers
<1>1. AnswerTo(f, s) \in Answers
  <2>1. CASE ~Accepts(f)
    BY <2>1 DEF AnswerTo, Answers
  <2>2. CASE Accepts(f) /\ f.cmd = "STATE_QUERY"
    BY <2>2 DEF AnswerTo, Answers, StateResponse, LooksUp
  <2>3. CASE Accepts(f) /\ f.cmd = "DIAGNOSTIC_DESCRIPTION_QUERY"
    <3>1. <<>> \in Seq(Nat)
      OBVIOUS
    <3> QED
      BY <2>3, <3>1 DEF AnswerTo, Answers
  <2>4. CASE Accepts(f) /\ f.cmd \notin {"STATE_QUERY", "DIAGNOSTIC_DESCRIPTION_QUERY"}
    <3>1. StatusMsg(s, f.cmd) \in Seq(Nat)
      <4>1. CASE LooksUp(f.cmd)
        BY <2>4, <4>1, MessageTypes
      <4>2. CASE ~LooksUp(f.cmd)
        <5>1. StatusMsg(s, f.cmd) = <<>>
          BY <4>2 DEF LooksUp, StatusMsg
        <5> QED
          BY <5>1
      <4> QED
        BY <4>1, <4>2
    <3> QED
      BY <2>4, <3>1 DEF AnswerTo, Answers
  <2> QED
    BY <2>1, <2>2, <2>3, <2>4
<1>2. Twin!Answer(e, AsTwinFrame(f)) \in TwinAnswers
  <2> DEFINE g == AsTwinFrame(f)
  <2>1. CASE g.cmd \in {"dropped", "unknown", "GET_CSI_QUERY"}
    BY <2>1 DEF Twin!Answer, TwinAnswers
  <2>2. CASE g.cmd = "STATE_QUERY"
    BY <2>2 DEF Twin!Answer, TwinAnswers
  <2>3. CASE g.cmd = "DIAGNOSTIC_DESCRIPTION_QUERY"
    BY <2>3, MessageTypes DEF Twin!Answer, TwinAnswers
  <2>4. CASE g.cmd \notin {"dropped", "unknown", "STATE_QUERY", "DIAGNOSTIC_DESCRIPTION_QUERY",
                           "GET_CSI_QUERY"}
    <3>1. Twin!Answer(e, g) =
            IF Twin!Allowed(e, g.cmd)
              THEN [kind |-> "SUCCESS", msg |-> Twin!StatusMsg(Twin!After(e, g), g.cmd)]
              ELSE [kind |-> "WRONG_STATE", msg |-> e.state]
      BY <2>4 DEF Twin!Answer
    <3>2. Twin!StatusMsg(Twin!After(e, g), g.cmd) \in Seq(Nat) /\ e.state \in Twin!States
      BY TwinFacts, MessageTypes DEF Twin!Device
    <3> QED
      BY <3>1, <3>2 DEF TwinAnswers
  <2> QED
    BY <2>1, <2>2, <2>3, <2>4
<1> QED
  BY <1>1, <1>2

\* The message of a success names what the command has just set, which is the same
\* in both.
LEMMA MessageSame ==
  ASSUME NEW d \in Twin!Device, NEW e \in Twin!Device, NEW f \in Frame, Accepts(f),
         f.cmd # "PASSPORT_QUERY", Twin!Allowed(e, f.cmd)
  PROVE  LET s == IF LooksUp(f.cmd) THEN Effect(d, f) ELSE d
             g == AsTwinFrame(f)
         IN StatusMsg(s, f.cmd) = Twin!StatusMsg(Twin!After(e, g), f.cmd)
<1> DEFINE g == AsTwinFrame(f)
           x == Effect(d, f)
           y == Twin!After(e, g)
<1>1. g.cmd = f.cmd /\ y = Twin!Applied(e, g)
  BY FrameFacts DEF Twin!After
<1>2. CASE f.cmd = "SELECT_CONFIG"
  <2>1. x.config = f.body[1] /\ x.ring = f.body[2] /\ x.antenna = f.body[3]
    BY <1>2 DEF Effect, Twin!Device
  <2>2. y.config = f.body[1] /\ y.ring = f.body[2] /\ y.antenna = f.body[3]
    BY <1>1, <1>2, FrameFacts DEF Twin!Applied, Twin!Device
  <2>3. LooksUp(f.cmd)
    BY <1>2 DEF LooksUp
  <2> HIDE DEF x, y
  <2>4. StatusMsg(x, f.cmd) = <<x.config, x.ring, x.antenna>>
    BY <1>2 DEF StatusMsg
  <2>5. Twin!StatusMsg(y, f.cmd) = <<y.config, y.ring, y.antenna>>
    BY <1>2 DEF Twin!StatusMsg
  <2>6. StatusMsg(x, f.cmd) = Twin!StatusMsg(y, f.cmd)
    BY <2>1, <2>2, <2>4, <2>5
  <2> QED
    BY <2>3, <2>6 DEF x, y
<1>3. CASE f.cmd = "SWITCH_RING"
  <2>1. x.ring = f.body[1] /\ x.antenna = f.body[2]
    BY <1>3 DEF Effect, Twin!Device
  <2>2. y.ring = f.body[1] /\ y.antenna = f.body[2]
    BY <1>1, <1>3, FrameFacts DEF Twin!Applied, Twin!Device
  <2>3. LooksUp(f.cmd)
    BY <1>3 DEF LooksUp
  <2> HIDE DEF x, y
  <2>4. StatusMsg(x, f.cmd) = <<x.ring, x.antenna>>
    BY <1>3 DEF StatusMsg
  <2>5. Twin!StatusMsg(y, f.cmd) = <<y.ring, y.antenna>>
    BY <1>3 DEF Twin!StatusMsg
  <2>6. StatusMsg(x, f.cmd) = Twin!StatusMsg(y, f.cmd)
    BY <2>1, <2>2, <2>4, <2>5
  <2> QED
    BY <2>3, <2>6 DEF x, y
<1>4. CASE f.cmd = "SWITCH_ANTENNA"
  <2>1. x.antenna = f.body[1]
    BY <1>4 DEF Effect, Twin!Device
  <2>2. y.antenna = f.body[1]
    BY <1>1, <1>4, FrameFacts DEF Twin!Applied, Twin!Device
  <2>3. LooksUp(f.cmd)
    BY <1>4 DEF LooksUp
  <2> HIDE DEF x, y
  <2>4. StatusMsg(x, f.cmd) = <<x.antenna>>
    BY <1>4 DEF StatusMsg
  <2>5. Twin!StatusMsg(y, f.cmd) = <<y.antenna>>
    BY <1>4 DEF Twin!StatusMsg
  <2>6. StatusMsg(x, f.cmd) = Twin!StatusMsg(y, f.cmd)
    BY <2>1, <2>2, <2>4, <2>5
  <2> QED
    BY <2>3, <2>6 DEF x, y
<1>5. CASE f.cmd = "SET_CONFIGMODE"
  <2>1. x.configmode = f.body[1]
    BY <1>5 DEF Effect, Twin!Device
  <2>2. y.configmode = f.body[1]
    BY <1>1, <1>5, FrameFacts DEF Twin!Applied, Twin!Device
  <2>3. LooksUp(f.cmd)
    BY <1>5 DEF LooksUp
  <2> HIDE DEF x, y
  <2>4. StatusMsg(x, f.cmd) = <<x.configmode>>
    BY <1>5 DEF StatusMsg
  <2>5. Twin!StatusMsg(y, f.cmd) = <<y.configmode>>
    BY <1>5 DEF Twin!StatusMsg
  <2>6. StatusMsg(x, f.cmd) = Twin!StatusMsg(y, f.cmd)
    BY <2>1, <2>2, <2>4, <2>5
  <2> QED
    BY <2>3, <2>6 DEF x, y
<1>6. CASE f.cmd \notin {"SELECT_CONFIG", "SWITCH_RING", "SWITCH_ANTENNA", "SET_CONFIGMODE"}
  BY <1>6 DEF StatusMsg, Twin!StatusMsg
<1> QED
  BY <1>2, <1>3, <1>4, <1>5, <1>6

\* An answer of standalone mode next to that of the twin.
LEMMA AnswerSame ==
  ASSUME NEW f \in Frame, NEW s, NEW e \in Twin!Device,
         Accepts(f), ~Unanswered(f), Twin!Allowed(e, AsTwinFrame(f).cmd),
         f.cmd = "STATE_QUERY" => Same(s, e),
         StatusMsg(s, f.cmd) = Twin!StatusMsg(Twin!After(e, AsTwinFrame(f)), f.cmd)
  PROVE  LET a == AnswerTo(f, s)
             x == Twin!Answer(e, AsTwinFrame(f))
         IN /\ a.kind = x.kind
            /\ a.kind = "SUCCESS" => a.msg = x.msg
            /\ a.kind = "STATE_RESPONSE" => Same(a.ereb, x.ereb)
<1> DEFINE g == AsTwinFrame(f)
           a == AnswerTo(f, s)
           x == Twin!Answer(e, g)
<1>1. g.cmd = f.cmd /\ f.cmd \in SentCommands
  BY FrameFacts, BodyFacts DEF Unanswered
<1>2. CASE f.cmd = "STATE_QUERY"
  <2>1. a = [kind |-> "STATE_RESPONSE", ereb |-> s]
    BY <1>2 DEF AnswerTo, StateResponse
  <2>2. x = [kind |-> "STATE_RESPONSE", ereb |-> e]
    BY <1>1, <1>2 DEF Twin!Answer
  <2> QED
    BY <1>2, <2>1, <2>2
<1>3. CASE f.cmd = "DIAGNOSTIC_DESCRIPTION_QUERY"
  <2>1. a.kind = "DIAGNOSTIC_DESCRIPTION_RESPONSE"
    BY <1>3 DEF AnswerTo
  <2>2. x.kind = "DIAGNOSTIC_DESCRIPTION_RESPONSE"
    BY <1>1, <1>3 DEF Twin!Answer
  <2> QED
    BY <2>1, <2>2
<1>4. CASE f.cmd \notin {"STATE_QUERY", "DIAGNOSTIC_DESCRIPTION_QUERY"}
  <2>1. a = [kind |-> "SUCCESS", msg |-> StatusMsg(s, f.cmd)]
    BY <1>4 DEF AnswerTo
  <2>2. f.cmd \notin {"dropped", "unknown", "GET_CSI_QUERY"}
    BY <1>1 DEF SentCommands, Twin!Harmless, Unanswered
  <2>3. x = [kind |-> "SUCCESS", msg |-> Twin!StatusMsg(Twin!After(e, g), f.cmd)]
    BY <1>1, <1>4, <2>2 DEF Twin!Answer
  <2> QED
    BY <2>1, <2>3
<1> QED
  BY <1>2, <1>3, <1>4

-----------------------------------------------------------------------------
(* The invariant *)

LEMMA InitIInv == Init => IInv
<1> SUFFICES ASSUME Init PROVE IInv
  OBVIOUS
<1>1. twin \in Twin!Device
  BY DEF Init, Twin!PowerOn, Twin!Device, Twin!States, Twin!NoId
<1>2. MimicsEreb
  BY DEF Init, MimicsEreb, Current, Default, Same, Twin!PowerOn
<1>3. queue = <<>> /\ Len(queue) = 0 /\ queue \in Seq(Entry)
  BY DEF Init
<1> QED
  BY <1>1, <1>2, <1>3, StandaloneAssumption DEF Init, IInv

LEMMA CurrentFacts ==
  ASSUME IInv PROVE Current \in Twin!Device /\ (legal => Same(Current, twin))
<1>1. Default \in Twin!Device
  BY DEF Default, Twin!Device, Twin!States, Twin!NoId
<1> QED
  BY <1>1 DEF IInv, Current, MimicsEreb

LEMMA SendPreserves ==
  ASSUME IInv, NEW f \in Frame, SendPacket(f) PROVE IInv'
<1> DEFINE g == AsTwinFrame(f)
           s == IF Accepts(f) /\ LooksUp(f.cmd) THEN Effect(Current, f) ELSE station
           x == [answer |-> AnswerTo(f, s), expected |-> Twin!Answer(twin, g), legal |-> legal']
<1>1. /\ Len(queue) < MaxQueue /\ station' = s /\ twin' = Twin!After(twin, g)
      /\ legal' = (legal /\ Twin!Allowed(twin, g.cmd))
      /\ queue' = IF Unanswered(f) THEN queue ELSE Append(queue, x)
  BY DEF SendPacket
<1>2. /\ station \in Twin!Device \cup {NoStation} /\ twin \in Twin!Device /\ legal \in BOOLEAN
      /\ queue \in Seq(Entry) /\ \A i \in 1 .. Len(queue) : Faithful(queue[i])
  BY DEF IInv
<1>3. twin' \in Twin!Device
  BY <1>1, <1>2, TwinFacts
<1>4. s \in Twin!Device \cup {NoStation}
  BY <1>2, CurrentFacts, EffectFacts
<1>5. legal' \in BOOLEAN
  BY <1>1
<1>6. legal' => Same(Current', twin')
  <2> SUFFICES ASSUME legal, Twin!Allowed(twin, g.cmd) PROVE Same(Current', twin')
    BY <1>1
  <2>1. CASE ~Accepts(f) \/ f.cmd = "PASSPORT_QUERY"
    <3>1. g.cmd = "dropped"
      BY <2>1 DEF AsTwinFrame, Accepts
    <3>2. twin' = twin
      BY <1>1, <3>1 DEF Twin!After, Twin!Applied
    <3>3. station' = station
      BY <1>1, <2>1 DEF LooksUp
    <3> QED
      BY <3>2, <3>3, CurrentFacts DEF Current
  <2>2. CASE Accepts(f) /\ f.cmd # "PASSPORT_QUERY"
    <3>1. g.cmd = f.cmd
      BY <2>2, FrameFacts
    <3>2. Same(Effect(Current, f), twin')
      BY <1>1, <1>2, <2>2, <3>1, CurrentFacts, StaySame
    <3>3. Current' = Effect(Current, f)
      <4>1. CASE LooksUp(f.cmd)
        <5>1. station' = Effect(Current, f) /\ station' \in Twin!Device
          BY <1>1, <2>2, <4>1, CurrentFacts, EffectFacts
        <5>2. station' # NoStation
          BY <5>1 DEF NoStation, Twin!Device, Twin!States
        <5> QED
          BY <5>1, <5>2 DEF Current
      <4>2. CASE ~LooksUp(f.cmd)
        <5>1. station' = station
          BY <1>1, <4>2
        <5>2. Effect(Current, f) = Current
          BY <4>2 DEF LooksUp, Effect
        <5> QED
          BY <5>1, <5>2 DEF Current
      <4> QED
        BY <4>1, <4>2
    <3> QED
      BY <3>2, <3>3
  <2> QED
    BY <2>1, <2>2
<1>7. x \in Entry
  <2>1. Accepts(f) /\ LooksUp(f.cmd) => s \in Twin!Device
    BY CurrentFacts, EffectFacts
  <2>2. AnswerTo(f, s) \in Answers /\ Twin!Answer(twin, g) \in TwinAnswers
    BY <1>2, <2>1, AnswerTypes
  <2> QED
    BY <1>5, <2>2 DEF Entry
<1>8. ~Unanswered(f) => Faithful(x)
  <2> SUFFICES ASSUME ~Unanswered(f), legal', AnswerTo(f, s).kind # "INVALID_DATA_RECEIVED"
               PROVE  /\ AnswerTo(f, s).kind = Twin!Answer(twin, g).kind
                      /\ AnswerTo(f, s).kind = "SUCCESS" =>
                           AnswerTo(f, s).msg = Twin!Answer(twin, g).msg
                      /\ AnswerTo(f, s).kind = "STATE_RESPONSE" =>
                           Same(AnswerTo(f, s).ereb, Twin!Answer(twin, g).ereb)
    BY DEF Faithful
  <2>1. Accepts(f)
    BY DEF AnswerTo
  <2>2. f.cmd = "STATE_QUERY" => Same(s, twin)
    <3>1. f.cmd = "STATE_QUERY" => s = Current
      BY <2>1 DEF LooksUp, Effect
    <3> QED
      BY <1>1, <3>1, CurrentFacts
  <2>3. StatusMsg(s, f.cmd) = Twin!StatusMsg(Twin!After(twin, g), f.cmd)
    <3>1. g.cmd = f.cmd /\ f.cmd # "PASSPORT_QUERY"
      BY <2>1, FrameFacts DEF Unanswered
    <3>2. ~LooksUp(f.cmd) => StatusMsg(s, f.cmd) = StatusMsg(Current, f.cmd)
      BY DEF LooksUp, StatusMsg
    <3> QED
      BY <1>1, <1>2, <2>1, <3>1, <3>2, CurrentFacts, MessageSame
  <2> QED
    BY <1>1, <1>2, <2>1, <2>2, <2>3, AnswerSame
<1>9. /\ queue' \in Seq(Entry) /\ Len(queue') <= MaxQueue
      /\ \A i \in 1 .. Len(queue') : Faithful(queue'[i])
  <2> HIDE DEF x
  <2>1. CASE Unanswered(f)
    BY <1>1, <1>2, <2>1, StandaloneAssumption
  <2>2. CASE ~Unanswered(f)
    <3>1. /\ queue' = Append(queue, x) /\ queue' \in Seq(Entry) /\ Len(queue') = Len(queue) + 1
      BY <1>1, <1>2, <1>7, <2>2
    <3>2. \A i \in 1 .. Len(queue') : queue'[i] = IF i <= Len(queue) THEN queue[i] ELSE x
      BY <1>2, <3>1
    <3>3. Faithful(x)
      BY <1>8, <2>2
    <3> QED
      BY <1>1, <1>2, <3>1, <3>2, <3>3, StandaloneAssumption
  <2> QED
    BY <2>1, <2>2
<1> QED
  BY <1>1, <1>3, <1>4, <1>5, <1>6, <1>9 DEF IInv, MimicsEreb, Faithful

LEMMA PumpPreserves == IInv /\ PumpPackets => IInv'
<1> SUFFICES ASSUME IInv, PumpPackets PROVE IInv'
  OBVIOUS
<1>1. /\ queue \in Seq(Entry) /\ queue # <<>> /\ queue' = Tail(queue)
      /\ UNCHANGED <<station, twin, legal>>
  BY DEF IInv, PumpPackets
<1>2. /\ queue' \in Seq(Entry) /\ Len(queue') = Len(queue) - 1
      /\ \A i \in 1 .. Len(queue') : queue'[i] = queue[i + 1] /\ i + 1 \in 1 .. Len(queue)
  BY <1>1
<1>3. \A i \in 1 .. Len(queue') : Faithful(queue'[i])
  BY <1>2 DEF IInv
<1>4. Len(queue') <= MaxQueue
  BY <1>1, <1>2, StandaloneAssumption DEF IInv
<1> QED
  BY <1>1, <1>2, <1>3, <1>4 DEF IInv, MimicsEreb, Current, Faithful

LEMMA Invariance == Spec => []IInv
<1>1. IInv /\ UNCHANGED vars => IInv'
  BY DEF IInv, vars, MimicsEreb, Current, Faithful
<1>2. IInv /\ [Next]_vars => IInv'
  BY <1>1, SendPreserves, PumpPreserves DEF Next
<1> QED
  BY <1>2, InitIInv, PTL DEF Spec

\* The two EREBs and the queue hold values of their kind, and the queue stays
\* within its bound (standaloneServer.py:28-36).
THEOREM TypeCorrect == Spec => []TypeOK
<1>1. IInv => TypeOK
  <2> SUFFICES ASSUME IInv PROVE TypeOK
    OBVIOUS
  <2>1. ASSUME NEW i \in 1 .. Len(queue)
        PROVE  queue[i].answer.kind \in {"SUCCESS", "STATE_RESPONSE", "INVALID_DATA_RECEIVED",
                                         "DIAGNOSTIC_DESCRIPTION_RESPONSE"}
    <3>1. queue[i] \in Entry
      BY DEF IInv
    <3>2. queue[i].answer \in Answers
      BY <3>1 DEF Entry
    <3> QED
      BY <3>2 DEF Answers
  <2> QED
    BY <2>1 DEF IInv, TypeOK
<1> QED
  BY <1>1, Invariance, PTL

\* The repository's two EREBs go through the same states for as long as no
\* command is sent in a wrong state (standaloneServer.py:133-318,
\* run_simulate_ereb.py:71-217).
THEOREM StandaloneMimicsEreb == Spec => []MimicsEreb
<1>1. IInv => MimicsEreb
  BY DEF IInv
<1> QED
  BY <1>1, Invariance, PTL

\* ... and give the same kind of answer, a success that names the same ids or flag,
\* the same state - up to the error for a wrong length and to what a description
\* says (standaloneServer.py:81-91, 175-315).
THEOREM StandaloneAnswersLikeEreb == Spec => []AnswersLikeEreb
<1>1. IInv => AnswersLikeEreb
  BY DEF IInv, Faithful, AnswersLikeEreb
<1> QED
  BY <1>1, Invariance, PTL
=============================================================================
