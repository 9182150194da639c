------------------------------ MODULE PplWire ------------------------------
(***************************************************************************)
(* The life of a PPL message: it is made from keyword arguments or from    *)
(* the json file, serialized and sent, perhaps damaged or written by       *)
(* another version of the program, and taken by receiveHandler.            *)
(***************************************************************************)
EXTENDS PplBuild, TLC

CONSTANTS
  Absent,      \* the value of a key that the json file does not have
  BaseFile,    \* the options of a json file, by key
  Edits,       \* key |-> other values of the option that the schema lets through
  MaxEdits,    \* bound: options in which a file differs from BaseFile
  Samples(_),  \* arguments to make packets of a type from
  Seqs,        \* sequence numbers in use
  EditedBytes, \* values that a byte is damaged to
  Fields,      \* bytes of fields that another version of the program adds
  Margin       \* bound: damage hits this many bytes at the datagram's start or end

\* getNextSeq counts modulo 0x100 (udpServer.py:54-56); what arrives are bytes.
ASSUME SeqsAreBytes == Seqs \subseteq Byte
ASSUME EditedAreBytes == EditedBytes \subseteq Byte
ASSUME FieldsAreBytes == \A x \in Fields : x \in Seq(Byte) /\ 1 <= Len(x) /\ Len(x) <= 64000

VARIABLES
  file,    \* the options of the json file
  phase,   \* editing; refused, made; unsent, sent; delivered, dropped, escaped
  source,  \* what made the message: "none", "args", or a builder
  msg,     \* the message
  wire,    \* the datagram
  damage,  \* what happened to it on its way
  event    \* what deserializing gave, or the exception that ended the message

vars == <<file, phase, source, msg, wire, damage, event>>

NoMessage == [prot |-> 0, name |-> "none", content |-> <<>>]
Quiet == [error |-> "none", seq |-> 0, msg |-> NoMessage]

Init == /\ file = BaseFile /\ phase = "editing" /\ source = "none"
        /\ msg = NoMessage /\ wire = <<>> /\ damage = "none" /\ event = Quiet

-----------------------------------------------------------------------------
(* Making messages                                                            *)

\* The objects of a file with options f.
ObjectOf(f, keys) == [k \in {j \in keys : f[j] # Absent} |-> f[k]]

macOptionKeys == {"allowRelaying", "allowHandover", "allowBcRep", "allowFreqHop", "allowLogging"}
macKeys == {"networkAddress", "latency", "payloadSize", "configOptimization", "stationCount",
            "reliability", "totalPTT", "securityMode", "ttrt", "dataRate"}
stationOptionKeys == {"isExtRelay", "isStatic", "isAnchor"}
stationKeys == {"macAddress", "stationPTT", "queueSizes"}
llcKeys == {"mcgroup", "mcport", "priorityFilters", "routes"}
deviceKeys == {"useDhcp", "ip", "netmask", "gateway", "nameserver", "timeserver"}

NetOf(f) ==
  [macConfiguration |-> ObjectOf(f, macKeys) @@ [options |-> ObjectOf(f, macOptionKeys)],
   stationConfiguration |->
     ObjectOf(f, stationKeys) @@ [options |-> ObjectOf(f, stationOptionKeys)],
   llcConfiguration |-> ObjectOf(f, llcKeys),
   subnetConfiguration |-> f.subnetConfiguration]

DeviceOf(f) == ObjectOf(f, deviceKeys)

\* The messages that configure makes of a file, by their builders.
Built(f) ==
  [mac |-> [prot |-> Configuration, name |-> "SetMACConfig", content |-> MacConfig(NetOf(f))],
   host |-> [prot |-> Configuration, name |-> "SetHostConfig", content |-> HostConfig(NetOf(f))],
   device |-> [prot |-> Configuration, name |-> "SetGlobalHostConfig",
               content |-> GlobalHostConfig(DeviceOf(f))]]

Changed(f) == {k \in DOMAIN f : f[k] # BaseFile[k]}

\* Without DHCP the schema asks for every address of the device.
Admissible(f) == f.useDhcp = 0 => \A k \in deviceKeys : f[k] # Absent

\* The user writes the file.
Edit(k, v) ==
  /\ phase = "editing"
  /\ Admissible([file EXCEPT ![k] = v])
  /\ k \notin Changed(file) /\ Cardinality(Changed(file)) < MaxEdits
  /\ file' = [file EXCEPT ![k] = v]
  /\ UNCHANGED <<phase, source, msg, wire, damage, event>>

\* A packet is made of a value that set() accepts, or SerializeError is raised.
Become(made, by) ==
  /\ source' = by
  /\ msg' = made
  /\ IF Valid(TypeOf(made), made.content)
       THEN phase' = "made" /\ UNCHANGED event
       ELSE phase' = "refused" /\ event' = Fails("SerializeError")
  /\ UNCHANGED <<file, wire, damage>>

Make(p, c, v) ==
  /\ phase = "editing" /\ Changed(file) = {}
  /\ Become([prot |-> p, name |-> Protocols[p].packets[c].name, content |-> v], "args")

Build(b) ==
  /\ phase = "editing" /\ Buildable(NetOf(file))
  /\ Become(Built(file)[b], b)

\* createPacketDataSetHostConfig raises, before anything of the file is sent.
BuildFails ==
  /\ phase = "editing" /\ ~Buildable(NetOf(file))
  /\ source' = "host" /\ phase' = "refused" /\ event' = Fails("ValueError")
  /\ UNCHANGED <<file, msg, wire, damage>>

-----------------------------------------------------------------------------
(* Sending and receiving                                                      *)

\* createPacket.  Its message about a packet that could not be serialized has one
\* argument more than ts_print takes, so that it ends with a TypeError itself.
Send(seq) ==
  /\ phase = "made"
  /\ LET errors == PackErrors(TypeOf(msg), msg.content) IN
       \/ /\ errors = {} /\ ~TooLong(msg)
          /\ wire' = Serialize(msg, seq)
          /\ phase' = "sent"
          /\ UNCHANGED event
       \/ /\ \/ errors = {} /\ TooLong(msg) /\ event' = Fails("TypeError")
             \/ \E e \in errors :
                  event' = Fails(IF e = "SerializeError" THEN "TypeError" ELSE e)
          /\ phase' = "unsent"
          /\ UNCHANGED wire
  /\ UNCHANGED <<file, source, msg, damage>>

WithLength(d) == BigEndian(Len(d), 2) \o SubSeq(d, 3, Len(d))

\* With x in the place of the bytes behind the i-th up to the j-th.
Replaced(d, i, j, x) == WithLength(SubSeq(d, 1, i) \o x \o SubSeq(d, j + 1, Len(d)))

Hit(d) == {i \in DOMAIN d : i <= Margin \/ i > Len(d) - Margin}

\* The places between the fields of a packet, and inside of them.
Inside(d) == {i \in Hit(d) : HDR_SIZE < i /\ i < Len(d)}

\* A byte arrives as another one, the end of the datagram is missing, or it comes
\* from a program whose packet has fewer or more fields, at its end or before it,
\* with a header that fits.
Damage ==
  /\ phase = "sent" /\ damage = "none" /\ source = "args"
  /\ \/ \E i \in Hit(wire), b \in EditedBytes :
          wire[i] # b /\ wire' = [wire EXCEPT ![i] = b] /\ damage' = "byte"
     \/ \E n \in Hit(wire) \ {Len(wire)} :
          wire' = SubSeq(wire, 1, n) /\ damage' = "lost"
     \/ \E n \in Hit(wire) \cap HDR_SIZE .. Len(wire) - 1 :
          wire' = WithLength(SubSeq(wire, 1, n)) /\ damage' = "shorter"
     \/ \E x \in Fields : wire' = WithLength(wire \o x) /\ damage' = "longer"
     \/ \E i \in Inside(wire), x \in Fields :
          wire' = Replaced(wire, i, i, x) /\ damage' = "inserted"
     \/ \E i \in Inside(wire), x \in Fields :
          /\ i + Len(x) < Len(wire)
          /\ wire' = Replaced(wire, i, i + Len(x), <<>>) /\ damage' = "removed"
  /\ UNCHANGED <<file, phase, source, msg, event>>

\* receiveHandler.  deserialize_message catches DeserializeError and its subclass
\* DeserializeVersionError; any other exception ends the task of the datagram.
Receive ==
  /\ phase = "sent"
  /\ event' = Deserialize(wire)
  /\ phase' = CASE event'.error = "none" -> "delivered"
                [] event'.error \in {"DeserializeError", "DeserializeVersionError"} -> "dropped"
                [] OTHER -> "escaped"
  /\ UNCHANGED <<file, source, msg, wire, damage>>

Next ==
  \/ \E k \in DOMAIN Edits : \E v \in Edits[k] : Edit(k, v)
  \/ \E p \in DOMAIN Protocols : \E c \in Commands(p) :
       \E v \in Samples(Protocols[p].packets[c]) : Make(p, c, v)
  \/ \E b \in {"mac", "host", "device"} : Build(b)
  \/ BuildFails
  \/ \E seq \in Seqs : Send(seq)
  \/ Damage
  \/ Receive

Spec == Init /\ [][Next]_vars

-----------------------------------------------------------------------------
(* Properties *)

\* A datagram consists of bytes, and of no more than the limit and the header
\* (protocol.py:855-878).
TypeOK ==
  /\ phase \in {"editing", "refused", "made", "unsent", "sent", "delivered", "dropped",
                "escaped"}
  /\ source \in {"none", "args", "mac", "host", "device"}
  /\ damage \in {"none", "byte", "lost", "shorter", "longer", "inserted", "removed"}
  /\ \A i \in DOMAIN wire : wire[i] \in 0 .. 255
  /\ damage \in {"none", "byte", "lost", "shorter"} =>
       Len(wire) <= PACKET_SIZE_LIMIT + HDR_SIZE

\* A message that arrives undamaged is the one that was sent, for every packet of
\* every subprotocol (protocol.py:654-691, 855-899).
RoundTrip ==
  phase \in {"delivered", "dropped", "escaped"} /\ damage = "none"
    /\ Plain(TypeOf(msg), msg.content) =>
      /\ phase = "delivered"
      /\ event.seq \in Seqs
      /\ event.msg = [msg EXCEPT !.content = Filled(TypeOf(msg), msg.content)]

\* There is one datagram for a message: whatever is accepted - undamaged, damaged, or
\* with a field more or less somewhere, which now and then reads as another message of
\* the same packet - is what serializing that message again gives.  A command
\* registered for two numbers is answered with the second (packetDefinitions.py:510-520).
Canonical ==
  phase = "delivered" =>
    LET m == event.msg IN
      \/ Serialize(m, event.seq) = wire
      \/ ~Plain(TypeOf(m), m.content)
      \/ m.name = "DeprecatedPacket" /\ wire = Header(HDR_SIZE + 1, event.seq, m.prot) \o <<2>>

\* A packet whose end is missing, or with bytes behind its last field, is not taken for
\* the one it begins with, also if the header knows its length (protocol.py:820-823).
\* Of a field more or less before the end the code cannot always tell.
OtherEndDropped ==
  damage \in {"lost", "shorter", "longer"} => phase # "delivered"

\* A datagram that cannot be read is dropped with a message and raises nothing,
\* with one exception: a NUL in a string (protocol.py:688, packetDefinitions.py:599-612).
OnlyTextEscapes ==
  phase = "escaped" =>
    /\ event.error = "SerializeError"
    /\ \E i \in HDR_SIZE + 2 .. Len(wire) : wire[i] = 0
    /\ HoldsText(Protocols[wire[4]].packets[wire[HDR_SIZE + 1]])

FromFile == source \in {"mac", "host", "device"}

\* No option of the file is ignored: changing one of them changes what the device
\* is sent.  The security mode is not supported, and MEDIUM is not known
\* (udpServer.py:171-336).
NoOptionIsLost ==
  phase = "made" /\ FromFile =>
    LET built == Built(file) IN
      \A k \in DOMAIN Edits \ {"securityMode"} : \A v \in (Edits[k] \cup {BaseFile[k]}) \ {file[k]} :
        LET other == [file EXCEPT ![k] = v] IN
          Admissible(other) /\ Buildable(NetOf(other)) =>
            \/ Built(other) # built
            \/ k = "reliability" /\ {v, file[k]} = {"MEDIUM", "NONE"}

Named(object, key) == CHOOSE x \in {object[i][2] : i \in {j \in DOMAIN object : object[j][1] = key}} : TRUE

InOrder(object, key) == object[1][1] = key

\* The device is told the rules and routes of the file by the names their values
\* have in it, if they are written in the order of the schema (udpServer.py:326-335).
RulesArrive ==
  phase = "delivered" /\ source = "host" =>
    LET filters == event.msg.content[3]
        routes == event.msg.content[4]
    IN /\ \A i \in DOMAIN filters : \A j \in DOMAIN filters[i][2] :
            LET rule == file.priorityFilters[i].rules[j] IN
              InOrder(rule, "pos") =>
                filters[i][2][j] = <<Named(rule, "pos"), Named(rule, "val")>>
       /\ \A i \in DOMAIN routes :
            LET route == file.routes[i] IN
              InOrder(route, "macAddress") =>
                routes[i] = <<Named(route, "macAddress"), Named(route, "extAddress")>>

\* How many rules and routes a network may have: with the addresses and the counts,
\* their bytes make up to 1400 (protocol.py:859; the schema allows 200 routes).
RuleCount(filters) == FoldFunction(LAMBDA f, n : Len(f.rules) + n, 0, filters)

FitsOrRefused ==
  source = "host" /\ phase \in {"sent", "unsent"} /\ Plain(SetHostConfig, msg.content) =>
    LET filters == IF file.priorityFilters = Absent THEN <<>> ELSE file.priorityFilters
        routes == IF file.routes = Absent THEN <<>> ELSE file.routes
    IN phase = "sent" <=>
         11 + 3 * Len(filters) + 2 * RuleCount(filters) + 12 * Len(routes) <= 1400

\* "MEDIUM" is one of the degrees of reliability a file can ask for
\* (ppl_schema.json:98-112): the device is not told that none is wanted.
MediumIsNotNone ==
  source = "mac" /\ file.reliability = "MEDIUM" /\ phase = "made" =>
    msg.content[4] # MACReliabilities.NONE
=============================================================================
