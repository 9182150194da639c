----------------------------- MODULE MCPplWire -----------------------------
(* The instance of PplWire for TLC: the options of a json file and the values *)
(* that packets are made of.                                                  *)
EXTENDS PplWire

Repeat(x, n) == [i \in 1 .. n |-> x]

\* Rules and routes of one file differ, the schema says.
Rule(pos) == << <<"pos", pos>>, <<"val", 7>> >>
RuleTurned == << <<"val", 8>>, <<"pos", 23>> >>
RuleWithComment == Append(Rule(23), <<"comment", "x">>)
Rules(n) == [i \in 1 .. n |-> Rule(i)]
FilterWith(action, rules) == [action |-> action, rules |-> rules]

Route(station) == << <<"macAddress", <<0, 0, 0, 0, 0, station>> >>,
                     <<"extAddress", <<2, 4, 6, 8, 10, 12>> >> >>
RouteTurned == <<Route(200)[2], Route(200)[1]>>
Routes(n) == [i \in 1 .. n |-> Route(i)]

SubnetWith(address, power) ==
  [subnetAddress |-> address, channel |-> 36, txPower |-> power]
TenDBm == <<65, 32, 0, 0>>

OptionsOfFile ==
  [networkAddress |-> 22, latency |-> <<0, 0, 117, 48>>, payloadSize |-> 150,
   configOptimization |-> "EXACT", stationCount |-> 5, reliability |-> "NONE",
   totalPTT |-> 5, securityMode |-> Absent, ttrt |-> Absent, dataRate |-> Absent,
   allowRelaying |-> 1, allowHandover |-> 1, allowBcRep |-> 0, allowFreqHop |-> Absent,
   allowLogging |-> Absent, macAddress |-> <<0, 0, 0, 0, 0, 1>>, stationPTT |-> 1,
   queueSizes |-> Absent, isExtRelay |-> 0, isStatic |-> 1, isAnchor |-> 1,
   mcgroup |-> Absent, mcport |-> Absent, priorityFilters |-> Absent, routes |-> Absent,
   subnetConfiguration |-> <<SubnetWith(1, TenDBm)>>,
   useDhcp |-> 0, ip |-> <<10, 0, 0, 5>>, netmask |-> <<255, 255, 255, 0>>,
   gateway |-> <<10, 0, 0, 1>>, nameserver |-> <<8, 8, 4, 4>>, timeserver |-> <<8, 8, 8, 8>>]

IPv6(last) == Append(Repeat(0, 15), last)
LinkLocal == <<254, 128>> \o Repeat(0, 13) \o <<1>>
NoAddress == <<>>   \* "format" is not checked: any string

EditsOfFile ==
  [networkAddress |-> {239}, latency |-> {<<0, 30, 132, 128>>}, payloadSize |-> {1500},
   configOptimization |-> {"STATIONSMAX", "LATENCYMIN", "RELIABILITYMAX", "PACKETLENMAX"},
   stationCount |-> {20},
   reliability |-> {"LOW", "MODERATE", "MEDIUM", "NORMAL", "ADVANCED", "HIGH", "CRITICAL",
                    "EXTREME"},
   totalPTT |-> {100}, securityMode |-> {"EVERYTHING"}, ttrt |-> {<<0, 0, 0, 9>>},
   dataRate |-> {65535}, allowRelaying |-> {0}, allowHandover |-> {0}, allowBcRep |-> {1},
   allowFreqHop |-> {1}, allowLogging |-> {1}, macAddress |-> {<<171, 205, 0, 0, 0, 255>>},
   stationPTT |-> {50}, queueSizes |-> {<<10, 20>>, <<30, 30, 30, 30, 30>>},
   isExtRelay |-> {1}, isStatic |-> {0}, isAnchor |-> {0},
   mcgroup |-> {<<225, 0, 0, 1>>, NoAddress}, mcport |-> {65535},
   priorityFilters |->
     {<<FilterWith("PRIO5", <<Rule(23)>>)>>,
      <<FilterWith("DROP", <<Rule(23), RuleTurned>>), FilterWith("PRIO1", <<Rule(23)>>)>>,
      <<FilterWith("PRIO1", <<RuleWithComment>>)>>,
      Repeat(FilterWith("PRIO2", Rules(16)), 16)},
   routes |-> {<<Route(3)>>, <<RouteTurned, Route(3)>>, Routes(69), Routes(70),
               Routes(115), Routes(116)},
   subnetConfiguration |->
     {<<SubnetWith(1, Zeros(4))>>, <<SubnetWith(1, TenDBm), SubnetWith(2, TenDBm)>>},
   useDhcp |-> {1}, ip |-> {<<192, 168, 0, 1>>, IPv6(9), LinkLocal, NoAddress},
   netmask |-> {<<255, 0, 0, 0>>}, gateway |-> {<<10, 0, 0, 2>>, Absent},
   nameserver |-> {<<8, 8, 8, 8>>}, timeserver |-> {<<8, 8, 4, 4>>, Absent}]

\* A byte and a number more.
OtherFields == {<<0>>, <<1>>, <<0, 0, 0, 7>>}

\* For the runs that look at the file only.
NoSamples(t) == {}

\* One value of each type.
RECURSIVE Usual(_)
Usual(t) ==
  CASE t.kind = "number" -> 7
    [] t.kind = "raw" -> [i \in 1 .. t.width |-> i % 256]
    [] t.kind = "ip" -> <<10, 0, 0, 1>>
    [] t.kind = "enum" -> 1
    [] t.kind = "string" -> <<97, 98>>
    [] t.kind = "array" -> <<Usual(t.of)>>
    [] t.kind = "fixed" -> [i \in 1 .. t.size |-> Usual(t.of)]
    [] t.kind = "packet" -> [i \in DOMAIN t.fields |-> Usual(FieldType(t, i))]
    [] t.kind = "tlv" -> <<1, 258, <<1, 2, 3, 4, 5>>>>

\* And its neighbours: the extreme values, valid and not, of one part of it.
RECURSIVE Variants(_)
Variants(t) ==
  LET usual == Usual(t) IN
    CASE t.kind = "number" -> {usual, 256 ^ t.width - 1, 256 ^ t.width}
      [] t.kind = "raw" -> {usual, Repeat(255, t.width), Append(Repeat(0, t.width), 1)}
      [] t.kind = "ip" -> {usual, IPv6(1), LinkLocal, NoAddress}
      [] t.kind = "enum" -> {usual, Cardinality(t.codes) - 1, Cardinality(t.codes)}
      [] t.kind = "string" ->
           {usual, <<>>, <<97, 0>>, <<233>>, <<195, 169>>, <<8364>>, <<226, 130, 172>>,
            <<237, 160, 128>>, <<240, 159, 155, 156>>}
      [] t.kind = "array" -> {<<>>} \cup {<<v, usual[1]>> : v \in Variants(t.of)}
      [] t.kind = "fixed" ->
           {usual, Tail(usual)} \cup {[usual EXCEPT ![t.size] = v] : v \in Variants(t.of)}
      [] t.kind = "packet" ->
           {usual} \cup UNION {{[usual EXCEPT ![i] = v] : v \in Variants(FieldType(t, i))} :
                               i \in DOMAIN t.fields}
      [] t.kind = "tlv" ->
           {usual} \cup {<<1, 258, Repeat(1, n)>> : n \in {0, 1, 4, 1016, 1017, 1020}}

\* Four bytes more in front of this one make another MAC address and a blob that is
\* four bytes longer.
Shiftable == << <<1, 2, 0, 6, 5, 1>>, <<7, 7>> >>

SamplesOf(t) == Variants(t) \cup (IF t = ZeusSecurityConfig THEN {Shiftable} ELSE {})
=============================================================================
