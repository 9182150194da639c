------------------------------ MODULE PplBuild ------------------------------
(***************************************************************************)
(* How runCmdTest and runCmdConfigure make packets of a json file: the     *)
(* three builders of ppl/udpServer.py with the tables of ppl/enums.py that *)
(* translate the file's words, and the constructors of the packets.        *)
(*                                                                         *)
(* A json object is a function from its keys; the objects whose pairs the  *)
(* code takes by position are sequences of pairs <<key, value>>.  Booleans *)
(* are 0 and 1 as struct packs them.  Addresses and numbers are            *)
(* represented as in PplCodec.                                             *)
(***************************************************************************)
EXTENDS PplPackets, FiniteSetsExt

Get(object, key, default) == IF key \in DOMAIN object THEN object[key] ELSE default

NoKeys == <<>>
DefaultAddress == <<0, 0, 0, 0>>

-----------------------------------------------------------------------------
(* Words of the file and their codes (ppl/enums.py); a word without a code    *)
(* has the code of the last argument of mapping.get.                          *)

OptimizationWords ==
  [STATIONSMAX |-> MACOptimizations.NUM_STATIONS,
   RELIABILITYMAX |-> MACOptimizations.RELIABILITY,
   LATENCYMIN |-> MACOptimizations.MIN_LATENCY,
   EXACT |-> MACOptimizations.EXACT_CONFIG,
   PACKETLENMAX |-> MACOptimizations.PAYLOAD_SIZE]

OptimizationCode(word) == Get(OptimizationWords, word, MACOptimizations.EXACT_CONFIG)

\* Mutant: a word is missing in the table.
ReliabilityCodeNoLow(word) ==
  IF word = "LOW" THEN MACReliabilities.NONE
  ELSE Get(MACReliabilities, word, MACReliabilities.NONE)

ReliabilityCode(word) == Get(MACReliabilities, word, MACReliabilities.NONE)

SecurityCode(word) == Get(SecurityMode, word, SecurityMode.NONE)

FilterWords ==
  [PRIO1 |-> FilterAction.PRIORITY_1, PRIO2 |-> FilterAction.PRIORITY_2,
   PRIO3 |-> FilterAction.PRIORITY_3, PRIO4 |-> FilterAction.PRIORITY_4,
   PRIO5 |-> FilterAction.PRIORITY_5]

FilterActionCode(word) ==
  Get(FilterAction, word, Get(FilterWords, word, SecurityMode.NONE))

-----------------------------------------------------------------------------
(* createPacketDataMacConfig, for one network                                 *)

Subnet(s) ==
  Content(SubnetEntry,
          [addr_subnet_id |-> Get(s, "subnetAddress", 0),
           channel |-> Get(s, "channel", 0),
           txPower |-> Get(s, "txPower", Zeros(4))])

Filters(net) == Get(Get(net, "llcConfiguration", NoKeys), "priorityFilters", <<>>)

HighestPriority(net) ==
  Max({0} \cup {FilterActionCode(Filters(net)[i].action) : i \in DOMAIN Filters(net)})

MacConfig(net) ==
  LET mac == Get(net, "macConfiguration", NoKeys)
      station == Get(net, "stationConfiguration", NoKeys)
      subnets == Get(net, "subnetConfiguration", <<>>)
      macOption(key) == Get(Get(mac, "options", NoKeys), key, 0)
      stationOption(key, default) == Get(Get(station, "options", NoKeys), key, default)
  IN Content(SetMACConfig,
       [latency |-> Get(mac, "latency", <<0, 0, 0, 1>>),
        TTRT |-> Get(mac, "ttrt", Zeros(4)),
        payloadSize |-> Get(mac, "payloadSize", 10),
        reliability |-> ReliabilityCode(Get(mac, "reliability", "NONE")),
        stationCount |-> Get(mac, "stationCount", 2),
        optimization |-> OptimizationCode(Get(mac, "configOptimization", "EXACT")),
        dataRate |-> Get(mac, "dataRate", 0),
        addr_net_id |-> Get(mac, "networkAddress", 1),
        addr_mac_addr_len |-> 1,
        addr_mac |-> Get(station, "macAddress", <<>>),
        externalRelay |-> stationOption("isExtRelay", 0),
        echoing |-> macOption("allowRelaying"),
        logging |-> macOption("allowLogging"),
        hopping |-> macOption("allowFreqHop"),
        stationPTTs |-> Get(station, "stationPTT", 0),
        totalPTTs |-> Get(mac, "totalPTT", 2),
        isStatic |-> stationOption("isStatic", 1),
        isAnchor |-> stationOption("isAnchor", 0),
        allowHandover |-> macOption("allowHandover"),
        allowBcRep |-> macOption("allowBcRep"),
        queue_sizes |-> Get(station, "queueSizes", Zeros(HighestPriority(net) + 2)),
        securityMode |-> SecurityCode(Get(mac, "securityMode", "DISABLED")),
        subnets |-> [i \in DOMAIN subnets |-> Subnet(subnets[i])]])

-----------------------------------------------------------------------------
(* createPacketDataSetGlobalHostConfig                                        *)

GlobalHostConfig(device) ==
  Content(SetGlobalHostConfig,
    [dhcp_client |-> device.useDhcp,
     static_ip |-> Get(device, "ip", DefaultAddress),
     subnet_mask |-> Get(device, "netmask", DefaultAddress),
     gateway |-> Get(device, "gateway", DefaultAddress),
     nameserver |-> Get(device, "nameserver", DefaultAddress),
     timeserver |-> Get(device, "timeserver", DefaultAddress)])

-----------------------------------------------------------------------------
(* createPacketDataSetHostConfig, for one network                             *)

\* "pos, val = rule" takes an object apart that has two keys, whatever they are;
\* with any other number it raises ValueError.
Unpacks(object) == Len(object) = 2
First(object) == object[1][2]
Second(object) == object[2][2]

Buildable(net) ==
  LET routes == Get(Get(net, "llcConfiguration", NoKeys), "routes", <<>>) IN
    /\ \A i \in DOMAIN routes : Unpacks(routes[i])
    /\ \A i \in DOMAIN Filters(net) :
         \A j \in DOMAIN Filters(net)[i].rules : Unpacks(Filters(net)[i].rules[j])

\* Mutant: the two numbers of a rule are exchanged.
FilterOfSwapped(f) ==
  Content(TrafficFilter,
    [action |-> FilterActionCode(f.action),
     entries |-> [j \in DOMAIN f.rules |-> <<Second(f.rules[j]), First(f.rules[j])>>]])

FilterOf(f) ==
  Content(TrafficFilter,
    [action |-> FilterActionCode(f.action),
     entries |-> [j \in DOMAIN f.rules |-> <<First(f.rules[j]), Second(f.rules[j])>>]])

HostConfig(net) ==
  LET llc == Get(net, "llcConfiguration", NoKeys)
      routes == Get(llc, "routes", <<>>)
  IN Content(SetHostConfig,
       [multicast_group |-> Get(llc, "mcgroup", <<225, 224, 223, 0>>),
        multicast_port |-> Get(llc, "mcport", 32145),
        traffic_filters |-> [i \in DOMAIN Filters(net) |-> FilterOf(Filters(net)[i])],
        routes |-> [i \in DOMAIN routes |-> <<First(routes[i]), Second(routes[i])>>]])
=============================================================================
