----------------------------- MODULE PplPackets -----------------------------
(***************************************************************************)
(* The packets and subprotocols of PPL (ppl/packetDefinitions.py) and the  *)
(* messages made of them: serialize_message and deserialize_message of     *)
(* ppl/protocol.py.                                                        *)
(***************************************************************************)
EXTENDS PplCodec

-----------------------------------------------------------------------------
(* Enumerations (ppl/enums.py), by their codes *)

MACOptimizations == [NUM_STATIONS |-> 1, RELIABILITY |-> 2, MIN_LATENCY |-> 3,
                     EXACT_CONFIG |-> 4, PAYLOAD_SIZE |-> 5]
MACReliabilities == [NONE |-> 1, LOW |-> 2, MODERATE |-> 3, NORMAL |-> 4,
                     ADVANCED |-> 5, HIGH |-> 6, CRITICAL |-> 7, EXTREME |-> 8]
SecurityMode == [NONE |-> 0, PAYLOAD_ENCRYPTION |-> 1, FULL_ENCRYPTION |-> 2]
FilterAction == [DROP |-> 0, PRIORITY_1 |-> 1, PRIORITY_2 |-> 2, PRIORITY_3 |-> 3,
                 PRIORITY_4 |-> 4, PRIORITY_5 |-> 5]
ConfigStorageMode == [PERSIST |-> 0, TEMPORARY |-> 1]

\* The others matter by the number of their members only; AutoNumber counts
\* from 0.
ConfigStorageModes == EnumOf(0 .. 1)
FilterActions == EnumOf(0 .. 5)
MeasTypes == EnumOf(0 .. 1)
SecurityModes == EnumOf(0 .. 2)
IfaceTypes == EnumOf(0 .. 3)
NodeStates == EnumOf(0 .. 7)
NukeActions == EnumOf(0 .. 2)
SubProtocols == EnumOf(0 .. 6)

-----------------------------------------------------------------------------
(* Packets *)

GenericError == Packet("GenericError", << <<"ErrorMsg", Str>> >>)

DeprecatedPacket == Packet("DeprecatedPacket", <<>>)

KeyValuePair == Packet("Version", << <<"name", Str>>, <<"value", Str>> >>)

SubProtocolInfo ==
  Packet("SubProtocolInfo", << <<"protocol", SubProtocols>>, <<"version", U8>> >>)

IFaceInfo ==
  Packet("IFaceInfo",
         << <<"type", IfaceTypes>>, <<"name", Str>>, <<"MAC", MAC>>, <<"ip", IP>> >>)

NodeState ==
  Packet("NodeState",
         << <<"state", NodeStates>>, <<"serverIP", IP>>, <<"hasStaticConfig", U8>>,
            <<"ifaces", ArrayOf(IFaceInfo)>>, <<"versions", ArrayOf(KeyValuePair)>>,
            <<"features", ArrayOf(SubProtocolInfo)>> >>)

PyrtmfState == Packet("PyrtmfState", << <<"state", U8>>, <<"version", Str>> >>)

SetGlobalHostConfig ==
  Packet("SetGlobalHostConfig",
         << <<"dhcp_client", U8>>, <<"static_ip", IP>>, <<"subnet_mask", IP>>,
            <<"gateway", IP>>, <<"nameserver", IP>>, <<"timeserver", IP>> >>)

RTLookup == Packet("RTLookup", << <<"macaddress", MAC>>, <<"llcaddress", MAC>> >>)

FilterEntry == Packet("FilterEntry", << <<"index", U8>>, <<"value", U8>> >>)

TrafficFilter ==
  Packet("TrafficFilter",
         << <<"action", FilterActions>>, <<"entries", ArrayOf(FilterEntry)>> >>)

SetHostConfig ==
  Packet("SetHostConfig",
         << <<"multicast_group", IP>>, <<"multicast_port", U16>>,
            <<"traffic_filters", ArrayOf(TrafficFilter)>>, <<"routes", ArrayOf(RTLookup)>> >>)

AddHostRoutes == Packet("AddHostRoutes", << <<"routes", ArrayOf(RTLookup)>> >>)

SubnetEntry ==
  Packet("SubnetEntry",
         << <<"addr_subnet_id", U8>>, <<"channel", U8>>, <<"txPower", Float>> >>)

cfgFields ==
  << <<"latency", U32>>, <<"TTRT", U32>>, <<"payloadSize", U16>>, <<"reliability", U8>>,
     <<"stationCount", U8>>, <<"optimization", U8>>, <<"dataRate", U16>>,
     <<"addr_net_id", U8>>, <<"addr_mac_addr_len", U8>>, <<"addr_mac", MAC>>,
     <<"externalRelay", U8>>, <<"echoing", U8>>, <<"logging", U8>>, <<"hopping", U8>>,
     <<"ctrlPacketRate", U8>>, <<"payloadPacketRate", U8>>, <<"ctrlPacketReps", U8>>,
     <<"payloadPacketReps", U8>>, <<"stationPTTs", U8>>, <<"totalPTTs", U8>>,
     <<"isStatic", U8>>, <<"isAnchor", U8>>, <<"allowHandover", U8>>, <<"allowBcRep", U8>>,
     <<"subnets", ArrayOf(SubnetEntry)>>, <<"securityMode", SecurityModes>>,
     <<"queue_sizes", ArrayOf(U8)>> >>

SetMACConfig == Packet("SetMACConfig", cfgFields)

ZeusSecurityConfig ==
  Packet("ZeusSecurityConfig", << <<"addr_mac", MAC>>, <<"zeusblob", ArrayOf(U8)>> >>)

StartConfigSetTransaction ==
  Packet("StartConfigSetTransaction",
         << <<"storage", ConfigStorageModes>>, <<"slots", ArrayOf(U8)>> >>)

SelectConfigSlot == Packet("SelectConfigSlot", << <<"slotid", U8>> >>)

ApplyConfigSet == Packet("ApplyConfigSet", << <<"UID", U64>>, <<"slotid", U8>> >>)

\* CommitConfigSet and ReadConfigSetUID
UidPacket(name) == Packet(name, << <<"UID", U64>> >>)

DemoStatus ==
  Packet("DemoStatus",
         << <<"__packetNumber", U32Le>>, <<"totalTransmissions", U32Le>>,
            <<"dataPackets", FixedOf(U32Le, 5)>>, <<"rcvdToken", FixedOf(U32Le, 5)>>,
            <<"rcvdPackets", FixedOf(U32Le, 5)>>, <<"delayProfile", FixedOf(U32Le, 29)>>,
            <<"recoveryTypes", FixedOf(U32Le, 3)>>, <<"stateTransitions", FixedOf(U32Le, 5)>>,
            <<"sentData", FixedOf(U32Le, 2)>>, <<"dataPacketProb", FixedOf(U32Le, 2)>>,
            <<"destination", IPLe>>, <<"relays", FixedOf(U32Le, 10)>>,
            <<"selfRing", U32Le>>, <<"successor", U32Le>>, <<"channel", U32Le>>,
            <<"snrs", FixedOf(RawLe(4), 10)>>, <<"rxAbort", U32Le>>,
            <<"scrambledPackets", FixedOf(U32Le, 3)>>, <<"idleExpiry", FixedOf(U32Le, 9)>> >>)

SingleLink ==
  Packet("SingleLink",
         << <<"destination", IP>>, <<"payloadSize", U16>>, <<"multiplier", U8>>,
            <<"priority", U8>>, <<"streamID", U8>> >>)

measCfgFields ==
  << <<"measType", MeasTypes>>, <<"periodicity", U32>>, <<"deadline", U32>>,
     <<"packetNumber", U32>>, <<"measIp", IP>>, <<"links", ArrayOf(SingleLink)>> >>

SingleLinksStatus ==
  Packet("SingleLinksStatus",
         << <<"streamID", U8>>, <<"packetNumber", U32>>, <<"failedPackets", U32>>,
            <<"delayProfile", FixedOf(U32, 29)>>, <<"rcvdOK", U32>>, <<"rcvdFailed", U32>>,
            <<"lastSeqNum", U32>>, <<"outOfOrder", U32>>, <<"duplicates", U32>>,
            <<"txJitter", FixedOf(U32, 33)>>, <<"rxJitter", FixedOf(U32, 33)>> >>)

\* MeasLinkStatus and MeasurementStop
LinksPacket(name) == Packet(name, << <<"links", ArrayOf(SingleLinksStatus)>> >>)

RequestLog == Packet("RequestLog", << <<"_placeholder", Octets(16)>> >>)

ProtLogData ==
  Packet("ProtLogData",
         << <<"index", U16>>, <<"total", U16>>, <<"debugLength", U16>>, <<"padding", U16>>,
            <<"data", Octets(1008)>> >>)

ProtLogHeader ==
  Packet("ProtLogHeader", << <<"entrySize", U8>>, <<"data", Octets(1380)>> >>)

DeviceNuke == Packet("DeviceNuke", << <<"mode", NukeActions>> >>)

DeviceDevelopment ==
  Packet("DeviceDevelopment",
         << <<"component", U8>>, <<"module", U8>>, <<"command", U8>>, <<"level", U8>>,
            <<"wasExecuted", U8>>, <<"isDisabled", U8>>, <<"isSupported", U8>>,
            <<"wasFiltered", U8>>, <<"isDeprecated", U8>>, <<"data", ArrayOf(U32)>> >>)

DeviceDiagnostics ==
  Packet("DeviceDiagnostics", << <<"diagnostics", ArrayOf(Tlv("DiagnosticTLV"))>> >>)

UpdateInfo ==
  Packet("UpdateInfo",
         << <<"versions", ArrayOf(KeyValuePair)>>, <<"meta", ArrayOf(KeyValuePair)>> >>)

UpdateResponse == Packet("UpdateResponse", << <<"updates", ArrayOf(UpdateInfo)>> >>)

UpdateDownloadProgress ==
  Packet("UpdateDownloadProgress", << <<"progress", U16>>, <<"total", U16>> >>)

-----------------------------------------------------------------------------
(* Subprotocols: number, version, and the packets in the order of their        *)
(* commands.  A packet named here only has no fields.                          *)

Bare(name) == Packet(name, <<>>)

Discovery == 1
Pairing == 2
Configuration == 3
Measurement == 4
DeviceControl == 5
Update == 6

DiscovSubProt ==
  [version |-> 2, packets |->
     <<GenericError, Bare("GetNodeState"), NodeState, Bare("GetPyrtmfState"), PyrtmfState>>]

PairSubProt ==
  [version |-> 1, packets |->
     <<GenericError, Bare("PairNode"), Bare("PairSuccess"), Bare("UnpairNode")>>]

ConfigSubProt ==
  [version |-> 8, packets |->
     <<GenericError, Packet("ValidateMACConfig", cfgFields), SetMACConfig, SetHostConfig,
       AddHostRoutes, SetGlobalHostConfig, ZeusSecurityConfig, StartConfigSetTransaction,
       SelectConfigSlot, Bare("FinalizeConfigSlot"), ApplyConfigSet,
       UidPacket("CommitConfigSet"), UidPacket("ReadConfigSetUID"),
       Bare("ClearConfigSet")>>]

MeasSubProt ==
  [version |-> 5, packets |->
     <<GenericError, Bare("MeasurementStart"), LinksPacket("MeasurementStop"), DemoStatus,
       Packet("MeasValidateConfig", measCfgFields), Packet("MeasSetConfig", measCfgFields),
       LinksPacket("MeasLinkStatus"), RequestLog, ProtLogData, ProtLogHeader>>]

DevControlSubProt ==
  [version |-> 4, packets |->
     <<GenericError, DeprecatedPacket, DeviceNuke, DeviceDevelopment, DeviceDiagnostics,
       DeprecatedPacket, Bare("DeviceBridgeStart"), Bare("DeviceBridgeStop")>>]

UpdaterSubProt ==
  [version |-> 3, packets |->
     <<GenericError, Bare("UpdateQuery"), UpdateResponse, Bare("UpdateStart"),
       UpdateDownloadProgress, Bare("UpdateDownloadFinish"), Bare("UpdateSuccess")>>]

\* __cmd_unpack_map
Protocols ==
  <<DiscovSubProt, PairSubProt, ConfigSubProt, MeasSubProt, DevControlSubProt, UpdaterSubProt>>

-----------------------------------------------------------------------------
(* Messages *)

PACKET_SIZE_LIMIT == 1400
HDR_SIZE == 6

Commands(p) == DOMAIN Protocols[p].packets

\* name_to_key: the last command that a packet of the name was registered for.
CommandOf(p, name) ==
  CHOOSE c \in Commands(p) :
    /\ Protocols[p].packets[c].name = name
    /\ \A e \in Commands(p) : Protocols[p].packets[e].name = name => e <= c

TypeOf(m) == Protocols[m.prot].packets[CommandOf(m.prot, m.name)]

Body(m) == <<CommandOf(m.prot, m.name)>> \o Pack(TypeOf(m), m.content)

\* Mutant: the size is not looked at.
TooLongNever(m) == FALSE

\* Mutant: the limit is compared with the size of the whole datagram.
TooLongWithHeader(m) == Len(Body(m)) + HDR_SIZE > PACKET_SIZE_LIMIT

TooLong(m) == Len(Body(m)) > PACKET_SIZE_LIMIT

Header(n, seq, p) == BigEndian(n, 2) \o <<seq, p>> \o BigEndian(Protocols[p].version, 2)

Serialize(m, seq) == Header(Len(Body(m)) + HDR_SIZE, seq, m.prot) \o Body(m)

Received(seq, m) == [error |-> "none", seq |-> seq, msg |-> m]
Fails(error) == [error |-> error, seq |-> 0, msg |-> [prot |-> 0, name |-> "none", content |-> 0]]

\* Mutant: bytes behind the last field are not noticed.
UnpackContentLoose(p, d) ==
  LET c == d[HDR_SIZE + 1] IN
    IF c \notin Commands(p) THEN Fails("DeserializeError")
    ELSE LET u == Unpack(Protocols[p].packets[c], d, HDR_SIZE + 1) IN
           IF u.error # "none" THEN Fails(u.error)
           ELSE Received(d[3], [prot |-> p, name |-> Protocols[p].packets[c].name,
                                content |-> u.value])

\* SubProtocolClass.unpack.  The message has the command that its packet's name is
\* registered for, which is not always the one it came with.
UnpackContent(p, d) ==
  LET c == d[HDR_SIZE + 1] IN
    IF c \notin Commands(p) THEN Fails("DeserializeError")
    ELSE LET u == Unpack(Protocols[p].packets[c], d, HDR_SIZE + 1) IN
           CASE u.error # "none" -> Fails(u.error)
             [] u.error = "none" /\ u.next # Len(d) -> Fails("DeserializeError")
             [] OTHER -> Received(d[3], [prot |-> p, name |-> Protocols[p].packets[c].name,
                                         content |-> u.value])

Deserialize(d) ==
  IF Len(d) < HDR_SIZE \/ d[4] \notin DOMAIN Protocols THEN Fails("DeserializeError")
  ELSE LET p == d[4] IN
    IF FromBigEndian(Bytes(d, 4, 2)) # Protocols[p].version THEN Fails("DeserializeVersionError")
    ELSE IF FromBigEndian(Bytes(d, 0, 2)) # Len(d) \/ Len(d) = HDR_SIZE
      THEN Fails("DeserializeError")
      ELSE UnpackContent(p, d)
=============================================================================
