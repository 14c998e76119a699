-------------------------- MODULE YNetRelay_proofs --------------------------
(***************************************************************************)
(* Proofs about YNetRelay.  With clients that leave a room before they     *)
(* enter another one: who gets what is relayed, for any number of peers,   *)
(* rooms, targets and channels.  With any clients: the pages of the room   *)
(* list, for any number of rooms and pages of any size.                    *)
(***************************************************************************)
EXTENDS YNetRelay, YNetRooms_proofs, SequenceTheorems

-----------------------------------------------------------------------------
(***************************************************************************)
(* The requests come down to one kind of step: a message is served to some *)
(* peers.                                                                  *)
(***************************************************************************)
Report(p, type, msg, peers) ==
  /\ type \in Reports /\ peers \subseteq {p} /\ "targetClientId" \notin DOMAIN msg

InRoom(p, type, target, msg, peers) ==
  /\ type \notin Reports
  /\ peers # {} => InARoom(p) /\ peers \subseteq DOMAIN RoomOf(p).clients
  /\ "targetClientId" \in DOMAIN msg => msg.targetClientId = clients[p].id
  /\ type = "MESSAGE" /\ InARoom(p) /\ RoomOf(p).protocol = clients[p].protocolVersion =>
       peers = Others(p)
  /\ type \in {"RPC_TO_CLIENTS", "PACKET_TO_CLIENTS"} =>
       peers = IF IsHost(p) THEN Others(p) \cap DOMAIN clients ELSE {}
  /\ type \in {"RPC_TO_SERVER", "PACKET_TO_SERVER"}
       /\ InARoom(p) /\ p \in DOMAIN RoomOf(p).clients =>
         peers = {RoomOf(p).host} \cap DOMAIN clients
  /\ type \in {"RPC_TO_CLIENT", "PACKET_TO_CLIENT"} /\ target < IdRange =>
       \/ peers = {} /\ (IsHost(p) => Targeted(p, target) = {})
       \/ IsHost(p) /\ \E t \in Targeted(p, target) : peers = {t} \cap DOMAIN clients

Served(p) ==
  \E type, target, channel, msg, peers :
    /\ ServeOn(p, type, target, channel, msg, peers)
    /\ Report(p, type, msg, peers) \/ InRoom(p, type, target, msg, peers)

\* Identifiers are below 2^16, and so are the numbers of an RPC.
LEMMA SmallMod ==
  ASSUME NEW m \in Nat, NEW n \in Nat, n < m
  PROVE  n % m = n
OBVIOUS

LEMMA Reporting ==
  ASSUME NEW p, HandleGetRoomInfo(p) \/ \E request \in ListRequests : HandleGetRoomList(p, request)
  PROVE  Served(p)
<1>1. ASSUME NEW type, NEW target, NEW msg, NEW peers,
             Serve(p, type, target, msg, peers), Report(p, type, msg, peers)
      PROVE  Served(p)
  BY <1>1 DEF Served, Serve
<1>2. CASE HandleGetRoomInfo(p)
  BY <1>1, <1>2 DEF HandleGetRoomInfo, Report, Reports
<1>3. ASSUME NEW request, HandleGetRoomList(p, request)
      PROVE  Served(p)
  BY <1>1, <1>3 DEF HandleGetRoomList, Report, Reports
<1> QED BY <1>2, <1>3

LEMMA Calling ==
  ASSUME NEW p, NEW n \in Nat,
         HandleRPCToServer(p, n) \/ HandleRPCToClients(p, n) \/ HandleRPCToClient(p, n)
         \/ BroadcastMessage(p), HostIsMember
  PROVE  Served(p)
<1>1. ASSUME NEW type, NEW target, NEW msg, NEW peers,
             Serve(p, type, target, msg, peers), InRoom(p, type, target, msg, peers)
      PROVE  Served(p)
  BY <1>1 DEF Served, Serve
<1>2. CASE HandleRPCToServer(p, n)
  <2> DEFINE peers == IF InARoom(p) THEN {RoomOf(p).host} \cap DOMAIN clients ELSE {}
  <2>1. InARoom(p) => RoomOf(p).host \in DOMAIN RoomOf(p).clients
    BY DEF InARoom, RoomOf, HostIsMember
  <2>2. InRoom(p, "RPC_TO_SERVER", n, RPC(n), peers)
    BY <2>1 DEF InRoom, RPC, Reports
  <2> QED BY <1>1, <1>2, <2>2 DEF HandleRPCToServer
<1>3. CASE HandleRPCToClients(p, n)
  <2> DEFINE peers == IF IsHost(p) THEN Others(p) \cap DOMAIN clients ELSE {}
  <2>1. InRoom(p, "RPC_TO_CLIENTS", n, RPC(n), peers)
    BY DEF InRoom, RPC, Reports, IsHost, Others
  <2> QED BY <1>1, <1>3, <2>1 DEF HandleRPCToClients
<1>4. CASE HandleRPCToClient(p, n)
  <2>1. ASSUME IsHost(p), NEW t \in Targeted(p, n)
        PROVE  InRoom(p, "RPC_TO_CLIENT", n, RPC(n), {t} \cap DOMAIN clients)
    BY <2>1 DEF InRoom, RPC, Reports, IsHost, Targeted
  <2>2. ASSUME IsHost(p) => Targeted(p, n) = {}
        PROVE  InRoom(p, "RPC_TO_CLIENT", n, RPC(n), {})
    BY <2>2 DEF InRoom, RPC, Reports
  <2> QED BY <1>1, <1>4, <2>1, <2>2 DEF HandleRPCToClient
<1>5. CASE BroadcastMessage(p)
  <2> DEFINE peers == IF InARoom(p) /\ RoomOf(p).protocol = clients[p].protocolVersion
                        THEN Others(p) ELSE {}
  <2>1. InRoom(p, "MESSAGE", 0, [type |-> "MESSAGE"], peers)
    BY DEF InRoom, Reports, Others
  <2> QED BY <1>1, <1>5, <2>1 DEF BroadcastMessage
<1> QED BY <1>2, <1>3, <1>4, <1>5

LEMMA Packeting ==
  ASSUME NEW p, NEW channel, NEW n \in Nat, HostIsMember,
         HandlePacketToServer(p, channel) \/ HandlePacketToClients(p, channel)
         \/ HandlePacketToClient(p, n, channel)
  PROVE  Served(p)
<1>1. ASSUME NEW type, NEW target, NEW msg, NEW peers,
             ServeOn(p, type, target, channel, msg, peers), InRoom(p, type, target, msg, peers)
      PROVE  Served(p)
  BY <1>1 DEF Served
<1>2. ASSUME NEW type
      PROVE  /\ "targetClientId" \in DOMAIN Packet(p, type, channel)
             /\ Packet(p, type, channel).targetClientId = clients[p].id
  BY DEF Packet
<1>3. CASE HandlePacketToServer(p, channel)
  <2> DEFINE peers == IF InARoom(p) /\ p \in DOMAIN RoomOf(p).clients
                        THEN {RoomOf(p).host} \cap DOMAIN clients ELSE {}
  <2>1. InARoom(p) => RoomOf(p).host \in DOMAIN RoomOf(p).clients
    BY DEF InARoom, RoomOf, HostIsMember
  <2>2. InRoom(p, "PACKET_TO_SERVER", 0, Packet(p, "PACKET_TO_SERVER", channel), peers)
    BY <1>2, <2>1 DEF InRoom, Reports
  <2> QED BY <1>1, <1>3, <2>2 DEF HandlePacketToServer
<1>4. CASE HandlePacketToClients(p, channel)
  <2> DEFINE peers == IF IsHost(p) THEN Others(p) \cap DOMAIN clients ELSE {}
  <2>1. InRoom(p, "PACKET_TO_CLIENTS", 0, Packet(p, "PACKET_TO_CLIENTS", channel), peers)
    BY <1>2 DEF InRoom, Reports, IsHost, Others
  <2> QED BY <1>1, <1>4, <2>1 DEF HandlePacketToClients
<1>5. CASE HandlePacketToClient(p, n, channel)
  <2> DEFINE msg == Packet(p, "PACKET_TO_CLIENT", channel)
             id  == n % IdRange
  <2>0. n < IdRange => id = n
    BY SmallMod, RelayAssumption
  <2> HIDE DEF id
  <2>1. ASSUME IsHost(p), NEW t \in Targeted(p, id)
        PROVE  InRoom(p, "PACKET_TO_CLIENT", n, msg, {t} \cap DOMAIN clients)
    BY <1>2, <2>0, <2>1 DEF InRoom, Reports, IsHost, Targeted
  <2>2. ASSUME IsHost(p) => Targeted(p, id) = {}
        PROVE  InRoom(p, "PACKET_TO_CLIENT", n, msg, {})
    BY <1>2, <2>0, <2>2 DEF InRoom, Reports
  <2>3. PacketTo(p, n, id, channel)
    BY <1>5 DEF HandlePacketToClient, id
  <2> QED BY <1>1, <2>1, <2>2, <2>3 DEF PacketTo
<1> QED BY <1>3, <1>4, <1>5

\* What a step of RelayNext that relays does.
LEMMA RelayCases ==
  ASSUME PlacedInv, RelayNext, NEW p \in Peers, relayed'.from = p
  PROVE  /\ p \in Connected
         /\ \E type, target, msg, peers :
              /\ Report(p, type, msg, peers) \/ InRoom(p, type, target, msg, peers)
              /\ relayed'.type = type /\ relayed'.target = target
              /\ Receivers' = IF relayed'.channel < ChannelCount THEN peers \cap Connected ELSE {}
              /\ \A q \in Receivers' : \A i \in DOMAIN relayed'.sent[q] :
                   relayed'.sent[q][i] = msg
<1>0. Connected \subseteq Peers /\ HostIsMember
  BY DEF PlacedInv, IInv, TypeOK, Connected
<1>1. relayed' # NoRequest
  BY RelayAssumption DEF NoRequest
<1>2. PICK x \in Connected : Relay(x)
  BY <1>1 DEF RelayNext
<1>3. Served(x)
  <2>1. \A n \in Targets : n \in Nat
    BY RelayAssumption
  <2>2. CASE BroadcastMessage(x)
    BY <1>0, <2>2, Calling
  <2>3. ASSUME NEW n \in Targets, n < IdRange,
               HandleRPCToServer(x, n) \/ HandleRPCToClients(x, n) \/ HandleRPCToClient(x, n)
        PROVE  Served(x)
    BY <1>0, <2>1, <2>3, Calling
  <2>4. ASSUME NEW channel \in Channels,
               \/ HandlePacketToServer(x, channel)
               \/ HandlePacketToClients(x, channel)
               \/ \E n \in Targets : HandlePacketToClient(x, n, channel)
        PROVE  Served(x)
    <3>1. PICK n \in Nat : \/ HandlePacketToServer(x, channel)
                           \/ HandlePacketToClients(x, channel)
                           \/ HandlePacketToClient(x, n, channel)
      BY <2>1, <2>4
    <3> QED BY <1>0, <3>1, Packeting
  <2> QED BY <1>2, <2>2, <2>3, <2>4, Reporting DEF Relay
<1>4. PICK type, target, channel, msg, peers :
        /\ ServeOn(x, type, target, channel, msg, peers)
        /\ Report(x, type, msg, peers) \/ InRoom(x, type, target, msg, peers)
  BY <1>3 DEF Served
<1>5. /\ relayed'.from = x /\ relayed'.type = type /\ relayed'.target = target
      /\ relayed'.channel = channel
      /\ \A q \in Peers : relayed'.sent[q] =
                          IF q \in peers \cap Connected /\ channel < ChannelCount
                            THEN <<msg>> ELSE << >>
  BY <1>4 DEF ServeOn
<1>6. Receivers' = IF relayed'.channel < ChannelCount THEN peers \cap Connected ELSE {}
  <2>1. << >> # <<msg>>
    OBVIOUS
  <2> QED BY <1>0, <1>5, <2>1 DEF Receivers
<1>7. \A q \in Receivers' : \A i \in DOMAIN relayed'.sent[q] : relayed'.sent[q][i] = msg
  BY <1>0, <1>5, <1>6
<1>8. x = p /\ p \in Connected /\ relayed'.type = type /\ relayed'.target = target
  BY <1>2, <1>5
<1>9. Report(p, type, msg, peers) \/ InRoom(p, type, target, msg, peers)
  BY <1>4, <1>8
<1> QED BY <1>6, <1>7, <1>8, <1>9

\* The room's list is what the Clients say.
LEMMA RoommatesListed ==
  ASSUME PlacedInv, NEW p \in Connected
  PROVE  /\ InARoom(p) <=> p \in Roommates(p)
         /\ InARoom(p) =>
              /\ Roommates(p) = DOMAIN RoomOf(p).clients /\ Roommates(p) \subseteq Connected
              /\ \A q \in Roommates(p) :
                   /\ RoomOf(p).clients[q] = clients[q].id
                   /\ clients[q].protocolVersion = RoomOf(p).protocol
                   /\ Roommates(q) = Roommates(p)
<1>0. /\ p \in DOMAIN clients /\ DOMAIN clients \subseteq Peers /\ NoCode \notin DOMAIN rooms
      /\ \A c \in DOMAIN rooms : rooms[c] \in Room
  BY ServerAssumption DEF Connected, PlacedInv, IInv, TypeOK
<1>1. InARoom(p) <=> p \in Roommates(p)
  BY <1>0 DEF InARoom, Roommates, PlacedInv, Placed, NoDanglingRoom
<1>2. ASSUME InARoom(p)
      PROVE  /\ Roommates(p) = DOMAIN RoomOf(p).clients
             /\ Roommates(p) \subseteq Connected
             /\ \A q \in Roommates(p) :
                  /\ RoomOf(p).clients[q] = clients[q].id
                  /\ clients[q].protocolVersion = RoomOf(p).protocol
                  /\ Roommates(q) = Roommates(p)
  <2>1. DOMAIN RoomOf(p).clients \subseteq Peers
    BY <1>0, <1>2, RoomClients DEF InARoom, RoomOf
  <2>2. Roommates(p) = DOMAIN RoomOf(p).clients
    BY <1>0, <1>2, <2>1 DEF Roommates, InARoom, RoomOf, PlacedInv, Placed, MembershipAgrees
  <2>3. Roommates(p) \subseteq Connected
    BY <1>2, <2>2, PlacedMeans DEF MembersReachable, InARoom, RoomOf
  <2>4. ASSUME NEW q \in Roommates(p)
        PROVE  /\ RoomOf(p).clients[q] = clients[q].id
               /\ clients[q].protocolVersion = RoomOf(p).protocol
    BY <1>2, <2>1, <2>2, <2>4 DEF InARoom, RoomOf, PlacedInv, Placed, MembershipAgrees,
                                  ProtocolUniform
  <2>5. \A q \in Roommates(p) : Roommates(q) = Roommates(p)
    BY DEF Roommates
  <2> QED BY <2>2, <2>3, <2>4, <2>5
<1> QED BY <1>1, <1>2

-----------------------------------------------------------------------------
(***************************************************************************)
(* What is relayed.                                                        *)
(***************************************************************************)
StaysInRoom ==
  \A p \in {relayed'.from} \cap Peers :
    IF relayed'.type \in Reports THEN Receivers' \subseteq {p}
    ELSE \A q \in Receivers' :
           /\ q \in Roommates(p)
           /\ clients[q].protocolVersion = clients[p].protocolVersion

LEMMA StepsStayInRoom ==
  ASSUME PlacedInv, RelayNext
  PROVE  StaysInRoom
<1> SUFFICES ASSUME NEW p \in Peers, relayed'.from = p
             PROVE  IF relayed'.type \in Reports THEN Receivers' \subseteq {p}
                    ELSE \A q \in Receivers' :
                           /\ q \in Roommates(p)
                           /\ clients[q].protocolVersion = clients[p].protocolVersion
  BY DEF StaysInRoom
<1>1. p \in Connected
  BY RelayCases
<1>2. PICK type, target, msg, peers :
        /\ Report(p, type, msg, peers) \/ InRoom(p, type, target, msg, peers)
        /\ relayed'.type = type /\ Receivers' \subseteq peers
  BY RelayCases
<1>3. CASE Report(p, type, msg, peers)
  BY <1>2, <1>3 DEF Report
<1>4. CASE InRoom(p, type, target, msg, peers)
  <2>1. /\ relayed'.type \notin Reports
        /\ Receivers' # {} => InARoom(p) /\ Receivers' \subseteq DOMAIN RoomOf(p).clients
    BY <1>2, <1>4 DEF InRoom
  <2> QED BY <1>1, <2>1, RoommatesListed
<1> QED BY <1>2, <1>3, <1>4

ReachesRoom ==
  \A p \in {relayed'.from} \cap Peers :
    p \in Roommates(p) /\ relayed'.channel < ChannelCount =>
      LET others == Roommates(p) \ {p}
          host   == RoomOf(p).host
      IN /\ relayed'.type = "MESSAGE" => Receivers' = others
         /\ relayed'.type \in {"RPC_TO_CLIENTS", "PACKET_TO_CLIENTS"} =>
              Receivers' = IF p = host THEN others ELSE {}
         /\ relayed'.type \in {"RPC_TO_SERVER", "PACKET_TO_SERVER"} =>
              Receivers' = {host}

LEMMA StepsReachRoom ==
  ASSUME PlacedInv, RelayNext
  PROVE  ReachesRoom
<1> SUFFICES ASSUME NEW p \in Peers, relayed'.from = p, p \in Roommates(p),
                    relayed'.channel < ChannelCount
             PROVE  /\ relayed'.type = "MESSAGE" => Receivers' = Roommates(p) \ {p}
                    /\ relayed'.type \in {"RPC_TO_CLIENTS", "PACKET_TO_CLIENTS"} =>
                         Receivers' = IF p = RoomOf(p).host THEN Roommates(p) \ {p} ELSE {}
                    /\ relayed'.type \in {"RPC_TO_SERVER", "PACKET_TO_SERVER"} =>
                         Receivers' = {RoomOf(p).host}
  BY DEF ReachesRoom
<1>1. p \in Connected
  BY RelayCases
<1>2. PICK type, target, msg, peers :
        /\ Report(p, type, msg, peers) \/ InRoom(p, type, target, msg, peers)
        /\ relayed'.type = type /\ Receivers' = peers \cap Connected
  BY RelayCases
<1>3. CASE Report(p, type, msg, peers)
  BY <1>2, <1>3 DEF Report, Reports
<1>4. CASE InRoom(p, type, target, msg, peers)
  <2>0. /\ InARoom(p) /\ Roommates(p) = DOMAIN RoomOf(p).clients
        /\ Roommates(p) \subseteq Connected /\ Connected \subseteq DOMAIN clients
        /\ clients[p].protocolVersion = RoomOf(p).protocol
    BY <1>1, RoommatesListed DEF Connected
  <2>1. CASE type = "MESSAGE"
    <3>1. peers = Others(p)
      BY <1>4, <2>0, <2>1 DEF InRoom
    <3> QED BY <1>2, <2>0, <2>1, <3>1 DEF Others
  <2>2. CASE type \in {"RPC_TO_CLIENTS", "PACKET_TO_CLIENTS"}
    <3>1. peers = IF RoomOf(p).host = p THEN Others(p) \cap DOMAIN clients ELSE {}
      BY <1>4, <2>0, <2>2 DEF InRoom, IsHost
    <3> QED BY <1>2, <2>0, <2>2, <3>1 DEF Others
  <2>3. CASE type \in {"RPC_TO_SERVER", "PACKET_TO_SERVER"}
    <3>1. peers = {RoomOf(p).host} \cap DOMAIN clients
      BY <1>4, <2>0, <2>3 DEF InRoom
    <3>2. RoomOf(p).host \in Roommates(p)
      BY <2>0 DEF PlacedInv, IInv, HostIsMember, InARoom, RoomOf
    <3>3. Receivers' = {RoomOf(p).host}
      BY <1>2, <2>0, <3>1, <3>2
    <3> QED BY <1>2, <2>3, <3>3
  <2> QED BY <1>2, <2>1, <2>2, <2>3
<1> QED BY <1>2, <1>3, <1>4

ReachesTarget ==
  \A p \in {relayed'.from} \cap Peers :
    relayed'.type \in {"RPC_TO_CLIENT", "PACKET_TO_CLIENT"}
      /\ relayed'.target < IdRange /\ relayed'.channel < ChannelCount =>
        Receivers' = IF IsHost(p)
                       THEN {q \in Roommates(p) : clients[q].id = relayed'.target}
                       ELSE {}

LEMMA StepsReachTarget ==
  ASSUME PlacedInv, RelayNext
  PROVE  ReachesTarget
<1> SUFFICES ASSUME NEW p \in Peers, relayed'.from = p,
                    relayed'.type \in {"RPC_TO_CLIENT", "PACKET_TO_CLIENT"},
                    relayed'.target < IdRange, relayed'.channel < ChannelCount
             PROVE  Receivers' = IF IsHost(p)
                                   THEN {q \in Roommates(p) : clients[q].id = relayed'.target}
                                   ELSE {}
  BY DEF ReachesTarget
<1>1. p \in Connected
  BY RelayCases
<1>2. PICK type, target, msg, peers :
        /\ Report(p, type, msg, peers) \/ InRoom(p, type, target, msg, peers)
        /\ relayed'.type = type /\ relayed'.target = target
        /\ Receivers' = peers \cap Connected
  BY RelayCases
<1> DEFINE meant == {q \in Roommates(p) : clients[q].id = target}
<1>3. \/ peers = {} /\ (IsHost(p) => Targeted(p, target) = {})
      \/ IsHost(p) /\ \E t \in Targeted(p, target) : peers = {t} \cap DOMAIN clients
  BY <1>2 DEF Report, Reports, InRoom
<1>4. InARoom(p) => Targeted(p, target) = meant /\ meant \subseteq Connected
  BY <1>1, RoommatesListed DEF Targeted
<1>5. CASE ~IsHost(p)
  BY <1>2, <1>3, <1>5
<1>6. CASE IsHost(p)
  <2>1. InARoom(p)
    BY <1>6 DEF IsHost
  <2>2. CASE peers = {} /\ Targeted(p, target) = {}
    BY <1>2, <1>4, <1>6, <2>1, <2>2
  <2>3. CASE \E t \in Targeted(p, target) : peers = {t} \cap DOMAIN clients
    <3>1. PICK t \in Targeted(p, target) : peers = {t} \cap DOMAIN clients
      BY <2>3
    <3>2. meant \subseteq {t}
      BY <1>4, <2>1, <3>1 DEF PlacedInv, IInv, ClientIdsExact, Connected
    <3> QED BY <1>2, <1>4, <1>6, <2>1, <3>1, <3>2 DEF Connected
  <2> QED BY <1>3, <1>6, <2>2, <2>3
<1> QED BY <1>5, <1>6

NamesSender ==
  \A p \in {relayed'.from} \cap Peers, q \in Receivers' :
    \A i \in DOMAIN relayed'.sent[q] :
      LET msg == relayed'.sent[q][i]
      IN "targetClientId" \in DOMAIN msg =>
           {r \in Roommates(q) : clients[r].id = msg.targetClientId} = {p}

LEMMA StepsNameSender ==
  ASSUME PlacedInv, RelayNext
  PROVE  NamesSender
<1> SUFFICES ASSUME NEW p \in Peers, relayed'.from = p, NEW q \in Receivers',
                    NEW i \in DOMAIN relayed'.sent[q],
                    "targetClientId" \in DOMAIN relayed'.sent[q][i]
             PROVE  {r \in Roommates(q) :
                       clients[r].id = relayed'.sent[q][i].targetClientId} = {p}
  BY DEF NamesSender
<1>1. p \in Connected
  BY RelayCases
<1>2. PICK type, target, msg, peers :
        /\ Report(p, type, msg, peers) \/ InRoom(p, type, target, msg, peers)
        /\ Receivers' \subseteq peers
        /\ relayed'.sent[q][i] = msg
  BY RelayCases
<1>3. InRoom(p, type, target, msg, peers)
  BY <1>2 DEF Report
<1>4. InARoom(p) /\ q \in DOMAIN RoomOf(p).clients /\ msg.targetClientId = clients[p].id
  BY <1>2, <1>3 DEF InRoom
<1>5. Roommates(q) = Roommates(p) /\ p \in Roommates(p) /\ Roommates(p) \subseteq DOMAIN clients
  BY <1>1, <1>4, RoommatesListed DEF Connected
<1> QED BY <1>2, <1>4, <1>5 DEF PlacedInv, IInv, ClientIdsExact

-----------------------------------------------------------------------------
\* The relay leaves what YNetServer keeps alone, and with it the invariant.
LEMMA RelayInv ==
  ASSUME LeaveFirst
  PROVE  /\ RelayInit => PlacedInv
         /\ PlacedInv /\ [RelayNext]_relayVars => PlacedInv'
<1>1. RelayInit => PlacedInv
  BY PlacedInit DEF RelayInit
<1>2. [RelayNext]_relayVars => [Next]_vars
  BY DEF RelayNext, relayVars, vars
<1> QED BY <1>1, <1>2, PlacedNext

\* When clients leave a room before they enter another one, what a client sends
\* reaches only clients of the room it is in, which speak its protocol, and a
\* report goes only to who asked for it.
THEOREM RelayAlwaysStaysInRoom ==
  ASSUME LeaveFirst
  PROVE  RelaySpec => RelayStaysInRoom
<1>1. PlacedInv /\ [RelayNext]_relayVars => [StaysInRoom]_relayVars
  BY StepsStayInRoom
<1> QED BY <1>1, RelayInv, PTL DEF RelaySpec, RelayStaysInRoom, StaysInRoom

\* When clients leave a room before they enter another one: what a member says to
\* the room, and its host to its clients, reaches every other client of the room,
\* what another member says to its clients nobody, and what is said to the host
\* the host.
THEOREM RelayAlwaysReachesRoom ==
  ASSUME LeaveFirst
  PROVE  RelaySpec => RelayReachesRoom
<1>1. PlacedInv /\ [RelayNext]_relayVars => [ReachesRoom]_relayVars
  BY StepsReachRoom
<1> QED BY <1>1, RelayInv, PTL DEF RelaySpec, RelayReachesRoom, ReachesRoom

\* When clients leave a room before they enter another one: what the host sends to
\* an identifier of 16 bits reaches the client of its room that has it now and
\* nobody else; what another member sends so reaches nobody.
THEOREM TargetAlwaysReached ==
  ASSUME LeaveFirst
  PROVE  RelaySpec => TargetReached
<1>1. PlacedInv /\ [RelayNext]_relayVars => [ReachesTarget]_relayVars
  BY StepsReachTarget
<1> QED BY <1>1, RelayInv, PTL DEF RelaySpec, TargetReached, ReachesTarget

\* When clients leave a room before they enter another one, the identifier in a
\* packet is that of its sender, and of no other client its receiver can reach.
THEOREM SenderAlwaysNamed ==
  ASSUME LeaveFirst
  PROVE  RelaySpec => SenderNamed
<1>1. PlacedInv /\ [RelayNext]_relayVars => [NamesSender]_relayVars
  BY StepsNameSender
<1> QED BY <1>1, RelayInv, PTL DEF RelaySpec, SenderNamed, NamesSender

-----------------------------------------------------------------------------
(***************************************************************************)
(* The order of the map.  A list is its codes by their places, the place   *)
(* of a code being how many come before it.  There are as many places as   *)
(* codes and no two codes have the same, so that every place is taken:     *)
(* counting takes the place of an induction on the list.                   *)
(***************************************************************************)
LEMMA RanksDiffer ==
  /\ \A c \in Codes : Rank[c] \in Nat
  /\ \A c, d \in Codes : Rank[c] = Rank[d] => c = d
<1>1. \A c \in Codes : Rank[c] \in DOMAIN SortedCodes /\ SortedCodes[Rank[c]] = c
  BY RelayAssumption DEF Rank
<1>2. \A i \in DOMAIN SortedCodes : i \in Nat
  BY RelayAssumption
<1> QED BY <1>1, <1>2

LEMMA CodesFinite == IsFiniteSet(Codes)
<1>1. SortedCodes \in [1..Len(SortedCodes) -> Codes] /\ Len(SortedCodes) \in Nat
  BY RelayAssumption
<1>2. SortedCodes \in Surjection(1..Len(SortedCodes), Codes)
  BY <1>1, RelayAssumption DEF Surjection
<1>3. IsFiniteSet(1..Len(SortedCodes))
  BY <1>1, FS_Interval
<1> QED BY <1>2, <1>3, FS_Surjection

\* The codes of the set that the map has before this one.
Earlier(codes, code) == {c \in codes : Rank[c] < Rank[code]}

LEMMA PlaceIs ==
  ASSUME NEW codes, NEW code
  PROVE  Place(codes, code) = Cardinality(Earlier(codes, code))
BY DEF Place, Earlier

LEMMA PlaceInRange ==
  ASSUME NEW codes, codes \subseteq Codes, NEW code \in codes
  PROVE  /\ IsFiniteSet(codes) /\ Cardinality(codes) \in Nat
         /\ Place(codes, code) \in 0..Cardinality(codes) - 1 /\ Place(codes, code) \in Nat
<1>1. IsFiniteSet(codes)
  BY CodesFinite, FS_Subset
<1>2. Earlier(codes, code) \subseteq codes \ {code}
  BY RanksDiffer DEF Earlier
<1>3. IsFiniteSet(codes \ {code}) /\ Cardinality(codes \ {code}) = Cardinality(codes) - 1
  BY <1>1, FS_RemoveElement
<1>4. /\ IsFiniteSet(Earlier(codes, code))
      /\ Cardinality(Earlier(codes, code)) <= Cardinality(codes \ {code})
  BY <1>2, <1>3, FS_Subset
<1>5. Cardinality(Earlier(codes, code)) \in Nat /\ Cardinality(codes) \in Nat
  BY <1>1, <1>4, FS_CardinalityType
<1> QED BY <1>1, <1>3, <1>4, <1>5, PlaceIs

LEMMA PlacesOrdered ==
  ASSUME NEW codes, codes \subseteq Codes, NEW c \in codes, NEW d \in codes, Rank[c] < Rank[d]
  PROVE  Place(codes, c) < Place(codes, d)
<1>1. Earlier(codes, c) \cup {c} \subseteq Earlier(codes, d)
  BY RanksDiffer DEF Earlier
<1>2. c \notin Earlier(codes, c)
  BY RanksDiffer DEF Earlier
<1>3. IsFiniteSet(codes)
  BY PlaceInRange
<1>4. IsFiniteSet(Earlier(codes, c)) /\ IsFiniteSet(Earlier(codes, d))
  BY <1>3, FS_Subset DEF Earlier
<1>5. Cardinality(Earlier(codes, c) \cup {c}) = Cardinality(Earlier(codes, c)) + 1
  BY <1>2, <1>4, FS_AddElement
<1>6. Cardinality(Earlier(codes, c) \cup {c}) <= Cardinality(Earlier(codes, d))
  BY <1>1, <1>4, FS_Subset
<1>7. Cardinality(Earlier(codes, c)) \in Nat /\ Cardinality(Earlier(codes, d)) \in Nat
  BY <1>4, FS_CardinalityType
<1> QED BY <1>5, <1>6, <1>7, PlaceIs

LEMMA PlacesDiffer ==
  ASSUME NEW codes, codes \subseteq Codes, NEW c \in codes, NEW d \in codes,
         Place(codes, c) = Place(codes, d)
  PROVE  c = d
<1>1. Place(codes, c) \in Nat /\ Place(codes, d) \in Nat
  BY PlaceInRange
<1>2. ~(Rank[c] < Rank[d]) /\ ~(Rank[d] < Rank[c])
  BY <1>1, PlacesOrdered
<1>3. Rank[c] \in Nat /\ Rank[d] \in Nat
  BY RanksDiffer
<1>4. Rank[c] = Rank[d]
  BY <1>2, <1>3
<1> QED BY <1>4, RanksDiffer

\* As many places as codes, so that every place is taken.
LEMMA PlacesTaken ==
  ASSUME NEW codes, codes \subseteq Codes, NEW i \in 1..Cardinality(codes)
  PROVE  \E c \in codes : Place(codes, c) = i - 1
<1>1. IsFiniteSet(codes) /\ Cardinality(codes) \in Nat
  BY CodesFinite, FS_Subset, FS_CardinalityType
<1>2. PICK n \in Nat : n = Cardinality(codes)
  BY <1>1
<1>3. PICK T : T = {Place(codes, c) : c \in codes}
  OBVIOUS
<1>4. PICK f : f = [c \in codes |-> Place(codes, c)]
  OBVIOUS
<1>5. f \in Bijection(codes, T)
  <2>1. f \in [codes -> T]
    BY <1>3, <1>4
  <2>2. \A c, d \in codes : f[c] = f[d] => c = d
    BY <1>4, PlacesDiffer
  <2>3. \A t \in T : \E c \in codes : f[c] = t
    BY <1>3, <1>4
  <2> QED BY <2>1, <2>2, <2>3 DEF Bijection, Injection, IsInjective, Surjection
<1>6. Cardinality(T) = n
  BY <1>1, <1>2, <1>5, FS_Bijection DEF ExistsBijection
<1>7. T \in SUBSET (0..n - 1)
  BY <1>2, <1>3, PlaceInRange
<1>8. IsFiniteSet(0..n - 1) /\ Cardinality(0..n - 1) = n
  <2>1. 0 \in Int /\ n - 1 \in Int
    BY <1>2
  <2>2. /\ IsFiniteSet(0..n - 1)
        /\ Cardinality(0..n - 1) = IF 0 > n - 1 THEN 0 ELSE (n - 1) - 0 + 1
    BY <2>1, FS_Interval
  <2> QED BY <1>2, <2>2
<1>9. T = 0..n - 1
  BY <1>6, <1>7, <1>8, FS_Subset
<1>10. i - 1 \in T
  BY <1>2, <1>9
<1> QED BY <1>3, <1>10

LEMMA MapOrder ==
  ASSUME NEW codes, codes \subseteq Codes, NEW s, s = InMapOrder(codes)
  PROVE  /\ IsFiniteSet(codes) /\ Cardinality(codes) \in Nat
         /\ s \in Seq(codes) /\ Len(s) = Cardinality(codes)
         /\ \A i \in 1..Cardinality(codes) : s[i] \in codes /\ Place(codes, s[i]) = i - 1
<1>1. IsFiniteSet(codes) /\ Cardinality(codes) \in Nat
  BY CodesFinite, FS_Subset, FS_CardinalityType
<1>2. PICK n \in Nat : n = Cardinality(codes)
  BY <1>1
<1>3. ASSUME NEW i \in 1..n
      PROVE  s[i] \in codes /\ Place(codes, s[i]) = i - 1
  <2>1. \E c \in codes : Place(codes, c) = i - 1
    BY <1>2, PlacesTaken
  <2>2. s[i] = CHOOSE c \in codes : Place(codes, c) = i - 1
    BY <1>2 DEF InMapOrder
  <2> QED BY <2>1, <2>2
<1>4. s \in [1..n -> codes]
  BY <1>2, <1>3 DEF InMapOrder
<1>5. s \in Seq(codes) /\ Len(s) = n
  BY <1>4
<1> QED BY <1>1, <1>2, <1>3, <1>5

LEMMA PlaceFound ==
  ASSUME NEW codes, codes \subseteq Codes, NEW s, s = InMapOrder(codes), NEW c \in codes
  PROVE  /\ Place(codes, c) \in Nat /\ Place(codes, c) < Cardinality(codes)
         /\ s[Place(codes, c) + 1] = c
<1>1. PICK k \in Nat : k = Place(codes, c) /\ k < Cardinality(codes)
  BY PlaceInRange
<1>2. Cardinality(codes) \in Nat
  BY PlaceInRange
<1>3. k + 1 \in 1..Cardinality(codes) /\ (k + 1) - 1 = k
  BY <1>1, <1>2
<1>4. s[k + 1] \in codes /\ Place(codes, s[k + 1]) = k
  BY <1>3, MapOrder
<1>5. s[k + 1] = c
  BY <1>1, <1>4, PlacesDiffer
<1> QED BY <1>1, <1>5

LEMMA OrderedEntries ==
  ASSUME NEW codes, codes \subseteq Codes
  PROVE  Entries(InMapOrder(codes)) = codes
<1>1. PICK s : s = InMapOrder(codes)
  OBVIOUS
<1>2. /\ s \in Seq(codes) /\ Len(s) = Cardinality(codes) /\ Cardinality(codes) \in Nat
      /\ \A i \in 1..Cardinality(codes) : s[i] \in codes
  BY <1>1, MapOrder
<1>3. DOMAIN s = 1..Cardinality(codes)
  BY <1>2
<1>4. ASSUME NEW c \in codes
      PROVE  \E i \in DOMAIN s : s[i] = c
  <2>1. PICK k \in Nat : k < Cardinality(codes) /\ s[k + 1] = c
    BY <1>1, PlaceFound
  <2>2. k + 1 \in 1..Cardinality(codes)
    BY <1>2, <2>1
  <2> QED BY <1>3, <2>1, <2>2
<1>5. Entries(s) = codes
  BY <1>2, <1>3, <1>4 DEF Entries
<1> QED BY <1>1, <1>5

-----------------------------------------------------------------------------
(***************************************************************************)
(* A page is the codes whose places are its own.                           *)
(***************************************************************************)
\* The page of size codes after the first ones.
Slice(codes, first, size) ==
  {c \in codes : first <= Place(codes, c) /\ Place(codes, c) < first + size}

\* Those elements of the list, as Page takes them.
PageFrom(s, first, size) ==
  SubSeq(s, first + 1, IF first + size < Len(s) THEN first + size ELSE Len(s))

LEMMA PageFromFirst ==
  ASSUME NEW s, NEW query, {"pageSize", "pageNumber"} \subseteq DOMAIN query, NEW n
  PROVE  PageOf(s, query, n) = PageFrom(s, (n - 1) * query.pageSize, query.pageSize)
<1>1. PICK q : q = [query EXCEPT !.pageNumber = n]
  OBVIOUS
<1>2. "pageSize" \in DOMAIN query /\ "pageNumber" \in DOMAIN query
  OBVIOUS
<1>3. q.pageNumber = n /\ q.pageSize = query.pageSize
  BY <1>1, <1>2
<1> QED BY <1>1, <1>3 DEF PageOf, Page, PageFrom

\* What a page is to show: its slice, something only of a list that reaches so
\* far, and as many as it may if the list goes on.
Shows(page, codes, first, size) ==
  /\ Entries(page) = Slice(codes, first, size)
  /\ page # << >> => first < Cardinality(codes)
  /\ first + size <= Cardinality(codes) => Len(page) = size

LEMMA PageIs ==
  ASSUME NEW codes, codes \subseteq Codes, NEW s, s = InMapOrder(codes),
         NEW first \in Nat, NEW size \in Nat \ {0}, NEW page, page = PageFrom(s, first, size)
  PROVE  Shows(page, codes, first, size)
<1>1. PICK n \in Nat : n = Cardinality(codes) /\ n = Len(s)
  BY MapOrder
<1>2. PICK last \in Nat : last = IF first + size < n THEN first + size ELSE n
  <2>1. first + size \in Nat /\ n \in Nat
    BY <1>1
  <2>2. (IF first + size < n THEN first + size ELSE n) \in Nat
    BY <2>1
  <2> QED BY <2>2
<1>3. page = SubSeq(s, first + 1, last)
  BY <1>1, <1>2 DEF PageFrom
<1>4. \A i \in 1..n : s[i] \in codes /\ Place(codes, s[i]) = i - 1
  BY <1>1, MapOrder
<1>5. \A i \in first + 1 .. last : i \in 1..n
  BY <1>1, <1>2
<1>6. PICK from \in Int : from = first + 1
  OBVIOUS
<1>7. \A i \in from .. last : s[i] \in codes
  BY <1>4, <1>5, <1>6
<1>8. /\ page \in Seq(codes)
      /\ Len(page) = IF from <= last THEN last - from + 1 ELSE 0
      /\ \A i \in 1 .. last - from + 1 : page[i] = s[from + i - 1]
  BY <1>3, <1>6, <1>7, SubSeqProperties
<1>9. PICK m \in Nat : m = Len(page)
  BY <1>2, <1>6, <1>8
<1>10. /\ m = IF first < last THEN last - first ELSE 0
       /\ \A i \in 1 .. m : page[i] = s[first + i]
  <2>1. m = IF first < last THEN last - first ELSE 0
    BY <1>2, <1>6, <1>8, <1>9
  <2>2. ASSUME NEW i \in 1..m
        PROVE  page[i] = s[first + i]
    <3>1. i \in 1 .. last - from + 1 /\ from + i - 1 = first + i
      BY <1>2, <1>6, <2>1
    <3> QED BY <1>8, <3>1
  <2> QED BY <2>1, <2>2
<1>11. DOMAIN page = 1..m
  BY <1>8, <1>9
<1>12. Entries(page) \subseteq Slice(codes, first, size)
  <2> SUFFICES ASSUME NEW i \in 1..m
               PROVE  page[i] \in Slice(codes, first, size)
    BY <1>11 DEF Entries
  <2>1. first + i \in 1..n /\ first + i - 1 < first + size /\ first <= first + i - 1
    BY <1>1, <1>2, <1>10
  <2>2. page[i] \in codes /\ Place(codes, page[i]) = (first + i) - 1
    BY <1>4, <1>10, <2>1
  <2> QED BY <2>1, <2>2 DEF Slice
<1>13. Slice(codes, first, size) \subseteq Entries(page)
  <2> SUFFICES ASSUME NEW c \in codes, first <= Place(codes, c),
                      Place(codes, c) < first + size
               PROVE  \E i \in 1..m : page[i] = c
    BY <1>11 DEF Entries, Slice
  <2>1. /\ Place(codes, c) \in Nat /\ Place(codes, c) < Cardinality(codes)
        /\ s[Place(codes, c) + 1] = c
    BY PlaceFound
  <2>2. PICK k \in Nat : k = Place(codes, c)
    BY <2>1
  <2>3. k < n /\ s[k + 1] = c
    BY <1>1, <2>1, <2>2
  <2>4. PICK i \in 1..m : first + i = k + 1
    <3>1. k + 1 - first \in 1..m /\ first + (k + 1 - first) = k + 1
      BY <1>1, <1>2, <1>10, <2>2, <2>3
    <3> QED BY <3>1
  <2>5. page[i] = s[k + 1]
    BY <1>10, <2>4
  <2> QED BY <2>3, <2>4, <2>5
<1>14. page # << >> => first < n
  <2>1. page # << >> => m > 0
    BY <1>8, <1>9, EmptySeq
  <2> QED BY <1>1, <1>2, <1>10, <2>1
<1>15. first + size <= n => Len(page) = size
  BY <1>1, <1>2, <1>9, <1>10
<1> QED BY <1>1, <1>12, <1>13, <1>14, <1>15 DEF Shows

LEMMA TimesGrows ==
  ASSUME NEW m \in Nat, NEW n \in Nat, m < n, NEW z \in Nat
  PROVE  m * z \in Nat /\ n * z \in Nat /\ m * z + z <= n * z
<1>1. PICK d \in Nat : n = m + 1 + d
  <2>1. n - m - 1 \in Nat /\ n = m + 1 + (n - m - 1)
    OBVIOUS
  <2> QED BY <2>1
<1>2. m * z \in Nat /\ d * z \in Nat
  OBVIOUS
<1>3. (m + 1 + d) * z = m * z + z + d * z
  OBVIOUS
<1> QED BY <1>1, <1>2, <1>3

\* Every place is on a page.
LEMMA PageFound ==
  ASSUME NEW k \in Nat, NEW z \in Nat \ {0}
  PROVE  \E n \in 1..k + 1 : (n - 1) * z <= k /\ k < (n - 1) * z + z
<1>1. PICK q \in Int : q = k \div z
  OBVIOUS
<1>2. q * z <= k /\ k < q * z + z
  BY <1>1
<1>3. q \in 0..k
  BY <1>2
<1>4. q + 1 \in 1..k + 1 /\ (q + 1) - 1 = q
  BY <1>3
<1> QED BY <1>2, <1>4

\* A request for pages of at least one room.
Paged(query) ==
  {"pageSize", "pageNumber"} \subseteq DOMAIN query /\ query.pageSize \in Nat \ {0}

LEMMA QueriesPaged ==
  ASSUME NEW query \in Queries, query.pageSize > 0
  PROVE  Paged(query)
<1>1. PICK request \in ListRequests : query = [FromJson(request) EXCEPT !.pageNumber = 1]
  BY DEF Queries
<1>2. FieldOrder[5] = "pageSize" /\ FieldOrder[6] = "pageNumber" /\ DOMAIN FieldOrder = 1..6
  BY DEF FieldOrder
<1>3. "pageSize" \in FieldNames /\ "pageNumber" \in FieldNames
  BY <1>2 DEF FieldNames
<1>4. DOMAIN FromJson(request) = FieldNames
  BY DEF FromJson
<1>5. PICK filters : filters = FromJson(request)
  OBVIOUS
<1>6. query = [filters EXCEPT !.pageNumber = 1] /\ filters.pageSize \in Int
      /\ "pageSize" \in DOMAIN filters /\ "pageNumber" \in DOMAIN filters
  BY <1>1, <1>3, <1>4, <1>5, RelayAssumption
<1>7. DOMAIN query = DOMAIN filters /\ query.pageSize = filters.pageSize
  BY <1>6
<1> QED BY <1>6, <1>7 DEF Paged

LEMMA PageNumbersAre ==
  /\ Cardinality(Codes) \in Nat
  /\ \A n \in PageNumbers : n \in Nat \ {0}
  /\ \A k \in Nat : k < Cardinality(Codes) => \A n \in 1..k + 1 : n \in PageNumbers
<1>1. PICK c \in Nat : c = Cardinality(Codes)
  BY CodesFinite, FS_CardinalityType
<1> QED BY <1>1 DEF PageNumbers

LEMMA FirstOf ==
  ASSUME NEW query, Paged(query), NEW n \in Nat \ {0}
  PROVE  (n - 1) * query.pageSize \in Nat
<1>1. PICK z \in Nat : z = query.pageSize
  BY DEF Paged
<1>2. n - 1 \in Nat
  OBVIOUS
<1>3. (n - 1) * z \in Nat
  BY <1>2
<1> QED BY <1>1, <1>3

\* What page n of a list shows.
LEMMA PageShows ==
  ASSUME NEW codes, codes \subseteq Codes, NEW query, Paged(query), NEW n \in Nat \ {0},
         NEW page, page = PageOf(InMapOrder(codes), query, n),
         NEW first, first = (n - 1) * query.pageSize
  PROVE  first \in Nat /\ Shows(page, codes, first, query.pageSize)
<1>1. first \in Nat /\ query.pageSize \in Nat \ {0}
  BY FirstOf DEF Paged
<1>2. PICK s : s = InMapOrder(codes)
  OBVIOUS
<1>3. page = PageFrom(s, first, query.pageSize)
  BY <1>2, PageFromFirst DEF Paged
<1> QED BY <1>1, <1>2, <1>3, PageIs

LEMMA PagesHold ==
  ASSUME NEW codes, codes \subseteq Codes, NEW query, Paged(query), NEW c \in codes
  PROVE  \E n \in PageNumbers :
           /\ (n - 1) * query.pageSize <= Place(codes, c)
           /\ Place(codes, c) < (n - 1) * query.pageSize + query.pageSize
           /\ c \in Entries(PageOf(InMapOrder(codes), query, n))
<1>1. PICK k \in Nat : k = Place(codes, c)
  BY PlaceInRange
<1>2. PICK z \in Nat \ {0} : z = query.pageSize
  BY DEF Paged
<1>3. PICK n \in 1..k + 1 : (n - 1) * z <= k /\ k < (n - 1) * z + z
  BY PageFound
<1>4. k < Cardinality(Codes)
  <2>1. Cardinality(codes) <= Cardinality(Codes)
    BY CodesFinite, FS_Subset
  <2>2. Cardinality(codes) \in Nat /\ Cardinality(Codes) \in Nat
    BY PlaceInRange, PageNumbersAre
  <2>3. Place(codes, c) < Cardinality(codes)
    BY PlaceFound
  <2> QED BY <1>1, <2>1, <2>2, <2>3
<1>5. n \in PageNumbers
  BY <1>3, <1>4, PageNumbersAre
<1>6. PICK first : first = (n - 1) * query.pageSize
  OBVIOUS
<1>7. n \in Nat \ {0}
  BY <1>3
<1>8. Entries(PageOf(InMapOrder(codes), query, n)) = Slice(codes, first, query.pageSize)
  BY <1>6, <1>7, PageShows DEF Shows
<1>9. first <= Place(codes, c) /\ Place(codes, c) < first + query.pageSize
  BY <1>1, <1>2, <1>3, <1>6
<1>10. c \in Slice(codes, first, query.pageSize)
  BY <1>9 DEF Slice
<1> QED BY <1>5, <1>6, <1>8, <1>9, <1>10

LEMMA PassingCodes ==
  ASSUME NEW rs, DOMAIN rs \subseteq Codes, NEW protocol, NEW query
  PROVE  Passing(rs, protocol, query) \subseteq Codes
BY DEF Passing

\* The pages of any list hold every room of it once, in order, each as many as
\* it may but the last.
LEMMA CodesCovered ==
  ASSUME NEW codes, codes \subseteq Codes, NEW query, Paged(query),
         NEW matching, matching = InMapOrder(codes)
  PROVE  /\ UNION {Entries(PageOf(matching, query, n)) : n \in PageNumbers} = Entries(matching)
         /\ \A m, n \in PageNumbers : m < n =>
              /\ Entries(PageOf(matching, query, m)) \cap Entries(PageOf(matching, query, n)) = {}
              /\ PageOf(matching, query, n) # << >> =>
                   Len(PageOf(matching, query, m)) = query.pageSize
<1>1. Entries(matching) = codes
  BY OrderedEntries
<1>2. ASSUME NEW n \in PageNumbers
      PROVE  Entries(PageOf(matching, query, n)) \subseteq codes
  <2>1. PICK first : first = (n - 1) * query.pageSize
    OBVIOUS
  <2>2. Entries(PageOf(matching, query, n)) = Slice(codes, first, query.pageSize)
    BY <2>1, PageNumbersAre, PageShows DEF Shows
  <2> QED BY <2>2 DEF Slice
<1>3. ASSUME NEW c \in codes
      PROVE  \E n \in PageNumbers : c \in Entries(PageOf(matching, query, n))
  BY PagesHold
<1>4. UNION {Entries(PageOf(matching, query, n)) : n \in PageNumbers} = codes
  BY <1>2, <1>3
<1>5. ASSUME NEW m \in PageNumbers, NEW n \in PageNumbers, m < n
      PROVE  /\ Entries(PageOf(matching, query, m)) \cap Entries(PageOf(matching, query, n)) = {}
             /\ PageOf(matching, query, n) # << >> =>
                  Len(PageOf(matching, query, m)) = query.pageSize
  <2>1. m \in Nat \ {0} /\ n \in Nat \ {0}
    BY PageNumbersAre
  <2>2. PICK z \in Nat \ {0} : z = query.pageSize
    BY DEF Paged
  <2>3. PICK a : a = (m - 1) * query.pageSize
    OBVIOUS
  <2>4. PICK b : b = (n - 1) * query.pageSize
    OBVIOUS
  <2>5. a \in Nat /\ b \in Nat /\ a + z <= b
    <3>1. m - 1 \in Nat /\ n - 1 \in Nat /\ m - 1 < n - 1
      BY <1>5, <2>1
    <3>2. (m - 1) * z \in Nat /\ (n - 1) * z \in Nat /\ (m - 1) * z + z <= (n - 1) * z
      BY <3>1, TimesGrows
    <3> QED BY <2>2, <2>3, <2>4, <3>2
  <2>6. /\ Entries(PageOf(matching, query, m)) = Slice(codes, a, z)
        /\ a + z <= Cardinality(codes) => Len(PageOf(matching, query, m)) = z
    <3>1. Shows(PageOf(matching, query, m), codes, a, z)
      BY <2>1, <2>2, <2>3, PageShows
    <3> QED BY <3>1 DEF Shows
  <2>7. /\ Entries(PageOf(matching, query, n)) = Slice(codes, b, z)
        /\ PageOf(matching, query, n) # << >> => b < Cardinality(codes)
    <3>1. Shows(PageOf(matching, query, n), codes, b, z)
      BY <2>1, <2>2, <2>4, PageShows
    <3> QED BY <3>1 DEF Shows
  <2>8. Slice(codes, a, z) \cap Slice(codes, b, z) = {}
    <3>1. \A c \in codes : Place(codes, c) \in Nat
      BY PlaceInRange
    <3> QED BY <2>5, <3>1 DEF Slice
  <2>9. PageOf(matching, query, n) # << >> => Len(PageOf(matching, query, m)) = query.pageSize
    <3>1. Cardinality(codes) \in Nat
      BY MapOrder
    <3> QED BY <2>2, <2>5, <2>6, <2>7, <3>1
  <2> QED BY <2>6, <2>7, <2>8, <2>9
<1> QED BY <1>1, <1>4, <1>5

LEMMA StatesCovered ==
  ASSUME DOMAIN rooms \subseteq Codes
  PROVE  PagesCover
<1> SUFFICES ASSUME NEW protocol \in Protocols, NEW query \in Queries, query.pageSize > 0
    PROVE LET matching == Listed(rooms, protocol, query)
              page(n) == PageOf(matching, query, n)
          IN /\ UNION {Entries(page(n)) : n \in PageNumbers} = Entries(matching)
             /\ \A m, n \in PageNumbers : m < n =>
                  /\ Entries(page(m)) \cap Entries(page(n)) = {}
                  /\ page(n) # << >> => Len(page(m)) = query.pageSize
  BY DEF PagesCover
<1>1. PICK codes : codes = Passing(rooms, protocol, query)
  OBVIOUS
<1>2. codes \subseteq Codes /\ Paged(query)
  BY <1>1, PassingCodes, QueriesPaged
<1>3. PICK matching : matching = Listed(rooms, protocol, query)
  OBVIOUS
<1>4. matching = InMapOrder(codes)
  BY <1>1, <1>3 DEF Listed
<1>5. /\ UNION {Entries(PageOf(matching, query, n)) : n \in PageNumbers} = Entries(matching)
      /\ \A m, n \in PageNumbers : m < n =>
           /\ Entries(PageOf(matching, query, m)) \cap Entries(PageOf(matching, query, n)) = {}
           /\ PageOf(matching, query, n) # << >> =>
                Len(PageOf(matching, query, m)) = query.pageSize
  BY <1>2, <1>4, CodesCovered
<1> QED BY <1>3, <1>5

\* The first n pages read of one list, the others of another one.
FirstPages(codes, query, n) ==
  UNION {Entries(PageOf(InMapOrder(codes), query, m)) : m \in 1..n}
LastPages(codes, query, n) ==
  UNION {Entries(PageOf(InMapOrder(codes), query, m)) : m \in PageNumbers \ 1..n}

\* They are the codes before a place, and those from it on.
LEMMA FirstPagesAre ==
  ASSUME NEW codes, codes \subseteq Codes, NEW query, Paged(query), NEW n \in PageNumbers,
         NEW c \in codes
  PROVE  /\ c \in FirstPages(codes, query, n) <=> Place(codes, c) < n * query.pageSize
         /\ c \in LastPages(codes, query, n) <=> ~(Place(codes, c) < n * query.pageSize)
<1>1. PICK z \in Nat \ {0} : z = query.pageSize
  BY DEF Paged
<1>2. PICK k \in Nat : k = Place(codes, c)
  BY PlaceInRange
<1>3. n \in Nat \ {0} /\ n * z \in Nat
  <2>1. n \in Nat \ {0}
    BY PageNumbersAre
  <2> QED BY <2>1
<1>4. ASSUME NEW m \in Nat \ {0}
      PROVE  c \in Entries(PageOf(InMapOrder(codes), query, m)) <=>
               (m - 1) * z <= k /\ k < (m - 1) * z + z
  <2>1. PICK first : first = (m - 1) * query.pageSize
    OBVIOUS
  <2>2. Entries(PageOf(InMapOrder(codes), query, m)) = Slice(codes, first, query.pageSize)
    BY <2>1, PageShows DEF Shows
  <2>3. c \in Slice(codes, first, query.pageSize) <=> first <= k /\ k < first + z
    BY <1>1, <1>2 DEF Slice
  <2> QED BY <1>1, <2>1, <2>2, <2>3
<1>5. PICK o \in PageNumbers : (o - 1) * z <= k /\ k < (o - 1) * z + z
  <2>1. \E i \in PageNumbers :
           /\ (i - 1) * query.pageSize <= Place(codes, c)
           /\ Place(codes, c) < (i - 1) * query.pageSize + query.pageSize
    BY PagesHold
  <2> QED BY <1>1, <1>2, <2>1
<1>6. o \in Nat \ {0}
  BY PageNumbersAre
<1>7. ASSUME NEW m \in Nat \ {0}, (m - 1) * z <= k, k < (m - 1) * z + z
      PROVE  m <= n <=> k < n * z
  <2>1. PICK l \in Nat : l = m - 1
    OBVIOUS
  <2>2. CASE m <= n
    <3>1. l < n
      BY <1>3, <2>1, <2>2
    <3>2. l * z \in Nat /\ l * z + z <= n * z
      BY <1>3, <3>1, TimesGrows
    <3> QED BY <1>3, <1>7, <2>1, <2>2, <3>2
  <2>3. CASE n <= l
    <3>1. n * z <= l * z /\ l * z \in Nat
      <4>1. CASE n = l
        BY <1>3, <4>1
      <4>2. CASE n < l
        <5>1. n * z \in Nat /\ l * z \in Nat /\ n * z + z <= l * z
          BY <1>3, <4>2, TimesGrows
        <5> QED BY <5>1
      <4> QED BY <1>3, <2>1, <2>3, <4>1, <4>2
    <3> QED BY <1>3, <1>7, <2>1, <2>3, <3>1
  <2> QED BY <1>3, <2>1, <2>2, <2>3
<1>8. c \in FirstPages(codes, query, n) => k < n * z
  <2> SUFFICES ASSUME NEW m \in 1..n, c \in Entries(PageOf(InMapOrder(codes), query, m))
               PROVE  k < n * z
    BY DEF FirstPages
  <2>1. m \in Nat \ {0} /\ m <= n
    BY <1>3
  <2> QED BY <1>4, <1>7, <2>1
<1>9. c \in LastPages(codes, query, n) => ~(k < n * z)
  <2> SUFFICES ASSUME NEW m \in PageNumbers \ 1..n,
                      c \in Entries(PageOf(InMapOrder(codes), query, m))
               PROVE  ~(k < n * z)
    BY DEF LastPages
  <2>1. m \in Nat \ {0}
    BY PageNumbersAre
  <2>2. ~(m <= n)
    BY <1>3, <2>1
  <2> QED BY <1>4, <1>7, <2>1, <2>2
<1>10. k < n * z => c \in FirstPages(codes, query, n)
  <2> SUFFICES ASSUME k < n * z PROVE c \in FirstPages(codes, query, n)
    OBVIOUS
  <2>1. o <= n
    BY <1>5, <1>6, <1>7
  <2>2. o \in 1..n
    BY <1>3, <1>6, <2>1
  <2>3. c \in Entries(PageOf(InMapOrder(codes), query, o))
    BY <1>4, <1>5, <1>6
  <2> QED BY <2>2, <2>3 DEF FirstPages
<1>11. ~(k < n * z) => c \in LastPages(codes, query, n)
  <2> SUFFICES ASSUME ~(k < n * z) PROVE c \in LastPages(codes, query, n)
    OBVIOUS
  <2>1. ~(o <= n)
    BY <1>5, <1>6, <1>7
  <2>2. o \in PageNumbers \ 1..n
    BY <1>3, <1>5, <1>6, <2>1
  <2>3. c \in Entries(PageOf(InMapOrder(codes), query, o))
    BY <1>4, <1>5, <1>6
  <2> QED BY <2>2, <2>3 DEF LastPages
<1> QED BY <1>1, <1>2, <1>8, <1>9, <1>10, <1>11

LEMMA PagesOfCodes ==
  ASSUME NEW codes, codes \subseteq Codes, NEW query, Paged(query), NEW n \in PageNumbers
  PROVE  FirstPages(codes, query, n) \subseteq codes /\ LastPages(codes, query, n) \subseteq codes
<1>1. ASSUME NEW m \in Nat \ {0}
      PROVE  Entries(PageOf(InMapOrder(codes), query, m)) \subseteq codes
  <2>1. PICK first : first = (m - 1) * query.pageSize
    OBVIOUS
  <2>2. Entries(PageOf(InMapOrder(codes), query, m)) = Slice(codes, first, query.pageSize)
    BY <2>1, PageShows DEF Shows
  <2> QED BY <2>2 DEF Slice
<1>2. (1..n) \subseteq Nat \ {0} /\ PageNumbers \subseteq Nat \ {0}
  BY PageNumbersAre
<1> QED BY <1>1, <1>2 DEF FirstPages, LastPages

\* A code that comes later in one set than in another has lost one before it.
LEMMA PlaceShrinks ==
  ASSUME NEW old, old \subseteq Codes, NEW new, new \subseteq Codes, old \subseteq new,
         NEW c \in old
  PROVE  Place(old, c) <= Place(new, c)
<1>1. IsFiniteSet(new) /\ c \in new
  BY PlaceInRange
<1>2. IsFiniteSet(Earlier(new, c))
  BY <1>1, FS_Subset DEF Earlier
<1>3. Earlier(old, c) \in SUBSET Earlier(new, c)
  BY DEF Earlier
<1> QED BY <1>2, <1>3, FS_Subset, PlaceIs

\* A code that comes earlier than before was pulled over from the pages to read
\* to those read, by one of them that went: take the code b at the first place
\* not read.  Had none before it gone, they would all come before c still.
LEMMA NothingMissed ==
  ASSUME NEW old, old \subseteq Codes, NEW new, new \subseteq Codes,
         NEW c \in old \cap new, NEW read \in Nat,
         ~(Place(old, c) < read), Place(new, c) < read
  PROVE  \E d \in old : Place(old, d) < read /\ d \notin new
<1> SUFFICES ASSUME \A d \in old : Place(old, d) < read => d \in new
             PROVE  FALSE
  OBVIOUS
<1>1. /\ IsFiniteSet(old) /\ IsFiniteSet(new)
      /\ Place(old, c) \in Nat /\ Place(new, c) \in Nat
      /\ Place(old, c) < Cardinality(old) /\ Cardinality(old) \in Nat
  BY PlaceInRange, PlaceFound
<1>2. PICK b \in old : Place(old, b) = read
  <2>1. read + 1 \in 1..Cardinality(old) /\ (read + 1) - 1 = read
    BY <1>1
  <2> QED BY <2>1, PlacesTaken
<1>3. ASSUME NEW d \in Earlier(old, b)
      PROVE  d \in Earlier(new, c)
  <2>1. d \in old /\ Rank[d] < Rank[b]
    BY DEF Earlier
  <2>2. Place(old, d) < read
    BY <1>2, <2>1, PlacesOrdered
  <2>3. ~(Rank[c] < Rank[b])
    <3>1. CASE Rank[c] < Rank[b]
      <4>1. Place(old, c) < Place(old, b)
        BY <3>1, PlacesOrdered
      <4> QED BY <1>2, <4>1
    <3> QED BY <3>1
  <2>4. Rank[b] \in Nat /\ Rank[c] \in Nat /\ Rank[d] \in Nat
    BY <2>1, RanksDiffer
  <2>5. Rank[d] < Rank[c]
    BY <2>1, <2>3, <2>4
  <2>6. d \in new
    BY <2>1, <2>2
  <2> QED BY <2>5, <2>6 DEF Earlier
<1>4. IsFiniteSet(Earlier(new, c))
  BY <1>1, FS_Subset DEF Earlier
<1>5. Place(old, b) <= Place(new, c)
  <2>1. Earlier(old, b) \in SUBSET Earlier(new, c)
    BY <1>3
  <2> QED BY <1>4, <2>1, FS_Subset, PlaceIs
<1> QED BY <1>1, <1>2, <1>5

LEMMA ReadSoundly ==
  ASSUME NEW old, old \subseteq Codes, NEW new, new \subseteq Codes, NEW query, Paged(query),
         NEW n \in PageNumbers
  PROVE  /\ ~((old \cap new) \subseteq FirstPages(old, query, n) \cup LastPages(new, query, n)) =>
              ~(FirstPages(old, query, n) \subseteq new)
         /\ FirstPages(old, query, n) \cap LastPages(new, query, n) # {} => ~(new \subseteq old)
<1>1. PICK read \in Nat : read = n * query.pageSize
  <2>1. PICK z \in Nat : z = query.pageSize
    BY DEF Paged
  <2>2. n \in Nat
    BY PageNumbersAre
  <2>3. n * z \in Nat
    BY <2>2
  <2> QED BY <2>1, <2>3
<1>2. \A c \in old : c \in FirstPages(old, query, n) <=> Place(old, c) < read
  BY <1>1, FirstPagesAre
<1>3. \A c \in new : c \in LastPages(new, query, n) <=> ~(Place(new, c) < read)
  BY <1>1, FirstPagesAre
<1>4. ASSUME NEW c \in old \cap new,
             c \notin FirstPages(old, query, n) \cup LastPages(new, query, n)
      PROVE  ~(FirstPages(old, query, n) \subseteq new)
  <2>1. ~(Place(old, c) < read) /\ Place(new, c) < read
    BY <1>2, <1>3, <1>4
  <2>2. PICK d \in old : Place(old, d) < read /\ d \notin new
    BY <2>1, NothingMissed
  <2> QED BY <1>2, <2>2
<1>5. ASSUME NEW c \in FirstPages(old, query, n) \cap LastPages(new, query, n),
             new \subseteq old
      PROVE  FALSE
  <2>1. c \in old /\ c \in new
    BY PagesOfCodes
  <2>2. Place(old, c) < read /\ ~(Place(new, c) < read)
    BY <1>2, <1>3, <2>1
  <2>3. Place(new, c) <= Place(old, c)
    BY <1>5, <2>1, PlaceShrinks
  <2>4. Place(old, c) \in Nat /\ Place(new, c) \in Nat
    BY <2>1, PlaceInRange
  <2> QED BY <2>2, <2>3, <2>4
<1> QED BY <1>4, <1>5

\* What PagingSound says of a step.
Paging ==
  rooms' # rooms =>
    \A protocol \in Protocols, query \in {f \in Queries : f.pageSize > 0} :
      LET before == Listed(rooms, protocol, query)
          after  == Listed(rooms', protocol, query)
          old == Entries(before)
          new == Entries(after)
          Read(n) == UNION {Entries(PageOf(before, query, m)) : m \in 1..n}
          ToRead(n) == UNION {Entries(PageOf(after, query, m)) : m \in PageNumbers \ 1..n}
      IN \A n \in PageNumbers :
           /\ ~((old \cap new) \subseteq Read(n) \cup ToRead(n)) =>
                ~(Read(n) \subseteq new)
           /\ Read(n) \cap ToRead(n) # {} => ~(new \subseteq old)

LEMMA StepsPageSoundly ==
  ASSUME DOMAIN rooms \subseteq Codes, DOMAIN rooms' \subseteq Codes
  PROVE  Paging
<1> SUFFICES ASSUME NEW protocol \in Protocols, NEW query \in Queries, query.pageSize > 0,
                    NEW n \in PageNumbers
    PROVE LET before == Listed(rooms, protocol, query)
              after  == Listed(rooms', protocol, query)
              old == Entries(before)
              new == Entries(after)
              Read == UNION {Entries(PageOf(before, query, m)) : m \in 1..n}
              ToRead == UNION {Entries(PageOf(after, query, m)) : m \in PageNumbers \ 1..n}
          IN /\ ~((old \cap new) \subseteq Read \cup ToRead) => ~(Read \subseteq new)
             /\ Read \cap ToRead # {} => ~(new \subseteq old)
  BY DEF Paging
<1>1. PICK old : old = Passing(rooms, protocol, query)
  OBVIOUS
<1>2. PICK new : new = Passing(rooms', protocol, query)
  OBVIOUS
<1>3. old \subseteq Codes /\ new \subseteq Codes /\ Paged(query)
  BY <1>1, <1>2, PassingCodes, QueriesPaged
<1>4. PICK before : before = InMapOrder(old)
  OBVIOUS
<1>5. PICK after : after = InMapOrder(new)
  OBVIOUS
<1>6. before = Listed(rooms, protocol, query) /\ after = Listed(rooms', protocol, query)
  BY <1>1, <1>2, <1>4, <1>5 DEF Listed
<1>7. Entries(before) = old /\ Entries(after) = new
  BY <1>3, <1>4, <1>5, OrderedEntries
<1>8. UNION {Entries(PageOf(before, query, m)) : m \in 1..n} = FirstPages(old, query, n)
  BY <1>4 DEF FirstPages
<1>9. UNION {Entries(PageOf(after, query, m)) : m \in PageNumbers \ 1..n}
        = LastPages(new, query, n)
  BY <1>5 DEF LastPages
<1>10. /\ ~((old \cap new) \subseteq FirstPages(old, query, n) \cup LastPages(new, query, n)) =>
            ~(FirstPages(old, query, n) \subseteq new)
       /\ FirstPages(old, query, n) \cap LastPages(new, query, n) # {} => ~(new \subseteq old)
  BY <1>3, ReadSoundly
<1> QED BY <1>6, <1>7, <1>8, <1>9, <1>10

\* Of the rooms only their codes matter here, which YNetServer_proofs has.
LEMMA RoomsKnown ==
  /\ RelayInit => IInv
  /\ IInv /\ [RelayNext]_relayVars => IInv'
  /\ IInv => DOMAIN rooms \subseteq Codes
<1>1. RelayInit => IInv
  BY InitInv DEF RelayInit
<1>2. [RelayNext]_relayVars => [Next]_vars
  BY DEF RelayNext, relayVars, vars
<1>3. IInv => DOMAIN rooms \subseteq Codes
  BY DEF IInv, TypeOK
<1> QED BY <1>1, <1>2, <1>3, NextInv

-----------------------------------------------------------------------------
\* Whatever the clients do, the pages handleGetRoomList cuts the list of rooms
\* into hold every room of it once, and all but the last are full.
THEOREM PagesAlwaysCover == RelaySpec => []PagesCover
<1>1. IInv => PagesCover
  BY RoomsKnown, StatesCovered
<1> QED BY <1>1, RoomsKnown, PTL DEF RelaySpec

\* When rooms come and go between the requests of a client that reads the pages
\* handleGetRoomList gives one after the other, it misses a room that stayed only
\* if a room it had read of went, and reads of one twice only if one came.
THEOREM PagingAlwaysSound == RelaySpec => PagingSound
<1>1. IInv /\ IInv' => Paging
  <2>1. IInv' => DOMAIN rooms' \subseteq Codes
    BY DEF IInv, TypeOK
  <2> QED BY <2>1, RoomsKnown, StepsPageSoundly
<1>2. IInv /\ [RelayNext]_relayVars => [Paging]_relayVars
  BY <1>1, RoomsKnown
<1> QED BY <1>2, RoomsKnown, PTL DEF RelaySpec, PagingSound, Paging
=============================================================================
