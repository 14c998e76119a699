----------------------------- MODULE YNetRelay -----------------------------
(***************************************************************************)
(* The messages YNetServer passes on between the members of a room, and    *)
(* the reports it gives about rooms.  None of them changes what YNetServer *)
(* keeps: each is a handler that looks at clients and rooms and sends.     *)
(* Who gets what depends on all that happened to the rooms before.         *)
(*                                                                         *)
(* Left out: the payload, which no handler reads, and its size; handleRPC, *)
(* which nothing calls.                                                    *)
(***************************************************************************)
EXTENDS YNetServer, RoomList

CONSTANTS
  NoPeer,         \* no request
  SortedCodes,    \* Codes in the order of the std::map rooms
  Targets,        \* the numbers clients address a message to
  IdRange,        \* 65536: identifiers are 16 bits wide
  Channels,       \* the channels clients ask for in a PACKET message
  ChannelCount,   \* 2
  ListRequests    \* the requests clients send in GET_ROOM_LIST

ASSUME RelayAssumption ==
  /\ NoPeer \notin Peers
  /\ SortedCodes \in Seq(Codes)
  /\ \A c \in Codes : \E i \in DOMAIN SortedCodes : SortedCodes[i] = c
  /\ \A i, j \in DOMAIN SortedCodes : SortedCodes[i] = SortedCodes[j] => i = j
  /\ Targets \subseteq Nat
  /\ IdRange \in Nat /\ IdRange > MaxClientId
  /\ Channels \subseteq Nat /\ ChannelCount \in Nat \ {0}
  /\ \A request \in ListRequests :
       FromJson(request).pageSize \in Int /\ SoundFilters(FromJson(request))

VARIABLE
  relayed         \* the last request that was relayed or reported on: who
                  \* sent it, on which channel it is to go on, and for each
                  \* peer the messages sent for it

relayVars == <<clients, closing, rooms, usedClientIds, nextClientId,
               usedRoomIds, nextRoomId, hung, out, relayed>>

Nobody == [q \in Peers |-> << >>]

NoRequest ==
  [from |-> NoPeer, type |-> "NONE", target |-> 0, channel |-> 0, sent |-> Nobody]

\* sendMessage and sendRPCMessage of msg to each of the peers; ENet takes it
\* for those that are connected, on a channel they have.
ServeOn(p, type, target, channel, msg, peers) ==
  relayed' = [from |-> p, type |-> type, target |-> target, channel |-> channel,
              sent |-> [q \in Peers |->
                          IF q \in peers \cap Connected /\ channel < ChannelCount
                            THEN <<msg>> ELSE << >>]]

Serve(p, type, target, msg, peers) == ServeOn(p, type, target, 0, msg, peers)

Others(p)  == DOMAIN RoomOf(p).clients \ {p}
IsHost(p)  == InARoom(p) /\ RoomOf(p).host = p

\* The first entry of the host's list with the identifier, if there is one.
Targeted(p, id) ==
  {t \in DOMAIN RoomOf(p).clients : RoomOf(p).clients[t] = id}

-----------------------------------------------------------------------------
\* MESSAGE: to the room the Client names, whether or not its list has p.
\* Mutant: to every client of the protocol.
BroadcastMessageToAll(p) ==
  LET reached == {q \in DOMAIN clients \ {p} :
                    clients[q].protocolVersion = clients[p].protocolVersion}
  IN Serve(p, "MESSAGE", 0, [type |-> "MESSAGE"], IF InARoom(p) THEN reached ELSE {})

BroadcastMessage(p) ==
  LET reached == IF InARoom(p) /\ RoomOf(p).protocol = clients[p].protocolVersion
                   THEN Others(p) ELSE {}
  IN Serve(p, "MESSAGE", 0, [type |-> "MESSAGE"], reached)

RPC(rpcType) == [type |-> "RPC_TO_CLIENTS", rpcType |-> rpcType]

HandleRPCToServer(p, rpcType) ==
  Serve(p, "RPC_TO_SERVER", rpcType, RPC(rpcType),
        IF InARoom(p) THEN {RoomOf(p).host} \cap DOMAIN clients ELSE {})

HandleRPCToClients(p, rpcType) ==
  Serve(p, "RPC_TO_CLIENTS", rpcType, RPC(rpcType),
        IF IsHost(p) THEN Others(p) \cap DOMAIN clients ELSE {})

\* rpcType doubles as the identifier of the target.
HandleRPCToClient(p, rpcType) ==
  \/ /\ IsHost(p) /\ Targeted(p, rpcType) # {}
     /\ \E t \in Targeted(p, rpcType) :
          Serve(p, "RPC_TO_CLIENT", rpcType, RPC(rpcType), {t} \cap DOMAIN clients)
  \/ /\ IsHost(p) => Targeted(p, rpcType) = {}
     /\ Serve(p, "RPC_TO_CLIENT", rpcType, RPC(rpcType), {})

\* A packet travels on the channel the client asked for, if there is one, and
\* carries the identifier of its sender in the field for the target.
\* Mutant: the identifier of the host.
PacketFromHost(p, type, channel) ==
  [type |-> type, targetClientId |-> RoomOf(p).clients[RoomOf(p).host],
   channel |-> channel]

Packet(p, type, channel) ==
  [type |-> type, targetClientId |-> clients[p].id, channel |-> channel]

HandlePacketToServer(p, channel) ==
  LET reached == IF InARoom(p) /\ p \in DOMAIN RoomOf(p).clients
                   THEN {RoomOf(p).host} \cap DOMAIN clients ELSE {}
  IN ServeOn(p, "PACKET_TO_SERVER", 0, channel, Packet(p, "PACKET_TO_SERVER", channel), reached)

HandlePacketToClients(p, channel) ==
  ServeOn(p, "PACKET_TO_CLIENTS", 0, channel, Packet(p, "PACKET_TO_CLIENTS", channel),
          IF IsHost(p) THEN Others(p) \cap DOMAIN clients ELSE {})

PacketTo(p, target, id, channel) ==
  LET msg == Packet(p, "PACKET_TO_CLIENT", channel)
  IN \/ /\ IsHost(p)
        /\ \E t \in Targeted(p, id) :
             ServeOn(p, "PACKET_TO_CLIENT", target, channel, msg, {t} \cap DOMAIN clients)
     \/ /\ IsHost(p) => Targeted(p, id) = {}
        /\ ServeOn(p, "PACKET_TO_CLIENT", target, channel, msg, {})

\* Mutant: the search is off by one.
HandlePacketToClientNext(p, target, channel) ==
  PacketTo(p, target, (target + 1) % IdRange, channel)

\* The target is a 32-bit number in the message, 16 bits wide in the handler.
HandlePacketToClient(p, target, channel) == PacketTo(p, target, target % IdRange, channel)

-----------------------------------------------------------------------------
\* GET_ROOM_INFO: about the room the Client names.
HandleGetRoomInfo(p) ==
  IF InARoom(p)
    THEN Serve(p, "GET_ROOM_INFO", 0,
               [type |-> "GET_ROOM_INFO", code |-> clients[p].currentRoom,
                roomId |-> RoomOf(p).roomId,
                clientCount |-> Cardinality(DOMAIN RoomOf(p).clients)], {p})
    ELSE Serve(p, "GET_ROOM_INFO", 0, [type |-> "GET_ROOM_INFO"], {})

\* The codes of a set in the order of the map: as many come before the i-th
\* as there are places before it.
Rank == [code \in Codes |-> CHOOSE i \in DOMAIN SortedCodes : SortedCodes[i] = code]

Place(codes, code) == Cardinality({c \in codes : Rank[c] < Rank[code]})

InMapOrder(codes) ==
  [i \in 1..Cardinality(codes) |-> CHOOSE c \in codes : Place(codes, c) = i - 1]

\* GET_ROOM_LIST: the rooms that pass the filters, in the order of the map.
Passing(rs, protocol, filters) ==
  {c \in DOMAIN rs : Passes(rs[c], protocol, Cardinality(DOMAIN rs[c].clients), filters)}

\* Mutant: the rooms with one player come last.
ListedBySize(rs, protocol, filters) ==
  LET passing == Passing(rs, protocol, filters)
      alone   == {c \in passing : Cardinality(DOMAIN rs[c].clients) = 1}
  IN InMapOrder(passing \ alone) \o InMapOrder(alone)

Listed(rs, protocol, filters) == InMapOrder(Passing(rs, protocol, filters))

HandleGetRoomList(p, request) ==
  LET filters  == FromJson(request)
      matching == Listed(rooms, clients[p].protocolVersion, filters)
  IN Serve(p, "GET_ROOM_LIST", 0,
           [type |-> "GET_ROOM_LIST", total |-> Len(matching),
            rooms |-> Page(matching, filters)], {p})

-----------------------------------------------------------------------------
Relay(p) ==
  \/ BroadcastMessage(p)
  \/ \E n \in {m \in Targets : m < IdRange} :
       HandleRPCToServer(p, n) \/ HandleRPCToClients(p, n) \/ HandleRPCToClient(p, n)
  \/ \E channel \in Channels :
       \/ HandlePacketToServer(p, channel)
       \/ HandlePacketToClients(p, channel)
       \/ \E n \in Targets : HandlePacketToClient(p, n, channel)
  \/ HandleGetRoomInfo(p)
  \/ \E request \in ListRequests : HandleGetRoomList(p, request)

RelayInit == Init /\ relayed = NoRequest

RelayNext ==
  \/ Next /\ relayed' = NoRequest
  \/ /\ ~hung
     /\ \E p \in Connected : Relay(p)
     /\ UNCHANGED vars

RelaySpec == RelayInit /\ [][RelayNext]_relayVars

-----------------------------------------------------------------------------
Reports == {"GET_ROOM_INFO", "GET_ROOM_LIST"}

\* The peers the last request made the server send something to.
Receivers == {q \in Peers : relayed.sent[q] # << >>}

\* Who is in p's room by the Clients, which is what the clients were told.
Roommates(p) ==
  {q \in DOMAIN clients : /\ clients[q].currentRoom = clients[p].currentRoom
                          /\ clients[q].currentRoom # NoCode}

(***************************************************************************)
(* The relay steps change nothing but relayed, so what is said of clients  *)
(* holds before and after them.  All of it is about clients that leave a   *)
(* room before they enter another (LeaveFirst).                            *)
(***************************************************************************)

\* What a client sends stays in the room it is in and within its protocol,
\* although broadcastMessage goes by the peers in the room's list, which ENet
\* gives to other clients; a report goes to nobody else.
RelayStaysInRoom ==
  [][\A p \in {relayed'.from} \cap Peers :
       IF relayed'.type \in Reports THEN Receivers' \subseteq {p}
       ELSE \A q \in Receivers' :
              /\ q \in Roommates(p)
              /\ clients[q].protocolVersion = clients[p].protocolVersion]_relayVars

\* What a member says to the room reaches every other client of the room.  What
\* the host says to its clients does too, what another member says so, none;
\* and what is said to the host reaches the host, also after it has changed.
RelayReachesRoom ==
  [][\A p \in {relayed'.from} \cap Peers :
       p \in Roommates(p) /\ relayed'.channel < ChannelCount =>
         LET others == Roommates(p) \ {p}
             host   == RoomOf(p).host
         IN /\ relayed'.type = "MESSAGE" => Receivers' = others
            /\ relayed'.type \in {"RPC_TO_CLIENTS", "PACKET_TO_CLIENTS"} =>
                 Receivers' = IF p = host THEN others ELSE {}
            /\ relayed'.type \in {"RPC_TO_SERVER", "PACKET_TO_SERVER"} =>
                 Receivers' = {host}]_relayVars

\* What the host sends to an identifier reaches the client of its room that has
\* the identifier now, and nobody else: not a client of another room, nor one
\* that had it before.  What another member sends to one reaches nobody.  This
\* is not so of a target beyond 16 bits, which no client has: the handler drops
\* the rest of the number, and the packet reaches the client with what is left.
TargetReached ==
  [][\A p \in {relayed'.from} \cap Peers :
       relayed'.type \in {"RPC_TO_CLIENT", "PACKET_TO_CLIENT"}
         /\ relayed'.target < IdRange /\ relayed'.channel < ChannelCount =>
           Receivers' = IF IsHost(p)
                          THEN {q \in Roommates(p) : clients[q].id = relayed'.target}
                          ELSE {}]_relayVars

\* The identifier in a packet is that of one client, the sender, and the one
\* its receiver can answer to.
SenderNamed ==
  [][\A p \in {relayed'.from} \cap Peers, q \in Receivers' :
       \A i \in DOMAIN relayed'.sent[q] :
         LET msg == relayed'.sent[q][i]
         IN "targetClientId" \in DOMAIN msg =>
              {r \in Roommates(q) : clients[r].id = msg.targetClientId} = {p}]_relayVars

\* The filters of the requests, without their page.
Queries == {[FromJson(request) EXCEPT !.pageNumber = 1] : request \in ListRequests}

PageOf(matching, query, n) == Page(matching, [query EXCEPT !.pageNumber = n])

Entries(s) == {s[i] : i \in DOMAIN s}

PageNumbers == 1..(Cardinality(Codes) + 1)

\* The pages of a list that does not change hold every room of it once, in
\* order, each as many as it may but the last.
PagesCover ==
  \A protocol \in Protocols, query \in {f \in Queries : f.pageSize > 0} :
    LET matching == Listed(rooms, protocol, query)
        page(n) == PageOf(matching, query, n)
    IN /\ UNION {Entries(page(n)) : n \in PageNumbers} = Entries(matching)
       /\ \A m, n \in PageNumbers : m < n =>
            /\ Entries(page(m)) \cap Entries(page(n)) = {}
            /\ page(n) # << >> => Len(page(m)) = query.pageSize

\* A client reads the first n pages, the rooms change, it reads the others.
\* It misses a room that was there all along only if a room of the pages it
\* had read went, and is shown a room twice only if one came.
PagingSound ==
  [][rooms' # rooms =>
       \A protocol \in Protocols, query \in {f \in Queries : f.pageSize > 0} :
       LET before == Listed(rooms, protocol, query)
           after  == Listed(rooms', protocol, query)
           old == Entries(before)
           new == Entries(after)
           Read(n) == UNION {Entries(PageOf(before, query, m)) : m \in 1..n}
           ToRead(n) == UNION {Entries(PageOf(after, query, m)) : m \in PageNumbers \ 1..n}
       IN \A n \in PageNumbers :
            /\ ~((old \cap new) \subseteq Read(n) \cup ToRead(n)) =>
                 ~(Read(n) \subseteq new)
            /\ Read(n) \cap ToRead(n) # {} => ~(new \subseteq old)]_relayVars
=============================================================================
