----------------------------- MODULE YNetServer -----------------------------
(***************************************************************************)
(* The room server of ynetserver.cpp: who is connected, which rooms exist, *)
(* who is in them and who hosts them.                                      *)
(*                                                                         *)
(* The server is one thread.  Its loop (YNetServer::run) takes one ENet    *)
(* event at a time and runs the handler of the event to completion, so     *)
(* every handler is one action.  What makes the state hard to keep right   *)
(* is the order of events: clients connect, send requests and vanish in    *)
(* any order, ENet gives the ENetPeer of a client that is gone to the next *)
(* one that connects, and the maps of the server are keyed by ENetPeer*.   *)
(*                                                                         *)
(* Left out: the web page, logging and the debugging flags; roomsByID,     *)
(* which nothing ever fills; hashed_password, a function of password.      *)
(***************************************************************************)
EXTENDS Integers, Sequences, FiniteSets, Functions, IdPool

CONSTANTS
  Peers,        \* the ENetPeer slots of the ENet host (MAX_CLIENTS of them)
  Codes,        \* the room codes isValidRoomCode accepts
  NoCode,       \* the empty string, "no room" or "any room"
  BadCode,      \* a non-empty string isValidRoomCode refuses
  Passwords,    \* the passwords clients use
  NoPassword,   \* the empty password
  Protocols,    \* the protocol versions clients connect with
  Texts,        \* room names and extra information
  Limits,       \* the numbers clients send in SET_MAX_PLAYERS
  Settings,     \* the SET_* messages clients send, by name
  MinClientId, MaxClientId,   \* 1000 and 65535
  FirstRoomId, MaxRoomId,     \* nextRoomId starts at 1000; MAX_ROOM_ID
  LeaveFirst    \* TRUE: clients leave a room before they enter another one

ASSUME ServerAssumption ==
  /\ NoCode \notin Codes /\ BadCode \notin Codes \cup {NoCode}
  /\ NoPassword \in Passwords
  /\ "" \in Texts
  /\ Limits \subseteq Int
  /\ MinClientId \in Nat /\ MaxClientId \in Nat /\ MinClientId <= MaxClientId
  /\ FirstRoomId \in Nat /\ MaxRoomId \in Nat /\ FirstRoomId <= MaxRoomId
  /\ LeaveFirst \in BOOLEAN

\* MAX_CLIENTS is 4000 and there are 64536 client identifiers.
ASSUME EnoughClientIds ==
  /\ IsFiniteSet(Peers)
  /\ Cardinality(Peers) <= MaxClientId - MinClientId + 1

VARIABLES
  clients,        \* ENetPeer* -> Client, a partial function on Peers
  closing,        \* peers enet_peer_disconnect_later was called for
  rooms,          \* room code -> Room, a partial function on Codes
  usedClientIds, nextClientId,
  usedRoomIds, nextRoomId,
  hung,           \* generateRoomId spins with no room identifier left
  out             \* for each peer, the messages the last handler sent it

vars == <<clients, closing, rooms, usedClientIds, nextClientId,
          usedRoomIds, nextRoomId, hung, out>>

clientIdVars == <<usedClientIds, nextClientId>>
roomIdVars   == <<usedRoomIds, nextRoomId>>

-----------------------------------------------------------------------------
ClientIds == MinClientId..MaxClientId
RoomIds   == 0..MaxRoomId   \* nextRoomId is taken modulo MaxRoomId + 1
NoRoomId  == 0      \* Client::roomId of a client in no room

Client == [id : ClientIds, currentRoom : Codes \cup {NoCode},
           roomId : RoomIds, protocolVersion : Protocols]

Members == UNION {[S -> ClientIds] : S \in SUBSET Peers}

Room == [roomId : RoomIds, protocol : Protocols, roomName : Texts,
         password : Passwords, isPrivate : BOOLEAN, canHostMigrate : BOOLEAN,
         maxPlayers : Int, extraInfo : Texts, host : Peers, clients : Members]

Notices ==
  {"New host assigned", "The host has left the room.",
   "You have been kicked from the room", "Invalid room code format",
   "Room already exists", "No available rooms found", "Room not found",
   "Protocol version mismatch", "Invalid password", "Room is private",
   "Room is full"}

\* What the server sends.  The list of players in CONFIRM_ROOM_JOIN has the
\* host first and the others in no particular order.
Message ==
  [type : {"CONFIRM_CONNECTION", "PLAYER_JOINED", "PLAYER_LEFT", "HOST_LEFT"},
   id : ClientIds]
  \cup [type : {"CONFIRM_ROOM_CREATION"}, code : Codes]
  \cup [type : {"CONFIRM_ROOM_JOIN"}, code : Codes, host : ClientIds,
        players : SUBSET ClientIds]
  \cup [type : {"MESSAGE", "ERROR"}, text : Notices]

ErrorMessage(t) == [type |-> "ERROR", text |-> t]

\* operator[]= of a map.  (TLC's @@ is not known to the proof system.)
Put(f, k, v) == [x \in DOMAIN f \cup {k} |-> IF x = k THEN v ELSE f[x]]

\* erase of a map
Erase(f, k) == Restrict(f, DOMAIN f \ {k})

\* Peers ENet delivers to and receives from: state CONNECTED.  A peer that is
\* being disconnected keeps its Client until the DISCONNECT event.
Connected == DOMAIN clients \ closing

\* The packets ENet accepts of those the handler gives to enet_peer_send.
Send(msgs, to) == out' = [q \in Peers |-> IF q \in to THEN msgs[q] ELSE << >>]

\* Mutant: the request is refused and nobody is told.
RefuseUntold(p, t) ==
  /\ Send([q \in Peers |-> << >>], Connected)
  /\ UNCHANGED <<clients, closing, rooms, clientIdVars, roomIdVars, hung>>

Refuse(p, t) ==
  /\ Send([q \in Peers |-> IF q = p THEN <<ErrorMessage(t)>> ELSE << >>], Connected)
  /\ UNCHANGED <<clients, closing, rooms, clientIdVars, roomIdVars, hung>>

-----------------------------------------------------------------------------
Init ==
  /\ clients = [p \in {} |-> << >>]
  /\ closing = {}
  /\ rooms = [c \in {} |-> << >>]
  /\ usedClientIds = {} /\ nextClientId = MinClientId
  /\ usedRoomIds = {}   /\ nextRoomId = FirstRoomId
  /\ hung = FALSE
  /\ out = [q \in Peers |-> << >>]

(***************************************************************************)
(* ENET_EVENT_TYPE_CONNECT.  ENet reports a connection on a peer slot that *)
(* is free, whoever used the slot before.                                  *)
(***************************************************************************)
Connect(p, protocol) ==
  /\ p \notin DOMAIN clients
  /\ \E id \in ClientIds :
       /\ IsNextFree(id, nextClientId, usedClientIds, MinClientId, MaxClientId)
       /\ usedClientIds' = usedClientIds \cup {id}
       /\ nextClientId' = NextId(id, MinClientId, MaxClientId)
       /\ clients' = Put(clients, p, [id |-> id, currentRoom |-> NoCode,
                                      roomId |-> NoRoomId,
                                      protocolVersion |-> protocol])
       /\ Send([q \in Peers |-> IF q = p
                  THEN <<[type |-> "CONFIRM_CONNECTION", id |-> id]>>
                  ELSE << >>], {p})
  /\ UNCHANGED <<closing, rooms, roomIdVars, hung>>

-----------------------------------------------------------------------------
(***************************************************************************)
(* handleRoomCreation.  Nothing takes the creator out of the room it is    *)
(* in.  generateRoomId looks for a free identifier until it finds one.     *)
(***************************************************************************)
NewRoom(p, id, password) ==
  [roomId |-> id, protocol |-> clients[p].protocolVersion, roomName |-> "",
   password |-> password, isPrivate |-> FALSE, canHostMigrate |-> FALSE,
   maxPlayers |-> 4, extraInfo |-> "", host |-> p,
   clients |-> [q \in {p} |-> clients[p].id]]

CreateRoom(p, code, password) ==
  \/ /\ usedRoomIds = RoomIds
     /\ hung' = TRUE
     /\ Send([q \in Peers |-> << >>], {})
     /\ UNCHANGED <<clients, closing, rooms, clientIdVars, roomIdVars>>
  \/ \E id \in RoomIds :
       /\ IsNextFree(id, nextRoomId, usedRoomIds, 0, MaxRoomId)
       /\ usedRoomIds' = usedRoomIds \cup {id}
       /\ nextRoomId' = NextId(id, 0, MaxRoomId)
       /\ rooms' = Put(rooms, code, NewRoom(p, id, password))
       /\ clients' = [clients EXCEPT ![p].currentRoom = code, ![p].roomId = id]
       /\ Send([q \in Peers |-> IF q = p
                  THEN <<[type |-> "CONFIRM_ROOM_CREATION", code |-> code]>>
                  ELSE << >>], Connected)
       /\ UNCHANGED <<closing, clientIdVars, hung>>

\* generateRoomCode draws some valid code for a client that sends none.
FinalCodes(code) == IF code = NoCode THEN Codes ELSE {code}

HandleRoomCreation(p, roomCode, password) ==
  \E code \in FinalCodes(roomCode) :
    \/ code = BadCode /\ Refuse(p, "Invalid room code format")
    \/ code \in DOMAIN rooms /\ Refuse(p, "Room already exists")
    \/ /\ code \in Codes \ DOMAIN rooms
       /\ CreateRoom(p, code, password)

-----------------------------------------------------------------------------
(***************************************************************************)
(* handleRoomJoin, by code or, with an empty code, to any room that suits. *)
(* Nothing takes the client out of the room it is in.                      *)
(***************************************************************************)
EnterRoom(p, code) ==
  LET room   == rooms[code]
      inRoom == Put(room.clients, p, clients[p].id)
  IN /\ clients' = [clients EXCEPT ![p].currentRoom = code,
                                   ![p].roomId = room.roomId]
     /\ rooms' = [rooms EXCEPT ![code].clients = inRoom]
     /\ Send([q \in Peers |->
                IF q = p
                  THEN <<[type |-> "CONFIRM_ROOM_JOIN", code |-> code,
                          host |-> inRoom[room.host],
                          players |-> {inRoom[m] : m \in DOMAIN inRoom}]>>
                ELSE IF q \in DOMAIN inRoom
                  THEN <<[type |-> "PLAYER_JOINED", id |-> clients[p].id]>>
                ELSE << >>], Connected)
     /\ UNCHANGED <<closing, clientIdVars, roomIdVars, hung>>

IsFull(room) == Cardinality(DOMAIN room.clients) >= room.maxPlayers

\* Mutants: the random join does not look at the room's size, its protocol.
SuitsWhenFull(room, p, password) ==
  /\ ~room.isPrivate
  /\ room.password \in {NoPassword, password}
  /\ room.protocol = clients[p].protocolVersion

SuitsAnyProtocol(room, p, password) ==
  /\ ~room.isPrivate
  /\ room.password \in {NoPassword, password}
  /\ ~IsFull(room)

Suits(room, p, password) ==
  /\ ~room.isPrivate
  /\ room.password \in {NoPassword, password}
  /\ room.protocol = clients[p].protocolVersion
  /\ ~IsFull(room)

JoinAnyRoom(p, password) ==
  LET matching == {code \in DOMAIN rooms : Suits(rooms[code], p, password)}
  IN \/ matching = {} /\ Refuse(p, "No available rooms found")
     \/ \E code \in matching : EnterRoom(p, code)

JoinRoom(p, code, password) ==
  IF code \notin DOMAIN rooms THEN Refuse(p, "Room not found")
  ELSE IF rooms[code].protocol # clients[p].protocolVersion
    THEN Refuse(p, "Protocol version mismatch")
  ELSE IF rooms[code].password # password THEN Refuse(p, "Invalid password")
  ELSE IF rooms[code].isPrivate THEN Refuse(p, "Room is private")
  ELSE IF IsFull(rooms[code]) THEN Refuse(p, "Room is full")
  ELSE EnterRoom(p, code)

HandleRoomJoin(p, roomCode, password) ==
  \/ roomCode = NoCode /\ JoinAnyRoom(p, password)
  \/ roomCode # NoCode /\ JoinRoom(p, roomCode, password)

HandleJoinOrCreateRoom(p, roomCode, password) ==
  \E code \in FinalCodes(roomCode) :
    \/ code \in DOMAIN rooms /\ HandleRoomJoin(p, code, password)
    \/ code \notin DOMAIN rooms /\ HandleRoomCreation(p, code, password)

\* The code takes the first suitable room of the map; codes have no order here.
HandleJoinOrCreateRoomRandom(p) ==
  LET open == {code \in DOMAIN rooms : Suits(rooms[code], p, NoPassword)}
  IN \/ \E code \in open : HandleRoomJoin(p, code, NoPassword)
     \/ open = {} /\ \E code \in Codes : HandleRoomCreation(p, code, NoPassword)

-----------------------------------------------------------------------------
(***************************************************************************)
(* handleRoomLeave, called for ROOM_LEAVE, for a disconnection and for a   *)
(* kick.  It takes peer p out of the room its Client names.  The operators *)
(* give the state the call leaves behind; h is the heir, the member that   *)
(* begin() of the unordered map yields when the host of a migrating room   *)
(* leaves.                                                                 *)
(***************************************************************************)
InARoom(p)   == clients[p].currentRoom \in DOMAIN rooms
RoomOf(p)    == rooms[clients[p].currentRoom]
Remaining(p) == DOMAIN RoomOf(p).clients \ {p}
HostLeaves(p) == InARoom(p) /\ RoomOf(p).host = p

\* Mutant: any room whose host leaves gets another host.
MigratesAlways(p) == HostLeaves(p) /\ Remaining(p) # {}

Migrates(p) == HostLeaves(p) /\ Remaining(p) # {} /\ RoomOf(p).canHostMigrate

Heirs(p) == IF Migrates(p) THEN Remaining(p) ELSE {p}

\* Mutant: the room is closed whenever its host leaves.
ClosesAlways(p, h) == HostLeaves(p)

\* The room is closed when it is empty, when it may not migrate, and when
\* there is no Client for the heir.
Closes(p, h) ==
  HostLeaves(p) /\ (Migrates(p) => h \notin DOMAIN clients)

Evicted(p) ==
  IF HostLeaves(p) /\ ~RoomOf(p).canHostMigrate
    THEN Remaining(p) \cap DOMAIN clients ELSE {}

\* The room, when it stays.
RoomAfter(p, h) ==
  [RoomOf(p) EXCEPT !.clients = Erase(RoomOf(p).clients, p),
                    !.host = IF HostLeaves(p) THEN h ELSE RoomOf(p).host]

\* Mutants: migration does not appoint the heir; the leaver stays in the list.
RoomsAfterSameHost(p, h) ==
  IF ~InARoom(p) THEN rooms
  ELSE IF Closes(p, h) THEN Erase(rooms, clients[p].currentRoom)
  ELSE [rooms EXCEPT ![clients[p].currentRoom].clients = Erase(RoomOf(p).clients, p)]

RoomsAfterStillListed(p, h) ==
  IF ~InARoom(p) THEN rooms
  ELSE IF Closes(p, h) THEN Erase(rooms, clients[p].currentRoom)
  ELSE [rooms EXCEPT ![clients[p].currentRoom].host =
                         IF HostLeaves(p) THEN h ELSE RoomOf(p).host]

RoomsAfter(p, h) ==
  IF ~InARoom(p) THEN rooms
  ELSE IF Closes(p, h) THEN Erase(rooms, clients[p].currentRoom)
  ELSE [rooms EXCEPT ![clients[p].currentRoom] = RoomAfter(p, h)]

\* Mutant: the clients of a closed room still name it.
ClientsAfterOnlySelf(p) ==
  [clients EXCEPT ![p].currentRoom = NoCode, ![p].roomId = NoRoomId]

ClientsAfter(p) ==
  [q \in DOMAIN clients |->
     IF q = p \/ q \in Evicted(p)
       THEN [clients[q] EXCEPT !.currentRoom = NoCode, !.roomId = NoRoomId]
       ELSE clients[q]]

\* Mutant: a room closed with members in it keeps its identifier.
RoomIdsAfterLeak(p, h) ==
  IF Closes(p, h) /\ Remaining(p) = {}
    THEN usedRoomIds \ {RoomOf(p).roomId} ELSE usedRoomIds

RoomIdsAfter(p, h) ==
  IF Closes(p, h) THEN usedRoomIds \ {RoomOf(p).roomId} ELSE usedRoomIds

\* Mutant: the members of a room that is closed hear only HOST_LEFT.
LeaveMessagesHostOnly(p, h) ==
  [q \in Peers |->
     IF q \in Evicted(p) THEN <<[type |-> "HOST_LEFT", id |-> clients[p].id]>>
     ELSE IF InARoom(p) /\ ~HostLeaves(p) /\ q \in Remaining(p)
       THEN <<[type |-> "PLAYER_LEFT", id |-> clients[p].id]>>
     ELSE << >>]

LeaveMessages(p, h) ==
  LET left == [type |-> "PLAYER_LEFT", id |-> clients[p].id]
  IN [q \in Peers |->
        IF q \in Evicted(p)
          THEN <<left, [type |-> "HOST_LEFT", id |-> clients[p].id],
                 ErrorMessage("The host has left the room.")>>
        ELSE IF Migrates(p) /\ q = h
          THEN <<[type |-> "MESSAGE", text |-> "New host assigned"]>>
        ELSE IF InARoom(p) /\ ~HostLeaves(p) /\ q \in Remaining(p)
          THEN <<left>>
        ELSE << >>]

HandleRoomLeave(p) ==
  \E h \in Heirs(p) :
    /\ rooms' = RoomsAfter(p, h)
    /\ clients' = ClientsAfter(p)
    /\ usedRoomIds' = RoomIdsAfter(p, h)
    /\ closing' = closing \cup Evicted(p)
    /\ Send(LeaveMessages(p, h), Connected)
    /\ UNCHANGED <<clientIdVars, nextRoomId, hung>>

(***************************************************************************)
(* ENET_EVENT_TYPE_DISCONNECT and _DISCONNECT_TIMEOUT: the peer has gone,  *)
(* has stopped answering, or has been disconnected by the server.          *)
(***************************************************************************)
\* Mutants: the identifier is not released; the client goes without leaving.
DisconnectKeepsId(p) ==
  /\ p \in DOMAIN clients
  /\ \E h \in Heirs(p) :
       /\ rooms' = RoomsAfter(p, h)
       /\ clients' = Erase(ClientsAfter(p), p)
       /\ usedRoomIds' = RoomIdsAfter(p, h)
       /\ closing' = (closing \cup Evicted(p)) \ {p}
       /\ Send(LeaveMessages(p, h), Connected \ {p})
  /\ UNCHANGED <<clientIdVars, nextRoomId, hung>>

DisconnectStays(p) ==
  /\ p \in DOMAIN clients
  /\ usedClientIds' = usedClientIds \ {clients[p].id}
  /\ clients' = Erase(clients, p)
  /\ closing' = closing \ {p}
  /\ Send([q \in Peers |-> << >>], {})
  /\ UNCHANGED <<rooms, nextClientId, roomIdVars, hung>>

Disconnect(p) ==
  /\ p \in DOMAIN clients
  /\ usedClientIds' = usedClientIds \ {clients[p].id}
  /\ \E h \in Heirs(p) :
       /\ rooms' = RoomsAfter(p, h)
       /\ clients' = Erase(ClientsAfter(p), p)
       /\ usedRoomIds' = RoomIdsAfter(p, h)
       /\ closing' = (closing \cup Evicted(p)) \ {p}
       /\ Send(LeaveMessages(p, h), Connected \ {p})
  /\ UNCHANGED <<nextClientId, nextRoomId, hung>>

-----------------------------------------------------------------------------
\* The room a settings message or a kick of peer p is about.
HostsItsRoom(p) == InARoom(p) /\ RoomOf(p).host = p

(***************************************************************************)
(* handleKickClient: the client list of the host's room is searched for    *)
(* the identifier; the target then leaves the room its own Client names.   *)
(***************************************************************************)
\* Mutant: the target is disconnected and left in the room until it is gone.
HandleKickClientLater(p, targetClientId) ==
  /\ HostsItsRoom(p)
  /\ \E t \in DOMAIN RoomOf(p).clients \cap DOMAIN clients :
       /\ RoomOf(p).clients[t] = targetClientId
       /\ closing' = closing \cup {t}
       /\ LET kicked == ErrorMessage("You have been kicked from the room")
          IN Send([q \in Peers |-> IF q = t THEN <<kicked>> ELSE << >>], Connected)
  /\ UNCHANGED <<clients, rooms, clientIdVars, roomIdVars, hung>>

HandleKickClient(p, targetClientId) ==
  /\ HostsItsRoom(p)
  /\ \E t \in DOMAIN RoomOf(p).clients \cap DOMAIN clients :
       /\ RoomOf(p).clients[t] = targetClientId
       /\ \E h \in Heirs(t) :
            /\ rooms' = RoomsAfter(t, h)
            /\ clients' = ClientsAfter(t)
            /\ usedRoomIds' = RoomIdsAfter(t, h)
            /\ closing' = closing \cup Evicted(t) \cup {t}
            /\ LET kicked == ErrorMessage("You have been kicked from the room")
               IN Send([q \in Peers |-> (IF q = t THEN <<kicked>> ELSE << >>)
                                          \o LeaveMessages(t, h)[q]], Connected)
  /\ UNCHANGED <<clientIdVars, nextRoomId, hung>>

(***************************************************************************)
(* The SET_* handlers: the host, and nobody else, changes a field of the   *)
(* room its Client names; nothing is answered.                             *)
(***************************************************************************)
SetRoom(p, setting, newRoom) ==
  /\ setting \in Settings
  /\ HostsItsRoom(p)
  /\ rooms' = [rooms EXCEPT ![clients[p].currentRoom] = newRoom]
  /\ Send([q \in Peers |-> << >>], {})
  /\ UNCHANGED <<clients, closing, clientIdVars, roomIdVars, hung>>

HandleSetRoomPassword(p, newPassword) ==
  SetRoom(p, "SET_ROOM_PASSWORD", [RoomOf(p) EXCEPT !.password = newPassword])

\* A string that is not a number changes nothing either.
HandleSetMaxPlayers(p, maxPlayers) ==
  /\ maxPlayers > 0
  /\ SetRoom(p, "SET_MAX_PLAYERS", [RoomOf(p) EXCEPT !.maxPlayers = maxPlayers])

HandleSetRoomPrivate(p, isPrivate) ==
  SetRoom(p, "SET_ROOM_PRIVATE", [RoomOf(p) EXCEPT !.isPrivate = isPrivate])

HandleSetHostMigration(p, canHostMigrate) ==
  SetRoom(p, "SET_HOST_MIGRATION",
          [RoomOf(p) EXCEPT !.canHostMigrate = canHostMigrate])

HandleSetRoomName(p, newRoomName) ==
  SetRoom(p, "SET_ROOM_NAME", [RoomOf(p) EXCEPT !.roomName = newRoomName])

HandleSetExtraInfo(p, newExtraInfo) ==
  SetRoom(p, "SET_EXTRA_INFO", [RoomOf(p) EXCEPT !.extraInfo = newExtraInfo])

-----------------------------------------------------------------------------
(***************************************************************************)
(* ENET_EVENT_TYPE_RECEIVE: handleReceivedData, for the messages that      *)
(* change the state.  The others, and the malformed ones, leave all of it  *)
(* alone.  ROOM_CREATE and ROOM_JOIN are the messages without a password.  *)
(***************************************************************************)

\* The server lets a client create or join a room while it is in another;
\* with LeaveFirst the clients themselves never ask for that.
MayEnter(p) == LeaveFirst => clients[p].currentRoom = NoCode

HandleReceivedData(p) ==
  /\ p \in Connected
  /\ \/ /\ MayEnter(p)
        /\ \/ \E code \in Codes \cup {NoCode, BadCode}, password \in Passwords :
                \/ HandleRoomCreation(p, code, password)
                \/ HandleRoomJoin(p, code, password)
                \/ HandleJoinOrCreateRoom(p, code, password)
           \/ HandleJoinOrCreateRoomRandom(p)
     \/ HandleRoomLeave(p)
     \/ \E id \in ClientIds : HandleKickClient(p, id)
     \/ \E password \in Passwords : HandleSetRoomPassword(p, password)
     \/ \E n \in Limits : HandleSetMaxPlayers(p, n)
     \/ \E b \in BOOLEAN : HandleSetRoomPrivate(p, b)
     \/ \E b \in BOOLEAN : HandleSetHostMigration(p, b)
     \/ \E t \in Texts : HandleSetRoomName(p, t)
     \/ \E t \in Texts : HandleSetExtraInfo(p, t)

Next ==
  /\ ~hung
  /\ \E p \in Peers : \/ \E protocol \in Protocols : Connect(p, protocol)
                      \/ Disconnect(p)
                      \/ HandleReceivedData(p)

Spec == Init /\ [][Next]_vars

-----------------------------------------------------------------------------
\* The variables hold what their declarations say.  A room's identifier may be
\* any number up to MaxRoomId: see RoomIdsFromMinimum.
TypeOK ==
  /\ DOMAIN clients \subseteq Peers
  /\ \A p \in DOMAIN clients : clients[p] \in Client
  /\ closing \subseteq DOMAIN clients
  /\ DOMAIN rooms \subseteq Codes
  /\ \A c \in DOMAIN rooms : rooms[c] \in Room
  /\ usedClientIds \subseteq ClientIds /\ nextClientId \in ClientIds
  /\ usedRoomIds \subseteq RoomIds     /\ nextRoomId \in RoomIds
  /\ hung \in BOOLEAN
  /\ out \in [Peers -> Seq(Message)]

(***************************************************************************)
(* What holds whatever the clients do.                                     *)
(***************************************************************************)

\* The host of a room is in its list of clients, through every departure,
\* kick and migration: handleRoomJoin reads room.clients[room.host] with an
\* operator[] that would invent a player with identifier 0, and a room
\* whose list is empty would never be closed.
HostIsMember == \A c \in DOMAIN rooms : rooms[c].host \in DOMAIN rooms[c].clients

\* The room identifiers in use are those of the rooms there are, one each:
\* every way a room can go gives its identifier back, once.
RoomIdsExact ==
  /\ usedRoomIds = {rooms[c].roomId : c \in DOMAIN rooms}
  /\ \A c, d \in DOMAIN rooms : rooms[c].roomId = rooms[d].roomId => c = d

\* "Min Room ID: 1000" (README.md:176), which the code knows as the first value
\* of nextRoomId; 0 stands for no room in Client::roomId and roomIdForPeer.
RoomIdsFromMinimum == \A c \in DOMAIN rooms : rooms[c].roomId >= FirstRoomId

\* The client identifiers in use are those of the clients there are, one
\* each, so that an identifier names one client in a kick or a packet.
ClientIdsExact ==
  /\ usedClientIds = {clients[p].id : p \in DOMAIN clients}
  /\ \A p, q \in DOMAIN clients : clients[p].id = clients[q].id => p = q

\* What p has to satisfy to be let into the room.
Admissible(p, room) ==
  /\ room.protocol = clients[p].protocolVersion
  /\ ~room.isPrivate
  /\ Cardinality(DOMAIN room.clients) < room.maxPlayers

\* A client gets into a room that exists only with the room's protocol, only
\* if the room is not private and not full, and alone, whichever of the four
\* requests and fallbacks brought it there.
AdmissionControlled ==
  [][\A c \in DOMAIN rooms \cap DOMAIN rooms' :
       LET new == DOMAIN rooms'[c].clients \ DOMAIN rooms[c].clients
       IN \A p \in new : new = {p} /\ Admissible(p, rooms[c])]_vars

\* A room changes hosts only when it may migrate, and only because the old
\* host is no longer in it.
HostHandover ==
  [][\A c \in DOMAIN rooms \cap DOMAIN rooms' :
       rooms'[c].host # rooms[c].host =>
         /\ rooms[c].canHostMigrate
         /\ rooms[c].host \notin DOMAIN rooms'[c].clients]_vars

(***************************************************************************)
(* What holds of clients that leave a room before they enter another one.  *)
(***************************************************************************)

\* The two records of who is where agree: a peer is in the list of a room
\* exactly when its Client names that room, and then identifiers match too.
MembershipAgrees ==
  \A p \in Peers, c \in DOMAIN rooms :
    /\ p \in DOMAIN rooms[c].clients <=>
         p \in DOMAIN clients /\ clients[p].currentRoom = c
    /\ p \in DOMAIN rooms[c].clients =>
         /\ rooms[c].clients[p] = clients[p].id
         /\ rooms[c].roomId = clients[p].roomId

\* A client that names no room there is names none: nobody is left behind in
\* a room that has been removed.
NoDanglingRoom ==
  \A p \in DOMAIN clients :
    clients[p].currentRoom \notin DOMAIN rooms => clients[p].currentRoom = NoCode

\* Everyone in a room can be reached: no member has gone or is on its way out,
\* so what is relayed to a room arrives at all of it.
MembersReachable ==
  \A c \in DOMAIN rooms : DOMAIN rooms[c].clients \subseteq Connected

\* Members of a room speak its protocol; broadcastMessage compares only the
\* sender's with the room's.
ProtocolUniform ==
  \A c \in DOMAIN rooms : \A p \in DOMAIN rooms[c].clients :
    clients[p].protocolVersion = rooms[c].protocol

\* generateRoomId always finds an identifier: there are more of them than
\* peers, and a client that is in no room leaves one for the room it creates.
NeverHangs == ~hung

\* Somebody is in every room, so every room will be closed one day.
NoAbandonedRoom ==
  \A c \in DOMAIN rooms : \E p \in DOMAIN clients : clients[p].currentRoom = c

\* The clients in rooms are connected: who disconnects is cleaned up.
DisconnectedCleanedUp ==
  \A c \in DOMAIN rooms : DOMAIN rooms[c].clients \subseteq DOMAIN clients

\* A room that may migrate is not closed while somebody else is in it.
MigrationKeepsRoom ==
  [][\A c \in DOMAIN rooms \ DOMAIN rooms' :
       rooms[c].canHostMigrate =>
         DOMAIN rooms[c].clients \cap DOMAIN clients' \subseteq {rooms[c].host}]_vars

Kicked(t) ==
  /\ t \in closing' \ closing
  /\ \E i \in DOMAIN out'[t] :
       out'[t][i] = ErrorMessage("You have been kicked from the room")

\* A client that is kicked is no longer in the room it is kicked from.
KickRemoves ==
  [][\A t \in Peers : Kicked(t) =>
       \A p \in Connected, id \in ClientIds :
         HandleKickClient(p, id) /\ RoomOf(p).clients[t] = id =>
           \A c \in {clients[p].currentRoom} \cap DOMAIN rooms' :
             t \notin DOMAIN rooms'[c].clients]_vars

\* The messages of p in the last step that say that client id has left.
ToldOfDeparture(p, id) ==
  \E i \in DOMAIN out'[p] : out'[p][i] = [type |-> "PLAYER_LEFT", id |-> id]

Departs(p, c) ==
  p \in DOMAIN rooms[c].clients /\ (c \in DOMAIN rooms' => p \notin DOMAIN rooms'[c].clients)

OthersTold(p, c) ==
  \A q \in (DOMAIN rooms[c].clients \cap Connected) \ {p} :
    ToldOfDeparture(q, rooms[c].clients[p])

\* When a client leaves a room that stays and keeps its host, or a host closes
\* its room, all the other members ENet can still reach are told in the same
\* step, by the identifier they know it by: a leave, a kick and a lost
\* connection alike.  (When a room migrates the code tells its new host that it
\* is the host, and nobody that the old one has left.)
DepartureTold ==
  [][\A c \in DOMAIN rooms : \A p \in DOMAIN rooms[c].clients :
       /\ Departs(p, c)
       /\ IF rooms[c].host = p THEN ~rooms[c].canHostMigrate ELSE c \in DOMAIN rooms'
       => OthersTold(p, c)]_vars

-----------------------------------------------------------------------------
(***************************************************************************)
(* The abstract lobby: a room's members are those in its list of clients.  *)
(***************************************************************************)
L == INSTANCE Lobby WITH
       members <- [c \in DOMAIN rooms |-> DOMAIN rooms[c].clients],
       host    <- [c \in DOMAIN rooms |-> rooms[c].host]

\* With clients that leave before they enter, the server is a lobby: every
\* event opens one room, lets one peer in or out of one room, hands one room
\* over, closes one room, or does nothing to any of them.
ImplementsLobby == L!Spec
=============================================================================
