-------------------------- MODULE YNetServer_proofs --------------------------
(***************************************************************************)
(* Proofs about YNetServer: its invariants, for any number of peers, codes *)
(* and identifiers.                                                        *)
(***************************************************************************)
EXTENDS YNetServer, FiniteSetTheorems, TLAPS

\* The counters stay in the range of their pool.
LEMMA NextIdRange ==
  ASSUME NEW lo \in Nat, NEW hi \in Nat, NEW i \in lo..hi
  PROVE  NextId(i, lo, hi) \in lo..hi
<1>1. NextId(i, lo, hi) = IF i = hi THEN lo ELSE i + 1
  BY DEF NextId
<1> QED BY <1>1

-----------------------------------------------------------------------------
(***************************************************************************)
(* The requests lead to a few kinds of steps.  A step that changes a room  *)
(* by a SET_* message leaves alone what the invariants speak of.           *)
(***************************************************************************)
SameRoomBut(old, new) ==
  /\ new \in Room
  /\ new.roomId = old.roomId /\ new.protocol = old.protocol
  /\ new.host = old.host /\ new.clients = old.clients

Set(p) ==
  \E s \in Settings, newRoom \in Room :
    SetRoom(p, s, newRoom) /\ SameRoomBut(RoomOf(p), newRoom)

Create(p) ==
  /\ MayEnter(p)
  /\ \E code \in Codes \ DOMAIN rooms, password \in Passwords :
       CreateRoom(p, code, password)

Enter(p) ==
  /\ MayEnter(p)
  /\ \E code \in DOMAIN rooms :
       Admissible(p, rooms[code]) /\ EnterRoom(p, code)

Kick(p) == \E id \in ClientIds : HandleKickClient(p, id)

RefuseSome(p) == \E t \in Notices : Refuse(p, t)


\* The list of clients of a room is a function from peers to identifiers.
LEMMA RoomClients ==
  ASSUME NEW room \in Room
  PROVE  /\ DOMAIN room.clients \subseteq Peers
         /\ room.clients \in [DOMAIN room.clients -> ClientIds]
         /\ Cardinality(DOMAIN room.clients) \in Nat
<1>1. room.clients \in Members
  BY DEF Room
<1>2. PICK S \in SUBSET Peers : room.clients \in [S -> ClientIds]
  BY <1>1 DEF Members
<1>3. DOMAIN room.clients = S
  BY <1>2
<1>4. IsFiniteSet(S)
  BY <1>2, FS_Subset, EnoughClientIds
<1> QED BY <1>2, <1>3, <1>4, FS_CardinalityType

LEMMA NotFull ==
  ASSUME NEW room \in Room, ~IsFull(room)
  PROVE  Cardinality(DOMAIN room.clients) < room.maxPlayers
<1>1. Cardinality(DOMAIN room.clients) \in Nat
  BY RoomClients
<1>2. room.maxPlayers \in Int
  BY DEF Room
<1> QED BY <1>1, <1>2 DEF IsFull

LEMMA CreationCases ==
  ASSUME NEW p \in Connected, MayEnter(p), NEW password \in Passwords,
         NEW code \in Codes \cup {NoCode, BadCode},
         HandleRoomCreation(p, code, password)
  PROVE  RefuseSome(p) \/ Create(p)
<1>1. PICK c \in FinalCodes(code) :
        \/ Refuse(p, "Invalid room code format")
        \/ Refuse(p, "Room already exists")
        \/ c \in Codes \ DOMAIN rooms /\ CreateRoom(p, c, password)
  BY DEF HandleRoomCreation
<1> QED BY <1>1 DEF RefuseSome, Create, Notices

LEMMA JoinCases ==
  ASSUME TypeOK, NEW p \in Connected, MayEnter(p),
         NEW code, NEW password, HandleRoomJoin(p, code, password)
  PROVE  RefuseSome(p) \/ Enter(p)
<1> DEFINE Good(room) == ~room.isPrivate /\ room.protocol = clients[p].protocolVersion
                         /\ ~IsFull(room)
<1>1. \/ \E t \in Notices : Refuse(p, t)
      \/ \E c \in DOMAIN rooms : Good(rooms[c]) /\ EnterRoom(p, c)
  <2>1. CASE JoinAnyRoom(p, password)
    BY <2>1 DEF JoinAnyRoom, Suits, Notices
  <2>2. CASE JoinRoom(p, code, password)
    BY <2>2 DEF JoinRoom, Notices
  <2> QED BY <2>1, <2>2 DEF HandleRoomJoin
<1>2. ASSUME NEW t \in Notices, Refuse(p, t)
      PROVE  RefuseSome(p)
  BY <1>2 DEF RefuseSome
<1>3. ASSUME NEW c \in DOMAIN rooms, Good(rooms[c]), EnterRoom(p, c)
      PROVE  Enter(p)
  <2>1. rooms[c] \in Room
    BY DEF TypeOK
  <2>2. Admissible(p, rooms[c])
    BY <2>1, <1>3, NotFull DEF Admissible
  <2> QED BY <2>2, <1>3 DEF Enter
<1> QED BY <1>1, <1>2, <1>3

LEMMA SetCases ==
  ASSUME TypeOK, NEW p \in Connected,
         \/ \E password \in Passwords : HandleSetRoomPassword(p, password)
         \/ \E n \in Limits : HandleSetMaxPlayers(p, n)
         \/ \E b \in BOOLEAN : HandleSetRoomPrivate(p, b)
         \/ \E b \in BOOLEAN : HandleSetHostMigration(p, b)
         \/ \E t \in Texts : HandleSetRoomName(p, t)
         \/ \E t \in Texts : HandleSetExtraInfo(p, t)
  PROVE  Set(p)
<1> DEFINE room == RoomOf(p)
<1>1. HostsItsRoom(p) => room \in Room
  BY DEF HostsItsRoom, InARoom, RoomOf, TypeOK
<1>2. ASSUME NEW s, NEW new, SetRoom(p, s, new), SameRoomBut(room, new)
      PROVE  Set(p)
  BY <1>2 DEF Set, SetRoom, SameRoomBut
<1>3. ASSUME NEW password \in Passwords, HandleSetRoomPassword(p, password)
      PROVE  Set(p)
  <2>1. SameRoomBut(room, [room EXCEPT !.password = password])
    BY <1>1, <1>3 DEF HandleSetRoomPassword, SetRoom, SameRoomBut, Room
  <2> QED BY <2>1, <1>2, <1>3 DEF HandleSetRoomPassword
<1>4. ASSUME NEW n \in Limits, HandleSetMaxPlayers(p, n)
      PROVE  Set(p)
  <2>1. SameRoomBut(room, [room EXCEPT !.maxPlayers = n])
    BY <1>1, <1>4, ServerAssumption DEF HandleSetMaxPlayers, SetRoom, SameRoomBut, Room
  <2> QED BY <2>1, <1>2, <1>4 DEF HandleSetMaxPlayers
<1>5. ASSUME NEW b \in BOOLEAN, HandleSetRoomPrivate(p, b)
      PROVE  Set(p)
  <2>1. SameRoomBut(room, [room EXCEPT !.isPrivate = b])
    BY <1>1, <1>5 DEF HandleSetRoomPrivate, SetRoom, SameRoomBut, Room
  <2> QED BY <2>1, <1>2, <1>5 DEF HandleSetRoomPrivate
<1>6. ASSUME NEW b \in BOOLEAN, HandleSetHostMigration(p, b)
      PROVE  Set(p)
  <2>1. SameRoomBut(room, [room EXCEPT !.canHostMigrate = b])
    BY <1>1, <1>6 DEF HandleSetHostMigration, SetRoom, SameRoomBut, Room
  <2> QED BY <2>1, <1>2, <1>6 DEF HandleSetHostMigration
<1>7. ASSUME NEW t \in Texts, HandleSetRoomName(p, t)
      PROVE  Set(p)
  <2>1. SameRoomBut(room, [room EXCEPT !.roomName = t])
    BY <1>1, <1>7 DEF HandleSetRoomName, SetRoom, SameRoomBut, Room
  <2> QED BY <2>1, <1>2, <1>7 DEF HandleSetRoomName
<1>8. ASSUME NEW t \in Texts, HandleSetExtraInfo(p, t)
      PROVE  Set(p)
  <2>1. SameRoomBut(room, [room EXCEPT !.extraInfo = t])
    BY <1>1, <1>8 DEF HandleSetExtraInfo, SetRoom, SameRoomBut, Room
  <2> QED BY <2>1, <1>2, <1>8 DEF HandleSetExtraInfo
<1> QED BY <1>3, <1>4, <1>5, <1>6, <1>7, <1>8

\* Every step is one of these.
Steps ==
  \/ \E p \in Peers : Disconnect(p) \/ \E protocol \in Protocols : Connect(p, protocol)
  \/ \E p \in Connected : \/ RefuseSome(p) \/ Create(p) \/ Enter(p)
                          \/ HandleRoomLeave(p) \/ Kick(p) \/ Set(p)

LEMMA NextSteps ==
  ASSUME TypeOK, Next
  PROVE  Steps
<1>1. ASSUME NEW p \in Peers, HandleReceivedData(p)
      PROVE  Steps
  <2>1. p \in Connected
    BY <1>1 DEF HandleReceivedData
  <2>2. ASSUME MayEnter(p), NEW code \in Codes \cup {NoCode, BadCode},
               NEW password \in Passwords,
               HandleRoomCreation(p, code, password) \/ HandleRoomJoin(p, code, password)
        PROVE  Steps
    BY <2>1, <2>2, CreationCases, JoinCases DEF Steps
  <2>3. ASSUME MayEnter(p), NEW code \in Codes \cup {NoCode, BadCode},
               NEW password \in Passwords, HandleJoinOrCreateRoom(p, code, password)
        PROVE  Steps
    BY <2>2, <2>3 DEF HandleJoinOrCreateRoom, FinalCodes
  <2>4. ASSUME MayEnter(p), HandleJoinOrCreateRoomRandom(p)
        PROVE  Steps
    BY <2>2, <2>4, ServerAssumption DEF HandleJoinOrCreateRoomRandom, TypeOK
  <2>5. ASSUME \/ \E password \in Passwords : HandleSetRoomPassword(p, password)
               \/ \E n \in Limits : HandleSetMaxPlayers(p, n)
               \/ \E b \in BOOLEAN : HandleSetRoomPrivate(p, b)
               \/ \E b \in BOOLEAN : HandleSetHostMigration(p, b)
               \/ \E t \in Texts : HandleSetRoomName(p, t)
               \/ \E t \in Texts : HandleSetExtraInfo(p, t)
        PROVE  Steps
    BY <2>1, <2>5, SetCases DEF Steps
  <2>6. ASSUME HandleRoomLeave(p) \/ \E id \in ClientIds : HandleKickClient(p, id)
        PROVE  Steps
    BY <2>1, <2>6 DEF Steps, Kick
  <2> QED BY <1>1, <2>2, <2>3, <2>4, <2>5, <2>6 DEF HandleReceivedData
<1> QED BY <1>1 DEF Next, Steps

-----------------------------------------------------------------------------
(***************************************************************************)
(* What a leave does, room by room and client by client.                   *)
(***************************************************************************)
LEMMA ErasedMember ==
  ASSUME NEW room \in Room, NEW p
  PROVE  /\ Erase(room.clients, p) \in Members
         /\ DOMAIN Erase(room.clients, p) = DOMAIN room.clients \ {p}
         /\ \A q \in DOMAIN room.clients \ {p} :
              Erase(room.clients, p)[q] = room.clients[q]
<1>1. Erase(room.clients, p) \in [DOMAIN room.clients \ {p} -> ClientIds]
  BY RoomClients DEF Erase, Restrict
<1>2. DOMAIN room.clients \ {p} \in SUBSET Peers
  BY RoomClients
<1>3. Erase(room.clients, p) \in Members
  BY <1>1, <1>2 DEF Members
<1> QED BY <1>1, <1>3 DEF Erase, Restrict

LEMMA RoomsAfterLeave ==
  ASSUME TypeOK, NEW p \in DOMAIN clients, NEW h
  PROVE  /\ DOMAIN RoomsAfter(p, h) =
              IF Closes(p, h) THEN DOMAIN rooms \ {clients[p].currentRoom} ELSE DOMAIN rooms
         /\ \A c \in DOMAIN RoomsAfter(p, h) \ {clients[p].currentRoom} :
              RoomsAfter(p, h)[c] = rooms[c]
         /\ clients[p].currentRoom \in DOMAIN RoomsAfter(p, h) =>
              /\ InARoom(p) /\ ~Closes(p, h)
              /\ RoomsAfter(p, h)[clients[p].currentRoom] = RoomAfter(p, h)
<1>1. CASE ~InARoom(p)
  BY <1>1 DEF RoomsAfter, InARoom, Closes, HostLeaves
<1>2. CASE InARoom(p) /\ Closes(p, h)
  BY <1>2 DEF RoomsAfter, Erase, Restrict
<1>3. CASE InARoom(p) /\ ~Closes(p, h)
  BY <1>3 DEF RoomsAfter, InARoom
<1> QED BY <1>1, <1>2, <1>3

\* Where p's room stays, only its list and its host change.
LEMMA RoomAfterLeave ==
  ASSUME TypeOK, NEW p \in DOMAIN clients, NEW h, InARoom(p)
  PROVE  /\ RoomOf(p) \in Room
         /\ RoomAfter(p, h).clients = Erase(RoomOf(p).clients, p)
         /\ RoomAfter(p, h).host = IF RoomOf(p).host = p THEN h ELSE RoomOf(p).host
         /\ RoomAfter(p, h).roomId = RoomOf(p).roomId
         /\ RoomAfter(p, h).protocol = RoomOf(p).protocol
         /\ h \in Peers => RoomAfter(p, h) \in Room
<1>1. RoomOf(p) \in Room
  BY DEF InARoom, RoomOf, TypeOK
<1>2. Erase(RoomOf(p).clients, p) \in Members
  BY <1>1, ErasedMember
<1> QED BY <1>1, <1>2 DEF RoomAfter, Room, HostLeaves

\* The heir is a peer, and unless the room closes a member that stays.
LEMMA HeirStays ==
  ASSUME TypeOK, NEW p \in DOMAIN clients, NEW h \in Heirs(p)
  PROVE  /\ h \in Peers
         /\ HostLeaves(p) /\ ~Closes(p, h) => h \in DOMAIN RoomOf(p).clients \ {p}
<1>1. CASE Migrates(p)
  <2>1. InARoom(p) /\ RoomOf(p) \in Room
    BY <1>1 DEF Migrates, HostLeaves, InARoom, RoomOf, TypeOK
  <2> QED BY <1>1, <2>1, RoomClients DEF Heirs, Remaining
<1>2. CASE ~Migrates(p)
  BY <1>2 DEF Heirs, Closes, TypeOK
<1> QED BY <1>1, <1>2

LEMMA RoomsAfterType ==
  ASSUME TypeOK, NEW p \in DOMAIN clients, NEW h \in Heirs(p)
  PROVE  /\ DOMAIN RoomsAfter(p, h) \subseteq Codes
         /\ \A c \in DOMAIN RoomsAfter(p, h) : RoomsAfter(p, h)[c] \in Room
         /\ RoomIdsAfter(p, h) \subseteq RoomIds
<1> DEFINE cur == clients[p].currentRoom
           ra  == RoomsAfter(p, h)
<1>0. DOMAIN rooms \subseteq Codes /\ \A c \in DOMAIN rooms : rooms[c] \in Room
  BY DEF TypeOK
<1>1. DOMAIN ra \subseteq DOMAIN rooms
  BY RoomsAfterLeave
<1>2. ASSUME NEW c \in DOMAIN ra, c # cur
      PROVE  ra[c] \in Room
  <2>1. ra[c] = rooms[c]
    BY <1>2, RoomsAfterLeave
  <2> QED BY <2>1, <1>0, <1>1, <1>2
<1>3. ASSUME cur \in DOMAIN ra
      PROVE  ra[cur] \in Room
  <2>1. InARoom(p) /\ ra[cur] = RoomAfter(p, h)
    BY <1>3, RoomsAfterLeave
  <2>2. h \in Peers
    BY HeirStays
  <2> QED BY <2>1, <2>2, RoomAfterLeave
<1>4. RoomIdsAfter(p, h) \subseteq RoomIds
  BY DEF RoomIdsAfter, TypeOK
<1> QED BY <1>0, <1>1, <1>2, <1>3, <1>4

LEMMA ClientsAfterType ==
  ASSUME TypeOK, NEW p \in DOMAIN clients
  PROVE  /\ DOMAIN ClientsAfter(p) = DOMAIN clients
         /\ \A q \in DOMAIN clients :
              /\ ClientsAfter(p)[q] \in Client
              /\ ClientsAfter(p)[q].id = clients[q].id
         /\ Evicted(p) \subseteq DOMAIN clients
<1>1. Evicted(p) \subseteq DOMAIN clients
  BY DEF Evicted
<1>2. NoRoomId \in RoomIds
  <2>1. MaxRoomId \in Nat
    BY ServerAssumption
  <2> QED BY <2>1 DEF NoRoomId, RoomIds
<1>3. ASSUME NEW q \in DOMAIN clients
      PROVE  ClientsAfter(p)[q] \in Client /\ ClientsAfter(p)[q].id = clients[q].id
  BY <1>2, <1>3 DEF ClientsAfter, TypeOK, Client
<1> QED BY <1>1, <1>3 DEF ClientsAfter

LEMMA LeaveMessagesType ==
  ASSUME TypeOK, NEW p \in DOMAIN clients, NEW h, NEW q \in Peers
  PROVE  LeaveMessages(p, h)[q] \in Seq(Message)
<1> DEFINE left == [type |-> "PLAYER_LEFT", id |-> clients[p].id]
           gone == [type |-> "HOST_LEFT", id |-> clients[p].id]
           told == ErrorMessage("The host has left the room.")
           host == [type |-> "MESSAGE", text |-> "New host assigned"]
<1>1. clients[p].id \in ClientIds
  BY DEF TypeOK, Client
<1>2. left \in Message /\ gone \in Message
  BY <1>1 DEF Message
<1>3. told \in Message /\ host \in Message
  BY DEF Message, ErrorMessage, Notices
<1> HIDE DEF left, gone, told, host
<1>4. <<left, gone, told>> \in Seq(Message) /\ <<host>> \in Seq(Message)
      /\ <<left>> \in Seq(Message) /\ << >> \in Seq(Message)
  BY <1>2, <1>3
<1>5. LeaveMessages(p, h)[q] \in {<<left, gone, told>>, <<host>>, <<left>>, << >>}
  BY DEF LeaveMessages, left, gone, told, host
<1> QED BY <1>4, <1>5

LEMMA SendType ==
  ASSUME NEW msgs, NEW to, Send(msgs, to), \A q \in Peers : msgs[q] \in Seq(Message)
  PROVE  out' \in [Peers -> Seq(Message)]
<1>1. << >> \in Seq(Message)
  OBVIOUS
<1> QED BY <1>1 DEF Send

\* What a leave, a kick and a disconnection have in common: p leaves.
Leaves(p, h) ==
  /\ p \in DOMAIN clients /\ h \in Heirs(p)
  /\ rooms' = RoomsAfter(p, h)
  /\ usedRoomIds' = RoomIdsAfter(p, h)
  /\ nextRoomId' = nextRoomId /\ nextClientId' = nextClientId /\ hung' = hung

Stays(p) ==
  /\ clients' = ClientsAfter(p)
  /\ usedClientIds' = usedClientIds
  /\ closing' \subseteq closing \cup Evicted(p) \cup {p}

Goes(p) ==
  /\ clients' = Erase(ClientsAfter(p), p)
  /\ usedClientIds' = usedClientIds \ {clients[p].id}
  /\ closing' = (closing \cup Evicted(p)) \ {p}

LEMMA LeaveSteps ==
  /\ \A p : Disconnect(p) => \E h : Leaves(p, h) /\ Goes(p)
  /\ \A p \in Connected : HandleRoomLeave(p) => \E h : Leaves(p, h) /\ Stays(p)
  /\ \A p \in Connected : Kick(p) => \E t, h : Leaves(t, h) /\ Stays(t)
<1>1. ASSUME NEW p, Disconnect(p)
      PROVE  \E h : Leaves(p, h) /\ Goes(p)
  BY <1>1 DEF Disconnect, Leaves, Goes
<1>2. ASSUME NEW p \in Connected, HandleRoomLeave(p)
      PROVE  \E h : Leaves(p, h) /\ Stays(p)
  BY <1>2 DEF HandleRoomLeave, Leaves, Stays, Connected, clientIdVars
<1>3. ASSUME NEW p \in Connected, Kick(p)
      PROVE  \E t, h : Leaves(t, h) /\ Stays(t)
  <2>1. PICK id \in ClientIds : HandleKickClient(p, id)
    BY <1>3 DEF Kick
  <2>2. PICK t \in DOMAIN clients : \E h \in Heirs(t) :
          /\ rooms' = RoomsAfter(t, h)
          /\ clients' = ClientsAfter(t)
          /\ usedRoomIds' = RoomIdsAfter(t, h)
          /\ closing' = closing \cup Evicted(t) \cup {t}
    BY <2>1 DEF HandleKickClient
  <2>3. UNCHANGED <<usedClientIds, nextClientId, nextRoomId, hung>>
    BY <2>1 DEF HandleKickClient, clientIdVars
  <2> QED BY <2>2, <2>3 DEF Leaves, Stays
<1> QED BY <1>1, <1>2, <1>3

-----------------------------------------------------------------------------
(***************************************************************************)
(* The host of a room is one of its members.                               *)
(***************************************************************************)
LEMMA HostStaysMember ==
  ASSUME TypeOK, HostIsMember, Steps
  PROVE  HostIsMember'
<1> USE DEF HostIsMember
<1>1. ASSUME NEW p, NEW h, Leaves(p, h)
      PROVE  HostIsMember'
  <2> SUFFICES ASSUME NEW c \in DOMAIN RoomsAfter(p, h)
               PROVE  RoomsAfter(p, h)[c].host \in DOMAIN RoomsAfter(p, h)[c].clients
    BY <1>1 DEF Leaves
  <2>0. p \in DOMAIN clients /\ h \in Heirs(p)
    BY <1>1 DEF Leaves
  <2>1. CASE c # clients[p].currentRoom
    <3>1. c \in DOMAIN rooms /\ RoomsAfter(p, h)[c] = rooms[c]
      BY <2>0, <2>1, RoomsAfterLeave
    <3> QED BY <3>1
  <2>2. CASE c = clients[p].currentRoom
    <3>1. InARoom(p) /\ ~Closes(p, h) /\ RoomsAfter(p, h)[c] = RoomAfter(p, h)
      BY <2>0, <2>2, RoomsAfterLeave
    <3>2. RoomOf(p).host \in DOMAIN RoomOf(p).clients
      BY <3>1 DEF InARoom, RoomOf
    <3>3. DOMAIN RoomAfter(p, h).clients = DOMAIN RoomOf(p).clients \ {p}
      <4>1. RoomOf(p) \in Room /\ RoomAfter(p, h).clients = Erase(RoomOf(p).clients, p)
        BY <2>0, <3>1, RoomAfterLeave
      <4> QED BY <4>1, ErasedMember
    <3>4. RoomOf(p).host = p => h \in DOMAIN RoomOf(p).clients \ {p}
      BY <2>0, <3>1, HeirStays DEF HostLeaves
    <3> QED BY <2>0, <3>1, <3>2, <3>3, <3>4, RoomAfterLeave
  <2> QED BY <2>1, <2>2
<1>2. ASSUME NEW p \in Connected, Create(p)
      PROVE  HostIsMember'
  <2>1. PICK code \in Codes, password \in Passwords : CreateRoom(p, code, password)
    BY <1>2 DEF Create
  <2>2. \/ rooms' = rooms
        \/ \E id : rooms' = Put(rooms, code, NewRoom(p, id, password))
    BY <2>1 DEF CreateRoom
  <2>3. \A id : /\ NewRoom(p, id, password).host = p
                /\ p \in DOMAIN NewRoom(p, id, password).clients
    BY DEF NewRoom
  <2> QED BY <2>2, <2>3 DEF Put
<1>3. ASSUME NEW p \in Connected, Enter(p)
      PROVE  HostIsMember'
  <2>1. PICK code \in DOMAIN rooms : EnterRoom(p, code)
    BY <1>3 DEF Enter
  <2>2. /\ rooms' = [rooms EXCEPT ![code].clients = Put(rooms[code].clients, p, clients[p].id)]
        /\ rooms[code] \in Room
    BY <2>1 DEF EnterRoom, TypeOK
  <2> QED BY <2>2 DEF Put, Room
<1>4. ASSUME NEW p \in Connected, Set(p)
      PROVE  HostIsMember'
  BY <1>4 DEF Set, SetRoom, SameRoomBut, RoomOf, HostsItsRoom, InARoom
<1>5. ASSUME NEW p, RefuseSome(p) \/ \E protocol : Connect(p, protocol)
      PROVE  HostIsMember'
  BY <1>5 DEF RefuseSome, Refuse, Connect
<1> QED BY <1>1, <1>2, <1>3, <1>4, <1>5, LeaveSteps DEF Steps

-----------------------------------------------------------------------------
(***************************************************************************)
(* Types.  They need HostIsMember: a CONFIRM_ROOM_JOIN holds the identifier *)
(* the host has in the list of clients.                                    *)
(***************************************************************************)
LEMMA PutType ==
  ASSUME NEW S, NEW f, NEW k, NEW v \in S, \A x \in DOMAIN f : f[x] \in S
  PROVE  /\ DOMAIN Put(f, k, v) = DOMAIN f \cup {k}
         /\ \A x \in DOMAIN Put(f, k, v) : Put(f, k, v)[x] \in S
BY DEF Put

LEMMA LeaveKeepsType ==
  ASSUME TypeOK, NEW p, NEW h, Leaves(p, h), Stays(p) \/ Goes(p),
         out' \in [Peers -> Seq(Message)]
  PROVE  TypeOK'
<1>0. p \in DOMAIN clients /\ h \in Heirs(p)
  BY DEF Leaves
<1>1. /\ DOMAIN rooms' \subseteq Codes
      /\ \A c \in DOMAIN rooms' : rooms'[c] \in Room
      /\ usedRoomIds' \subseteq RoomIds
  BY <1>0, RoomsAfterType DEF Leaves
<1>2. /\ DOMAIN ClientsAfter(p) = DOMAIN clients
      /\ \A q \in DOMAIN clients : ClientsAfter(p)[q] \in Client
      /\ Evicted(p) \subseteq DOMAIN clients
  BY <1>0, ClientsAfterType
<1>3. /\ DOMAIN clients \subseteq Peers /\ closing \subseteq DOMAIN clients
      /\ usedClientIds \subseteq ClientIds /\ nextClientId \in ClientIds
      /\ nextRoomId \in RoomIds /\ hung \in BOOLEAN
  BY DEF TypeOK
<1>4. /\ DOMAIN clients' \subseteq Peers
      /\ \A q \in DOMAIN clients' : clients'[q] \in Client
      /\ closing' \subseteq DOMAIN clients'
      /\ usedClientIds' \subseteq ClientIds
  <2>1. CASE Stays(p)
    BY <2>1, <1>0, <1>2, <1>3 DEF Stays
  <2>2. CASE Goes(p)
    BY <2>2, <1>2, <1>3 DEF Goes, Erase, Restrict
  <2> QED BY <2>1, <2>2
<1>5. nextClientId' = nextClientId /\ nextRoomId' = nextRoomId /\ hung' = hung
  BY DEF Leaves
<1> QED BY <1>1, <1>3, <1>4, <1>5 DEF TypeOK

LEMMA LeaveSends ==
  ASSUME TypeOK, NEW p,
         Disconnect(p) \/ (p \in Connected /\ (HandleRoomLeave(p) \/ Kick(p)))
  PROVE  out' \in [Peers -> Seq(Message)]
<1>1. CASE Disconnect(p)
  <2>1. PICK h : p \in DOMAIN clients /\ Send(LeaveMessages(p, h), Connected \ {p})
    BY <1>1 DEF Disconnect
  <2> QED BY <2>1, LeaveMessagesType, SendType
<1>2. CASE p \in Connected /\ HandleRoomLeave(p)
  <2>1. PICK h : p \in DOMAIN clients /\ Send(LeaveMessages(p, h), Connected)
    BY <1>2 DEF HandleRoomLeave, Connected
  <2> QED BY <2>1, LeaveMessagesType, SendType
<1>3. CASE Kick(p)
  <2> DEFINE kicked == ErrorMessage("You have been kicked from the room")
             msgs(t, h) == [q \in Peers |-> (IF q = t THEN <<kicked>> ELSE << >>)
                                              \o LeaveMessages(t, h)[q]]
  <2>1. PICK t \in DOMAIN clients : \E h : Send(msgs(t, h), Connected)
    BY <1>3 DEF Kick, HandleKickClient
  <2>2. PICK h : Send(msgs(t, h), Connected)
    BY <2>1
  <2>3. kicked \in Message
    BY DEF ErrorMessage, Message, Notices
  <2> HIDE DEF kicked
  <2>4. ASSUME NEW q \in Peers
        PROVE  msgs(t, h)[q] \in Seq(Message)
    <3>1. LeaveMessages(t, h)[q] \in Seq(Message)
      BY LeaveMessagesType
    <3>2. (IF q = t THEN <<kicked>> ELSE << >>) \in Seq(Message)
      BY <2>3
    <3> QED BY <3>1, <3>2
  <2> QED BY <2>2, <2>4, SendType
<1> QED BY <1>1, <1>2, <1>3

LEMMA ConnectKeepsType ==
  ASSUME TypeOK, NEW p \in Peers, NEW protocol \in Protocols, Connect(p, protocol)
  PROVE  TypeOK'
<1> DEFINE new(id) == [id |-> id, currentRoom |-> NoCode, roomId |-> NoRoomId,
                       protocolVersion |-> protocol]
           confirm(id) == [type |-> "CONFIRM_CONNECTION", id |-> id]
           msgs(id) == [q \in Peers |-> IF q = p THEN <<confirm(id)>> ELSE << >>]
<1>1. PICK id \in ClientIds :
        /\ usedClientIds' = usedClientIds \cup {id}
        /\ nextClientId' = NextId(id, MinClientId, MaxClientId)
        /\ clients' = Put(clients, p, new(id))
        /\ Send(msgs(id), {p})
  BY DEF Connect
<1>2. new(id) \in Client
  <2>1. MaxRoomId \in Nat
    BY ServerAssumption
  <2> QED BY <2>1 DEF Client, NoRoomId, RoomIds
<1>3. nextClientId' \in ClientIds
  <2>1. MinClientId \in Nat /\ MaxClientId \in Nat
    BY ServerAssumption
  <2> QED BY <1>1, <2>1, NextIdRange DEF ClientIds
<1>4. out' \in [Peers -> Seq(Message)]
  <2>1. confirm(id) \in Message
    BY DEF Message
  <2> HIDE DEF confirm
  <2>2. \A q \in Peers : msgs(id)[q] \in Seq(Message)
    BY <2>1
  <2> QED BY <1>1, <2>2, SendType
<1> HIDE DEF new, confirm, msgs
<1>5. /\ DOMAIN clients' = DOMAIN clients \cup {p}
      /\ \A q \in DOMAIN clients' : clients'[q] \in Client
  <2>1. \A q \in DOMAIN clients : clients[q] \in Client
    BY DEF TypeOK
  <2>2. clients' = Put(clients, p, new(id))
    BY <1>1
  <2>3. /\ DOMAIN Put(clients, p, new(id)) = DOMAIN clients \cup {p}
        /\ \A q \in DOMAIN Put(clients, p, new(id)) : Put(clients, p, new(id))[q] \in Client
    BY <1>2, <2>1, PutType
  <2> QED BY <2>2, <2>3
<1>6. UNCHANGED <<closing, rooms, usedRoomIds, nextRoomId, hung>>
  BY DEF Connect, roomIdVars
<1> QED BY <1>1, <1>3, <1>4, <1>5, <1>6 DEF TypeOK

LEMMA CreateKeepsType ==
  ASSUME TypeOK, NEW p \in Connected, Create(p)
  PROVE  TypeOK'
<1>1. PICK code \in Codes, password \in Passwords : CreateRoom(p, code, password)
  BY DEF Create
<1>2. p \in DOMAIN clients /\ clients[p] \in Client /\ p \in Peers
  BY DEF Connected, TypeOK
<1>3. CASE /\ hung' = TRUE
           /\ Send([q \in Peers |-> << >>], {})
           /\ UNCHANGED <<clients, closing, rooms, clientIdVars, roomIdVars>>
  <2> DEFINE none == [q \in Peers |-> << >>]
  <2>1. \A q \in Peers : none[q] \in Seq(Message)
    OBVIOUS
  <2>2. Send(none, {})
    BY <1>3
  <2>3. out' \in [Peers -> Seq(Message)]
    <3> HIDE DEF none
    <3> QED BY <2>1, <2>2, SendType
  <2> QED BY <1>3, <2>3 DEF TypeOK, clientIdVars, roomIdVars
<1>4. CASE ~(/\ hung' = TRUE
             /\ Send([q \in Peers |-> << >>], {})
             /\ UNCHANGED <<clients, closing, rooms, clientIdVars, roomIdVars>>)
  <2> DEFINE confirm == [type |-> "CONFIRM_ROOM_CREATION", code |-> code]
             msgs == [q \in Peers |-> IF q = p THEN <<confirm>> ELSE << >>]
  <2>1. PICK id \in RoomIds :
          /\ usedRoomIds' = usedRoomIds \cup {id}
          /\ nextRoomId' = NextId(id, 0, MaxRoomId)
          /\ rooms' = Put(rooms, code, NewRoom(p, id, password))
          /\ clients' = [clients EXCEPT ![p].currentRoom = code, ![p].roomId = id]
          /\ Send(msgs, Connected)
          /\ UNCHANGED <<closing, clientIdVars, hung>>
    BY <1>1, <1>4 DEF CreateRoom
  <2>2. NewRoom(p, id, password) \in Room
    <3> DEFINE list == [q \in {p} |-> clients[p].id]
    <3>1. list \in Members
      <4>1. list \in [{p} -> ClientIds]
        BY <1>2 DEF Client
      <4> QED BY <4>1, <1>2 DEF Members
    <3>2. "" \in Texts
      BY ServerAssumption
    <3>3. clients[p].protocolVersion \in Protocols
      BY <1>2 DEF Client
    <3>4. NewRoom(p, id, password) =
            [roomId |-> id, protocol |-> clients[p].protocolVersion, roomName |-> "",
             password |-> password, isPrivate |-> FALSE, canHostMigrate |-> FALSE,
             maxPlayers |-> 4, extraInfo |-> "", host |-> p, clients |-> list]
      BY DEF NewRoom
    <3>5. password \in Passwords /\ id \in RoomIds /\ p \in Peers
      BY <1>2
    <3> DEFINE none == ""
               version == clients[p].protocolVersion
    <3>6. none \in Texts /\ version \in Protocols
      BY <3>2, <3>3
    <3>7. NewRoom(p, id, password) =
            [roomId |-> id, protocol |-> version, roomName |-> none,
             password |-> password, isPrivate |-> FALSE, canHostMigrate |-> FALSE,
             maxPlayers |-> 4, extraInfo |-> none, host |-> p, clients |-> list]
      BY <3>4
    <3> HIDE DEF list, none, version
    <3> QED BY <3>1, <3>5, <3>6, <3>7 DEF Room
  <2>3. nextRoomId' \in RoomIds
    <3>1. MaxRoomId \in Nat
      BY ServerAssumption
    <3> QED BY <2>1, <3>1, NextIdRange DEF RoomIds
  <2>4. out' \in [Peers -> Seq(Message)]
    <3>1. confirm \in Message
      BY DEF Message
    <3> HIDE DEF confirm
    <3>2. \A q \in Peers : msgs[q] \in Seq(Message)
      BY <3>1
    <3> QED BY <2>1, <3>2, SendType
  <2>5. /\ DOMAIN rooms' \subseteq Codes
        /\ \A c \in DOMAIN rooms' : rooms'[c] \in Room
    <3>1. DOMAIN rooms \subseteq Codes /\ \A c \in DOMAIN rooms : rooms[c] \in Room
      BY DEF TypeOK
    <3>2. rooms' = Put(rooms, code, NewRoom(p, id, password))
      BY <2>1
    <3>3. /\ DOMAIN Put(rooms, code, NewRoom(p, id, password)) = DOMAIN rooms \cup {code}
          /\ \A c \in DOMAIN Put(rooms, code, NewRoom(p, id, password)) :
               Put(rooms, code, NewRoom(p, id, password))[c] \in Room
      BY <2>2, <3>1, PutType
    <3> QED BY <3>1, <3>2, <3>3
  <2>6. /\ DOMAIN clients' = DOMAIN clients
        /\ \A q \in DOMAIN clients : clients'[q] \in Client
    BY <2>1, <1>2 DEF TypeOK, Client
  <2> QED BY <2>1, <2>3, <2>4, <2>5, <2>6 DEF TypeOK, clientIdVars
<1> QED BY <1>3, <1>4

LEMMA EnterKeepsType ==
  ASSUME TypeOK, HostIsMember, NEW p \in Connected, Enter(p)
  PROVE  TypeOK'
<1>1. PICK code \in DOMAIN rooms : EnterRoom(p, code)
  BY DEF Enter
<1> DEFINE room   == rooms[code]
           inRoom == Put(room.clients, p, clients[p].id)
           joined == [type |-> "PLAYER_JOINED", id |-> clients[p].id]
           confirm == [type |-> "CONFIRM_ROOM_JOIN", code |-> code,
                       host |-> inRoom[room.host],
                       players |-> {inRoom[m] : m \in DOMAIN inRoom}]
           msgs == [q \in Peers |-> IF q = p THEN <<confirm>>
                                    ELSE IF q \in DOMAIN inRoom THEN <<joined>>
                                    ELSE << >>]
<1>2. p \in DOMAIN clients /\ clients[p] \in Client /\ p \in Peers
  BY DEF Connected, TypeOK
<1>3. room \in Room /\ code \in Codes
  BY DEF TypeOK
<1>4. /\ clients' = [clients EXCEPT ![p].currentRoom = code, ![p].roomId = room.roomId]
      /\ rooms' = [rooms EXCEPT ![code].clients = inRoom]
      /\ Send(msgs, Connected)
      /\ UNCHANGED <<closing, clientIdVars, roomIdVars, hung>>
  BY <1>1 DEF EnterRoom
<1>5. inRoom \in [DOMAIN room.clients \cup {p} -> ClientIds]
  BY <1>2, <1>3, RoomClients DEF Put, Client
<1>6. inRoom \in Members
  <2>1. DOMAIN room.clients \cup {p} \in SUBSET Peers
    BY <1>2, <1>3, RoomClients
  <2> QED BY <1>5, <2>1 DEF Members
<1>7. confirm \in Message /\ joined \in Message
  <2>1. room.host \in DOMAIN room.clients
    BY DEF HostIsMember
  <2>2. inRoom[room.host] \in ClientIds /\ {inRoom[m] : m \in DOMAIN inRoom} \subseteq ClientIds
    BY <2>1, <1>5
  <2> HIDE DEF inRoom
  <2>3. confirm \in Message
    BY <2>2, <1>3 DEF Message
  <2>4. joined \in Message
    BY <1>2 DEF Message, Client
  <2> QED BY <2>3, <2>4
<1>8. out' \in [Peers -> Seq(Message)]
  <2> HIDE DEF confirm, joined, inRoom
  <2>1. \A q \in Peers : msgs[q] \in Seq(Message)
    BY <1>7
  <2> QED BY <1>4, <2>1, SendType
<1> HIDE DEF inRoom
<1>9. /\ DOMAIN rooms' = DOMAIN rooms
      /\ \A c \in DOMAIN rooms : rooms'[c] \in Room
  BY <1>4, <1>6, <1>3 DEF TypeOK, Room
<1>10. /\ DOMAIN clients' = DOMAIN clients
       /\ \A q \in DOMAIN clients : clients'[q] \in Client
  BY <1>2, <1>3, <1>4 DEF TypeOK, Client, Room
<1> QED BY <1>4, <1>8, <1>9, <1>10 DEF TypeOK, clientIdVars, roomIdVars

LEMMA RefuseKeepsType ==
  ASSUME TypeOK, NEW p \in Connected, RefuseSome(p)
  PROVE  TypeOK'
<1>1. PICK t \in Notices : Refuse(p, t)
  BY DEF RefuseSome
<1> DEFINE error == ErrorMessage(t)
           msgs  == [q \in Peers |-> IF q = p THEN <<error>> ELSE << >>]
<1>2. error \in Message
  BY DEF ErrorMessage, Message
<1>3. Send(msgs, Connected) /\ UNCHANGED <<clients, closing, rooms, clientIdVars, roomIdVars, hung>>
  BY <1>1 DEF Refuse
<1>4. out' \in [Peers -> Seq(Message)]
  <2> HIDE DEF error
  <2>1. \A q \in Peers : msgs[q] \in Seq(Message)
    BY <1>2
  <2> QED BY <1>3, <2>1, SendType
<1> QED BY <1>3, <1>4 DEF TypeOK, clientIdVars, roomIdVars

LEMMA SetKeepsType ==
  ASSUME TypeOK, NEW p \in Connected, Set(p)
  PROVE  TypeOK'
<1> DEFINE msgs == [q \in Peers |-> << >>]
<1>1. PICK newRoom \in Room :
        /\ rooms' = [rooms EXCEPT ![clients[p].currentRoom] = newRoom]
        /\ Send(msgs, {})
        /\ UNCHANGED <<clients, closing, clientIdVars, roomIdVars, hung>>
  BY DEF Set, SetRoom
<1>2. out' \in [Peers -> Seq(Message)]
  <2>1. \A q \in Peers : msgs[q] \in Seq(Message)
    OBVIOUS
  <2> QED BY <1>1, <2>1, SendType
<1>3. DOMAIN rooms' = DOMAIN rooms /\ \A c \in DOMAIN rooms : rooms'[c] \in Room
  BY <1>1 DEF TypeOK
<1> QED BY <1>1, <1>2, <1>3 DEF TypeOK, clientIdVars, roomIdVars

LEMMA StepsKeepType ==
  ASSUME TypeOK, HostIsMember, Steps
  PROVE  TypeOK'
<1>1. ASSUME NEW p \in Peers, Disconnect(p)
      PROVE  TypeOK'
  <2>1. out' \in [Peers -> Seq(Message)]
    BY <1>1, LeaveSends
  <2>2. PICK h : Leaves(p, h) /\ Goes(p)
    BY <1>1, LeaveSteps
  <2> QED BY <2>1, <2>2, LeaveKeepsType
<1>2. ASSUME NEW p \in Connected, HandleRoomLeave(p)
      PROVE  TypeOK'
  <2>1. out' \in [Peers -> Seq(Message)]
    BY <1>2, LeaveSends
  <2>2. PICK h : Leaves(p, h) /\ Stays(p)
    BY <1>2, LeaveSteps
  <2> QED BY <2>1, <2>2, LeaveKeepsType
<1>3. ASSUME NEW p \in Connected, Kick(p)
      PROVE  TypeOK'
  <2>1. out' \in [Peers -> Seq(Message)]
    BY <1>3, LeaveSends
  <2>2. PICK t, h : Leaves(t, h) /\ Stays(t)
    BY <1>3, LeaveSteps
  <2> QED BY <2>1, <2>2, LeaveKeepsType
<1> QED BY <1>1, <1>2, <1>3, ConnectKeepsType, CreateKeepsType, EnterKeepsType,
           RefuseKeepsType, SetKeepsType DEF Steps

-----------------------------------------------------------------------------
(***************************************************************************)
(* The identifiers in use are exactly those of the clients, of the rooms.  *)
(* A step that keeps who there is and everyone's identifier keeps this.    *)
(***************************************************************************)
LEMMA SameClientIds ==
  ASSUME ClientIdsExact, usedClientIds' = usedClientIds,
         DOMAIN clients' = DOMAIN clients,
         \A q \in DOMAIN clients : clients'[q].id = clients[q].id
  PROVE  ClientIdsExact'
BY DEF ClientIdsExact

LEMMA StepsKeepClientIds ==
  ASSUME TypeOK, ClientIdsExact, Steps
  PROVE  ClientIdsExact'
<1>1. ASSUME NEW p \in Peers, NEW protocol \in Protocols, Connect(p, protocol)
      PROVE  ClientIdsExact'
  <2> DEFINE new(id) == [id |-> id, currentRoom |-> NoCode, roomId |-> NoRoomId,
                         protocolVersion |-> protocol]
  <2>1. PICK id \in ClientIds :
          /\ id \notin usedClientIds
          /\ usedClientIds' = usedClientIds \cup {id}
          /\ clients' = Put(clients, p, new(id))
    BY <1>1 DEF Connect, IsNextFree
  <2>2. p \notin DOMAIN clients
    BY <1>1 DEF Connect
  <2>3. /\ DOMAIN clients' = DOMAIN clients \cup {p}
        /\ clients'[p].id = id
        /\ \A q \in DOMAIN clients : clients'[q].id = clients[q].id
    BY <2>1, <2>2 DEF Put
  <2> QED BY <2>1, <2>2, <2>3 DEF ClientIdsExact
<1>2. ASSUME NEW p, NEW h, Leaves(p, h), Stays(p)
      PROVE  ClientIdsExact'
  BY <1>2, ClientsAfterType, SameClientIds DEF Leaves, Stays
<1>3. ASSUME NEW p, NEW h, Leaves(p, h), Goes(p)
      PROVE  ClientIdsExact'
  <2>1. p \in DOMAIN clients
    BY <1>3 DEF Leaves
  <2>2. /\ DOMAIN clients' = DOMAIN clients \ {p}
        /\ \A q \in DOMAIN clients \ {p} : clients'[q].id = clients[q].id
    BY <1>3, <2>1, ClientsAfterType DEF Goes, Erase, Restrict
  <2>3. usedClientIds' = usedClientIds \ {clients[p].id}
    BY <1>3 DEF Goes
  <2> QED BY <2>1, <2>2, <2>3 DEF ClientIdsExact
<1>4. ASSUME NEW p \in Connected, Create(p) \/ Enter(p)
      PROVE  ClientIdsExact'
  <2>1. p \in DOMAIN clients /\ clients[p] \in Client
    BY DEF Connected, TypeOK
  <2>2. /\ usedClientIds' = usedClientIds
        /\ \/ clients' = clients
           \/ \E c, i : clients' = [clients EXCEPT ![p].currentRoom = c, ![p].roomId = i]
    BY <1>4 DEF Create, CreateRoom, Enter, EnterRoom, clientIdVars
  <2>3. DOMAIN clients' = DOMAIN clients
    BY <2>2
  <2>4. \A q \in DOMAIN clients : clients'[q].id = clients[q].id
    <3>1. ASSUME NEW c, NEW i,
                 clients' = [clients EXCEPT ![p].currentRoom = c, ![p].roomId = i]
          PROVE  \A q \in DOMAIN clients : clients'[q].id = clients[q].id
      BY <2>1, <3>1 DEF Client
    <3> QED BY <2>2, <3>1
  <2> QED BY <2>2, <2>3, <2>4, SameClientIds
<1>5. ASSUME NEW p \in Connected, RefuseSome(p) \/ Set(p)
      PROVE  ClientIdsExact'
  BY <1>5, SameClientIds DEF RefuseSome, Refuse, Set, SetRoom, clientIdVars
<1> QED BY <1>1, <1>2, <1>3, <1>4, <1>5, LeaveSteps DEF Steps

LEMMA SameRoomIds ==
  ASSUME RoomIdsExact, usedRoomIds' = usedRoomIds,
         DOMAIN rooms' = DOMAIN rooms,
         \A c \in DOMAIN rooms : rooms'[c].roomId = rooms[c].roomId
  PROVE  RoomIdsExact'
BY DEF RoomIdsExact

LEMMA StepsKeepRoomIds ==
  ASSUME TypeOK, RoomIdsExact, Steps
  PROVE  RoomIdsExact'
<1>1. ASSUME NEW p, NEW h, Leaves(p, h)
      PROVE  RoomIdsExact'
  <2> DEFINE cur == clients[p].currentRoom
             ra  == RoomsAfter(p, h)
  <2>1. p \in DOMAIN clients /\ rooms' = ra /\ usedRoomIds' = RoomIdsAfter(p, h)
    BY <1>1 DEF Leaves
  <2>2. \A c \in DOMAIN rooms' : c \in DOMAIN rooms /\ rooms'[c].roomId = rooms[c].roomId
    <3>1. DOMAIN ra \subseteq DOMAIN rooms
      BY <2>1, RoomsAfterLeave
    <3>2. \A c \in DOMAIN ra : c # cur => ra[c] = rooms[c]
      BY <2>1, RoomsAfterLeave
    <3>3. cur \in DOMAIN ra => InARoom(p) /\ ra[cur] = RoomAfter(p, h)
      BY <2>1, RoomsAfterLeave
    <3>4. cur \in DOMAIN ra => ra[cur].roomId = rooms[cur].roomId
      BY <2>1, <3>3, RoomAfterLeave DEF RoomOf
    <3> QED BY <2>1, <3>1, <3>2, <3>4
  <2>3. CASE Closes(p, h)
    <3>1. cur \in DOMAIN rooms /\ usedRoomIds' = usedRoomIds \ {rooms[cur].roomId}
      BY <2>1, <2>3 DEF Closes, HostLeaves, InARoom, RoomIdsAfter, RoomOf
    <3>2. DOMAIN rooms' = DOMAIN rooms \ {cur}
      BY <2>1, <2>3, RoomsAfterLeave
    <3> HIDE DEF cur
    <3> QED BY <2>2, <3>1, <3>2 DEF RoomIdsExact
  <2>4. CASE ~Closes(p, h)
    <3>1. usedRoomIds' = usedRoomIds
      BY <2>1, <2>4 DEF RoomIdsAfter
    <3>2. DOMAIN rooms' = DOMAIN rooms
      BY <2>1, <2>4, RoomsAfterLeave
    <3> QED BY <2>2, <3>1, <3>2, SameRoomIds
  <2> QED BY <2>3, <2>4
<1>2. ASSUME NEW p \in Connected, Create(p)
      PROVE  RoomIdsExact'
  <2>1. PICK code \in Codes \ DOMAIN rooms, password \in Passwords :
          CreateRoom(p, code, password)
    BY <1>2 DEF Create
  <2>2. CASE UNCHANGED <<rooms, roomIdVars>>
    BY <2>2, SameRoomIds DEF roomIdVars
  <2>3. CASE ~UNCHANGED <<rooms, roomIdVars>>
    <3>1. PICK id \in RoomIds :
            /\ id \notin usedRoomIds
            /\ usedRoomIds' = usedRoomIds \cup {id}
            /\ rooms' = Put(rooms, code, NewRoom(p, id, password))
      BY <2>1, <2>3 DEF CreateRoom, IsNextFree
    <3>2. NewRoom(p, id, password).roomId = id
      BY DEF NewRoom
    <3>3. /\ DOMAIN rooms' = DOMAIN rooms \cup {code}
          /\ rooms'[code].roomId = id
          /\ \A c \in DOMAIN rooms : rooms'[c].roomId = rooms[c].roomId
      BY <2>1, <3>1, <3>2 DEF Put
    <3> QED BY <2>1, <3>1, <3>3 DEF RoomIdsExact
  <2> QED BY <2>2, <2>3
<1>3. ASSUME NEW p \in Connected, Enter(p)
      PROVE  RoomIdsExact'
  <2>1. PICK code \in DOMAIN rooms : EnterRoom(p, code)
    BY <1>3 DEF Enter
  <2>2. PICK list : rooms' = [rooms EXCEPT ![code].clients = list]
    BY <2>1 DEF EnterRoom
  <2>3. usedRoomIds' = usedRoomIds
    BY <2>1 DEF EnterRoom, roomIdVars
  <2>4. rooms[code] \in Room
    BY DEF TypeOK
  <2>5. \A c \in DOMAIN rooms : rooms'[c].roomId = rooms[c].roomId
    BY <2>2, <2>4 DEF Room
  <2> QED BY <2>2, <2>3, <2>5, SameRoomIds
<1>4. ASSUME NEW p \in Connected, Set(p)
      PROVE  RoomIdsExact'
  <2>1. PICK newRoom \in Room :
          /\ newRoom.roomId = RoomOf(p).roomId
          /\ rooms' = [rooms EXCEPT ![clients[p].currentRoom] = newRoom]
          /\ usedRoomIds' = usedRoomIds
    BY <1>4 DEF Set, SetRoom, SameRoomBut, roomIdVars
  <2>2. \A c \in DOMAIN rooms : rooms'[c].roomId = rooms[c].roomId
    BY <2>1 DEF RoomOf
  <2> QED BY <2>1, <2>2, SameRoomIds
<1>5. ASSUME NEW p, RefuseSome(p) \/ \E protocol : Connect(p, protocol)
      PROVE  RoomIdsExact'
  BY <1>5, SameRoomIds DEF RefuseSome, Refuse, Connect, roomIdVars
<1> QED BY <1>1, <1>2, <1>3, <1>4, <1>5, LeaveSteps DEF Steps

-----------------------------------------------------------------------------
(***************************************************************************)
(* The inductive invariant and what follows from it.                       *)
(***************************************************************************)
IInv == TypeOK /\ HostIsMember /\ ClientIdsExact /\ RoomIdsExact

LEMMA InitInv ==
  Init => IInv
<1> SUFFICES ASSUME Init PROVE IInv
  OBVIOUS
<1>1. DOMAIN clients = {} /\ DOMAIN rooms = {}
  BY DEF Init
<1>2. nextClientId \in ClientIds /\ nextRoomId \in RoomIds
  <2>1. /\ MinClientId \in Nat /\ MaxClientId \in Nat /\ MinClientId <= MaxClientId
        /\ FirstRoomId \in Nat /\ MaxRoomId \in Nat /\ FirstRoomId <= MaxRoomId
    BY ServerAssumption
  <2> QED BY <2>1 DEF Init, ClientIds, RoomIds
<1>3. out \in [Peers -> Seq(Message)]
  BY DEF Init
<1>4. closing = {} /\ usedClientIds = {} /\ usedRoomIds = {} /\ hung = FALSE
  BY DEF Init
<1> QED BY <1>1, <1>2, <1>3, <1>4 DEF IInv, TypeOK, HostIsMember, ClientIdsExact, RoomIdsExact

LEMMA NextInv ==
  IInv /\ [Next]_vars => IInv'
<1> SUFFICES ASSUME IInv, [Next]_vars PROVE IInv'
  OBVIOUS
<1>1. CASE Next
  BY <1>1, NextSteps, HostStaysMember, StepsKeepType, StepsKeepClientIds,
     StepsKeepRoomIds DEF IInv
<1>2. CASE UNCHANGED vars
  BY <1>2 DEF vars, IInv, TypeOK, HostIsMember, ClientIdsExact, RoomIdsExact
<1> QED BY <1>1, <1>2

\* Whatever the peers do, the maps of the server hold clients and rooms with
\* fields in range, only known peers are being disconnected, the counters stay
\* in their pools and only messages of the protocol are sent.
THEOREM TypeCorrect == Spec => []TypeOK
<1>1. IInv => TypeOK
  BY DEF IInv
<1> QED BY <1>1, InitInv, NextInv, PTL DEF Spec

\* Whatever the peers do, the host of a room is in the room's list of clients:
\* leaves, kicks, disconnections and migrations never leave a room whose host
\* field names a peer outside it, nor a room with nobody in its list.
THEOREM HostAlwaysMember == Spec => []HostIsMember
<1>1. IInv => HostIsMember
  BY DEF IInv
<1> QED BY <1>1, InitInv, NextInv, PTL DEF Spec

\* Whatever the peers do, an identifier is in use exactly when a client has it,
\* and no two clients have the same: connecting takes a free one and every
\* disconnection gives it back once.
THEOREM ClientIdsAlwaysExact == Spec => []ClientIdsExact
<1>1. IInv => ClientIdsExact
  BY DEF IInv
<1> QED BY <1>1, InitInv, NextInv, PTL DEF Spec

\* Whatever the peers do, a room identifier is in use exactly when a room has
\* it, and no two rooms have the same: each way a room can be closed gives its
\* identifier back, and none gives back that of another room.
THEOREM RoomIdsAlwaysExact == Spec => []RoomIdsExact
<1>1. IInv => RoomIdsExact
  BY DEF IInv
<1> QED BY <1>1, InitInv, NextInv, PTL DEF Spec

-----------------------------------------------------------------------------
(***************************************************************************)
(* What no step may do: let somebody in who is not admissible, or hand a   *)
(* room over that may not migrate.                                         *)
(***************************************************************************)

\* A room that outlasts a step keeps its list and its host, unless it is the
\* one its leaver leaves or the one the step lets a peer into.
SameRoom(c) ==
  rooms'[c].host = rooms[c].host /\ rooms'[c].clients = rooms[c].clients

Left(p, c) ==
  /\ DOMAIN rooms'[c].clients = DOMAIN rooms[c].clients \ {p}
  /\ rooms'[c].host # rooms[c].host => rooms[c].canHostMigrate /\ rooms[c].host = p

Joined(p, c) ==
  /\ DOMAIN rooms'[c].clients = DOMAIN rooms[c].clients \cup {p}
  /\ rooms'[c].host = rooms[c].host
  /\ Admissible(p, rooms[c])

LEMMA RoomSteps ==
  ASSUME IInv, Steps
  PROVE  \A c \in DOMAIN rooms \cap DOMAIN rooms' :
           SameRoom(c) \/ (\E p : Left(p, c)) \/ (\E p : Joined(p, c))
<1> SUFFICES ASSUME NEW c \in DOMAIN rooms \cap DOMAIN rooms'
             PROVE  SameRoom(c) \/ (\E p : Left(p, c)) \/ (\E p : Joined(p, c))
  OBVIOUS
<1> USE DEF SameRoom, Left, Joined
<1>0. TypeOK /\ rooms[c] \in Room
  BY DEF IInv, TypeOK
<1>1. ASSUME NEW p, NEW h, Leaves(p, h)
      PROVE  SameRoom(c) \/ Left(p, c)
  <2>1. p \in DOMAIN clients /\ rooms' = RoomsAfter(p, h)
    BY <1>1 DEF Leaves
  <2>2. CASE c # clients[p].currentRoom
    <3>1. rooms'[c] = rooms[c]
      BY <1>0, <2>1, <2>2, RoomsAfterLeave
    <3> QED BY <3>1
  <2>3. CASE c = clients[p].currentRoom
    <3>1. InARoom(p) /\ ~Closes(p, h) /\ rooms'[c] = RoomAfter(p, h)
      BY <1>0, <2>1, <2>3, RoomsAfterLeave
    <3>2. RoomOf(p) = rooms[c]
      BY <2>3 DEF RoomOf
    <3>3. /\ rooms'[c].clients = Erase(rooms[c].clients, p)
          /\ rooms'[c].host = IF rooms[c].host = p THEN h ELSE rooms[c].host
      BY <1>0, <2>1, <3>1, <3>2, RoomAfterLeave
    <3>4. DOMAIN rooms'[c].clients = DOMAIN rooms[c].clients \ {p}
      BY <1>0, <3>3, ErasedMember
    <3>5. rooms[c].host = p => rooms[c].canHostMigrate
      BY <3>1, <3>2 DEF Closes, HostLeaves, Migrates
    <3> QED BY <3>3, <3>4, <3>5
  <2> QED BY <2>2, <2>3
<1>2. ASSUME NEW p \in Connected, Create(p)
      PROVE  SameRoom(c)
  BY <1>2 DEF Create, CreateRoom, Put
<1>3. ASSUME NEW p \in Connected, Enter(p)
      PROVE  SameRoom(c) \/ Joined(p, c)
  <2>1. PICK code \in DOMAIN rooms : Admissible(p, rooms[code]) /\ EnterRoom(p, code)
    BY <1>3 DEF Enter
  <2>2. rooms' = [rooms EXCEPT ![code].clients = Put(rooms[code].clients, p, clients[p].id)]
    BY <2>1 DEF EnterRoom
  <2>3. DOMAIN Put(rooms[code].clients, p, clients[p].id) = DOMAIN rooms[code].clients \cup {p}
    BY DEF Put
  <2>4. CASE c # code
    BY <2>2, <2>4
  <2>5. CASE c = code
    <3>1. rooms'[c].clients = Put(rooms[c].clients, p, clients[p].id) /\ rooms'[c].host = rooms[c].host
      BY <1>0, <2>2, <2>5 DEF Room
    <3> QED BY <2>1, <2>3, <2>5, <3>1
  <2> QED BY <2>4, <2>5
<1>4. ASSUME NEW p \in Connected, Set(p)
      PROVE  SameRoom(c)
  BY <1>4 DEF Set, SetRoom, SameRoomBut, RoomOf
<1>5. ASSUME NEW p, RefuseSome(p) \/ \E protocol : Connect(p, protocol)
      PROVE  SameRoom(c)
  BY <1>5 DEF RefuseSome, Refuse, Connect
<1> QED BY <1>0, <1>1, <1>2, <1>3, <1>4, <1>5, LeaveSteps DEF Steps

Admission ==
  \A c \in DOMAIN rooms \cap DOMAIN rooms' :
    LET new == DOMAIN rooms'[c].clients \ DOMAIN rooms[c].clients
    IN \A p \in new : new = {p} /\ Admissible(p, rooms[c])

Handover ==
  \A c \in DOMAIN rooms \cap DOMAIN rooms' :
    rooms'[c].host # rooms[c].host =>
      /\ rooms[c].canHostMigrate
      /\ rooms[c].host \notin DOMAIN rooms'[c].clients

LEMMA StepsAdmit ==
  IInv /\ [Next]_vars => [Admission]_vars /\ [Handover]_vars
<1> SUFFICES ASSUME IInv, Next PROVE Admission /\ Handover
  OBVIOUS
<1>1. Steps
  BY NextSteps DEF IInv
<1>2. ASSUME NEW c \in DOMAIN rooms \cap DOMAIN rooms'
      PROVE  /\ \A p \in DOMAIN rooms'[c].clients \ DOMAIN rooms[c].clients :
                  /\ DOMAIN rooms'[c].clients \ DOMAIN rooms[c].clients = {p}
                  /\ Admissible(p, rooms[c])
             /\ rooms'[c].host # rooms[c].host =>
                  rooms[c].canHostMigrate /\ rooms[c].host \notin DOMAIN rooms'[c].clients
  <2>0. SameRoom(c) \/ (\E p : Left(p, c)) \/ (\E p : Joined(p, c))
    BY <1>1, RoomSteps
  <2>1. CASE SameRoom(c)
    BY <2>1 DEF SameRoom
  <2>2. CASE \E p : Left(p, c)
    BY <2>2 DEF Left
  <2>3. CASE \E p : Joined(p, c)
    BY <2>3 DEF Joined
  <2> QED BY <2>0, <2>1, <2>2, <2>3
<1> QED BY <1>2 DEF Admission, Handover

\* Whatever the peers do, a client gets into a room that exists only if the
\* room has its protocol, is not private and not full, and it gets in alone,
\* through each of the requests and their fallbacks.
THEOREM AdmissionAlwaysControlled == Spec => AdmissionControlled
<1> QED BY InitInv, NextInv, StepsAdmit, PTL DEF Spec, AdmissionControlled, Admission

\* Whatever the peers do, the host of a room that stays changes only when the
\* room may migrate, and the old host has then left the list of clients.
THEOREM HostHandoverAlways == Spec => HostHandover
<1> QED BY InitInv, NextInv, StepsAdmit, PTL DEF Spec, HostHandover, Handover

-----------------------------------------------------------------------------
(***************************************************************************)
(* Departures are told, by the identifier the room has of who leaves.      *)
(***************************************************************************)
\* The room a Client names, if it lists the peer, lists it by the Client's
\* identifier; a room it was in before may list its predecessor's.
IdCurrent ==
  \A p \in DOMAIN clients :
    InARoom(p) /\ p \in DOMAIN RoomOf(p).clients => RoomOf(p).clients[p] = clients[p].id

LEMMA LeaveKeepsIdCurrent ==
  ASSUME TypeOK, IdCurrent, NEW p, NEW h, Leaves(p, h), Stays(p) \/ Goes(p)
  PROVE  IdCurrent'
<1> DEFINE cur == clients[p].currentRoom
<1>0. p \in DOMAIN clients /\ rooms' = RoomsAfter(p, h) /\ NoCode \notin DOMAIN rooms
  BY ServerAssumption DEF Leaves, TypeOK
<1>1. DOMAIN rooms' \subseteq DOMAIN rooms
  BY <1>0, RoomsAfterLeave
<1>2. ASSUME NEW q \in DOMAIN clients'
      PROVE  /\ q \in DOMAIN clients /\ clients'[q].id = clients[q].id
             /\ clients'[q].currentRoom \in {clients[q].currentRoom, NoCode}
  <2>1. /\ q \in DOMAIN clients /\ clients'[q] = ClientsAfter(p)[q]
        /\ ClientsAfter(p)[q].id = clients[q].id
    BY <1>0, ClientsAfterType DEF Stays, Goes, Erase, Restrict
  <2>2. clients[q] \in Client
    BY <2>1 DEF TypeOK
  <2> QED BY <2>1, <2>2 DEF ClientsAfter, Client
<1>3. ASSUME NEW q \in DOMAIN clients', NEW c \in DOMAIN rooms',
             c = clients'[q].currentRoom, q \in DOMAIN rooms'[c].clients
      PROVE  rooms'[c].clients[q] = clients'[q].id
  <2>1. c \in DOMAIN rooms /\ c = clients[q].currentRoom
    BY <1>0, <1>1, <1>2, <1>3
  <2>2. q \in DOMAIN rooms[c].clients => rooms[c].clients[q] = clients[q].id
    BY <1>2, <2>1 DEF IdCurrent, InARoom, RoomOf
  <2>3. CASE c # cur
    BY <1>0, <1>2, <1>3, <2>2, <2>3, RoomsAfterLeave
  <2>4. CASE c = cur
    <3>1. InARoom(p) /\ rooms'[c] = RoomAfter(p, h) /\ RoomOf(p) = rooms[c]
      BY <1>0, <2>4, RoomsAfterLeave DEF RoomOf
    <3>2. rooms[c] \in Room /\ rooms'[c].clients = Erase(rooms[c].clients, p)
      BY <1>0, <3>1, RoomAfterLeave
    <3>3. q \in DOMAIN rooms[c].clients \ {p} /\ rooms'[c].clients[q] = rooms[c].clients[q]
      <4>1. /\ DOMAIN Erase(rooms[c].clients, p) = DOMAIN rooms[c].clients \ {p}
            /\ \A r \in DOMAIN rooms[c].clients \ {p} :
                 Erase(rooms[c].clients, p)[r] = rooms[c].clients[r]
        BY <3>2, ErasedMember
      <4> QED BY <1>3, <3>2, <4>1
    <3> QED BY <1>2, <2>2, <3>3
  <2> QED BY <2>3, <2>4
<1> QED BY <1>3 DEF IdCurrent, InARoom, RoomOf

LEMMA StepsKeepIdCurrent ==
  ASSUME TypeOK, IdCurrent, Steps
  PROVE  IdCurrent'
<1> USE DEF IdCurrent, InARoom, RoomOf
<1>1. ASSUME NEW p \in Connected, Create(p)
      PROVE  IdCurrent'
  <2>0. p \in DOMAIN clients /\ clients[p] \in Client
    BY DEF Connected, TypeOK
  <2>1. PICK code \in Codes \ DOMAIN rooms, password \in Passwords :
          CreateRoom(p, code, password)
    BY <1>1 DEF Create
  <2>2. CASE UNCHANGED <<clients, rooms>>
    BY <2>2
  <2>3. CASE ~UNCHANGED <<clients, rooms>>
    <3>1. PICK id \in RoomIds :
            /\ rooms' = Put(rooms, code, NewRoom(p, id, password))
            /\ clients' = [clients EXCEPT ![p].currentRoom = code, ![p].roomId = id]
      BY <2>1, <2>3 DEF CreateRoom
    <3>2. /\ DOMAIN rooms' = DOMAIN rooms \cup {code}
          /\ \A c \in DOMAIN rooms : rooms'[c] = rooms[c]
          /\ DOMAIN rooms'[code].clients = {p} /\ rooms'[code].clients[p] = clients[p].id
      BY <2>1, <3>1 DEF Put, NewRoom
    <3>3. /\ DOMAIN clients' = DOMAIN clients
          /\ \A q \in DOMAIN clients \ {p} : clients'[q] = clients[q]
          /\ clients'[p].currentRoom = code /\ clients'[p].id = clients[p].id
      BY <2>0, <3>1 DEF Client
    <3> QED BY <3>2, <3>3
  <2> QED BY <2>2, <2>3
<1>2. ASSUME NEW p \in Connected, Enter(p)
      PROVE  IdCurrent'
  <2>0. p \in DOMAIN clients /\ clients[p] \in Client
    BY DEF Connected, TypeOK
  <2>1. PICK code \in DOMAIN rooms : EnterRoom(p, code)
    BY <1>2 DEF Enter
  <2>2. /\ DOMAIN rooms' = DOMAIN rooms
        /\ \A c \in DOMAIN rooms \ {code} : rooms'[c] = rooms[c]
        /\ rooms'[code].clients = Put(rooms[code].clients, p, clients[p].id)
    BY <2>1 DEF EnterRoom, TypeOK, Room
  <2>3. /\ DOMAIN rooms'[code].clients = DOMAIN rooms[code].clients \cup {p}
        /\ rooms'[code].clients[p] = clients[p].id
        /\ \A q \in DOMAIN rooms[code].clients \ {p} :
             rooms'[code].clients[q] = rooms[code].clients[q]
    BY <2>2 DEF Put
  <2>4. /\ DOMAIN clients' = DOMAIN clients
        /\ \A q \in DOMAIN clients \ {p} : clients'[q] = clients[q]
        /\ clients'[p].currentRoom = code /\ clients'[p].id = clients[p].id
    BY <2>0, <2>1 DEF EnterRoom, Client
  <2> QED BY <2>1, <2>2, <2>3, <2>4
<1>3. ASSUME NEW p \in Connected, Set(p)
      PROVE  IdCurrent'
  BY <1>3 DEF Set, SetRoom, SameRoomBut
<1>4. ASSUME NEW p, RefuseSome(p)
      PROVE  IdCurrent'
  BY <1>4 DEF RefuseSome, Refuse
<1>5. ASSUME NEW p, NEW protocol, Connect(p, protocol)
      PROVE  IdCurrent'
  <2>1. NoCode \notin DOMAIN rooms
    BY ServerAssumption DEF TypeOK
  <2>2. PICK id : clients' = Put(clients, p, [id |-> id, currentRoom |-> NoCode,
                                             roomId |-> NoRoomId,
                                             protocolVersion |-> protocol])
    BY <1>5 DEF Connect
  <2>3. /\ rooms' = rooms
        /\ DOMAIN clients' = DOMAIN clients \cup {p}
        /\ clients'[p].currentRoom = NoCode
        /\ \A q \in DOMAIN clients \ {p} : clients'[q] = clients[q]
    BY <1>5, <2>2 DEF Connect, Put
  <2> QED BY <2>1, <2>3
<1> QED BY <1>1, <1>2, <1>3, <1>4, <1>5, LeaveSteps, LeaveKeepsIdCurrent DEF Steps

Told ==
  \A c \in DOMAIN rooms : \A p \in DOMAIN rooms[c].clients :
    /\ Departs(p, c)
    /\ IF rooms[c].host = p THEN ~rooms[c].canHostMigrate ELSE c \in DOMAIN rooms'
    => OthersTold(p, c)

\* Of the departures that are told, p's is the only one in the step.
LEMMA WhoDeparts ==
  ASSUME IInv, IdCurrent, NEW p, NEW h, Leaves(p, h),
         NEW c \in DOMAIN rooms, NEW x \in DOMAIN rooms[c].clients, Departs(x, c),
         IF rooms[c].host = x THEN ~rooms[c].canHostMigrate ELSE c \in DOMAIN rooms'
  PROVE  /\ x = p /\ InARoom(p) /\ RoomOf(p) = rooms[c]
         /\ rooms[c].clients[x] = clients[p].id
         /\ rooms[c].host = p => ~rooms[c].canHostMigrate
<1>0. /\ TypeOK /\ p \in DOMAIN clients /\ rooms' = RoomsAfter(p, h) /\ rooms[c] \in Room
      /\ HostIsMember
  BY DEF Leaves, IInv, TypeOK
<1>1. c = clients[p].currentRoom
  <2>1. SUFFICES ASSUME c # clients[p].currentRoom PROVE FALSE
    OBVIOUS
  <2>2. c \in DOMAIN rooms' /\ rooms'[c] = rooms[c]
    <3>0. TypeOK /\ p \in DOMAIN clients
      BY <1>0
    <3>1. c \in DOMAIN RoomsAfter(p, h) \ {clients[p].currentRoom}
      BY <2>1, <3>0, RoomsAfterLeave
    <3>2. RoomsAfter(p, h)[c] = rooms[c]
      BY <3>0, <3>1, RoomsAfterLeave
    <3> QED BY <1>0, <3>1, <3>2
  <2> QED BY <2>2 DEF Departs
<1>2. InARoom(p) /\ RoomOf(p) = rooms[c]
  BY <1>1 DEF InARoom, RoomOf
<1>3. x = p
  <2>1. CASE c \in DOMAIN rooms'
    <3>1. rooms'[c].clients = Erase(rooms[c].clients, p)
      <4>1. rooms'[c] = RoomAfter(p, h)
        BY <1>0, <1>1, <2>1, RoomsAfterLeave
      <4>2. RoomAfter(p, h).clients = Erase(RoomOf(p).clients, p)
        BY <1>0, <1>2, RoomAfterLeave
      <4> QED BY <1>2, <4>1, <4>2
    <3>2. DOMAIN Erase(rooms[c].clients, p) = DOMAIN rooms[c].clients \ {p}
      BY <1>0, ErasedMember
    <3> QED BY <2>1, <3>1, <3>2 DEF Departs
  <2>2. CASE c \notin DOMAIN rooms'
    <3>1. Closes(p, h)
      BY <1>0, <2>2, RoomsAfterLeave
    <3> QED BY <1>2, <2>2, <3>1 DEF Closes, HostLeaves
  <2> QED BY <2>1, <2>2
<1>4. rooms[c].clients[x] = clients[p].id
  BY <1>0, <1>2, <1>3 DEF IdCurrent
<1> QED BY <1>2, <1>3, <1>4

\* The first of the messages of handleRoomLeave to a member that stays behind.
LEMMA LeaveMessageTold ==
  ASSUME NEW p, NEW h, InARoom(p), RoomOf(p).host = p => ~RoomOf(p).canHostMigrate,
         NEW q \in Remaining(p) \cap DOMAIN clients, q \in Peers
  PROVE  /\ 1 \in DOMAIN LeaveMessages(p, h)[q]
         /\ LeaveMessages(p, h)[q][1] = [type |-> "PLAYER_LEFT", id |-> clients[p].id]
<1>1. CASE RoomOf(p).host = p
  <2>1. q \in Evicted(p)
    BY <1>1 DEF Evicted, HostLeaves
  <2> QED BY <2>1 DEF LeaveMessages
<1>2. CASE RoomOf(p).host # p
  <2>1. Evicted(p) = {} /\ ~Migrates(p) /\ ~HostLeaves(p)
    BY <1>2 DEF Evicted, Migrates, HostLeaves
  <2> QED BY <2>1 DEF LeaveMessages
<1> QED BY <1>1, <1>2

\* It is enough that the others get the messages of p's leave.
LEMMA LeaveTold ==
  ASSUME IInv, IdCurrent, NEW p, NEW h, Leaves(p, h),
         \A q \in Connected \ {p} : out'[q] = LeaveMessages(p, h)[q]
  PROVE  Told
<1> SUFFICES ASSUME NEW c \in DOMAIN rooms, NEW x \in DOMAIN rooms[c].clients,
                    Departs(x, c),
                    IF rooms[c].host = x THEN ~rooms[c].canHostMigrate ELSE c \in DOMAIN rooms',
                    NEW q \in (DOMAIN rooms[c].clients \cap Connected) \ {x}
             PROVE  ToldOfDeparture(q, rooms[c].clients[x])
  BY DEF Told, OthersTold
<1>1. /\ x = p /\ InARoom(p) /\ RoomOf(p) = rooms[c]
      /\ rooms[c].clients[x] = clients[p].id
      /\ rooms[c].host = p => ~rooms[c].canHostMigrate
  BY WhoDeparts
<1>2. q \in Remaining(p) \cap DOMAIN clients /\ q \in Peers
  BY <1>1 DEF Remaining, Connected, IInv, TypeOK
<1>3. /\ 1 \in DOMAIN LeaveMessages(p, h)[q]
      /\ LeaveMessages(p, h)[q][1] = [type |-> "PLAYER_LEFT", id |-> clients[p].id]
  BY <1>1, <1>2, LeaveMessageTold
<1>4. out'[q] = LeaveMessages(p, h)[q]
  BY <1>1
<1> QED BY <1>1, <1>3, <1>4 DEF ToldOfDeparture

LEMMA StepsTell ==
  ASSUME IInv, IdCurrent, Steps
  PROVE  Told
<1>0. TypeOK /\ Connected \subseteq Peers
  BY DEF IInv, TypeOK, Connected
<1>1. ASSUME NEW p \in Peers, Disconnect(p)
      PROVE  Told
  <2>1. PICK h : /\ Leaves(p, h)
                 /\ Send(LeaveMessages(p, h), Connected \ {p})
    BY <1>1 DEF Disconnect, Leaves
  <2> QED BY <1>0, <2>1, LeaveTold DEF Send
<1>2. ASSUME NEW p \in Connected, HandleRoomLeave(p)
      PROVE  Told
  <2>1. PICK h : Leaves(p, h) /\ Send(LeaveMessages(p, h), Connected)
    BY <1>2 DEF HandleRoomLeave, Leaves, Connected, clientIdVars
  <2> QED BY <1>0, <2>1, LeaveTold DEF Send
<1>3. ASSUME NEW p \in Connected, Kick(p)
      PROVE  Told
  <2> DEFINE kicked == ErrorMessage("You have been kicked from the room")
             msgs(t, h) == [q \in Peers |-> (IF q = t THEN <<kicked>> ELSE << >>)
                                              \o LeaveMessages(t, h)[q]]
  <2>1. PICK t, h : Leaves(t, h) /\ Send(msgs(t, h), Connected)
    BY <1>3 DEF Kick, HandleKickClient, Leaves, clientIdVars
  <2>2. ASSUME NEW q \in Connected \ {t}
        PROVE  out'[q] = LeaveMessages(t, h)[q]
    <3>1. out'[q] = << >> \o LeaveMessages(t, h)[q]
      BY <1>0, <2>1, <2>2 DEF Send
    <3>2. LeaveMessages(t, h)[q] \in Seq(Message)
      BY <1>0, <2>1, LeaveMessagesType DEF Leaves
    <3> QED BY <3>1, <3>2
  <2> QED BY <2>1, <2>2, LeaveTold
<1>4. ASSUME NEW p \in Connected, Create(p) \/ Enter(p) \/ Set(p)
      PROVE  Told
  <2>1. \A c \in DOMAIN rooms : c \in DOMAIN rooms' /\
          DOMAIN rooms[c].clients \subseteq DOMAIN rooms'[c].clients
    <3>1. CASE Create(p)
      BY <3>1 DEF Create, CreateRoom, Put
    <3>2. CASE Enter(p)
      <4>1. PICK code \in DOMAIN rooms :
              rooms' = [rooms EXCEPT ![code].clients =
                          Put(rooms[code].clients, p, clients[p].id)]
        BY <3>2 DEF Enter, EnterRoom
      <4>2. rooms[code] \in Room
        BY <1>0 DEF TypeOK
      <4> QED BY <4>1, <4>2 DEF Put, Room
    <3>3. CASE Set(p)
      BY <3>3 DEF Set, SetRoom, SameRoomBut, RoomOf, HostsItsRoom, InARoom
    <3> QED BY <1>4, <3>1, <3>2, <3>3
  <2> QED BY <2>1 DEF Told, Departs
<1>5. ASSUME NEW p, RefuseSome(p) \/ \E protocol : Connect(p, protocol)
      PROVE  Told
  BY <1>5 DEF RefuseSome, Refuse, Connect, Told, Departs
<1> QED BY <1>1, <1>2, <1>3, <1>4, <1>5 DEF Steps

\* Whatever the peers do, when a client leaves a room that stays and keeps its
\* host, or a host closes its room, every other member ENet can reach is told in
\* the same step, by the identifier the room has of who left.
THEOREM DepartureAlwaysTold == Spec => DepartureTold
<1>1. Init => IdCurrent
  BY DEF Init, IdCurrent
<1>2. IInv /\ IdCurrent /\ [Next]_vars => IdCurrent' /\ [Told]_vars
  <2> SUFFICES ASSUME IInv, IdCurrent, [Next]_vars PROVE IdCurrent' /\ [Told]_vars
    OBVIOUS
  <2>1. CASE Next
    BY <2>1, NextSteps, StepsKeepIdCurrent, StepsTell DEF IInv
  <2>2. CASE UNCHANGED vars
    BY <2>2 DEF vars, IdCurrent, InARoom, RoomOf
  <2> QED BY <2>1, <2>2
<1> QED BY <1>1, <1>2, InitInv, NextInv, PTL DEF Spec, DepartureTold, Told
=============================================================================
