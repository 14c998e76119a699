-------------------------- MODULE YNetRooms_proofs --------------------------
(***************************************************************************)
(* Proofs about YNetServer with clients that leave a room before they      *)
(* enter another one: the server's two records of who is where agree, room *)
(* identifiers never run out, and the server implements the lobby.         *)
(***************************************************************************)
EXTENDS YNetServer_proofs

\* The steps of a server whose clients leave a room before they enter another:
\* who creates or enters a room is in none.
FreeSteps ==
  \/ \E p \in Peers : Disconnect(p) \/ \E protocol \in Protocols : Connect(p, protocol)
  \/ \E p \in Connected :
       \/ RefuseSome(p) \/ HandleRoomLeave(p) \/ Kick(p) \/ Set(p)
       \/ Create(p) /\ clients[p].currentRoom = NoCode
       \/ Enter(p) /\ clients[p].currentRoom = NoCode

LEMMA StepsAreFree ==
  ASSUME LeaveFirst, Steps
  PROVE  FreeSteps
BY DEF Steps, FreeSteps, Create, Enter, MayEnter

-----------------------------------------------------------------------------
(***************************************************************************)
(* What a leave does, when the records agree before it.                    *)
(***************************************************************************)
\* A client that is being disconnected is in no room.
ClosingAreOut == \A p \in closing : clients[p].currentRoom = NoCode

Placed == MembershipAgrees /\ NoDanglingRoom /\ ProtocolUniform /\ ClosingAreOut

\* Everybody is out of a room that closes, and nobody else is put out.
LEMMA LeavePlaces ==
  ASSUME TypeOK, Placed, NEW p \in DOMAIN clients, NEW h \in Heirs(p),
         NEW q \in DOMAIN clients
  PROVE  /\ ClientsAfter(p)[q].protocolVersion = clients[q].protocolVersion
         /\ IF q = p \/ (Closes(p, h) /\ clients[q].currentRoom = clients[p].currentRoom)
              THEN ClientsAfter(p)[q].currentRoom = NoCode
              ELSE ClientsAfter(p)[q] = clients[q] /\ q \notin Evicted(p)
<1> DEFINE cur == clients[p].currentRoom
<1>1. clients[q] \in Client /\ q \in Peers
  BY DEF TypeOK
<1>2. /\ ClientsAfter(p)[q].protocolVersion = clients[q].protocolVersion
      /\ IF q = p \/ q \in Evicted(p)
           THEN ClientsAfter(p)[q].currentRoom = NoCode
           ELSE ClientsAfter(p)[q] = clients[q]
  BY <1>1 DEF ClientsAfter, Client
<1>3. InARoom(p) => (q \in DOMAIN RoomOf(p).clients <=> clients[q].currentRoom = cur)
  BY <1>1 DEF InARoom, RoomOf, Placed, MembershipAgrees
<1>4. Migrates(p) => h \in DOMAIN clients
  <2>1. h \in Peers
    BY HeirStays
  <2> QED BY <2>1 DEF Heirs, Migrates, HostLeaves, InARoom, Remaining, RoomOf, Placed,
                      MembershipAgrees
<1>5. Closes(p, h) <=> HostLeaves(p) /\ ~Migrates(p)
  BY <1>4 DEF Closes
<1>6. q # p => (q \in Evicted(p) <=> Closes(p, h) /\ clients[q].currentRoom = cur)
  BY <1>3, <1>5 DEF Evicted, Migrates, HostLeaves, Remaining
<1> QED BY <1>2, <1>6

-----------------------------------------------------------------------------
(***************************************************************************)
(* The records agree.                                                      *)
(***************************************************************************)
LEMMA LeaveKeepsPlaced ==
  ASSUME TypeOK, Placed, NEW p, NEW h, Leaves(p, h), Stays(p) \/ Goes(p)
  PROVE  Placed'
<1> DEFINE cur == clients[p].currentRoom
<1>0. p \in DOMAIN clients /\ h \in Heirs(p) /\ p \in Peers /\ NoCode \notin Codes
  BY ServerAssumption DEF Leaves, TypeOK
<1>1. /\ DOMAIN rooms \subseteq Codes
      /\ DOMAIN rooms' = IF Closes(p, h) THEN DOMAIN rooms \ {cur} ELSE DOMAIN rooms
      /\ \A c \in DOMAIN rooms' \ {cur} : rooms'[c] = rooms[c]
  <2>1. rooms' = RoomsAfter(p, h)
    BY DEF Leaves
  <2> QED BY <1>0, <2>1, RoomsAfterLeave DEF TypeOK
<1>2. ASSUME cur \in DOMAIN rooms'
      PROVE  /\ cur \in DOMAIN rooms /\ ~Closes(p, h)
             /\ rooms'[cur].roomId = rooms[cur].roomId
             /\ rooms'[cur].protocol = rooms[cur].protocol
             /\ DOMAIN rooms'[cur].clients = DOMAIN rooms[cur].clients \ {p}
             /\ \A q \in DOMAIN rooms'[cur].clients :
                  rooms'[cur].clients[q] = rooms[cur].clients[q]
  <2>1. InARoom(p) /\ ~Closes(p, h) /\ rooms'[cur] = RoomAfter(p, h)
    BY <1>0, <1>2, RoomsAfterLeave DEF Leaves
  <2>2. RoomOf(p) = rooms[cur] /\ cur \in DOMAIN rooms
    BY <2>1 DEF InARoom, RoomOf
  <2>3. /\ rooms[cur] \in Room
        /\ rooms'[cur].clients = Erase(rooms[cur].clients, p)
        /\ rooms'[cur].roomId = rooms[cur].roomId
        /\ rooms'[cur].protocol = rooms[cur].protocol
    BY <1>0, <2>1, <2>2, RoomAfterLeave
  <2>4. /\ DOMAIN rooms'[cur].clients = DOMAIN rooms[cur].clients \ {p}
        /\ \A q \in DOMAIN rooms[cur].clients \ {p} :
             rooms'[cur].clients[q] = rooms[cur].clients[q]
    <3>1. /\ DOMAIN Erase(rooms[cur].clients, p) = DOMAIN rooms[cur].clients \ {p}
          /\ \A q \in DOMAIN rooms[cur].clients \ {p} :
               Erase(rooms[cur].clients, p)[q] = rooms[cur].clients[q]
      BY <2>3, ErasedMember
    <3> QED BY <2>3, <3>1
  <2> QED BY <2>1, <2>2, <2>3, <2>4
<1>3. /\ DOMAIN clients' \subseteq DOMAIN clients
      /\ \A q \in DOMAIN clients \ {p} : q \in DOMAIN clients'
      /\ \A q \in DOMAIN clients' : clients'[q] = ClientsAfter(p)[q]
  <2>1. DOMAIN ClientsAfter(p) = DOMAIN clients
    BY <1>0, ClientsAfterType
  <2> QED BY <2>1 DEF Stays, Goes, Erase, Restrict
<1>4. \A q \in DOMAIN clients' :
        /\ clients'[q].protocolVersion = clients[q].protocolVersion
        /\ IF q = p \/ (Closes(p, h) /\ clients[q].currentRoom = cur)
             THEN clients'[q].currentRoom = NoCode
             ELSE clients'[q] = clients[q] /\ q \notin Evicted(p)
  BY <1>0, <1>3, LeavePlaces
<1>5. ASSUME NEW q \in Peers, NEW c \in DOMAIN rooms'
      PROVE  /\ q \in DOMAIN rooms'[c].clients <=>
                  q \in DOMAIN clients' /\ clients'[q].currentRoom = c
             /\ q \in DOMAIN rooms'[c].clients =>
                  /\ rooms'[c].clients[q] = clients'[q].id
                  /\ rooms'[c].roomId = clients'[q].roomId
                  /\ clients'[q].protocolVersion = rooms'[c].protocol
  <2>1. /\ c \in DOMAIN rooms /\ c # NoCode
        /\ q \in DOMAIN rooms[c].clients <=>
             q \in DOMAIN clients /\ clients[q].currentRoom = c
        /\ q \in DOMAIN rooms[c].clients =>
             /\ rooms[c].clients[q] = clients[q].id
             /\ rooms[c].roomId = clients[q].roomId
             /\ clients[q].protocolVersion = rooms[c].protocol
    BY <1>0, <1>1, <1>5 DEF Placed, MembershipAgrees, ProtocolUniform
  <2>2. CASE c # cur
    <3>1. rooms'[c] = rooms[c]
      BY <1>1, <2>2
    <3> QED BY <1>3, <1>4, <2>1, <2>2, <3>1
  <2>3. CASE c = cur
    BY <1>2, <1>3, <1>4, <2>1, <2>3
  <2> QED BY <2>2, <2>3
<1>6. NoDanglingRoom'
  BY <1>1, <1>3, <1>4 DEF Placed, NoDanglingRoom
<1>7. ClosingAreOut'
  <2>1. /\ closing' \subseteq closing \cup Evicted(p) \cup {p}
        /\ closing' \subseteq DOMAIN clients'
    BY <1>0, <1>3, ClientsAfterType DEF Stays, Goes, TypeOK, Erase, Restrict
  <2> QED BY <1>4, <2>1 DEF Placed, ClosingAreOut
<1>8. \A c \in DOMAIN rooms' : DOMAIN rooms'[c].clients \subseteq Peers
  BY <1>0, <1>1, <1>2, RoomClients DEF TypeOK
<1> QED BY <1>5, <1>6, <1>7, <1>8 DEF Placed, MembershipAgrees, ProtocolUniform

LEMMA CreateKeepsPlaced ==
  ASSUME TypeOK, Placed, NEW p \in Connected, Create(p), clients[p].currentRoom = NoCode
  PROVE  Placed'
<1>0. p \in DOMAIN clients /\ p \notin closing /\ NoCode \notin Codes
  BY ServerAssumption DEF Connected
<1>1. PICK code \in Codes \ DOMAIN rooms, password \in Passwords :
        CreateRoom(p, code, password)
  BY DEF Create
<1>2. CASE UNCHANGED <<clients, closing, rooms>>
  BY <1>2 DEF Placed, MembershipAgrees, NoDanglingRoom, ProtocolUniform, ClosingAreOut
<1>3. CASE ~UNCHANGED <<clients, closing, rooms>>
  <2>1. PICK id \in RoomIds :
          /\ rooms' = Put(rooms, code, NewRoom(p, id, password))
          /\ clients' = [clients EXCEPT ![p].currentRoom = code, ![p].roomId = id]
          /\ closing' = closing
    BY <1>1, <1>3 DEF CreateRoom
  <2>2. /\ DOMAIN rooms' = DOMAIN rooms \cup {code}
        /\ \A c \in DOMAIN rooms : rooms'[c] = rooms[c]
        /\ rooms'[code].roomId = id
        /\ rooms'[code].protocol = clients[p].protocolVersion
        /\ DOMAIN rooms'[code].clients = {p}
        /\ rooms'[code].clients[p] = clients[p].id
    BY <1>1, <2>1 DEF Put, NewRoom
  <2>3. /\ DOMAIN clients' = DOMAIN clients
        /\ \A q \in DOMAIN clients \ {p} : clients'[q] = clients[q]
        /\ clients'[p].currentRoom = code /\ clients'[p].roomId = id
        /\ clients'[p].id = clients[p].id
        /\ clients'[p].protocolVersion = clients[p].protocolVersion
    BY <1>0, <2>1 DEF TypeOK, Client
  <2>4. \A q \in DOMAIN clients : clients[q].currentRoom # code
    BY <1>0, <1>1 DEF Placed, NoDanglingRoom
  <2>5. clients[p].currentRoom = NoCode
    OBVIOUS
  <2>6. MembershipAgrees'
    <3> SUFFICES ASSUME NEW q \in Peers, NEW c \in DOMAIN rooms'
                 PROVE  /\ q \in DOMAIN rooms'[c].clients <=>
                             q \in DOMAIN clients' /\ clients'[q].currentRoom = c
                        /\ q \in DOMAIN rooms'[c].clients =>
                             /\ rooms'[c].clients[q] = clients'[q].id
                             /\ rooms'[c].roomId = clients'[q].roomId
      BY DEF MembershipAgrees
    <3>1. CASE c = code
      BY <1>0, <2>2, <2>3, <2>4, <3>1
    <3>2. CASE c # code
      <4>1. c \in DOMAIN rooms /\ rooms'[c] = rooms[c] /\ c # NoCode
        BY <1>0, <2>2, <3>2 DEF TypeOK
      <4> QED BY <1>0, <2>3, <2>5, <3>2, <4>1 DEF Placed, MembershipAgrees
    <3> QED BY <3>1, <3>2
  <2>7. ProtocolUniform'
    <3> SUFFICES ASSUME NEW c \in DOMAIN rooms', NEW q \in DOMAIN rooms'[c].clients
                 PROVE  clients'[q].protocolVersion = rooms'[c].protocol
      BY DEF ProtocolUniform
    <3>1. CASE c = code
      BY <2>2, <2>3, <3>1
    <3>2. CASE c # code
      <4>1. c \in DOMAIN rooms /\ rooms'[c] = rooms[c] /\ c # NoCode /\ q \in Peers
        BY <1>0, <2>2, <3>2, RoomClients DEF TypeOK
      <4>2. q \in DOMAIN clients \ {p}
        BY <2>5, <4>1 DEF Placed, MembershipAgrees
      <4> QED BY <2>3, <4>1, <4>2 DEF Placed, ProtocolUniform
    <3> QED BY <3>1, <3>2
  <2>8. NoDanglingRoom' /\ ClosingAreOut'
    BY <1>0, <2>1, <2>2, <2>3 DEF TypeOK, Placed, NoDanglingRoom, ClosingAreOut
  <2> QED BY <2>6, <2>7, <2>8 DEF Placed
<1> QED BY <1>2, <1>3

LEMMA EnterKeepsPlaced ==
  ASSUME TypeOK, Placed, NEW p \in Connected, Enter(p), clients[p].currentRoom = NoCode
  PROVE  Placed'
<1>0. p \in DOMAIN clients /\ p \notin closing /\ NoCode \notin Codes
  BY ServerAssumption DEF Connected
<1>1. PICK code \in DOMAIN rooms : Admissible(p, rooms[code]) /\ EnterRoom(p, code)
  BY DEF Enter
<1>2. /\ rooms[code] \in Room /\ code # NoCode
      /\ rooms[code].protocol = clients[p].protocolVersion
  BY <1>0, <1>1 DEF TypeOK, Admissible
<1>3. /\ DOMAIN rooms' = DOMAIN rooms
      /\ \A c \in DOMAIN rooms \ {code} : rooms'[c] = rooms[c]
      /\ rooms'[code].roomId = rooms[code].roomId
      /\ rooms'[code].protocol = rooms[code].protocol
      /\ rooms'[code].clients = Put(rooms[code].clients, p, clients[p].id)
  BY <1>1, <1>2 DEF EnterRoom, Room
<1>4. /\ DOMAIN rooms'[code].clients = DOMAIN rooms[code].clients \cup {p}
      /\ rooms'[code].clients[p] = clients[p].id
      /\ \A q \in DOMAIN rooms[code].clients \ {p} :
           rooms'[code].clients[q] = rooms[code].clients[q]
  BY <1>3 DEF Put
<1>5. /\ DOMAIN clients' = DOMAIN clients /\ closing' = closing
      /\ \A q \in DOMAIN clients \ {p} : clients'[q] = clients[q]
      /\ clients'[p].currentRoom = code /\ clients'[p].roomId = rooms[code].roomId
      /\ clients'[p].id = clients[p].id
      /\ clients'[p].protocolVersion = clients[p].protocolVersion
  BY <1>0, <1>1 DEF EnterRoom, TypeOK, Client
<1>6. clients[p].currentRoom = NoCode
  OBVIOUS
<1>7. MembershipAgrees'
  <2> SUFFICES ASSUME NEW q \in Peers, NEW c \in DOMAIN rooms'
               PROVE  /\ q \in DOMAIN rooms'[c].clients <=>
                           q \in DOMAIN clients' /\ clients'[q].currentRoom = c
                      /\ q \in DOMAIN rooms'[c].clients =>
                           /\ rooms'[c].clients[q] = clients'[q].id
                           /\ rooms'[c].roomId = clients'[q].roomId
    BY DEF MembershipAgrees
  <2>1. c \in DOMAIN rooms /\ c # NoCode
    BY <1>0, <1>3 DEF TypeOK
  <2>2. CASE c = code
    BY <1>0, <1>3, <1>4, <1>5, <2>1, <2>2 DEF Placed, MembershipAgrees
  <2>3. CASE c # code
    BY <1>0, <1>3, <1>5, <1>6, <2>1, <2>3 DEF Placed, MembershipAgrees
  <2> QED BY <2>2, <2>3
<1>8. ProtocolUniform'
  <2> SUFFICES ASSUME NEW c \in DOMAIN rooms', NEW q \in DOMAIN rooms'[c].clients
               PROVE  clients'[q].protocolVersion = rooms'[c].protocol
    BY DEF ProtocolUniform
  <2>1. CASE c = code /\ q = p
    BY <1>2, <1>3, <1>5, <2>1
  <2>2. CASE ~(c = code /\ q = p)
    <3>1. q \in DOMAIN rooms[c].clients /\ rooms'[c].protocol = rooms[c].protocol
      BY <1>3, <1>4, <2>2
    <3>2. q \in DOMAIN clients
      BY <1>3, <3>1, RoomClients DEF TypeOK, Placed, MembershipAgrees
    <3> QED BY <1>3, <1>5, <3>1, <3>2 DEF Placed, ProtocolUniform
  <2> QED BY <2>1, <2>2
<1>9. NoDanglingRoom' /\ ClosingAreOut'
  <2>1. NoDanglingRoom'
    BY <1>1, <1>3, <1>5 DEF Placed, NoDanglingRoom
  <2>2. ClosingAreOut'
    BY <1>0, <1>5 DEF TypeOK, Placed, ClosingAreOut
  <2> QED BY <2>1, <2>2
<1> QED BY <1>7, <1>8, <1>9 DEF Placed

\* The steps that change neither record.
LEMMA OthersKeepPlaced ==
  ASSUME TypeOK, Placed, NEW p \in Peers,
         RefuseSome(p) \/ Set(p) \/ \E protocol : Connect(p, protocol)
  PROVE  Placed'
<1>1. CASE RefuseSome(p)
  BY <1>1 DEF RefuseSome, Refuse, Placed, MembershipAgrees, NoDanglingRoom,
              ProtocolUniform, ClosingAreOut
<1>2. CASE Set(p)
  <2>1. /\ DOMAIN rooms' = DOMAIN rooms
        /\ \A c \in DOMAIN rooms : /\ rooms'[c].clients = rooms[c].clients
                                    /\ rooms'[c].roomId = rooms[c].roomId
                                    /\ rooms'[c].protocol = rooms[c].protocol
        /\ UNCHANGED <<clients, closing>>
    BY <1>2 DEF Set, SetRoom, SameRoomBut, RoomOf
  <2> QED BY <2>1 DEF Placed, MembershipAgrees, NoDanglingRoom, ProtocolUniform, ClosingAreOut
<1>3. ASSUME NEW protocol, Connect(p, protocol)
      PROVE  Placed'
  <2>1. /\ p \notin DOMAIN clients /\ UNCHANGED <<rooms, closing>>
        /\ DOMAIN clients' = DOMAIN clients \cup {p}
        /\ clients'[p].currentRoom = NoCode
        /\ \A q \in DOMAIN clients : clients'[q] = clients[q]
    BY <1>3 DEF Connect, Put
  <2>2. NoCode \notin DOMAIN rooms /\ closing \subseteq DOMAIN clients
    BY ServerAssumption DEF TypeOK
  <2>3. \A c \in DOMAIN rooms : DOMAIN rooms[c].clients \subseteq DOMAIN clients
    BY RoomClients DEF TypeOK, Placed, MembershipAgrees
  <2> QED BY <2>1, <2>2, <2>3 DEF Placed, MembershipAgrees, NoDanglingRoom,
                                  ProtocolUniform, ClosingAreOut
<1> QED BY <1>1, <1>2, <1>3

LEMMA StepsKeepPlaced ==
  ASSUME TypeOK, Placed, FreeSteps
  PROVE  Placed'
<1>1. \A p \in Connected : p \in Peers
  BY DEF Connected, TypeOK
<1> QED BY <1>1, LeaveSteps, LeaveKeepsPlaced, CreateKeepsPlaced, EnterKeepsPlaced,
           OthersKeepPlaced DEF FreeSteps

-----------------------------------------------------------------------------
(***************************************************************************)
(* A room identifier is free whenever a client creates a room: every room  *)
(* has a host in it, no client is in two rooms, and the creator is in none. *)
(***************************************************************************)
EnoughRoomIds == Cardinality(Peers) <= MaxRoomId + 1

LEMMA RoomIdFree ==
  ASSUME IInv, Placed, EnoughRoomIds, NEW p \in Peers,
         p \in DOMAIN clients => clients[p].currentRoom = NoCode
  PROVE  usedRoomIds # RoomIds
<1> SUFFICES ASSUME usedRoomIds = RoomIds PROVE FALSE
  OBVIOUS
<1> DEFINE code(i) == CHOOSE c \in DOMAIN rooms : rooms[c].roomId = i
           host    == [i \in RoomIds |-> rooms[code(i)].host]
<1>1. ASSUME NEW i \in RoomIds
      PROVE  code(i) \in DOMAIN rooms /\ rooms[code(i)].roomId = i
  <2>1. \E c \in DOMAIN rooms : rooms[c].roomId = i
    BY DEF IInv, RoomIdsExact
  <2> QED BY <2>1
<1>2. ASSUME NEW i \in RoomIds
      PROVE  /\ host[i] \in Peers \ {p}
             /\ clients[host[i]].currentRoom = code(i)
  <2>1. host[i] = rooms[code(i)].host /\ code(i) \in DOMAIN rooms
    BY <1>1
  <2> HIDE DEF host, code
  <2>2. host[i] \in DOMAIN rooms[code(i)].clients /\ code(i) # NoCode /\ host[i] \in Peers
    BY <2>1, RoomClients, ServerAssumption DEF IInv, TypeOK, HostIsMember
  <2> QED BY <2>1, <2>2 DEF Placed, MembershipAgrees
<1>3. host \in [RoomIds -> Peers \ {p}]
  BY <1>2
<1>4. /\ IsFiniteSet(RoomIds) /\ IsFiniteSet(Peers \ {p})
      /\ Cardinality(Peers \ {p}) < Cardinality(RoomIds)
  <2>1. MaxRoomId \in Nat /\ IsFiniteSet(Peers) /\ Cardinality(Peers) \in Nat
    BY ServerAssumption, EnoughClientIds, FS_CardinalityType
  <2>2. IsFiniteSet(RoomIds) /\ Cardinality(RoomIds) = MaxRoomId + 1
    BY <2>1, FS_Interval DEF RoomIds
  <2>3. IsFiniteSet(Peers \ {p}) /\ Cardinality(Peers \ {p}) = Cardinality(Peers) - 1
    BY <2>1, FS_RemoveElement
  <2> QED BY <2>1, <2>2, <2>3 DEF EnoughRoomIds
<1> HIDE DEF host
<1>5. PICK i \in RoomIds, j \in RoomIds : i # j /\ host[i] = host[j]
  BY <1>3, <1>4, FS_PigeonHole
<1>6. code(i) = code(j)
  BY <1>2, <1>5
<1> HIDE DEF code
<1> QED BY <1>1, <1>5, <1>6

LEMMA StepsNeverHang ==
  ASSUME IInv, Placed, EnoughRoomIds, NeverHangs, FreeSteps
  PROVE  NeverHangs'
<1>1. ASSUME NEW p \in Connected, Create(p), clients[p].currentRoom = NoCode
      PROVE  hung' = hung
  <2>1. p \in Peers /\ clients[p].currentRoom = NoCode
    BY <1>1 DEF IInv, TypeOK, Connected
  <2>2. usedRoomIds # RoomIds
    BY <2>1, RoomIdFree
  <2> QED BY <1>1, <2>2 DEF Create, CreateRoom
<1>2. ASSUME NEW p, \/ \E h : Leaves(p, h)
                     \/ RefuseSome(p) \/ Enter(p) \/ Set(p)
                     \/ \E protocol : Connect(p, protocol)
      PROVE  hung' = hung
  BY <1>2 DEF Leaves, RefuseSome, Refuse, Enter, EnterRoom, Set, SetRoom, Connect
<1> QED BY <1>1, <1>2, LeaveSteps DEF FreeSteps, NeverHangs

-----------------------------------------------------------------------------
(***************************************************************************)
(* The invariant, and what follows from it.                                *)
(***************************************************************************)
PlacedInv == IInv /\ Placed

LEMMA PlacedInit ==
  Init => PlacedInv
<1> SUFFICES ASSUME Init PROVE Placed
  BY InitInv DEF PlacedInv
<1>1. DOMAIN clients = {} /\ DOMAIN rooms = {} /\ closing = {}
  BY DEF Init
<1> QED BY <1>1 DEF Placed, MembershipAgrees, NoDanglingRoom, ProtocolUniform, ClosingAreOut

LEMMA PlacedNext ==
  ASSUME LeaveFirst
  PROVE  PlacedInv /\ [Next]_vars => PlacedInv'
<1> SUFFICES ASSUME PlacedInv, [Next]_vars PROVE Placed'
  BY NextInv DEF PlacedInv
<1>1. CASE Next
  BY <1>1, NextSteps, StepsAreFree, StepsKeepPlaced DEF PlacedInv, IInv
<1>2. CASE UNCHANGED vars
  BY <1>2 DEF vars, PlacedInv, Placed, MembershipAgrees, NoDanglingRoom,
              ProtocolUniform, ClosingAreOut
<1> QED BY <1>1, <1>2

LEMMA PlacedMeans ==
  ASSUME PlacedInv
  PROVE  /\ MembershipAgrees /\ NoDanglingRoom /\ ProtocolUniform
         /\ MembersReachable /\ NoAbandonedRoom
<1>1. NoCode \notin DOMAIN rooms
  BY ServerAssumption DEF PlacedInv, IInv, TypeOK
<1>2. ASSUME NEW c \in DOMAIN rooms, NEW p \in DOMAIN rooms[c].clients
      PROVE  p \in DOMAIN clients /\ clients[p].currentRoom = c /\ p \notin closing
  <2>1. p \in Peers
    BY RoomClients DEF PlacedInv, IInv, TypeOK
  <2> QED BY <1>1, <2>1 DEF PlacedInv, Placed, MembershipAgrees, ClosingAreOut
<1>3. MembersReachable
  BY <1>2 DEF MembersReachable, Connected
<1>4. NoAbandonedRoom
  BY <1>2 DEF NoAbandonedRoom, PlacedInv, IInv, HostIsMember
<1> QED BY <1>3, <1>4 DEF PlacedInv, Placed

\* When clients leave a room before they enter another one, the list of clients
\* of every room and the rooms the Clients name agree, through every leave,
\* kick, migration, closing and disconnection.
THEOREM MembershipAlwaysAgrees ==
  ASSUME LeaveFirst
  PROVE  Spec => []MembershipAgrees
<1>1. PlacedInv => MembershipAgrees
  BY PlacedMeans
<1> QED BY <1>1, PlacedInit, PlacedNext, PTL DEF Spec

\* When clients leave a room before they enter another one, no Client names a
\* room that has been removed.
THEOREM NeverDangling ==
  ASSUME LeaveFirst
  PROVE  Spec => []NoDanglingRoom
<1>1. PlacedInv => NoDanglingRoom
  BY PlacedMeans
<1> QED BY <1>1, PlacedInit, PlacedNext, PTL DEF Spec

\* When clients leave a room before they enter another one, every member of a
\* room is connected: none has gone and none is being disconnected.
THEOREM MembersAlwaysReachable ==
  ASSUME LeaveFirst
  PROVE  Spec => []MembersReachable
<1>1. PlacedInv => MembersReachable
  BY PlacedMeans
<1> QED BY <1>1, PlacedInit, PlacedNext, PTL DEF Spec

\* When clients leave a room before they enter another one, the members of a
\* room have its protocol version, so that broadcastMessage may look at the
\* sender's only.
THEOREM ProtocolAlwaysUniform ==
  ASSUME LeaveFirst
  PROVE  Spec => []ProtocolUniform
<1>1. PlacedInv => ProtocolUniform
  BY PlacedMeans
<1> QED BY <1>1, PlacedInit, PlacedNext, PTL DEF Spec

\* When clients leave a room before they enter another one, somebody is in every
\* room there is.
THEOREM NeverAbandoned ==
  ASSUME LeaveFirst
  PROVE  Spec => []NoAbandonedRoom
<1>1. PlacedInv => NoAbandonedRoom
  BY PlacedMeans
<1> QED BY <1>1, PlacedInit, PlacedNext, PTL DEF Spec

\* When clients leave a room before they enter another one, and there are at
\* least as many room identifiers as peers, the search of generateRoomId always
\* ends: the server never hangs.
THEOREM ServerNeverHangs ==
  ASSUME LeaveFirst, EnoughRoomIds
  PROVE  Spec => []NeverHangs
<1>1. Init => NeverHangs
  BY DEF Init, NeverHangs
<1>2. PlacedInv /\ NeverHangs /\ [Next]_vars => NeverHangs'
  <2> SUFFICES ASSUME PlacedInv, NeverHangs, [Next]_vars PROVE NeverHangs'
    OBVIOUS
  <2>1. CASE Next
    BY <2>1, NextSteps, StepsAreFree, StepsNeverHang DEF PlacedInv, IInv
  <2>2. CASE UNCHANGED vars
    BY <2>2 DEF vars, NeverHangs
  <2> QED BY <2>1, <2>2
<1> QED BY <1>1, <1>2, PlacedInit, PlacedNext, PTL DEF Spec

-----------------------------------------------------------------------------
(***************************************************************************)
(* What no step may do: close a migrating room over its members' heads, or *)
(* keep whom it kicks.                                                     *)
(***************************************************************************)
NoEarlyClose ==
  \A c \in DOMAIN rooms \ DOMAIN rooms' :
    rooms[c].canHostMigrate =>
      DOMAIN rooms[c].clients \cap DOMAIN clients' \subseteq {rooms[c].host}

LEMMA LeaveKeepsMigrating ==
  ASSUME PlacedInv, NEW p, NEW h, Leaves(p, h)
  PROVE  NoEarlyClose
<1> SUFFICES ASSUME NEW c \in DOMAIN rooms \ DOMAIN rooms', rooms[c].canHostMigrate
             PROVE  DOMAIN rooms[c].clients \subseteq {rooms[c].host}
  BY DEF NoEarlyClose
<1>0. TypeOK /\ p \in DOMAIN clients /\ h \in Heirs(p) /\ rooms' = RoomsAfter(p, h)
  BY DEF Leaves, PlacedInv, IInv
<1>1. Closes(p, h) /\ c = clients[p].currentRoom
  BY <1>0, RoomsAfterLeave
<1>2. RoomOf(p) = rooms[c] /\ InARoom(p) /\ rooms[c].host = p
  BY <1>1 DEF RoomOf, Closes, HostLeaves, InARoom
<1>3. ~Migrates(p)
  <2>1. SUFFICES ASSUME Migrates(p) PROVE h \in DOMAIN clients
    BY <1>1 DEF Closes
  <2>2. h \in Peers /\ h \in DOMAIN rooms[c].clients
    BY <1>0, <1>2, <2>1, HeirStays DEF Heirs, Remaining
  <2> QED BY <2>2 DEF PlacedInv, Placed, MembershipAgrees
<1> QED BY <1>1, <1>2, <1>3 DEF Migrates, Closes, Remaining

LEMMA StepsKeepMigrating ==
  ASSUME PlacedInv, Steps
  PROVE  NoEarlyClose
<1>1. ASSUME NEW p, Create(p) \/ Enter(p) \/ Set(p) \/ RefuseSome(p)
                    \/ \E protocol : Connect(p, protocol)
      PROVE  DOMAIN rooms \subseteq DOMAIN rooms'
  BY <1>1 DEF Create, CreateRoom, Put, Enter, EnterRoom, Set, SetRoom, RefuseSome,
              Refuse, Connect
<1> QED BY <1>1, LeaveSteps, LeaveKeepsMigrating DEF Steps, NoEarlyClose

\* When clients leave a room before they enter another one, a room that may
\* migrate is closed only when nobody but its host is in it.
THEOREM MigrationAlwaysKeepsRoom ==
  ASSUME LeaveFirst
  PROVE  Spec => MigrationKeepsRoom
<1>1. PlacedInv /\ [Next]_vars => [NoEarlyClose]_vars
  BY NextSteps, StepsKeepMigrating DEF PlacedInv, IInv
<1> QED BY <1>1, PlacedInit, PlacedNext, PTL DEF Spec, MigrationKeepsRoom, NoEarlyClose

KickedAreOut ==
  \A t \in Peers : Kicked(t) =>
    \A p \in Connected, id \in ClientIds :
      HandleKickClient(p, id) /\ RoomOf(p).clients[t] = id =>
        \A c \in {clients[p].currentRoom} \cap DOMAIN rooms' :
          t \notin DOMAIN rooms'[c].clients

LEMMA KickedLeave ==
  PlacedInv' => KickedAreOut
<1> SUFFICES ASSUME PlacedInv', NEW t \in Peers, t \in closing', NEW c \in DOMAIN rooms'
             PROVE  t \notin DOMAIN rooms'[c].clients
  BY DEF KickedAreOut, Kicked
<1>1. c # NoCode
  BY ServerAssumption DEF PlacedInv, IInv, TypeOK
<1>2. clients'[t].currentRoom = NoCode
  BY DEF PlacedInv, Placed, ClosingAreOut
<1> QED BY <1>1, <1>2 DEF PlacedInv, Placed, MembershipAgrees

\* When clients leave a room before they enter another one, a client that is
\* kicked is out of the room in the same step.
THEOREM KickAlwaysRemoves ==
  ASSUME LeaveFirst
  PROVE  Spec => KickRemoves
<1> QED BY PlacedInit, PlacedNext, KickedLeave, PTL DEF Spec, KickRemoves, KickedAreOut

-----------------------------------------------------------------------------
(***************************************************************************)
(* The server implements the lobby.                                        *)
(***************************************************************************)
\* Nothing the lobby knows of changes.
LEMMA SameLobby ==
  ASSUME DOMAIN rooms' = DOMAIN rooms,
         \A c \in DOMAIN rooms : /\ DOMAIN rooms'[c].clients = DOMAIN rooms[c].clients
                                 /\ rooms'[c].host = rooms[c].host
  PROVE  UNCHANGED L!lobby
BY DEF L!lobby

\* What may happen to an open room.
LEMMA LobbySteps ==
  ASSUME NEW c \in DOMAIN rooms
  PROVE  /\ L!Close(c) => L!Next
         /\ \A p \in Peers : L!Enter(p, c) \/ L!Leave(p, c) \/ L!HandOver(c, p) => L!Next
<1>1. c \in DOMAIN [d \in DOMAIN rooms |-> DOMAIN rooms[d].clients]
  OBVIOUS
<1> QED BY <1>1 DEF L!Next

LEMMA LeaveInLobby ==
  ASSUME PlacedInv, NEW p, NEW h, Leaves(p, h)
  PROVE  [L!Next]_(L!lobby)
<1> PICK cur : cur = clients[p].currentRoom
  OBVIOUS
<1>0. /\ TypeOK /\ p \in DOMAIN clients /\ p \in Peers /\ h \in Heirs(p)
      /\ rooms' = RoomsAfter(p, h)
  BY DEF Leaves, PlacedInv, IInv, TypeOK
<1>1. CASE ~InARoom(p)
  <2>1. rooms' = rooms
    BY <1>0, <1>1 DEF RoomsAfter
  <2> QED BY <2>1, SameLobby
<1>2. CASE InARoom(p) /\ Closes(p, h)
  <2>1. cur \in DOMAIN rooms /\ rooms' = [c \in DOMAIN rooms \ {cur} |-> rooms[c]]
    BY <1>0, <1>2 DEF RoomsAfter, InARoom, Erase, Restrict
  <2>2. L!Close(cur)
    BY <2>1 DEF L!Close
  <2> QED BY <2>1, <2>2, LobbySteps
<1>3. CASE InARoom(p) /\ ~Closes(p, h)
  <2>1. cur \in DOMAIN rooms /\ rooms' = [rooms EXCEPT ![cur] = RoomAfter(p, h)]
    BY <1>0, <1>3 DEF RoomsAfter, InARoom
  <2>2. /\ DOMAIN RoomAfter(p, h).clients = DOMAIN rooms[cur].clients \ {p}
        /\ RoomAfter(p, h).host = IF rooms[cur].host = p THEN h ELSE rooms[cur].host
    <3>1. RoomOf(p) = rooms[cur] /\ rooms[cur] \in Room
      BY <1>0, <2>1 DEF RoomOf, TypeOK
    <3>2. DOMAIN Erase(rooms[cur].clients, p) = DOMAIN rooms[cur].clients \ {p}
      BY <3>1, ErasedMember
    <3> QED BY <1>0, <1>3, <3>1, <3>2, RoomAfterLeave
  <2>3. p \in DOMAIN rooms[cur].clients
    BY <1>0, <2>1 DEF PlacedInv, Placed, MembershipAgrees
  <2>4. rooms[cur].host = p => h \in DOMAIN rooms[cur].clients \ {p} /\ h \in Peers
    BY <1>0, <1>3, HeirStays DEF HostLeaves, RoomOf
  <2>5. CASE rooms[cur].host = p
    <3>1. L!HandOver(cur, h)
      BY <2>1, <2>2, <2>4, <2>5 DEF L!HandOver
    <3> QED BY <2>1, <2>4, <2>5, <3>1, LobbySteps
  <2>6. CASE rooms[cur].host # p
    <3>1. L!Leave(p, cur)
      BY <2>1, <2>2, <2>3, <2>6 DEF L!Leave
    <3> QED BY <1>0, <2>1, <3>1, LobbySteps
  <2> QED BY <2>5, <2>6
<1> QED BY <1>1, <1>2, <1>3

\* Who is in no room is in no room's list.
LEMMA Nowhere ==
  ASSUME PlacedInv, NEW p \in Connected, clients[p].currentRoom = NoCode
  PROVE  p \in Peers /\ ~L!Somewhere(p)
<1>1. p \in Peers /\ NoCode \notin DOMAIN rooms
  BY ServerAssumption DEF PlacedInv, IInv, TypeOK, Connected
<1>2. \A c \in DOMAIN rooms : p \notin DOMAIN rooms[c].clients
  BY <1>1 DEF PlacedInv, Placed, MembershipAgrees
<1> QED BY <1>1, <1>2 DEF L!Somewhere

LEMMA CreateInLobby ==
  ASSUME PlacedInv, NEW p \in Connected, Create(p), clients[p].currentRoom = NoCode
  PROVE  [L!Next]_(L!lobby)
<1>1. PICK code \in Codes \ DOMAIN rooms, password \in Passwords :
        CreateRoom(p, code, password)
  BY DEF Create
<1>2. p \in Peers /\ ~L!Somewhere(p)
  BY Nowhere
<1>3. CASE rooms' = rooms
  BY <1>3, SameLobby
<1>4. CASE rooms' # rooms
  <2>1. PICK id \in RoomIds : rooms' = Put(rooms, code, NewRoom(p, id, password))
    BY <1>1, <1>4 DEF CreateRoom
  <2>2. /\ DOMAIN rooms' = DOMAIN rooms \cup {code}
        /\ \A c \in DOMAIN rooms : rooms'[c] = rooms[c]
        /\ DOMAIN rooms'[code].clients = {p} /\ rooms'[code].host = p
    BY <1>1, <2>1 DEF Put, NewRoom
  <2>3. L!Open(p, code)
    BY <1>1, <1>2, <2>2 DEF L!Open
  <2> QED BY <1>1, <1>2, <2>3 DEF L!Next
<1> QED BY <1>3, <1>4

LEMMA EnterInLobby ==
  ASSUME PlacedInv, NEW p \in Connected, Enter(p), clients[p].currentRoom = NoCode
  PROVE  [L!Next]_(L!lobby)
<1>1. PICK code \in DOMAIN rooms : EnterRoom(p, code)
  BY DEF Enter
<1>2. p \in Peers /\ ~L!Somewhere(p)
  BY Nowhere
<1>3. /\ rooms[code] \in Room
      /\ rooms' = [rooms EXCEPT ![code].clients = Put(rooms[code].clients, p, clients[p].id)]
  BY <1>1 DEF EnterRoom, PlacedInv, IInv, TypeOK
<1>4. /\ DOMAIN rooms' = DOMAIN rooms
      /\ \A c \in DOMAIN rooms \ {code} : rooms'[c] = rooms[c]
      /\ rooms'[code].host = rooms[code].host
      /\ DOMAIN rooms'[code].clients = DOMAIN rooms[code].clients \cup {p}
  BY <1>3 DEF Room, Put
<1>5. L!Enter(p, code)
  BY <1>1, <1>2, <1>4 DEF L!Enter
<1> QED BY <1>1, <1>2, <1>5, LobbySteps

LEMMA StepsInLobby ==
  ASSUME PlacedInv, FreeSteps
  PROVE  [L!Next]_(L!lobby)
<1>1. ASSUME NEW p, RefuseSome(p) \/ Set(p) \/ \E protocol : Connect(p, protocol)
      PROVE  UNCHANGED L!lobby
  <2>1. /\ DOMAIN rooms' = DOMAIN rooms
        /\ \A c \in DOMAIN rooms : /\ rooms'[c].clients = rooms[c].clients
                                    /\ rooms'[c].host = rooms[c].host
    BY <1>1 DEF RefuseSome, Refuse, Set, SetRoom, SameRoomBut, RoomOf, Connect
  <2> QED BY <2>1, SameLobby
<1> QED BY <1>1, LeaveSteps, LeaveInLobby, CreateInLobby, EnterInLobby DEF FreeSteps

\* When clients leave a room before they enter another one, the server is a
\* lobby: every event opens one room, lets one peer in or out of one room, hands
\* one room over, closes one room, or does nothing to any of them.
THEOREM ServerImplementsLobby ==
  ASSUME LeaveFirst
  PROVE  Spec => ImplementsLobby
<1>1. Init => L!Init
  BY DEF Init, L!Init
<1>2. PlacedInv /\ [Next]_vars => [L!Next]_(L!lobby)
  <2> SUFFICES ASSUME PlacedInv, [Next]_vars PROVE [L!Next]_(L!lobby)
    OBVIOUS
  <2>1. CASE Next
    BY <2>1, NextSteps, StepsAreFree, StepsInLobby DEF PlacedInv, IInv
  <2>2. CASE UNCHANGED vars
    BY <2>2, SameLobby DEF vars
  <2> QED BY <2>1, <2>2
<1> QED BY <1>1, <1>2, PlacedInit, PlacedNext, PTL DEF Spec, ImplementsLobby, L!Spec
=============================================================================
