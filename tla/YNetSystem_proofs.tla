------------------------- MODULE YNetSystem_proofs -------------------------
(***************************************************************************)
(* Proofs about YNetSystem, for any set of clients, commands, accidents    *)
(* and rooms.  What is said of one client does not depend on how the users *)
(* of the others behave.  Where every user is careful, clients leave a     *)
(* room before they enter another, and what YNetRooms_proofs shows of such *)
(* clients holds of the system: the theorems that need it assume it.       *)
(***************************************************************************)
EXTENDS YNetSystem, YNetRooms_proofs, SequenceTheorems

-----------------------------------------------------------------------------
(***************************************************************************)
(* The invariant, of one client p, its connection and its Client.          *)
(***************************************************************************)
IsLeave(request) == request.type = "ROOM_LEAVE"

\* What the client's threads act upon.
Answers == [type : {"CONFIRM_ROOM_CREATION", "CONFIRM_ROOM_JOIN"}, code : Codes]
             \cup {[type |-> "ERROR"]}

\* The room the server has p in.
ServerRoom(p) == IF p \in DOMAIN clients THEN clients[p].currentRoom ELSE NoCode

\* Requests and answers reach the other end.
Live(p) == link[p] = "connected" /\ p \notin closing

\* The requests to enter a room and the answers that are on their way.
Asked(p)    == {i \in DOMAIN up[p] : C!Enters(up[p][i])}
Answered(p) == {i \in DOMAIN down[p] : down[p][i].type \in Acted}

ClientTypeOK ==
  /\ main \in [Peers -> {"off", "prompt", "sending", "sent", "joining"}]
  /\ loop \in [Peers -> {"none", "service", "ended"}]
  /\ link \in [Peers -> {"none", "connected", "lost"}]
  /\ running \in [Peers -> BOOLEAN] /\ peer \in [Peers -> BOOLEAN]
  /\ waiting \in [Peers -> BOOLEAN] /\ currentRoom \in [Peers -> Codes \cup {NoCode}]
  /\ DOMAIN todo = Peers /\ DOMAIN up = Peers /\ DOMAIN down = Peers
  /\ \A p \in Peers :
       /\ todo[p] \in Commands[p] \cup {C!NoRequest}
       /\ up[p] \in Seq(Commands[p] \cup {C!ConnectEvent, C!GoneEvent})
       /\ down[p] \in Seq(Answers \cup {C!DisconnectEvent, C!TimeoutEvent})

\* A process that has ended leaves nothing behind at its end.
ProcessOK(p) ==
  /\ main[p] = "off" => /\ loop[p] = "none" /\ link[p] = "none" /\ down[p] = << >>
                        /\ currentRoom[p] = NoCode /\ ~waiting[p]
  /\ main[p] \in {"sending", "sent"} => todo[p] \in Commands[p]
  /\ main[p] = "sent" => C!WritesRoom(todo[p])

\* The server knows a client from the CONNECT event, which comes first, to the
\* end of the connection, which comes last and is never lost.
UpOK(p) ==
  /\ \A i \in DOMAIN up[p] : up[p][i] = C!ConnectEvent => i = 1
  /\ up[p] # << >> => (up[p][1] = C!ConnectEvent <=> p \notin DOMAIN clients)
  /\ \A i \in DOMAIN up[p] : up[p][i] = C!GoneEvent =>
       i = Len(up[p]) /\ link[p] # "connected"
  /\ link[p] = "connected" => p \in DOMAIN clients \/ up[p] # << >>
  /\ link[p] # "connected" /\ (p \in DOMAIN clients \/ up[p] # << >>) =>
       up[p] # << >> /\ up[p][Len(up[p])] = C!GoneEvent

\* The client is told of the disconnection the server has asked for.
DownOK(p) ==
  /\ \A i \in DOMAIN down[p] : down[p][i] = C!TimeoutEvent => link[p] # "connected"
  /\ link[p] = "connected" =>
       (p \in closing <=> \E i \in DOMAIN down[p] : down[p][i] = C!DisconnectEvent)

\* What keeps a client from being stranded: if the server has it in a room, and no
\* request to leave is under way, it knows of a room or is being told of one.
StrandedOK(p) ==
  Live(p) =>
    /\ ServerRoom(p) # NoCode /\ (\A i \in DOMAIN up[p] : ~IsLeave(up[p][i])) =>
         currentRoom[p] # NoCode \/ \E i \in Answered(p) : down[p][i].type # "ERROR"
    /\ main[p] = "sent" /\ IsLeave(todo[p]) =>
         \/ up[p] # << >> /\ IsLeave(up[p][Len(up[p])])
         \/ up[p] = << >> /\ ServerRoom(p) = NoCode

\* The rest is about the clients of careful users.

\* One request to enter at most, and behind a request to leave if the client is
\* in a room.
QueueOK(p) ==
  p \notin closing =>
    /\ \A i, j \in Asked(p) : i = j
    /\ \A i \in Asked(p) : ServerRoom(p) # NoCode =>
         \E j \in DOMAIN up[p] : j < i /\ IsLeave(up[p][j])

\* One answer at most, that to the only request, and it says where the client is.
AnswerOK(p) ==
  Live(p) =>
    /\ \A i, j \in Answered(p) : i = j
    /\ Asked(p) = {} \/ Answered(p) = {}
    /\ ~waiting[p] => Asked(p) = {} /\ Answered(p) = {}
    /\ \A i \in Answered(p) : ServerRoom(p) # NoCode =>
         down[p][i].type # "ERROR" /\ down[p][i].code = ServerRoom(p)

\* Nothing changes what sendMessage found while it sends a request to enter.
SendingOK(p) ==
  Live(p) /\ main[p] = "sending" /\ C!Enters(todo[p]) =>
    currentRoom[p] = NoCode /\ ~waiting[p]

\* When the server has served all that is on its way, it has p in room x or in none.
EndsIn(p, x) ==
  \/ \E i \in DOMAIN up[p] : IsLeave(up[p][i]) /\ \A j \in Asked(p) : j < i
  \/ x # NoCode /\ \E i \in Asked(p) : up[p][i].code = x
  \/ Asked(p) = {} /\ ServerRoom(p) \in {NoCode, x}

\* The client's idea of its room, or the one it is about to write, will be right.
BeliefOK(p) ==
  Live(p) =>
    /\ main[p] = "sent" => EndsIn(p, todo[p].code)
    /\ main[p] # "sent" /\ Asked(p) = {} /\ Answered(p) = {} => EndsIn(p, currentRoom[p])

CarefulOK(p) == QueueOK(p) /\ AnswerOK(p) /\ SendingOK(p) /\ BeliefOK(p)

PeerOK(p) ==
  /\ ProcessOK(p) /\ UpOK(p) /\ DownOK(p) /\ StrandedOK(p)
  /\ p \in Careful => CarefulOK(p)

ClientInv == ClientTypeOK /\ \A p \in Peers : PeerOK(p)

SystemInv == IInv /\ ClientInv

-----------------------------------------------------------------------------
(***************************************************************************)
(* LeaveFirst matters to MayEnter alone: the server of LF has the handlers *)
(* of this one.                                                            *)
(***************************************************************************)
LEMMA SameConnect ==
  ASSUME NEW p, NEW protocol
  PROVE  LF!Connect(p, protocol) <=> Connect(p, protocol)
BY DEF LF!Connect, Connect, LF!ClientIds, ClientIds, LF!NoRoomId, NoRoomId,
       LF!IsNextFree, IsNextFree, LF!NextId, NextId, LF!Distance, Distance,
       LF!Put, Put, LF!Send, Send, LF!roomIdVars, roomIdVars

LEMMA SameRefuse ==
  ASSUME NEW p, NEW t
  PROVE  LF!Refuse(p, t) <=> Refuse(p, t)
BY DEF LF!Refuse, Refuse, LF!ErrorMessage, ErrorMessage, LF!Connected,
       Connected, LF!Send, Send, LF!clientIdVars, clientIdVars, LF!roomIdVars,
       roomIdVars

LEMMA SameCreation ==
  ASSUME NEW p, NEW code, NEW password
  PROVE  LF!HandleRoomCreation(p, code, password) <=> HandleRoomCreation(p, code, password)
<1>1. \A c : LF!CreateRoom(p, c, password) <=> CreateRoom(p, c, password)
  BY DEF LF!CreateRoom, CreateRoom, LF!RoomIds, RoomIds, LF!NewRoom, NewRoom,
         LF!IsNextFree, IsNextFree, LF!NextId, NextId, LF!Distance, Distance,
         LF!Put, Put, LF!Connected, Connected, LF!Send, Send, LF!clientIdVars,
         clientIdVars, LF!roomIdVars, roomIdVars
<1>2. LF!FinalCodes(code) = FinalCodes(code)
  BY DEF LF!FinalCodes, FinalCodes
<1> QED
  BY <1>1, <1>2, SameRefuse DEF LF!HandleRoomCreation, HandleRoomCreation

LEMMA SameJoin ==
  ASSUME NEW p, NEW code, NEW password
  PROVE  LF!HandleRoomJoin(p, code, password) <=> HandleRoomJoin(p, code, password)
<1>1. \A c : LF!EnterRoom(p, c) <=> EnterRoom(p, c)
  BY DEF LF!EnterRoom, EnterRoom, LF!Put, Put, LF!Connected, Connected, LF!Send,
         Send, LF!clientIdVars, clientIdVars, LF!roomIdVars, roomIdVars
<1>2. \A room : LF!IsFull(room) <=> IsFull(room)
  BY DEF LF!IsFull, IsFull, LF!Cardinality, Cardinality
<1>3. \A room : LF!Suits(room, p, password) <=> Suits(room, p, password)
  BY <1>2 DEF LF!Suits, Suits
<1>4. LF!JoinAnyRoom(p, password) <=> JoinAnyRoom(p, password)
  BY <1>1, <1>3, SameRefuse DEF LF!JoinAnyRoom, JoinAnyRoom
<1>5. LF!JoinRoom(p, code, password) <=> JoinRoom(p, code, password)
  BY <1>1, <1>2, SameRefuse DEF LF!JoinRoom, JoinRoom
<1> QED
  BY <1>4, <1>5 DEF LF!HandleRoomJoin, HandleRoomJoin

LEMMA SameJoinOrCreate ==
  ASSUME NEW p, NEW code, NEW password
  PROVE  /\ LF!HandleJoinOrCreateRoom(p, code, password) <=>
              HandleJoinOrCreateRoom(p, code, password)
         /\ LF!HandleJoinOrCreateRoomRandom(p) <=> HandleJoinOrCreateRoomRandom(p)
<1>1. LF!FinalCodes(code) = FinalCodes(code)
  BY DEF LF!FinalCodes, FinalCodes
<1>2. \A room : LF!Suits(room, p, NoPassword) <=> Suits(room, p, NoPassword)
  BY DEF LF!Suits, Suits, LF!IsFull, IsFull, LF!Cardinality, Cardinality
<1>3. LF!HandleJoinOrCreateRoom(p, code, password) <=>
        HandleJoinOrCreateRoom(p, code, password)
  BY <1>1, SameCreation, SameJoin DEF LF!HandleJoinOrCreateRoom,
         HandleJoinOrCreateRoom
<1>4. LF!HandleJoinOrCreateRoomRandom(p) <=> HandleJoinOrCreateRoomRandom(p)
  BY <1>2, SameCreation, SameJoin DEF LF!HandleJoinOrCreateRoomRandom,
         HandleJoinOrCreateRoomRandom
<1> QED BY <1>3, <1>4

LEMMA SameLeave ==
  ASSUME NEW p
  PROVE  /\ LF!HandleRoomLeave(p) <=> HandleRoomLeave(p)
         /\ LF!Disconnect(p) <=> Disconnect(p)
<1>1. /\ LF!HostLeaves(p) <=> HostLeaves(p)
      /\ LF!InARoom(p) <=> InARoom(p)
      /\ LF!Migrates(p) <=> Migrates(p)
      /\ LF!RoomOf(p) = RoomOf(p)
      /\ LF!Remaining(p) = Remaining(p)
      /\ LF!Evicted(p) = Evicted(p)
      /\ LF!Heirs(p) = Heirs(p)
  BY DEF LF!HostLeaves, HostLeaves, LF!InARoom, InARoom, LF!RoomOf, RoomOf,
         LF!Remaining, Remaining, LF!Migrates, Migrates, LF!Evicted, Evicted,
         LF!Heirs, Heirs
<1>2. ASSUME NEW h
      PROVE  /\ LF!RoomsAfter(p, h) = RoomsAfter(p, h)
             /\ LF!RoomIdsAfter(p, h) = RoomIdsAfter(p, h)
             /\ LF!LeaveMessages(p, h) = LeaveMessages(p, h)
  <2>1. LF!Closes(p, h) <=> Closes(p, h)
    BY <1>1 DEF LF!Closes, Closes
  <2>2. LF!RoomAfter(p, h) = RoomAfter(p, h)
    BY <1>1 DEF LF!RoomAfter, RoomAfter, LF!Erase, Erase, LF!Restrict, Restrict
  <2>3. LF!RoomsAfter(p, h) = RoomsAfter(p, h)
    BY <1>1, <2>1, <2>2 DEF LF!RoomsAfter, RoomsAfter, LF!Erase, Erase, LF!Restrict, Restrict
  <2>4. LF!RoomIdsAfter(p, h) = RoomIdsAfter(p, h)
    BY <1>1, <2>1 DEF LF!RoomIdsAfter, RoomIdsAfter
  <2>5. LF!LeaveMessages(p, h) = LeaveMessages(p, h)
    BY <1>1 DEF LF!LeaveMessages, LeaveMessages, LF!ErrorMessage, ErrorMessage
  <2> QED BY <2>3, <2>4, <2>5
<1>3. /\ LF!ClientsAfter(p) = ClientsAfter(p)
      /\ LF!Erase(ClientsAfter(p), p) = Erase(ClientsAfter(p), p)
  BY <1>1 DEF LF!ClientsAfter, ClientsAfter, LF!NoRoomId, NoRoomId, LF!Restrict, Restrict, LF!Erase,
         Erase
<1>4. \A msgs, to : LF!Send(msgs, to) <=> Send(msgs, to)
  BY DEF LF!Send, Send
<1>5. LF!HandleRoomLeave(p) <=> HandleRoomLeave(p)
  BY <1>1, <1>2, <1>3, <1>4 DEF LF!HandleRoomLeave, HandleRoomLeave,
         LF!Connected, Connected, LF!clientIdVars, clientIdVars
<1>6. LF!Disconnect(p) <=> Disconnect(p)
  BY <1>1, <1>2, <1>3, <1>4 DEF LF!Disconnect, Disconnect, LF!Connected,
         Connected
<1> QED BY <1>5, <1>6

LEMMA SameInit ==
  LF!Init <=> Init
BY DEF LF!Init, Init

LEMMA SameVars ==
  UNCHANGED LF!vars <=> UNCHANGED vars
BY DEF LF!vars, vars

-----------------------------------------------------------------------------
(***************************************************************************)
(* What a handler tells the clients.                                       *)
(***************************************************************************)
LEMMA TellingNothing ==
  ASSUME NEW msgs, \A i \in DOMAIN msgs : msgs[i].type \notin Acted
  PROVE  Telling(msgs) = << >>
BY DEF Telling

LEMMA TellingOne ==
  ASSUME NEW m, m.type \in Acted
  PROVE  Telling(<<m>>) = <<Bare(m)>>
<1>1. {i \in DOMAIN <<m>> : <<m>>[i].type \in Acted} = {1}
  OBVIOUS
<1> QED BY <1>1 DEF Telling

\* A client is told nothing or one answer.
LEMMA TellingType ==
  ASSUME NEW msgs \in Seq(Message)
  PROVE  Telling(msgs) = << >> \/ \E a \in Answers : Telling(msgs) = <<a>>
<1> PICK acted : acted = {i \in DOMAIN msgs : msgs[i].type \in Acted}
  OBVIOUS
<1>1. CASE acted = {}
  BY <1>1 DEF Telling
<1>2. CASE acted # {}
  <2>1. PICK i \in acted : i = CHOOSE j \in acted : TRUE
    BY <1>2
  <2>2. msgs[i] \in Message /\ msgs[i].type \in Acted
    BY <2>1
  <2>3. Bare(msgs[i]) \in Answers
    <3> PICK m : m = msgs[i]
      OBVIOUS
    <3>1. CASE m.type = "ERROR"
      BY <3>1 DEF Bare, Answers
    <3>2. CASE m.type # "ERROR"
      <4>1. m \in Message /\ m.type \in {"CONFIRM_ROOM_CREATION", "CONFIRM_ROOM_JOIN"}
        BY <2>2, <3>2 DEF Acted
      <4>2. m.code \in Codes
        BY <4>1 DEF Message
      <4> QED BY <3>2, <4>1, <4>2 DEF Bare, Answers
    <3> QED BY <3>1, <3>2
  <2>4. Telling(msgs) = <<Bare(msgs[i])>>
    BY <1>2, <2>1 DEF Telling
  <2> QED BY <2>3, <2>4
<1> QED BY <1>1, <1>2

-----------------------------------------------------------------------------
(***************************************************************************)
(* What a handler does to the others, and to the client it serves.         *)
(***************************************************************************)
\* The others stay where they are and hear nothing they would act upon, or are
\* being disconnected.
OthersServed(p) ==
  \A q \in Peers \ {p} :
    /\ q \in DOMAIN clients' <=> q \in DOMAIN clients
    /\ q \in closing => q \in closing'
    /\ q \notin closing' => ServerRoom(q)' = ServerRoom(q) /\ Telling(out'[q]) = << >>

HasLeft(p) ==
  /\ p \in DOMAIN clients' /\ p \notin closing'
  /\ ServerRoom(p)' = NoCode /\ Telling(out'[p]) = << >>

HasAsked(p, request) ==
  /\ p \in DOMAIN clients' /\ p \notin closing'
  /\ \/ ServerRoom(p)' = ServerRoom(p) /\ Telling(out'[p]) \in {<< >>, <<[type |-> "ERROR"]>>}
     \/ \E code \in Codes, t \in {"CONFIRM_ROOM_CREATION", "CONFIRM_ROOM_JOIN"} :
          /\ ServerRoom(p)' = code
          /\ request.code # NoCode => request.code = code
          /\ Telling(out'[p]) = <<[type |-> t, code |-> code]>>

\* What a leave sends anyone but the evicted is not acted upon.
LEMMA LeaveTelling ==
  ASSUME TypeOK, NEW p \in DOMAIN clients, NEW h \in Heirs(p), NEW q, q \in Peers,
         q \notin Evicted(p)
  PROVE  Telling(LeaveMessages(p, h)[q]) = << >>
<1> DEFINE left == [type |-> "PLAYER_LEFT", id |-> clients[p].id]
           host == [type |-> "MESSAGE", text |-> "New host assigned"]
<1>1. LeaveMessages(p, h)[q] \in {<< >>, <<left>>, <<host>>}
  BY DEF LeaveMessages
<1>2. left.type \notin Acted /\ host.type \notin Acted
  BY DEF Acted
<1> HIDE DEF left, host
<1>3. \A m : m.type \notin Acted => Telling(<<m>>) = << >>
  BY TellingNothing
<1>4. Telling(<< >>) = << >>
  BY TellingNothing
<1> QED BY <1>1, <1>2, <1>3, <1>4

LEMMA LeaveServes ==
  ASSUME TypeOK, NEW p \in Peers
  PROVE  /\ p \in Connected /\ HandleRoomLeave(p) => OthersServed(p) /\ HasLeft(p)
         /\ Disconnect(p) => /\ OthersServed(p)
                             /\ p \notin DOMAIN clients' /\ p \notin closing'
<1>1. ASSUME p \in Connected, HandleRoomLeave(p)
      PROVE  OthersServed(p) /\ HasLeft(p)
  <2>1. PICK h \in Heirs(p) :
          /\ clients' = ClientsAfter(p) /\ closing' = closing \cup Evicted(p)
          /\ Send(LeaveMessages(p, h), Connected)
    BY <1>1 DEF HandleRoomLeave
  <2>2. p \in DOMAIN clients /\ p \notin closing /\ p \notin Evicted(p)
    BY <1>1 DEF Connected, Evicted, Remaining
  <2>3. /\ DOMAIN ClientsAfter(p) = DOMAIN clients
        /\ ClientsAfter(p)[p].currentRoom = NoCode
        /\ \A q \in DOMAIN clients \ ({p} \cup Evicted(p)) : ClientsAfter(p)[q] = clients[q]
    BY <2>2 DEF ClientsAfter, TypeOK, Client
  <2>4. \A q \in Peers \ Evicted(p) : Telling(out'[q]) = << >>
    BY <2>1, <2>2, LeaveTelling, TellingNothing DEF Send
  <2>5. HasLeft(p)
    BY <2>1, <2>2, <2>3, <2>4 DEF HasLeft, ServerRoom
  <2>6. OthersServed(p)
    BY <2>1, <2>3, <2>4 DEF OthersServed, ServerRoom
  <2> QED BY <2>5, <2>6
<1>2. ASSUME Disconnect(p)
      PROVE  OthersServed(p) /\ p \notin DOMAIN clients' /\ p \notin closing'
  <2>1. PICK h \in Heirs(p) :
          /\ clients' = Erase(ClientsAfter(p), p)
          /\ closing' = (closing \cup Evicted(p)) \ {p}
          /\ Send(LeaveMessages(p, h), Connected \ {p})
    BY <1>2 DEF Disconnect
  <2>2. p \in DOMAIN clients
    BY <1>2 DEF Disconnect
  <2>3. /\ DOMAIN clients' = DOMAIN clients \ {p}
        /\ \A q \in DOMAIN clients \ ({p} \cup Evicted(p)) : clients'[q] = clients[q]
    BY <2>1, <2>2 DEF ClientsAfter, Erase, Restrict
  <2>4. \A q \in Peers \ Evicted(p) : Telling(out'[q]) = << >>
    BY <2>1, <2>2, LeaveTelling, TellingNothing DEF Send
  <2>5. OthersServed(p)
    BY <2>1, <2>3, <2>4 DEF OthersServed, ServerRoom
  <2> QED BY <2>1, <2>3, <2>5
<1> QED BY <1>1, <1>2

LEMMA ConnectServes ==
  ASSUME TypeOK, NEW p \in Peers, NEW protocol, Connect(p, protocol)
  PROVE  OthersServed(p) /\ HasLeft(p)
<1>1. PICK id \in ClientIds :
        /\ clients' = Put(clients, p, [id |-> id, currentRoom |-> NoCode,
                                       roomId |-> NoRoomId,
                                       protocolVersion |-> protocol])
        /\ Send([q \in Peers |-> IF q = p
                   THEN <<[type |-> "CONFIRM_CONNECTION", id |-> id]>> ELSE << >>], {p})
  BY DEF Connect
<1>2. closing' = closing /\ p \notin DOMAIN clients /\ p \notin closing
  BY DEF Connect, TypeOK
<1>3. /\ DOMAIN clients' = DOMAIN clients \cup {p} /\ clients'[p].currentRoom = NoCode
      /\ \A q \in DOMAIN clients : clients'[q] = clients[q]
  BY <1>1, <1>2 DEF Put
<1>4. /\ out'[p] = <<[type |-> "CONFIRM_CONNECTION", id |-> id]>>
      /\ \A q \in Peers \ {p} : out'[q] = << >>
  BY <1>1 DEF Send
<1>5. Telling(out'[p]) = << >>
  <2> DEFINE hello == [type |-> "CONFIRM_CONNECTION", id |-> id]
  <2>1. hello.type \notin Acted
    BY DEF Acted
  <2> HIDE DEF hello
  <2>2. \A i \in DOMAIN <<hello>> : <<hello>>[i].type \notin Acted
    BY <2>1
  <2>3. Telling(<<hello>>) = << >>
    BY <2>2, TellingNothing
  <2> QED BY <1>4, <2>3 DEF hello
<1>6. \A q \in Peers \ {p} : Telling(out'[q]) = << >>
  BY <1>4, TellingNothing
<1>7. OthersServed(p)
  BY <1>2, <1>3, <1>6 DEF OthersServed, ServerRoom
<1> QED BY <1>2, <1>3, <1>5, <1>7 DEF HasLeft, ServerRoom

\* The commands there are.
LEMMA RequestType ==
  ASSUME NEW p \in Peers, NEW r \in Commands[p]
  PROVE  /\ r.type \in {"ROOM_CREATE", "JOIN_ROOM_WITH_PASSWORD", "JOIN_OR_CREATE_ROOM",
                        "JOIN_OR_CREATE_ROOM_RANDOM", "ROOM_LEAVE"}
         /\ r.code \in Codes \cup {NoCode}
         /\ r.type \in {"JOIN_ROOM_WITH_PASSWORD", "JOIN_OR_CREATE_ROOM"} => r.code \in Codes
         /\ r.type \in {"JOIN_OR_CREATE_ROOM_RANDOM", "ROOM_LEAVE"} => r.code = NoCode
<1>1. \/ r \in [type : {"ROOM_CREATE"}, code : Codes \cup {NoCode}]
      \/ r \in [type : {"JOIN_ROOM_WITH_PASSWORD", "JOIN_OR_CREATE_ROOM"}, code : Codes]
      \/ r \in [type : {"JOIN_OR_CREATE_ROOM_RANDOM", "ROOM_LEAVE"}, code : {NoCode}]
  BY SystemAssumption
<1> QED BY <1>1

\* The server refuses, or lets the client in where it asked to be.
Admits(code, request) == request.code # NoCode => code = request.code

LEMMA RequestCases ==
  ASSUME TypeOK, NEW p \in Connected, NEW request \in Commands[p], p \in Peers,
         C!Enters(request), Handler(p, request)
  PROVE  \/ \E t \in Notices : Refuse(p, t)
         \/ \E code \in Codes : Admits(code, request) /\ CreateRoom(p, code, NoPassword)
         \/ \E code \in DOMAIN rooms : Admits(code, request) /\ EnterRoom(p, code)
<1> DEFINE Goal == \/ \E t \in Notices : Refuse(p, t)
                   \/ \E code \in Codes : /\ Admits(code, request)
                                          /\ CreateRoom(p, code, NoPassword)
                   \/ \E code \in DOMAIN rooms : /\ Admits(code, request)
                                                 /\ EnterRoom(p, code)
<1> SUFFICES Goal
  OBVIOUS
<1>1. NoCode \notin Codes /\ DOMAIN rooms \subseteq Codes
  BY ServerAssumption DEF TypeOK
<1>2. ASSUME NEW code, HandleRoomCreation(p, code, NoPassword),
             \A c \in FinalCodes(code) : Admits(c, request)
      PROVE  Goal
  <2>1. PICK c \in FinalCodes(code) :
          \/ Refuse(p, "Invalid room code format")
          \/ Refuse(p, "Room already exists")
          \/ c \in Codes \ DOMAIN rooms /\ CreateRoom(p, c, NoPassword)
    BY <1>2 DEF HandleRoomCreation
  <2> QED BY <1>2, <2>1 DEF Notices
<1>3. ASSUME NEW code \in Codes, HandleRoomJoin(p, code, NoPassword), Admits(code, request)
      PROVE  Goal
  <2>1. JoinRoom(p, code, NoPassword)
    BY <1>1, <1>3 DEF HandleRoomJoin
  <2> QED BY <1>3, <2>1 DEF JoinRoom, Notices
<1> HIDE DEF Goal
<1>4. CASE request.type = "ROOM_CREATE"
  <2>1. HandleRoomCreation(p, request.code, NoPassword)
    BY <1>4 DEF Handler
  <2>2. \A c \in FinalCodes(request.code) : Admits(c, request)
    BY DEF FinalCodes, Admits
  <2> QED BY <1>2, <2>1, <2>2
<1>5. CASE request.type = "JOIN_ROOM_WITH_PASSWORD"
  <2>1. HandleRoomJoin(p, request.code, NoPassword)
    BY <1>5 DEF Handler
  <2>2. request.code \in Codes /\ Admits(request.code, request)
    BY <1>5, RequestType DEF Admits
  <2> QED BY <1>3, <2>1, <2>2
<1>6. CASE request.type = "JOIN_OR_CREATE_ROOM"
  <2>1. HandleJoinOrCreateRoom(p, request.code, NoPassword)
    BY <1>6 DEF Handler
  <2>2. request.code \in Codes /\ FinalCodes(request.code) = {request.code}
    BY <1>1, <1>6, RequestType DEF FinalCodes
  <2>3. \/ HandleRoomJoin(p, request.code, NoPassword)
        \/ HandleRoomCreation(p, request.code, NoPassword)
    BY <2>1, <2>2 DEF HandleJoinOrCreateRoom
  <2>4. Admits(request.code, request)
    BY DEF Admits
  <2> QED BY <1>2, <1>3, <2>2, <2>3, <2>4
<1>7. CASE request.type = "JOIN_OR_CREATE_ROOM_RANDOM"
  <2>1. HandleJoinOrCreateRoomRandom(p)
    BY <1>7 DEF Handler
  <2>2. \A code : Admits(code, request)
    BY <1>7, RequestType DEF Admits
  <2>3. PICK code \in Codes : \/ HandleRoomJoin(p, code, NoPassword)
                              \/ HandleRoomCreation(p, code, NoPassword)
    BY <1>1, <2>1 DEF HandleJoinOrCreateRoomRandom
  <2> QED BY <1>2, <1>3, <2>2, <2>3
<1> QED BY <1>4, <1>5, <1>6, <1>7 DEF C!Enters

LEMMA RefuseServes ==
  ASSUME TypeOK, NEW p \in Connected, p \in Peers,
         NEW request, NEW t, Refuse(p, t)
  PROVE  OthersServed(p) /\ HasAsked(p, request)
<1> PICK m : m = ErrorMessage(t)
  OBVIOUS
<1>1. clients' = clients /\ closing' = closing
  BY DEF Refuse
<1>2. out'[p] = <<m>> /\ \A q \in Peers \ {p} : out'[q] = << >>
  BY DEF Refuse, Send
<1>3. m.type = "ERROR" /\ Bare(m) = [type |-> "ERROR"]
  BY DEF ErrorMessage, Bare
<1>4. Telling(out'[p]) = <<[type |-> "ERROR"]>>
  BY <1>2, <1>3, TellingOne DEF Acted
<1>5. \A q \in Peers \ {p} : Telling(out'[q]) = << >>
  BY <1>2, TellingNothing
<1>6. p \in DOMAIN clients /\ p \notin closing
  BY DEF Connected
<1> QED BY <1>1, <1>4, <1>5, <1>6 DEF OthersServed, HasAsked, ServerRoom

LEMMA CreateServes ==
  ASSUME TypeOK, NEW p \in Connected, p \in Peers,
         NEW request, NEW code \in Codes, Admits(code, request),
         CreateRoom(p, code, NoPassword)
  PROVE  OthersServed(p) /\ HasAsked(p, request)
<1>0. p \in DOMAIN clients /\ p \notin closing
  BY DEF Connected
<1>1. CASE clients' = clients /\ closing' = closing /\ Send([q \in Peers |-> << >>], {})
  <2>1. \A q \in Peers : Telling(out'[q]) = << >>
    BY <1>1, TellingNothing DEF Send
  <2> QED BY <1>0, <1>1, <2>1 DEF OthersServed, HasAsked, ServerRoom
<1>2. CASE ~(clients' = clients /\ closing' = closing /\ Send([q \in Peers |-> << >>], {}))
  <2> PICK m : m = [type |-> "CONFIRM_ROOM_CREATION", code |-> code]
    OBVIOUS
  <2>1. PICK id \in RoomIds :
          /\ clients' = [clients EXCEPT ![p].currentRoom = code, ![p].roomId = id]
          /\ closing' = closing
          /\ Send([q \in Peers |-> IF q = p THEN <<m>> ELSE << >>], Connected)
    BY <1>2 DEF CreateRoom
  <2>2. /\ DOMAIN clients' = DOMAIN clients /\ clients'[p].currentRoom = code
        /\ \A q \in DOMAIN clients \ {p} : clients'[q] = clients[q]
    BY <1>0, <2>1 DEF TypeOK, Client
  <2>3. out'[p] = <<m>> /\ \A q \in Peers \ {p} : out'[q] = << >>
    BY <2>1 DEF Send
  <2>4. m.type = "CONFIRM_ROOM_CREATION" /\ Bare(m) = m
    BY DEF Bare
  <2>5. Telling(out'[p]) = <<m>>
    BY <2>3, <2>4, TellingOne DEF Acted
  <2>6. \A q \in Peers \ {p} : Telling(out'[q]) = << >>
    BY <2>3, TellingNothing
  <2>7. HasAsked(p, request)
    BY <1>0, <2>1, <2>2, <2>5 DEF HasAsked, ServerRoom, Admits
  <2> QED BY <2>1, <2>2, <2>6, <2>7 DEF OthersServed, ServerRoom
<1> QED BY <1>1, <1>2

LEMMA EnterServes ==
  ASSUME TypeOK, NEW p \in Connected, p \in Peers,
         NEW request, NEW code \in DOMAIN rooms, Admits(code, request),
         EnterRoom(p, code)
  PROVE  OthersServed(p) /\ HasAsked(p, request)
<1>0. p \in DOMAIN clients /\ p \notin closing /\ code \in Codes
  BY DEF Connected, TypeOK
<1> PICK inRoom : inRoom = Put(rooms[code].clients, p, clients[p].id)
  OBVIOUS
<1> PICK m : m = [type |-> "CONFIRM_ROOM_JOIN", code |-> code,
                  host |-> inRoom[rooms[code].host],
                  players |-> {inRoom[x] : x \in DOMAIN inRoom}]
  OBVIOUS
<1> PICK joined : joined = [type |-> "PLAYER_JOINED", id |-> clients[p].id]
  OBVIOUS
<1>1. /\ clients' = [clients EXCEPT ![p].currentRoom = code,
                                    ![p].roomId = rooms[code].roomId]
      /\ closing' = closing
      /\ Send([q \in Peers |-> IF q = p THEN <<m>>
                               ELSE IF q \in DOMAIN inRoom THEN <<joined>>
                               ELSE << >>], Connected)
  BY DEF EnterRoom
<1>2. /\ DOMAIN clients' = DOMAIN clients /\ clients'[p].currentRoom = code
      /\ \A q \in DOMAIN clients \ {p} : clients'[q] = clients[q]
  BY <1>0, <1>1 DEF TypeOK, Client
<1>3. out'[p] = <<m>> /\ \A q \in Peers \ {p} : out'[q] \in {<< >>, <<joined>>}
  BY <1>1 DEF Send
<1>4. m.type = "CONFIRM_ROOM_JOIN" /\ Bare(m) = [type |-> "CONFIRM_ROOM_JOIN", code |-> code]
  BY DEF Bare
<1>5. Telling(out'[p]) = <<[type |-> "CONFIRM_ROOM_JOIN", code |-> code]>>
  <2>1. m.type \in Acted
    BY <1>4 DEF Acted
  <2> QED BY <1>3, <1>4, <2>1, TellingOne
<1>6. Telling(<<joined>>) = << >> /\ Telling(<< >>) = << >>
  <2>1. joined.type \notin Acted
    BY DEF Acted
  <2> QED BY <2>1, TellingNothing
<1>7. \A q \in Peers \ {p} : Telling(out'[q]) = << >>
  BY <1>3, <1>6
<1>8. HasAsked(p, request)
  BY <1>0, <1>1, <1>2, <1>5 DEF HasAsked, ServerRoom, Admits
<1> QED BY <1>1, <1>2, <1>7, <1>8 DEF OthersServed, ServerRoom

\* A request to enter.
LEMMA EnteringServes ==
  ASSUME TypeOK, NEW p \in Connected, NEW request \in Commands[p], p \in Peers,
         C!Enters(request), Handler(p, request)
  PROVE  OthersServed(p) /\ HasAsked(p, request)
BY RequestCases, RefuseServes, CreateServes, EnterServes

-----------------------------------------------------------------------------
(***************************************************************************)
(* The steps of the server are steps of YNetServer; and of a server whose  *)
(* clients leave a room before they enter another, when the request that   *)
(* is served is not one to enter of a client that is in a room.            *)
(***************************************************************************)
LEMMA HandlerSteps ==
  ASSUME TypeOK, NEW p \in Peers, p \in Connected, NEW request \in Commands[p],
         Handler(p, request)
  PROVE  /\ HandleReceivedData(p)
         /\ (C!Enters(request) => clients[p].currentRoom = NoCode) =>
              FreeSteps /\ LF!HandleReceivedData(p)
<1> DEFINE Created == \E code \in Codes \cup {NoCode, BadCode} :
                        HandleRoomCreation(p, code, NoPassword)
           Joined1 == \E code \in Codes \cup {NoCode, BadCode} :
                        HandleRoomJoin(p, code, NoPassword)
           Either  == \E code \in Codes \cup {NoCode, BadCode} :
                        HandleJoinOrCreateRoom(p, code, NoPassword)
           Entering == \/ Created \/ Joined1 \/ Either
                       \/ HandleJoinOrCreateRoomRandom(p)
<1>1. NoPassword \in Passwords /\ ~LeaveFirst
  BY ServerAssumption, SystemAssumption
<1>2. LF!Connected = Connected
  BY DEF LF!Connected, Connected
<1>3. CASE IsLeave(request)
  <2>1. HandleRoomLeave(p) /\ LF!HandleRoomLeave(p)
    BY <1>3, SameLeave DEF IsLeave, Handler
  <2>2. HandleReceivedData(p)
    BY <2>1 DEF HandleReceivedData
  <2>3. LF!HandleReceivedData(p)
    BY <1>2, <2>1 DEF LF!HandleReceivedData
  <2> QED BY <2>1, <2>2, <2>3 DEF FreeSteps
<1>4. CASE ~IsLeave(request)
  <2>1. request.code \in Codes \cup {NoCode, BadCode} /\ C!Enters(request)
    BY <1>4, RequestType DEF IsLeave, C!Enters
  <2>2. Entering
    BY <1>4, <2>1 DEF IsLeave, Handler
  <2>4. MayEnter(p) /\ (clients[p].currentRoom = NoCode => LF!MayEnter(p))
    BY <1>1 DEF MayEnter, LF!MayEnter
  <2>5. HandleReceivedData(p)
    BY <1>1, <2>2, <2>4 DEF HandleReceivedData
  <2>6. clients[p].currentRoom = NoCode => LF!HandleReceivedData(p)
    BY <1>1, <1>2, <2>2, <2>4, SameCreation, SameJoin, SameJoinOrCreate
       DEF LF!HandleReceivedData
  <2>7. RefuseSome(p) \/ Create(p) \/ Enter(p)
    <3>1. CASE Created \/ Joined1
      BY <1>1, <2>4, <3>1, CreationCases, JoinCases
    <3>2. CASE Either
      BY <1>1, <2>4, <3>2, CreationCases, JoinCases DEF HandleJoinOrCreateRoom, FinalCodes
    <3>3. CASE HandleJoinOrCreateRoomRandom(p)
      BY <1>1, <2>4, <3>3, CreationCases, JoinCases DEF HandleJoinOrCreateRoomRandom
    <3> QED BY <2>2, <3>1, <3>2, <3>3
  <2> QED BY <2>1, <2>5, <2>6, <2>7 DEF FreeSteps
<1> QED BY <1>3, <1>4

\* The commands and the events are told apart by their types.
LEMMA Kinds ==
  ASSUME NEW p \in Peers, NEW r \in Commands[p]
  PROVE  /\ r # C!ConnectEvent /\ r # C!GoneEvent
         /\ IsLeave(r) <=> ~C!Enters(r)
         /\ C!WritesRoom(r) /\ C!Enters(r) => r.code # NoCode
         /\ IsLeave(r) => r.code = NoCode
<1>1. r.type # C!ConnectEvent.type /\ r.type # C!GoneEvent.type
  BY RequestType DEF C!ConnectEvent, C!GoneEvent
<1> QED BY <1>1, RequestType, ServerAssumption DEF IsLeave, C!Enters, C!WritesRoom

LEMMA EventKinds ==
  /\ C!ConnectEvent # C!GoneEvent
  /\ ~C!Enters(C!ConnectEvent) /\ ~C!Enters(C!GoneEvent)
  /\ ~IsLeave(C!ConnectEvent) /\ ~IsLeave(C!GoneEvent)
  /\ C!DisconnectEvent # C!TimeoutEvent
  /\ C!DisconnectEvent.type \notin Acted /\ C!TimeoutEvent.type \notin Acted
<1>1. C!ConnectEvent.type # C!GoneEvent.type /\ C!DisconnectEvent.type # C!TimeoutEvent.type
  BY DEF C!ConnectEvent, C!GoneEvent, C!DisconnectEvent, C!TimeoutEvent
<1> QED BY <1>1 DEF C!ConnectEvent, C!GoneEvent, C!DisconnectEvent, C!TimeoutEvent,
                    C!Enters, IsLeave, Acted

\* What may be on its way, first come first served.
LEMMA First ==
  ASSUME ClientTypeOK, NEW p \in Peers, up[p] # << >>
  PROVE  /\ Head(up[p]) = up[p][1] /\ 1 \in DOMAIN up[p]
         /\ up[p][1] \in Commands[p] \cup {C!ConnectEvent, C!GoneEvent}
<1>1. up[p] \in Seq(Commands[p] \cup {C!ConnectEvent, C!GoneEvent})
  BY DEF ClientTypeOK
<1> QED BY <1>1

LEMMA EnterServedFree ==
  ASSUME SystemInv, NEW p \in Careful, p \in Connected, up[p] # << >>,
         C!Enters(Head(up[p]))
  PROVE  clients[p].currentRoom = NoCode
<1>0. p \in Peers /\ QueueOK(p)
  BY SystemAssumption DEF SystemInv, ClientInv, PeerOK, CarefulOK
<1>1. Head(up[p]) = up[p][1] /\ 1 \in DOMAIN up[p]
  BY <1>0, First DEF SystemInv, ClientInv
<1>2. 1 \in Asked(p)
  BY <1>1 DEF Asked
<1>3. p \in DOMAIN clients /\ p \notin closing
  BY DEF Connected
<1>4. \A j \in DOMAIN up[p] : ~(j < 1)
  BY <1>0 DEF SystemInv, ClientInv, ClientTypeOK
<1> QED BY <1>0, <1>2, <1>3, <1>4 DEF QueueOK, ServerRoom

LEMMA ServeSteps ==
  ASSUME SystemInv, NEW p \in Peers, Serve(p)
  PROVE  \/ UNCHANGED vars
         \/ Next /\ (p \in Careful => FreeSteps /\ LF!Next)
<1>0. TypeOK /\ ~hung /\ up[p] # << >>
  BY DEF SystemInv, IInv, Serve
<1>1. CASE ServeConnect(p)
  <2>1. PICK protocol \in Protocols : Connect(p, protocol)
    BY <1>1 DEF ServeConnect
  <2> QED BY <1>0, <2>1, SameConnect DEF FreeSteps, Next, LF!Next
<1>2. CASE ServeGone(p)
  <2>1. Disconnect(p)
    BY <1>2 DEF ServeGone
  <2> QED BY <1>0, <2>1, SameLeave DEF FreeSteps, Next, LF!Next
<1>3. CASE ServeRequest(p) /\ ~UNCHANGED vars
  <2>1. /\ Head(up[p]) \in Commands[p] /\ p \in Connected
        /\ Handler(p, Head(up[p]))
    BY <1>3 DEF ServeRequest
  <2>2. /\ HandleReceivedData(p)
        /\ p \in Careful => FreeSteps /\ LF!HandleReceivedData(p)
    BY <1>0, <2>1, HandlerSteps, EnterServedFree
  <2> QED BY <1>0, <2>2 DEF Next, LF!Next
<1> QED BY <1>1, <1>2, <1>3 DEF Serve

LEMMA SameServer ==
  ASSUME IInv, UNCHANGED vars
  PROVE  IInv'
BY NextInv

LEMMA ServeKeepsServer ==
  ASSUME SystemInv, NEW p \in Peers, Serve(p)
  PROVE  IInv'
BY ServeSteps, NextInv DEF SystemInv

-----------------------------------------------------------------------------
(***************************************************************************)
(* What a step of the server leaves true of the clients.                   *)
(***************************************************************************)
Events == {C!DisconnectEvent, C!TimeoutEvent}

Holds(s, e) == \E i \in DOMAIN s : s[i] = e

LEMMA AnswersAreNoEvents ==
  ASSUME NEW a \in Answers
  PROVE  a.type \in Acted /\ a \notin Events
<1>1. a.type \in Acted
  BY DEF Answers, Acted
<1>2. \A e \in Events : e.type \notin Acted
  BY EventKinds DEF Events
<1> QED BY <1>1, <1>2

LEMMA Delivered ==
  ASSUME ClientTypeOK, Deliver, out' \in [Peers -> Seq(Message)], NEW q \in Peers
  PROVE  /\ DOMAIN down' = Peers
         /\ down'[q] \in Seq(Answers \cup Events)
         /\ link[q] # "connected" => down'[q] = down[q]
         /\ link[q] = "connected" /\ q \notin closing' \ closing =>
              /\ Telling(out'[q]) = << >> => down'[q] = down[q]
              /\ \A a : Telling(out'[q]) = <<a>> =>
                   a \in Answers /\ down'[q] = Append(down[q], a)
              /\ Telling(out'[q]) = << >> \/ \E a \in Answers : Telling(out'[q]) = <<a>>
         /\ link[q] = "connected" /\ q \in closing' \ closing =>
              /\ Holds(down'[q], C!DisconnectEvent)
              /\ Holds(down'[q], C!TimeoutEvent) => Holds(down[q], C!TimeoutEvent)
<1> PICK d : d = down[q]
  OBVIOUS
<1> PICK t : t = Telling(out'[q])
  OBVIOUS
<1> PICK e : e = C!DisconnectEvent
  OBVIOUS
<1>0. d \in Seq(Answers \cup Events) /\ e \in Events
  BY DEF ClientTypeOK, Events
<1>1. t = << >> \/ \E a \in Answers : t = <<a>>
  <2>1. out'[q] \in Seq(Message)
    OBVIOUS
  <2> QED BY <2>1, TellingType
<1>2. down'[q] = IF link[q] # "connected" THEN d
                 ELSE d \o t \o (IF q \in closing' \ closing THEN <<e>> ELSE << >>)
  BY DEF Deliver
<1>3. CASE link[q] # "connected"
  BY <1>0, <1>2, <1>3 DEF Deliver
<1>4. CASE link[q] = "connected" /\ q \notin closing' \ closing
  <2>1. down'[q] = d \o t \o << >>
    BY <1>2, <1>4
  <2>2. t = << >> => down'[q] = d
    BY <1>0, <2>1
  <2>3. \A a \in Answers : t = <<a>> => down'[q] = Append(d, a)
    <3> SUFFICES ASSUME NEW a \in Answers, t = <<a>> PROVE down'[q] = Append(d, a)
      OBVIOUS
    <3>1. Append(d, a) = d \o <<a>> /\ Append(d, a) \in Seq(Answers \cup Events)
      BY <1>0, AppendIsConcat, AppendProperties
    <3>2. (d \o <<a>>) \o << >> = d \o <<a>>
      BY <3>1, ConcatEmptySeq
    <3> QED BY <2>1, <3>1, <3>2
  <2>4. \A a : t = <<a>> => a \in Answers
    <3> SUFFICES ASSUME NEW a, t = <<a>>, NEW b \in Answers, t = <<b>> PROVE a = b
      BY <1>1
    <3>1. t[1] = a /\ t[1] = b
      OBVIOUS
    <3> QED BY <3>1
  <2>5. down'[q] \in Seq(Answers \cup Events)
    <3>1. CASE t = << >>
      BY <1>0, <2>2, <3>1
    <3>2. ASSUME NEW a \in Answers, t = <<a>>
          PROVE  down'[q] \in Seq(Answers \cup Events)
      <4>1. down'[q] = Append(d, a) /\ a \in Answers \cup Events
        BY <2>3, <3>2
      <4> QED BY <1>0, <4>1, AppendProperties
    <3> QED BY <1>1, <3>1, <3>2
  <2> QED BY <1>1, <1>4, <2>2, <2>3, <2>4, <2>5 DEF Deliver
<1>5. CASE link[q] = "connected" /\ q \in closing' \ closing
  <2> PICK n : n = Len(d) + Len(t) + 1
    OBVIOUS
  <2>1. t \in Seq(Answers \cup Events)
    <3>1. << >> \in Seq(Answers \cup Events)
      OBVIOUS
    <3>2. \A a \in Answers : <<a>> \in Seq(Answers \cup Events)
      OBVIOUS
    <3> HIDE DEF Events
    <3> QED BY <1>1, <3>1, <3>2
  <2> PICK s : s = d \o t \o <<e>>
    OBVIOUS
  <2>2. /\ s \in Seq(Answers \cup Events) /\ Len(s) = n /\ s[n] = e /\ n \in DOMAIN s
        /\ \A i \in 1..Len(d) : s[i] = d[i]
        /\ \A i \in Len(d) + 1 .. Len(d) + Len(t) : s[i] = t[i - Len(d)]
    BY <1>0, <2>1
  <2>3. \A i \in DOMAIN t : t[i] \in Answers
    BY <1>1
  <2>4. ASSUME NEW i \in DOMAIN s, s[i] = C!TimeoutEvent
        PROVE  Holds(d, C!TimeoutEvent)
    <3>1. i \in 1..n /\ i # n
      BY <2>2, <2>4, EventKinds
    <3>2. CASE i \in 1..Len(d)
      BY <1>0, <2>2, <2>4, <3>2 DEF Holds
    <3>3. CASE i \notin 1..Len(d)
      <4>1. i \in Len(d) + 1 .. Len(d) + Len(t) /\ i - Len(d) \in DOMAIN t
        BY <1>0, <2>1, <3>1, <3>3
      <4>2. s[i] \in Answers
        BY <2>2, <2>3, <4>1
      <4> QED BY <2>4, <4>2, AnswersAreNoEvents DEF Events
    <3> QED BY <3>2, <3>3
  <2>5. down'[q] = s
    BY <1>2, <1>5
  <2> QED BY <1>5, <2>2, <2>4, <2>5 DEF Holds, Deliver
<1> QED BY <1>3, <1>4, <1>5

LEMMA AnswersAppended ==
  ASSUME NEW d \in Seq(Answers \cup Events), NEW a \in Answers, NEW e \in Events
  PROVE  Holds(Append(d, a), e) <=> Holds(d, e)
<1>1. a # e /\ a \in Answers \cup Events
  BY AnswersAreNoEvents
<1>2. /\ DOMAIN Append(d, a) = 1 .. Len(d) + 1 /\ DOMAIN d = 1 .. Len(d) /\ Len(d) \in Nat
      /\ \A i \in 1 .. Len(d) : Append(d, a)[i] = d[i]
      /\ Append(d, a)[Len(d) + 1] = a
  BY <1>1, AppendProperties
<1> QED BY <1>1, <1>2 DEF Holds

\* What only the client's own steps change.
KeepsProcess(q) ==
  /\ main'[q] = main[q] /\ todo'[q] = todo[q] /\ loop'[q] = loop[q]
  /\ currentRoom'[q] = currentRoom[q] /\ waiting'[q] = waiting[q] /\ link'[q] = link[q]

\* Nothing of q changes.
LEMMA SameKept ==
  ASSUME NEW q, PeerOK(q), KeepsProcess(q), up'[q] = up[q], down'[q] = down[q],
         UNCHANGED <<clients, closing>>
  PROVE  PeerOK(q)'
BY DEF PeerOK, ProcessOK, UpOK, DownOK, StrandedOK, CarefulOK, QueueOK, AnswerOK, SendingOK,
       BeliefOK, EndsIn, Asked, Answered, ServerRoom, Live, KeepsProcess

\* The server serves another client.
LEMMA OthersKept ==
  ASSUME SystemInv, NEW p \in Peers, OthersServed(p), Deliver, TypeOK',
         NEW q \in Peers \ {p}, KeepsProcess(q), up'[q] = up[q]
  PROVE  PeerOK(q)'
<1> USE DEF KeepsProcess
<1>0. /\ PeerOK(q) /\ ClientTypeOK /\ out' \in [Peers -> Seq(Message)]
      /\ down[q] \in Seq(Answers \cup Events)
  BY DEF SystemInv, ClientInv, TypeOK, ClientTypeOK, Events
<1>1. /\ q \in DOMAIN clients' <=> q \in DOMAIN clients
      /\ q \in closing => q \in closing'
      /\ q \notin closing' => ServerRoom(q)' = ServerRoom(q) /\ Telling(out'[q]) = << >>
  BY DEF OthersServed
<1>2. /\ link[q] # "connected" => down'[q] = down[q]
      /\ q \notin closing' => down'[q] = down[q]
  BY <1>0, <1>1, Delivered
<1>3. ProcessOK(q)'
  BY <1>0, <1>2 DEF PeerOK, ProcessOK
<1>4. UpOK(q)'
  BY <1>0, <1>1 DEF PeerOK, UpOK
<1>5. DownOK(q)'
  <2>1. CASE link[q] # "connected" \/ q \notin closing'
    BY <1>0, <1>1, <1>2, <2>1 DEF PeerOK, DownOK
  <2>2. CASE link[q] = "connected" /\ q \in closing' \ closing
    <3>1. Holds(down'[q], C!DisconnectEvent) /\ ~Holds(down'[q], C!TimeoutEvent)
      BY <1>0, <2>2, Delivered DEF PeerOK, DownOK, Holds
    <3> QED BY <2>2, <3>1 DEF DownOK, Holds
  <2>3. CASE link[q] = "connected" /\ q \in closing
    <3>1. q \notin closing' \ closing /\ q \in closing'
      BY <1>1, <2>3
    <3>2. Holds(down[q], C!DisconnectEvent) /\ ~Holds(down[q], C!TimeoutEvent)
      BY <1>0, <2>3 DEF PeerOK, DownOK, Holds
    <3>3. down'[q] = down[q] \/ \E a \in Answers : down'[q] = Append(down[q], a)
      BY <1>0, <2>3, <3>1, Delivered
    <3>4. Holds(down'[q], C!DisconnectEvent) /\ ~Holds(down'[q], C!TimeoutEvent)
      <4>1. C!DisconnectEvent \in Events /\ C!TimeoutEvent \in Events
        BY DEF Events
      <4>2. \A a \in Answers, e \in Events : Holds(Append(down[q], a), e) <=> Holds(down[q], e)
        BY <1>0, AnswersAppended
      <4> QED BY <3>2, <3>3, <4>1, <4>2
    <3> QED BY <2>3, <3>1, <3>4 DEF DownOK, Holds
  <2> QED BY <2>1, <2>2, <2>3
<1>6. Asked(q)' = Asked(q) /\ (q \notin closing' => Answered(q)' = Answered(q))
  BY <1>2 DEF Asked, Answered
<1>7. QueueOK(q) => QueueOK(q)'
  BY <1>1, <1>6 DEF QueueOK
<1>8. /\ AnswerOK(q) => AnswerOK(q)'
      /\ SendingOK(q) => SendingOK(q)'
  BY <1>1, <1>2, <1>6 DEF AnswerOK, SendingOK, Live
<1>9. BeliefOK(q) => BeliefOK(q)'
  <2>1. q \notin closing' => \A x : EndsIn(q, x) => EndsIn(q, x)'
    BY <1>1, <1>6 DEF EndsIn
  <2> QED BY <1>1, <1>6, <2>1 DEF BeliefOK, Live
<1>10. StrandedOK(q)'
  BY <1>0, <1>1, <1>2, <1>6 DEF PeerOK, StrandedOK, Live
<1> QED BY <1>0, <1>3, <1>4, <1>5, <1>7, <1>8, <1>9, <1>10 DEF PeerOK, CarefulOK

\* The server takes the first of what p has sent.
LEMMA Served ==
  ASSUME ClientTypeOK, NEW p \in Peers, up[p] # << >>, up'[p] = Tail(up[p])
  PROVE  /\ Len(up[p]) \in Nat \ {0} /\ DOMAIN up[p] = 1 .. Len(up[p])
         /\ up'[p] \in Seq(Commands[p] \cup {C!ConnectEvent, C!GoneEvent})
         /\ Len(up'[p]) = Len(up[p]) - 1
         /\ DOMAIN up'[p] = 1 .. Len(up[p]) - 1
         /\ \A i \in 1 .. Len(up[p]) - 1 : up'[p][i] = up[p][i + 1]
         /\ \A i \in 1 .. Len(up[p]) - 1 : i \in Asked(p)' <=> i + 1 \in Asked(p)
         /\ Asked(p)' \subseteq 1 .. Len(up[p]) - 1 /\ Asked(p) \subseteq 1 .. Len(up[p])
<1> PICK s : s = up[p]
  OBVIOUS
<1> PICK S : S = Commands[p] \cup {C!ConnectEvent, C!GoneEvent}
  OBVIOUS
<1>1. s \in Seq(S) /\ s # << >>
  BY DEF ClientTypeOK
<1>2. /\ Len(s) \in Nat \ {0} /\ DOMAIN s = 1 .. Len(s)
      /\ Tail(s) \in Seq(S) /\ Len(Tail(s)) = Len(s) - 1
      /\ DOMAIN Tail(s) = 1 .. Len(s) - 1
      /\ \A i \in 1 .. Len(s) - 1 : Tail(s)[i] = s[i + 1]
  BY <1>1
<1> QED BY <1>2 DEF Asked

\* A request that is not served, or one to leave, changes nothing of where p
\* will be.
LEMMA EndsInServed ==
  ASSUME ClientTypeOK, NEW p \in Peers, up[p] # << >>, up'[p] = Tail(up[p]),
         ~C!Enters(up[p][1]), ServerRoom(p)' = NoCode, NEW x, EndsIn(p, x),
         IsLeave(up[p][1]) \/ ServerRoom(p) = NoCode
  PROVE  EndsIn(p, x)'
<1> PICK n : n = Len(up[p])
  OBVIOUS
<1>0. /\ n \in Nat \ {0} /\ DOMAIN up[p] = 1 .. n /\ DOMAIN up'[p] = 1 .. n - 1
      /\ \A i \in 1 .. n - 1 : up'[p][i] = up[p][i + 1]
      /\ \A i \in 1 .. n - 1 : i \in Asked(p)' <=> i + 1 \in Asked(p)
      /\ Asked(p)' \subseteq 1 .. n - 1 /\ Asked(p) \subseteq 1 .. n
  BY Served
<1>1. 1 \notin Asked(p)
  BY DEF Asked
<1>2. ASSUME NEW i \in DOMAIN up[p], IsLeave(up[p][i]), \A j \in Asked(p) : j < i
      PROVE  EndsIn(p, x)'
  <2>1. CASE i = 1
    <3>1. Asked(p)' = {}
      BY <1>0, <1>2, <2>1
    <3> QED BY <3>1 DEF EndsIn
  <2>2. CASE i # 1
    <3>1. i - 1 \in 1 .. n - 1 /\ (i - 1) + 1 = i
      BY <1>0, <2>2
    <3>2. IsLeave(up'[p][i - 1]) /\ i - 1 \in DOMAIN up'[p]
      BY <1>0, <1>2, <3>1
    <3>3. \A j \in Asked(p)' : j < i - 1
      BY <1>0, <1>2
    <3> QED BY <3>2, <3>3 DEF EndsIn
  <2> QED BY <2>1, <2>2
<1>3. ASSUME x # NoCode, NEW i \in Asked(p), up[p][i].code = x
      PROVE  EndsIn(p, x)'
  <2>1. i - 1 \in 1 .. n - 1 /\ (i - 1) + 1 = i
    BY <1>0, <1>1
  <2>2. i - 1 \in Asked(p)' /\ up'[p][i - 1].code = x
    BY <1>0, <1>3, <2>1
  <2> QED BY <1>3, <2>2 DEF EndsIn
<1>4. ASSUME Asked(p) = {}
      PROVE  EndsIn(p, x)'
  <2>1. Asked(p)' = {}
    BY <1>0, <1>4
  <2> QED BY <2>1 DEF EndsIn
<1> QED BY <1>2, <1>3, <1>4 DEF EndsIn

\* The server knows p, and takes another event than p's end.
LEMMA UpServed ==
  ASSUME ClientTypeOK, NEW p \in Peers, up[p] # << >>, up'[p] = Tail(up[p]),
         UpOK(p), link'[p] = link[p], up[p][1] # C!GoneEvent, p \in DOMAIN clients'
  PROVE  UpOK(p)'
<1> PICK n : n = Len(up[p])
  OBVIOUS
<1>0. /\ n \in Nat \ {0} /\ DOMAIN up[p] = 1 .. n /\ DOMAIN up'[p] = 1 .. n - 1
      /\ \A i \in 1 .. n - 1 : up'[p][i] = up[p][i + 1]
      /\ Len(up'[p]) = n - 1 /\ up'[p] \in Seq(Commands[p] \cup {C!ConnectEvent, C!GoneEvent})
  BY Served
<1>1. \A i \in DOMAIN up'[p] : up'[p][i] # C!ConnectEvent
  BY <1>0 DEF UpOK
<1>2. \A i \in DOMAIN up'[p] : up'[p][i] = C!GoneEvent =>
        i = Len(up'[p]) /\ link'[p] # "connected"
  <2> SUFFICES ASSUME NEW i \in 1 .. n - 1, up'[p][i] = C!GoneEvent
               PROVE  i = n - 1 /\ link'[p] # "connected"
    BY <1>0
  <2>1. i + 1 \in DOMAIN up[p] /\ up[p][i + 1] = C!GoneEvent
    BY <1>0
  <2>2. i + 1 = n /\ link[p] # "connected"
    BY <2>1 DEF UpOK
  <2> QED BY <1>0, <2>2
<1>3. up'[p] # << >> => 1 \in DOMAIN up'[p]
  BY <1>0
<1>4. link'[p] # "connected" => up'[p] # << >> /\ up'[p][Len(up'[p])] = C!GoneEvent
  <2>1. SUFFICES ASSUME link[p] # "connected"
                 PROVE  up'[p] # << >> /\ up'[p][Len(up'[p])] = C!GoneEvent
    OBVIOUS
  <2>2. up[p][n] = C!GoneEvent
    BY <2>1 DEF UpOK
  <2>3. n # 1
    BY <2>2
  <2>4. up'[p][n - 1] = C!GoneEvent /\ n - 1 \in Nat \ {0}
    BY <1>0, <2>2, <2>3
  <2> QED BY <1>0, <2>4
<1> QED BY <1>1, <1>2, <1>3, <1>4 DEF UpOK

LEMMA LastIndex ==
  ASSUME NEW n \in Nat, n # 0, n # 1
  PROVE  n - 1 \in 1 .. n - 1 /\ (n - 1) + 1 = n /\ n - 1 # 0
OBVIOUS

\* A request to leave at the end of what is on its way comes first or stays there.
LEMMA LastServed ==
  ASSUME ClientTypeOK, NEW p \in Peers, up[p] # << >>, up'[p] = Tail(up[p]),
         IsLeave(up[p][Len(up[p])])
  PROVE  \/ IsLeave(up[p][1]) /\ up'[p] = << >>
         \/ up'[p] # << >> /\ IsLeave(up'[p][Len(up'[p])])
<1> PICK n : n = Len(up[p])
  OBVIOUS
<1> PICK S : S = Commands[p] \cup {C!ConnectEvent, C!GoneEvent}
  OBVIOUS
<1>0. /\ n \in Nat \ {0} /\ up'[p] \in Seq(S) /\ Len(up'[p]) = n - 1
      /\ \A i \in 1 .. n - 1 : up'[p][i] = up[p][i + 1]
  BY Served
<1>1. CASE n = 1
  BY <1>0, <1>1, EmptySeq
<1>2. CASE n # 1
  <2>1. n \in Nat /\ n # 0 /\ n # 1
    BY <1>0, <1>2
  <2>2. n - 1 \in 1 .. n - 1 /\ (n - 1) + 1 = n /\ n - 1 # 0
    BY <2>1, LastIndex
  <2>3. up'[p][n - 1] = up[p][n]
    BY <1>0, <2>2
  <2>4. Len(<< >>) = 0
    OBVIOUS
  <2> QED BY <1>0, <2>2, <2>3, <2>4
<1> QED BY <1>1, <1>2

LEMMA ClientUnknownIsOut ==
  ASSUME NEW p, p \notin DOMAIN clients
  PROVE  ServerRoom(p) = NoCode
BY DEF ServerRoom

\* The server takes p's CONNECT event, or a request of p to leave its room.
LEMMA LeaverKept ==
  ASSUME SystemInv, NEW p \in Peers, KeepsProcess(p), up[p] # << >>,
         up'[p] = Tail(up[p]), Deliver, TypeOK', HasLeft(p), p \notin closing,
         up[p][1] = C!ConnectEvent \/ (up[p][1] \in Commands[p] /\ IsLeave(up[p][1]))
  PROVE  PeerOK(p)'
<1> USE DEF KeepsProcess
<1>0. /\ PeerOK(p) /\ ClientTypeOK /\ out' \in [Peers -> Seq(Message)]
      /\ p \notin closing' /\ p \in DOMAIN clients' /\ ServerRoom(p)' = NoCode
      /\ Telling(out'[p]) = << >>
  BY DEF SystemInv, ClientInv, TypeOK, HasLeft
<1>1. down'[p] = down[p] /\ Answered(p)' = Answered(p)
  <2>1. p \notin closing' \ closing
    BY <1>0
  <2>2. down'[p] = down[p]
    BY <1>0, <2>1, Delivered
  <2> QED BY <2>2 DEF Answered
<1>2. ~C!Enters(up[p][1]) /\ up[p][1] # C!GoneEvent
  BY Kinds, EventKinds
<1>3. IsLeave(up[p][1]) \/ ServerRoom(p) = NoCode
  <2>1. up[p][1] = C!ConnectEvent => p \notin DOMAIN clients
    BY <1>0 DEF PeerOK, UpOK
  <2> QED BY <2>1, ClientUnknownIsOut
<1>4. UpOK(p)'
  BY <1>0, <1>2, UpServed DEF PeerOK
<1>5. ProcessOK(p)' /\ DownOK(p)'
  BY <1>0, <1>1 DEF PeerOK, ProcessOK, DownOK
<1>6. StrandedOK(p)'
  <2>1. ASSUME Live(p), main[p] = "sent", IsLeave(todo[p])
        PROVE  IsLeave(up[p][Len(up[p])])
    BY <1>0, <2>1 DEF PeerOK, StrandedOK
  <2>2. Live(p)' => Live(p)
    BY DEF Live
  <2> QED BY <1>0, <2>1, <2>2, LastServed DEF StrandedOK
<1>7. ASSUME CarefulOK(p)
      PROVE  CarefulOK(p)'
  <2>1. /\ \A i, j \in Asked(p)' : i = j
        /\ Asked(p)' = {} <=> Asked(p) = {}
    <3> PICK n : n = Len(up[p])
      OBVIOUS
    <3>1. /\ n \in Nat \ {0}
          /\ \A i \in 1 .. n - 1 : i \in Asked(p)' <=> i + 1 \in Asked(p)
          /\ Asked(p)' \subseteq 1 .. n - 1 /\ Asked(p) \subseteq 1 .. n
      BY <1>0, Served
    <3>2. \A i, j \in Asked(p) : i = j
      BY <1>0, <1>7 DEF CarefulOK, QueueOK
    <3>3. 1 \notin Asked(p)
      BY <1>2 DEF Asked
    <3>4. \A i \in Asked(p) : i - 1 \in 1 .. n - 1 /\ (i - 1) + 1 = i
      BY <3>1, <3>3
    <3> QED BY <3>1, <3>2, <3>4
  <2>2. QueueOK(p)'
    BY <1>0, <2>1 DEF QueueOK
  <2>3. AnswerOK(p)'
    <3>1. \A i, j \in Answered(p)' : Live(p) => i = j
      BY <1>0, <1>1, <1>7 DEF CarefulOK, AnswerOK
    <3> QED BY <1>0, <1>1, <1>7, <2>1, <3>1 DEF CarefulOK, AnswerOK, Live
  <2>4. BeliefOK(p)'
    <3>1. \A x : EndsIn(p, x) => EndsIn(p, x)'
      BY <1>0, <1>2, <1>3, EndsInServed
    <3> QED BY <1>0, <1>1, <1>7, <2>1, <3>1 DEF CarefulOK, BeliefOK, Live
  <2>5. SendingOK(p)'
    BY <1>0, <1>7 DEF CarefulOK, SendingOK, Live
  <2> QED BY <2>2, <2>3, <2>4, <2>5 DEF CarefulOK
<1> QED BY <1>0, <1>4, <1>5, <1>6, <1>7 DEF PeerOK

\* The server takes p's request to enter a room: with a careful user the only
\* one, which no answer has come to yet.
LEMMA EntererKept ==
  ASSUME SystemInv, NEW p \in Peers, KeepsProcess(p), up[p] # << >>,
         up'[p] = Tail(up[p]), Deliver, TypeOK', HasAsked(p, up[p][1]), p \notin closing,
         up[p][1] \in Commands[p], C!Enters(up[p][1])
  PROVE  PeerOK(p)'
<1> USE DEF KeepsProcess
<1> PICK told : told = Telling(out'[p])
  OBVIOUS
<1>0. /\ PeerOK(p) /\ ClientTypeOK /\ out' \in [Peers -> Seq(Message)]
      /\ p \notin closing' /\ p \in DOMAIN clients' /\ NoCode \notin Codes
  BY ServerAssumption DEF SystemInv, ClientInv, TypeOK, HasAsked
<1>1. UpOK(p)'
  <2>1. up[p][1] # C!GoneEvent
    BY Kinds
  <2> QED BY <1>0, <2>1, UpServed DEF PeerOK
<1>2. \/ down'[p] = down[p]
      \/ \E a \in Answers : told = <<a>> /\ down'[p] = Append(down[p], a)
  <2>1. p \notin closing' \ closing
    BY <1>0
  <2> QED BY <1>0, <2>1, Delivered
<1>3. ProcessOK(p)' /\ DownOK(p)'
  <2>1. link[p] # "connected" => down'[p] = down[p]
    BY <1>0, Delivered
  <2>2. ASSUME NEW e \in Events
        PROVE  Holds(down'[p], e) <=> Holds(down[p], e)
    <3>1. down[p] \in Seq(Answers \cup Events)
      BY <1>0 DEF ClientTypeOK, Events
    <3>2. \A a \in Answers : Holds(Append(down[p], a), e) <=> Holds(down[p], e)
      BY <3>1, AnswersAppended
    <3> QED BY <1>2, <3>2
  <2>3. DownOK(p)'
    <3>1. DownOK(p) /\ (p \in closing' <=> p \in closing)
      BY <1>0 DEF PeerOK
    <3> QED BY <2>2, <3>1 DEF DownOK, Holds, Events
  <2>4. ProcessOK(p)'
    BY <1>0, <2>1 DEF PeerOK, ProcessOK
  <2> QED BY <2>3, <2>4
<1>4. StrandedOK(p)'
  <2> PICK d : d = down[p]
    OBVIOUS
  <2>1. d \in Seq(Answers \cup Events)
    BY <1>0 DEF ClientTypeOK, Events
  <2>2. ~IsLeave(up[p][1]) /\ (Live(p)' => Live(p))
    BY Kinds DEF Live
  <2>3. ASSUME Live(p)', main[p] = "sent", IsLeave(todo[p])
        PROVE  up'[p] # << >> /\ IsLeave(up'[p][Len(up'[p])])
    BY <1>0, <2>2, <2>3, LastServed DEF PeerOK, StrandedOK
  <2>4. ASSUME NEW a \in Answers
        PROVE  /\ DOMAIN Append(d, a) = 1 .. Len(d) + 1 /\ DOMAIN d = 1 .. Len(d)
               /\ Len(d) \in Nat /\ Append(d, a)[Len(d) + 1] = a
               /\ \A i \in 1 .. Len(d) : Append(d, a)[i] = d[i]
               /\ a.type \in Acted
    BY <2>1, <2>4, AppendProperties, AnswersAreNoEvents
  <2>5. ASSUME Live(p)', ServerRoom(p)' # NoCode, \A i \in DOMAIN up'[p] : ~IsLeave(up'[p][i])
        PROVE  currentRoom[p] # NoCode \/ \E i \in Answered(p)' : down'[p][i].type # "ERROR"
    <3>1. CASE ServerRoom(p)' = ServerRoom(p)
      <4>1. \A i \in DOMAIN up[p] : ~IsLeave(up[p][i])
        <5> PICK n : n = Len(up[p])
          OBVIOUS
        <5>1. /\ n \in Nat /\ DOMAIN up[p] = 1 .. n /\ DOMAIN up'[p] = 1 .. n - 1
              /\ \A k \in 1 .. n - 1 : up'[p][k] = up[p][k + 1]
          BY <1>0, Served
        <5>2. ASSUME NEW i \in DOMAIN up[p], i # 1
              PROVE  ~IsLeave(up[p][i])
          <6>1. i - 1 \in 1 .. n - 1 /\ (i - 1) + 1 = i
            BY <5>1, <5>2
          <6>2. up'[p][i - 1] = up[p][i] /\ i - 1 \in DOMAIN up'[p]
            BY <5>1, <6>1
          <6> QED BY <2>5, <6>2
        <5> QED BY <2>2, <5>2
      <4>2. currentRoom[p] # NoCode \/ \E i \in Answered(p) : down[p][i].type # "ERROR"
        BY <1>0, <2>2, <2>5, <3>1, <4>1 DEF PeerOK, StrandedOK
      <4>3. \A i \in Answered(p) : i \in Answered(p)' /\ down'[p][i] = down[p][i]
        BY <1>2, <2>4 DEF Answered
      <4> QED BY <4>2, <4>3
    <3>2. CASE ServerRoom(p)' # ServerRoom(p)
      <4>1. PICK code \in Codes, t \in {"CONFIRM_ROOM_CREATION", "CONFIRM_ROOM_JOIN"} :
              told = <<[type |-> t, code |-> code]>>
        BY <3>2 DEF HasAsked
      <4> PICK c : c = [type |-> t, code |-> code]
        OBVIOUS
      <4>2. c \in Answers /\ c.type # "ERROR" /\ told = <<c>>
        BY <4>1 DEF Answers
      <4>3. down'[p] = Append(d, c)
        BY <1>0, <2>2, <2>5, <4>2, Delivered DEF Live
      <4> QED BY <2>4, <4>2, <4>3 DEF Answered
    <3> QED BY <3>1, <3>2
  <2> QED BY <2>3, <2>5 DEF StrandedOK
<1>5. ASSUME CarefulOK(p)
      PROVE  CarefulOK(p)'
  <2>1. Asked(p) = {1} /\ Asked(p)' = {}
    <3> PICK n : n = Len(up[p])
      OBVIOUS
    <3>1. /\ n \in Nat \ {0} /\ DOMAIN up[p] = 1 .. n
          /\ \A i \in 1 .. n - 1 : i \in Asked(p)' <=> i + 1 \in Asked(p)
          /\ Asked(p)' \subseteq 1 .. n - 1 /\ Asked(p) \subseteq 1 .. n
      BY <1>0, Served
    <3>2. \A i, j \in Asked(p) : i = j
      BY <1>0, <1>5 DEF CarefulOK, QueueOK
    <3>3. 1 \in Asked(p)
      BY <3>1 DEF Asked
    <3>4. \A i \in Asked(p)' : i + 1 \in Asked(p) /\ i + 1 # 1
      BY <3>1
    <3> QED BY <3>2, <3>3, <3>4
  <2>2. ServerRoom(p)' = ServerRoom(p) => ServerRoom(p)' = NoCode
    <3>1. DOMAIN up[p] = 1 .. Len(up[p]) /\ Len(up[p]) \in Nat
      BY <1>0, Served
    <3>2. 1 \in Asked(p) /\ \A j \in DOMAIN up[p] : ~(j < 1)
      BY <2>1, <3>1
    <3> QED BY <1>0, <1>5, <3>2 DEF CarefulOK, QueueOK
  <2>3. Live(p) => Answered(p) = {} /\ waiting[p]
    BY <1>5, <2>1 DEF CarefulOK, AnswerOK
  <2>4. QueueOK(p)'
    BY <2>1 DEF QueueOK
  <2>5. AnswerOK(p)'
    <3>1. SUFFICES ASSUME Live(p)'
                   PROVE  /\ \A i, j \in Answered(p)' : i = j
                          /\ \A i \in Answered(p)' : ServerRoom(p)' # NoCode =>
                               down'[p][i].type # "ERROR" /\ down'[p][i].code = ServerRoom(p)'
      BY <2>1, <2>3 DEF AnswerOK, Live
    <3>2. Live(p)
      BY <3>1 DEF Live
    <3>3. CASE down'[p] = down[p]
      BY <2>3, <3>2, <3>3 DEF Answered
    <3>4. ASSUME NEW a \in Answers, told = <<a>>, down'[p] = Append(down[p], a)
          PROVE  /\ \A i, j \in Answered(p)' : i = j
                 /\ \A i \in Answered(p)' : ServerRoom(p)' # NoCode =>
                      down'[p][i].type # "ERROR" /\ down'[p][i].code = ServerRoom(p)'
      <4> PICK d : d = down[p]
        OBVIOUS
      <4>1. d \in Seq(Answers \cup Events) /\ a \in Answers \cup Events
        BY <1>0 DEF ClientTypeOK, Events
      <4>2. /\ DOMAIN Append(d, a) = 1 .. Len(d) + 1 /\ DOMAIN d = 1 .. Len(d)
            /\ Len(d) \in Nat /\ Append(d, a)[Len(d) + 1] = a
            /\ \A i \in 1 .. Len(d) : Append(d, a)[i] = d[i]
        BY <4>1, AppendProperties
      <4>3. \A i \in Answered(p)' : i = Len(d) + 1 /\ down'[p][i] = a
        BY <2>3, <3>2, <3>4, <4>2 DEF Answered
      <4>4. ServerRoom(p)' # NoCode => a.type # "ERROR" /\ a.code = ServerRoom(p)'
        <5> SUFFICES ASSUME ServerRoom(p)' # NoCode
                     PROVE  a.type # "ERROR" /\ a.code = ServerRoom(p)'
          OBVIOUS
        <5>1. PICK code \in Codes, t \in {"CONFIRM_ROOM_CREATION", "CONFIRM_ROOM_JOIN"} :
                ServerRoom(p)' = code /\ told = <<[type |-> t, code |-> code]>>
          BY <2>2 DEF HasAsked
        <5>2. told[1] = a /\ told[1] = [type |-> t, code |-> code]
          BY <3>4, <5>1
        <5> QED BY <5>1, <5>2
      <4> QED BY <4>3, <4>4
    <3> QED BY <1>2, <3>3, <3>4
  <2>6. BeliefOK(p)'
    <3>1. SUFFICES ASSUME Live(p)'
                   PROVE  /\ main[p] = "sent" => EndsIn(p, todo[p].code)'
                          /\ main[p] # "sent" /\ Answered(p)' = {} => EndsIn(p, currentRoom[p])'
      BY DEF BeliefOK
    <3>2. Live(p)
      BY <3>1 DEF Live
    <3>3. ASSUME NEW x, EndsIn(p, x)
          PROVE  EndsIn(p, x)'
      <4>1. CASE \E i \in DOMAIN up[p] : IsLeave(up[p][i]) /\ \A j \in Asked(p) : j < i
        <5>1. PICK i \in DOMAIN up[p] : IsLeave(up[p][i]) /\ 1 < i
          BY <2>1, <4>1
        <5>2. /\ i - 1 \in DOMAIN up'[p] /\ up'[p][i - 1] = up[p][i]
          <6>1. /\ Len(up[p]) \in Nat /\ DOMAIN up[p] = 1 .. Len(up[p])
                /\ DOMAIN up'[p] = 1 .. Len(up[p]) - 1
                /\ \A k \in 1 .. Len(up[p]) - 1 : up'[p][k] = up[p][k + 1]
            BY <1>0, Served
          <6>2. i - 1 \in 1 .. Len(up[p]) - 1 /\ (i - 1) + 1 = i
            BY <5>1, <6>1
          <6> QED BY <6>1, <6>2
        <5> QED BY <2>1, <5>1, <5>2 DEF EndsIn
      <4>2. CASE x # NoCode /\ up[p][1].code = x
        <5>1. ServerRoom(p)' \in {NoCode, x}
          BY <2>2, <4>2 DEF HasAsked
        <5> QED BY <2>1, <5>1 DEF EndsIn
      <4> QED BY <2>1, <3>3, <4>1, <4>2 DEF EndsIn
    <3>4. main[p] = "sent" => EndsIn(p, todo[p].code)'
      BY <1>5, <3>2, <3>3 DEF CarefulOK, BeliefOK
    <3>5. Answered(p)' = {} => ServerRoom(p)' = NoCode
      <4> SUFFICES ASSUME ServerRoom(p)' # NoCode PROVE Answered(p)' # {}
        OBVIOUS
      <4> PICK d : d = down[p]
        OBVIOUS
      <4>1. \E a : told = <<a>>
        BY <2>2 DEF HasAsked
      <4>2. p \notin closing' \ closing /\ link[p] = "connected"
        BY <1>0, <3>2 DEF Live
      <4>3. PICK a \in Answers : down'[p] = Append(d, a)
        BY <1>0, <4>1, <4>2, Delivered
      <4>4. d \in Seq(Answers \cup Events) /\ a \in Answers \cup Events /\ a.type \in Acted
        BY <1>0, AnswersAreNoEvents DEF ClientTypeOK, Events
      <4>5. Len(d) + 1 \in DOMAIN Append(d, a) /\ Append(d, a)[Len(d) + 1] = a
        BY <4>4, AppendProperties
      <4> QED BY <4>3, <4>4, <4>5 DEF Answered
    <3>6. Answered(p)' = {} => EndsIn(p, currentRoom[p])'
      BY <2>1, <3>5 DEF EndsIn
    <3> QED BY <3>4, <3>6
  <2>7. SendingOK(p)'
    BY <1>0, <1>5 DEF CarefulOK, SendingOK, Live
  <2> QED BY <2>4, <2>5, <2>6, <2>7 DEF CarefulOK
<1> QED BY <1>0, <1>1, <1>3, <1>4, <1>5 DEF PeerOK

\* The server learns that p has gone.
LEMMA GoneKept ==
  ASSUME SystemInv, NEW p \in Peers, KeepsProcess(p), up[p] # << >>,
         up'[p] = Tail(up[p]), Deliver, TypeOK', up[p][1] = C!GoneEvent,
         p \notin DOMAIN clients', p \notin closing'
  PROVE  PeerOK(p)'
<1> USE DEF KeepsProcess
<1>0. /\ PeerOK(p) /\ ClientTypeOK /\ out' \in [Peers -> Seq(Message)]
  BY DEF SystemInv, ClientInv, TypeOK
<1>1. /\ Len(up[p]) \in Nat \ {0} /\ DOMAIN up[p] = 1 .. Len(up[p])
      /\ up'[p] \in Seq(Commands[p] \cup {C!ConnectEvent, C!GoneEvent})
      /\ Len(up'[p]) = Len(up[p]) - 1
  BY <1>0, Served
<1>2. Len(up[p]) = 1 /\ link[p] # "connected"
  <2>1. 1 \in DOMAIN up[p]
    BY <1>1
  <2> QED BY <1>0, <2>1 DEF PeerOK, UpOK
<1>3. up'[p] = << >> /\ DOMAIN up'[p] = {}
  <2> PICK S : S = Commands[p] \cup {C!ConnectEvent, C!GoneEvent}
    OBVIOUS
  <2>1. up'[p] \in Seq(S) /\ Len(up'[p]) = 0
    BY <1>1, <1>2
  <2>2. up'[p] = << >>
    BY <2>1, EmptySeq
  <2>3. DOMAIN up'[p] = 1 .. Len(up[p]) - 1
    BY <1>0, Served
  <2> QED BY <1>2, <2>2, <2>3
<1>4. down'[p] = down[p]
  BY <1>0, <1>2, Delivered
<1>5. UpOK(p)' /\ ServerRoom(p)' = NoCode /\ Asked(p)' = {} /\ ~Live(p)'
  BY <1>2, <1>3 DEF UpOK, ServerRoom, Asked, Live
<1> QED BY <1>0, <1>2, <1>4, <1>5 DEF PeerOK, ProcessOK, DownOK, StrandedOK, CarefulOK,
                                QueueOK, AnswerOK, SendingOK, BeliefOK

\* The server does not listen to a peer it is disconnecting.
LEMMA ClosingKept ==
  ASSUME SystemInv, NEW p \in Peers, KeepsProcess(p), up[p] # << >>,
         up'[p] = Tail(up[p]), UNCHANGED <<clients, closing>>, down'[p] = down[p],
         up[p][1] \in Commands[p], p \notin Connected
  PROVE  PeerOK(p)'
<1> USE DEF KeepsProcess
<1>0. /\ PeerOK(p) /\ ClientTypeOK
  BY DEF SystemInv, ClientInv
<1>1. up[p][1] # C!ConnectEvent /\ up[p][1] # C!GoneEvent
  BY Kinds
<1>2. p \in DOMAIN clients /\ p \in closing
  BY <1>0, <1>1 DEF PeerOK, UpOK, Connected
<1>3. UpOK(p)'
  BY <1>0, <1>1, <1>2, UpServed DEF PeerOK
<1> QED BY <1>0, <1>2, <1>3 DEF PeerOK, ProcessOK, DownOK, StrandedOK, CarefulOK,
                                QueueOK, AnswerOK, SendingOK, BeliefOK, Live

LEMMA ServeKeepsClients ==
  ASSUME SystemInv, NEW p \in Peers, Serve(p)
  PROVE  ClientInv'
<1>0. /\ ClientTypeOK /\ TypeOK' /\ TypeOK /\ out' \in [Peers -> Seq(Message)]
      /\ up[p] # << >> /\ Head(up[p]) = up[p][1]
      /\ UNCHANGED <<main, todo, loop, running, peer, currentRoom, waiting, link>>
      /\ up' = [up EXCEPT ![p] = Tail(up[p])] /\ DOMAIN up = Peers
  BY ServeKeepsServer, First DEF Serve, SystemInv, ClientInv, ClientTypeOK, IInv, TypeOK
<1>1. /\ up'[p] = Tail(up[p]) /\ \A q \in Peers \ {p} : up'[q] = up[q]
      /\ \A q \in Peers : KeepsProcess(q)
  BY <1>0 DEF KeepsProcess
<1>2. \/ OthersServed(p) /\ Deliver
      \/ UNCHANGED <<clients, closing, down>>
  <2>1. CASE ServeConnect(p)
    BY <1>0, <2>1, ConnectServes DEF ServeConnect
  <2>2. CASE ServeGone(p)
    BY <1>0, <2>2, LeaveServes DEF ServeGone
  <2>3. CASE ServeRequest(p) /\ p \in Connected
    <3>1. Handler(p, up[p][1]) /\ Deliver /\ up[p][1] \in Commands[p]
      BY <1>0, <2>3 DEF ServeRequest
    <3>2. CASE C!Enters(up[p][1])
      BY <1>0, <2>3, <3>1, <3>2, EnteringServes
    <3>3. CASE IsLeave(up[p][1])
      BY <1>0, <2>3, <3>1, <3>3, LeaveServes DEF Handler, IsLeave
    <3> QED BY <3>1, <3>2, <3>3, Kinds
  <2>4. CASE ServeRequest(p) /\ p \notin Connected
    BY <2>4 DEF ServeRequest, vars
  <2> QED BY <2>1, <2>2, <2>3, <2>4 DEF Serve
<1>3. ClientTypeOK'
  <2>1. DOMAIN down' = Peers /\ \A q \in Peers : down'[q] \in Seq(Answers \cup Events)
    <3>1. CASE Deliver
      BY <1>0, <3>1, Delivered DEF Events
    <3>2. CASE UNCHANGED down
      BY <1>0, <3>2 DEF ClientTypeOK, Events
    <3> QED BY <1>2, <3>1, <3>2
  <2>2. \A q \in Peers : up'[q] \in Seq(Commands[q] \cup {C!ConnectEvent, C!GoneEvent})
    BY <1>0, <1>1, Served DEF ClientTypeOK
  <2>3. DOMAIN up' = Peers
    BY <1>0
  <2> QED BY <1>0, <2>1, <2>2, <2>3 DEF ClientTypeOK, Events
<1>4. ASSUME NEW q \in Peers \ {p}
      PROVE  PeerOK(q)'
  <2>1. CASE OthersServed(p) /\ Deliver
    BY <1>0, <1>1, <2>1, OthersKept
  <2>2. CASE UNCHANGED <<clients, closing, down>>
    <3>1. PeerOK(q)
      BY DEF SystemInv, ClientInv
    <3> QED BY <1>1, <2>2, <3>1, SameKept
  <2> QED BY <1>2, <2>1, <2>2
<1>5. PeerOK(p)'
  <2>1. CASE ServeConnect(p)
    <3>1. /\ HasLeft(p) /\ Deliver /\ up[p][1] = C!ConnectEvent /\ p \notin DOMAIN clients
      BY <1>0, <2>1, ConnectServes DEF ServeConnect, Connect
    <3>2. p \notin closing
      BY <1>0, <3>1 DEF TypeOK
    <3> QED BY <1>0, <1>1, <3>1, <3>2, LeaverKept
  <2>2. CASE ServeGone(p)
    <3>1. /\ Deliver /\ up[p][1] = C!GoneEvent
          /\ p \notin DOMAIN clients' /\ p \notin closing'
      BY <1>0, <2>2, LeaveServes DEF ServeGone
    <3> QED BY <1>0, <1>1, <3>1, GoneKept
  <2>3. CASE ServeRequest(p) /\ p \in Connected
    <3>1. /\ Handler(p, up[p][1]) /\ Deliver /\ up[p][1] \in Commands[p] /\ p \notin closing
      BY <1>0, <2>3 DEF ServeRequest, Connected
    <3>2. CASE C!Enters(up[p][1])
      <4>1. HasAsked(p, up[p][1])
        BY <1>0, <2>3, <3>1, <3>2, EnteringServes
      <4> QED BY <1>0, <1>1, <3>1, <3>2, <4>1, EntererKept
    <3>3. CASE IsLeave(up[p][1])
      <4>1. HandleRoomLeave(p)
        BY <3>1, <3>3 DEF Handler, IsLeave
      <4>2. HasLeft(p)
        BY <1>0, <2>3, <4>1, LeaveServes
      <4> QED BY <1>0, <1>1, <3>1, <3>3, <4>2, LeaverKept
    <3> QED BY <3>1, <3>2, <3>3, Kinds
  <2>4. CASE ServeRequest(p) /\ p \notin Connected
    <3>1. /\ UNCHANGED <<clients, closing>> /\ down'[p] = down[p] /\ up[p][1] \in Commands[p]
      BY <1>0, <2>4 DEF ServeRequest, vars
    <3> QED BY <1>0, <1>1, <2>4, <3>1, ClosingKept
  <2> QED BY <2>1, <2>2, <2>3, <2>4 DEF Serve
<1> QED BY <1>3, <1>4, <1>5 DEF ClientInv

-----------------------------------------------------------------------------
(***************************************************************************)
(* What the steps of the clients leave true.                               *)
(***************************************************************************)
\* What may be left of what p has sent when its connection ends.
CutShort(s, rest) ==
  \/ rest = << >> /\ s # << >> /\ s[1] = C!ConnectEvent
  \/ \E n \in 0 .. Len(s) :
       /\ Len(rest) = n + 1 /\ DOMAIN rest = 1 .. n + 1
       /\ rest[n + 1] = C!GoneEvent
       /\ \A i \in 1 .. n : rest[i] = s[i]
       /\ n = 0 => s = << >> \/ s[1] # C!ConnectEvent

LEMMA RemainsOf ==
  ASSUME NEW S, NEW s \in Seq(S), C!GoneEvent \in S, NEW rest \in C!Remains(s)
  PROVE  /\ rest \in Seq(S)
         /\ CutShort(s, rest)
<1>1. PICK n \in 0 .. Len(s) :
        rest = IF SubSeq(s, 1, n) = << >> /\ s # << >> /\ Head(s) = C!ConnectEvent
                 THEN << >> ELSE Append(SubSeq(s, 1, n), C!GoneEvent)
  BY DEF C!Remains, C!Prefixes
<1> PICK k : k = SubSeq(s, 1, n)
  OBVIOUS
<1>2. /\ k \in Seq(S) /\ Len(k) = n /\ n \in Nat
      /\ \A i \in 1 .. n : k[i] = s[i]
  BY SubSeqProperties
<1>3. CASE k = << >> /\ s # << >> /\ Head(s) = C!ConnectEvent
  <2>1. Head(s) = s[1]
    OBVIOUS
  <2>2. << >> \in Seq(S)
    BY EmptySeq
  <2> QED BY <1>1, <1>3, <2>1, <2>2 DEF CutShort
<1>4. CASE ~(k = << >> /\ s # << >> /\ Head(s) = C!ConnectEvent)
  <2>1. rest = Append(k, C!GoneEvent)
    BY <1>1, <1>4
  <2>2. /\ rest \in Seq(S) /\ Len(rest) = n + 1 /\ rest[n + 1] = C!GoneEvent
        /\ \A i \in 1 .. n : rest[i] = s[i]
    BY <1>2, <2>1, AppendProperties
  <2>3. n = 0 => s = << >> \/ s[1] # C!ConnectEvent
    <3> SUFFICES ASSUME n = 0, s # << >> PROVE s[1] # C!ConnectEvent
      OBVIOUS
    <3>1. k = << >>
      BY <1>2, EmptySeq
    <3>2. Head(s) = s[1]
      OBVIOUS
    <3> QED BY <1>4, <3>1, <3>2
  <2> QED BY <1>2, <2>2, <2>3 DEF CutShort
<1> QED BY <1>3, <1>4

\* The connection of p ends, at p's end.
LEMMA EndedUp ==
  ASSUME ClientTypeOK, NEW p \in Peers, UpOK(p), UNCHANGED <<clients, closing>>,
         link'[p] # "connected",
         IF link[p] = "connected" THEN up'[p] \in C!Remains(up[p]) ELSE up'[p] = up[p]
  PROVE  /\ UpOK(p)' /\ (QueueOK(p) => QueueOK(p)')
         /\ up'[p] \in Seq(Commands[p] \cup {C!ConnectEvent, C!GoneEvent})
<1> PICK S : S = Commands[p] \cup {C!ConnectEvent, C!GoneEvent}
  OBVIOUS
<1> PICK s : s = up[p]
  OBVIOUS
<1>0. s \in Seq(S) /\ C!GoneEvent \in S /\ Len(s) \in Nat /\ DOMAIN s = 1 .. Len(s)
  BY DEF ClientTypeOK
<1>1. CASE link[p] # "connected"
  BY <1>0, <1>1 DEF UpOK, QueueOK, Asked, ServerRoom
<1>2. CASE link[p] = "connected"
  <2> PICK rest : rest = up'[p]
    OBVIOUS
  <2>1. rest \in Seq(S) /\ CutShort(s, rest)
    <3>1. rest \in C!Remains(s)
      BY <1>2
    <3> QED BY <1>0, <3>1, RemainsOf
  <2>2. CASE rest = << >> /\ s # << >> /\ s[1] = C!ConnectEvent
    <3>1. p \notin DOMAIN clients
      BY <2>2 DEF UpOK
    <3>2. DOMAIN rest = {} /\ Asked(p)' = {}
      BY <2>2 DEF Asked
    <3> QED BY <2>1, <2>2, <3>1, <3>2 DEF UpOK, QueueOK
  <2>3. ASSUME NEW n \in 0 .. Len(s),
               Len(rest) = n + 1, DOMAIN rest = 1 .. n + 1, rest[n + 1] = C!GoneEvent,
               \A i \in 1 .. n : rest[i] = s[i],
               n = 0 => s = << >> \/ s[1] # C!ConnectEvent
        PROVE  UpOK(p)' /\ (QueueOK(p) => QueueOK(p)')
    <3>1. /\ \A i \in 1 .. n : i \in DOMAIN s /\ s[i] # C!GoneEvent
          /\ n \in Nat /\ rest # << >> /\ 1 \in DOMAIN rest
      BY <1>0, <1>2, <2>3 DEF UpOK
    <3>2. \A i \in DOMAIN rest : i \in 1 .. n \/ i = n + 1
      BY <2>3
    <3>3. \A i \in DOMAIN rest : rest[i] = C!ConnectEvent => i = 1
      BY <2>3, <3>1, <3>2, EventKinds DEF UpOK
    <3>4. rest[1] = C!ConnectEvent <=> p \notin DOMAIN clients
      <4>1. CASE n = 0
        <5>1. rest[1] # C!ConnectEvent
          BY <2>3, <4>1, EventKinds
        <5>2. p \in DOMAIN clients
          BY <1>2, <2>3, <4>1 DEF UpOK
        <5> QED BY <5>1, <5>2
      <4>2. CASE n # 0
        <5>1. 1 \in 1 .. n
          BY <4>2
        <5>2. rest[1] = s[1] /\ s # << >>
          BY <1>0, <2>3, <3>1, <5>1
        <5> QED BY <5>2 DEF UpOK
      <4> QED BY <4>1, <4>2
    <3>5. \A i \in DOMAIN rest : rest[i] = C!GoneEvent => i = Len(rest)
      BY <2>3, <3>1, <3>2
    <3>6. UpOK(p)'
      BY <2>3, <3>1, <3>3, <3>4, <3>5 DEF UpOK
    <3>7. \A i \in Asked(p)' : i \in Asked(p) /\ i \in 1 .. n
      BY <2>3, <3>1, <3>2, EventKinds DEF Asked
    <3>8. QueueOK(p) => QueueOK(p)'
      <4>1. SUFFICES ASSUME QueueOK(p), p \notin closing
                     PROVE  /\ \A i, j \in Asked(p)' : i = j
                            /\ \A i \in Asked(p)' : ServerRoom(p) # NoCode =>
                                 \E j \in DOMAIN rest : j < i /\ IsLeave(rest[j])
        BY DEF QueueOK, ServerRoom
      <4>2. ASSUME NEW i \in Asked(p)', ServerRoom(p) # NoCode
            PROVE  \E j \in DOMAIN rest : j < i /\ IsLeave(rest[j])
        <5>1. PICK j \in DOMAIN s : j < i /\ IsLeave(s[j])
          BY <3>7, <4>1, <4>2 DEF QueueOK
        <5>2. j \in 1 .. n /\ j \in DOMAIN rest
          BY <1>0, <2>3, <3>7, <5>1
        <5> QED BY <2>3, <5>1, <5>2
      <4>3. \A i, j \in Asked(p)' : i = j
        BY <3>7, <4>1 DEF QueueOK
      <4> QED BY <4>2, <4>3
    <3> QED BY <3>6, <3>8
  <2> QED BY <2>1, <2>2, <2>3 DEF CutShort
<1> QED BY <1>1, <1>2

\* The clauses that are about live connections.
LEMMA NotLive ==
  ASSUME NEW p, link'[p] # "connected"
  PROVE  StrandedOK(p)' /\ AnswerOK(p)' /\ SendingOK(p)' /\ BeliefOK(p)'
BY DEF StrandedOK, AnswerOK, SendingOK, BeliefOK, Live

\* What the threads, the user and the world do is done to one client.
KeepsRest(p) ==
  /\ \A q \in Peers \ {p} : KeepsProcess(q) /\ up'[q] = up[q] /\ down'[q] = down[q]
  /\ UNCHANGED <<clients, closing>>

LEMMA OneClient ==
  ASSUME SystemInv, NEW p \in Peers, KeepsRest(p), ClientTypeOK', PeerOK(p)'
  PROVE  ClientInv'
<1>1. \A q \in Peers \ {p} : PeerOK(q)'
  BY SameKept DEF KeepsRest, SystemInv, ClientInv
<1> QED BY <1>1 DEF ClientInv

LEMMA ExitKeeps ==
  ASSUME SystemInv, NEW p \in Peers, C!Exit(p), C!Vanish(p), UNCHANGED vars
  PROVE  ClientInv'
<1>0. ClientTypeOK /\ PeerOK(p) /\ UNCHANGED <<clients, closing>>
  BY DEF SystemInv, ClientInv, vars
<1>1. KeepsRest(p)
  BY <1>0 DEF C!Exit, C!Vanish, KeepsRest, KeepsProcess, ClientTypeOK
<1>2. /\ main'[p] = "off" /\ loop'[p] = "none" /\ currentRoom'[p] = NoCode
      /\ waiting'[p] = FALSE /\ link'[p] = "none" /\ down'[p] = << >>
      /\ IF link[p] = "connected" THEN up'[p] \in C!Remains(up[p]) ELSE up'[p] = up[p]
  BY <1>0 DEF C!Exit, C!Vanish, ClientTypeOK
<1>3. /\ UpOK(p)' /\ (QueueOK(p) => QueueOK(p)')
      /\ up'[p] \in Seq(Commands[p] \cup {C!ConnectEvent, C!GoneEvent})
  BY <1>0, <1>2, EndedUp DEF PeerOK
<1>4. ClientTypeOK'
  <2>1. << >> \in Seq(Answers \cup {C!DisconnectEvent, C!TimeoutEvent})
    BY EmptySeq
  <2>2. /\ DOMAIN up' = Peers /\ DOMAIN down' = Peers /\ DOMAIN todo' = Peers
        /\ \A q \in Peers \ {p} : up'[q] = up[q] /\ down'[q] = down[q] /\ todo'[q] = todo[q]
        /\ todo'[p] = C!NoRequest
    BY <1>0 DEF C!Exit, C!Vanish, ClientTypeOK
  <2>3. /\ main' \in [Peers -> {"off", "prompt", "sending", "sent", "joining"}]
        /\ loop' \in [Peers -> {"none", "service", "ended"}]
        /\ link' \in [Peers -> {"none", "connected", "lost"}]
        /\ running' \in [Peers -> BOOLEAN] /\ peer' \in [Peers -> BOOLEAN]
        /\ waiting' \in [Peers -> BOOLEAN] /\ currentRoom' \in [Peers -> Codes \cup {NoCode}]
    BY <1>0 DEF C!Exit, C!Vanish, ClientTypeOK
  <2> QED BY <1>0, <1>2, <1>3, <2>1, <2>2, <2>3 DEF ClientTypeOK
<1>5. PeerOK(p)'
  <2>1. ProcessOK(p)' /\ DownOK(p)'
    BY <1>2 DEF ProcessOK, DownOK
  <2> QED BY <1>0, <1>2, <1>3, <2>1, NotLive DEF PeerOK, CarefulOK
<1> QED BY <1>1, <1>4, <1>5, OneClient

LEMMA ConnectKeeps ==
  ASSUME SystemInv, NEW p \in Peers, C!Connect(p), UNCHANGED vars
  PROVE  ClientInv'
<1>0. ClientTypeOK /\ PeerOK(p) /\ UNCHANGED <<clients, closing>> /\ TypeOK
  BY DEF SystemInv, ClientInv, vars, IInv
<1>1. KeepsRest(p)
  BY <1>0 DEF C!Connect, KeepsRest, KeepsProcess, ClientTypeOK
<1>2. /\ main[p] = "off" /\ up[p] = << >>
      /\ main'[p] = "prompt" /\ link'[p] = "connected" /\ up'[p] = <<C!ConnectEvent>>
      /\ todo'[p] = todo[p] /\ currentRoom'[p] = currentRoom[p]
      /\ waiting'[p] = waiting[p] /\ down'[p] = down[p]
  BY <1>0 DEF C!Connect, ClientTypeOK
<1>3. /\ p \notin DOMAIN clients /\ p \notin closing /\ ServerRoom(p)' = NoCode
      /\ down'[p] = << >> /\ ~waiting'[p] /\ currentRoom'[p] = NoCode
  BY <1>0, <1>2 DEF PeerOK, ProcessOK, UpOK, TypeOK, ServerRoom
<1>4. DOMAIN up'[p] = {1} /\ DOMAIN down'[p] = {} /\ Asked(p)' = {} /\ Answered(p)' = {}
  BY <1>2, <1>3, EventKinds DEF Asked, Answered
<1>5. ClientTypeOK'
  <2>1. up'[p] \in Seq(Commands[p] \cup {C!ConnectEvent, C!GoneEvent})
    BY <1>2
  <2> QED BY <1>0, <2>1 DEF C!Connect, ClientTypeOK
<1>6. UpOK(p)'
  BY <1>0, <1>2, <1>3, <1>4, EventKinds DEF UpOK
<1>7. EndsIn(p, currentRoom[p])'
  BY <1>3, <1>4 DEF EndsIn
<1> QED BY <1>0, <1>1, <1>2, <1>3, <1>4, <1>5, <1>6, <1>7, OneClient
        DEF PeerOK, ProcessOK, DownOK, StrandedOK, CarefulOK, QueueOK, AnswerOK,
            SendingOK, BeliefOK

\* What is on its way and what the server knows stay as they are.
KeepsConnection(p) ==
  up'[p] = up[p] /\ down'[p] = down[p] /\ link'[p] = link[p] /\ UNCHANGED <<clients, closing>>

LEMMA ConnectionKept ==
  ASSUME NEW p, PeerOK(p), KeepsConnection(p)
  PROVE  /\ UpOK(p)' /\ DownOK(p)' /\ (QueueOK(p) => QueueOK(p)')
         /\ Asked(p)' = Asked(p) /\ Answered(p)' = Answered(p) /\ (Live(p)' <=> Live(p))
         /\ ServerRoom(p)' = ServerRoom(p)
         /\ \A x : (EndsIn(p, x)' <=> EndsIn(p, x))
         /\ AnswerOK(p) /\ waiting'[p] = waiting[p] => AnswerOK(p)'
         /\ /\ currentRoom'[p] = currentRoom[p]
            /\ main'[p] # "sent" \/ (main'[p] = main[p] /\ todo'[p] = todo[p])
            => StrandedOK(p)'
BY DEF PeerOK, UpOK, DownOK, StrandedOK, QueueOK, AnswerOK, Asked, Answered, Live, ServerRoom,
       KeepsConnection, EndsIn

LEMMA CommandKeeps ==
  ASSUME SystemInv, NEW p \in Peers, NEW request \in Commands[p], C!Command(p, request),
         C!Allows(p, request), UNCHANGED vars
  PROVE  ClientInv'
<1>0. ClientTypeOK /\ PeerOK(p) /\ UNCHANGED <<clients, closing>>
  BY DEF SystemInv, ClientInv, vars
<1>1. KeepsRest(p)
  BY <1>0 DEF C!Command, C!memory, KeepsRest, KeepsProcess, ClientTypeOK
<1>2. /\ main[p] = "prompt" /\ main'[p] = "sending" /\ todo'[p] = request
      /\ loop'[p] = loop[p] /\ currentRoom'[p] = currentRoom[p] /\ waiting'[p] = waiting[p]
      /\ p \in Careful /\ C!Enters(request) => currentRoom[p] = NoCode /\ ~waiting[p]
      /\ KeepsConnection(p)
  BY <1>0 DEF C!Command, C!Allows, C!memory, ClientTypeOK, KeepsConnection
<1>3. ClientTypeOK'
  BY <1>0 DEF C!Command, C!memory, ClientTypeOK
<1>4. ProcessOK(p)' /\ (p \in Careful => SendingOK(p)')
  BY <1>0, <1>2 DEF PeerOK, ProcessOK, SendingOK
<1>5. BeliefOK(p) => BeliefOK(p)'
  BY <1>0, <1>2, ConnectionKept DEF BeliefOK
<1> QED BY <1>0, <1>1, <1>2, <1>3, <1>4, <1>5, ConnectionKept, OneClient
        DEF PeerOK, CarefulOK

LEMMA QuitKeeps ==
  ASSUME SystemInv, NEW p \in Peers, C!Quit(p), UNCHANGED vars
  PROVE  ClientInv'
<1>0. ClientTypeOK /\ PeerOK(p) /\ UNCHANGED <<clients, closing>>
  BY DEF SystemInv, ClientInv, vars
<1>1. KeepsRest(p)
  BY <1>0 DEF C!Quit, KeepsRest, KeepsProcess, ClientTypeOK
<1>2. /\ main[p] = "prompt" /\ main'[p] = "joining"
      /\ todo'[p] = todo[p] /\ currentRoom'[p] = currentRoom[p] /\ waiting'[p] = waiting[p]
      /\ KeepsConnection(p)
  BY <1>0 DEF C!Quit, ClientTypeOK, KeepsConnection
<1>3. ClientTypeOK'
  BY <1>0 DEF C!Quit, ClientTypeOK
<1>4. ProcessOK(p)' /\ SendingOK(p)'
  BY <1>0, <1>2 DEF PeerOK, ProcessOK, SendingOK
<1>5. BeliefOK(p) => BeliefOK(p)'
  BY <1>0, <1>2, ConnectionKept DEF BeliefOK
<1> QED BY <1>0, <1>1, <1>2, <1>3, <1>4, <1>5, ConnectionKept, OneClient
        DEF PeerOK, CarefulOK

LEMMA ServiceTimeoutKeeps ==
  ASSUME SystemInv, NEW p \in Peers, C!ServiceTimeout(p), UNCHANGED vars
  PROVE  ClientInv'
<1>0. ClientTypeOK /\ PeerOK(p) /\ UNCHANGED <<clients, closing>>
  BY DEF SystemInv, ClientInv, vars
<1>1. KeepsRest(p)
  BY <1>0 DEF C!ServiceTimeout, C!NextLoop, C!memory, KeepsRest, KeepsProcess, ClientTypeOK
<1>2. /\ loop[p] = "service" /\ main'[p] = main[p]
      /\ todo'[p] = todo[p] /\ currentRoom'[p] = currentRoom[p] /\ waiting'[p] = waiting[p]
      /\ KeepsConnection(p)
  BY <1>0 DEF C!ServiceTimeout, C!memory, ClientTypeOK, KeepsConnection
<1>3. ClientTypeOK'
  BY <1>0 DEF C!ServiceTimeout, C!NextLoop, C!memory, ClientTypeOK
<1>4. ProcessOK(p)'
  BY <1>0, <1>2 DEF PeerOK, ProcessOK
<1>5. (BeliefOK(p) => BeliefOK(p)') /\ (SendingOK(p) => SendingOK(p)')
  BY <1>0, <1>2, ConnectionKept DEF BeliefOK, SendingOK
<1> QED BY <1>0, <1>1, <1>2, <1>3, <1>4, <1>5, ConnectionKept, OneClient
        DEF PeerOK, CarefulOK

\* The client's idea of its room becomes the one it was about to write.
LEMMA FinishKeeps ==
  ASSUME SystemInv, NEW p \in Peers, C!Finish(p), UNCHANGED vars
  PROVE  ClientInv'
<1>0. ClientTypeOK /\ PeerOK(p) /\ UNCHANGED <<clients, closing>>
  BY DEF SystemInv, ClientInv, vars
<1>1. KeepsRest(p)
  BY <1>0 DEF C!Finish, C!Prompt, KeepsRest, KeepsProcess, ClientTypeOK
<1>2. /\ main[p] = "sent" /\ main'[p] = "prompt" /\ currentRoom'[p] = todo[p].code
      /\ waiting'[p] = waiting[p] /\ KeepsConnection(p)
  BY <1>0 DEF C!Finish, C!Prompt, ClientTypeOK, KeepsConnection
<1>3. ClientTypeOK'
  <2>1. todo[p] \in Commands[p]
    BY <1>0, <1>2 DEF PeerOK, ProcessOK
  <2>2. todo[p].code \in Codes \cup {NoCode}
    BY <2>1, RequestType
  <2> QED BY <1>0, <2>2 DEF C!Finish, C!Prompt, ClientTypeOK
<1>4. ProcessOK(p)' /\ SendingOK(p)'
  BY <1>0, <1>2 DEF PeerOK, ProcessOK, SendingOK
<1>5. BeliefOK(p) => BeliefOK(p)'
  BY <1>0, <1>2, ConnectionKept DEF BeliefOK
<1>6. StrandedOK(p)'
  <2>1. todo[p] \in Commands[p] /\ C!WritesRoom(todo[p])
    BY <1>0, <1>2 DEF PeerOK, ProcessOK
  <2>2. CASE IsLeave(todo[p])
    <3>1. up[p] # << >> => Len(up[p]) \in DOMAIN up[p]
      <4>1. up[p] \in Seq(Commands[p] \cup {C!ConnectEvent, C!GoneEvent})
        BY <1>0 DEF ClientTypeOK
      <4> QED BY <4>1, EmptySeq
    <3>2. Live(p) => ServerRoom(p) = NoCode \/ \E i \in DOMAIN up[p] : IsLeave(up[p][i])
      BY <1>0, <1>2, <2>2, <3>1 DEF PeerOK, StrandedOK
    <3> QED BY <1>0, <1>2, <3>2, ConnectionKept DEF StrandedOK, KeepsConnection
  <2>3. CASE C!Enters(todo[p])
    <3>1. currentRoom'[p] # NoCode
      BY <1>2, <2>1, <2>3, Kinds
    <3> QED BY <1>2, <3>1 DEF StrandedOK
  <2> QED BY <2>1, <2>2, <2>3, Kinds
<1> QED BY <1>0, <1>1, <1>2, <1>3, <1>4, <1>5, <1>6, ConnectionKept, OneClient
        DEF PeerOK, CarefulOK

\* What p sends goes to the end of what is on its way.
LEMMA RequestSent ==
  ASSUME SystemInv, NEW p \in Peers, main[p] = "sending", link[p] = "connected",
         up'[p] = Append(up[p], todo[p]), UNCHANGED <<clients, closing>>,
         down'[p] = down[p], link'[p] = link[p], loop'[p] = loop[p],
         currentRoom'[p] = currentRoom[p],
         waiting'[p] <=> (waiting[p] \/ C!Enters(todo[p])),
         IF C!WritesRoom(todo[p]) THEN main'[p] = "sent" /\ todo'[p] = todo[p]
                                  ELSE main'[p] = "prompt"
  PROVE  /\ PeerOK(p)'
         /\ up'[p] \in Seq(Commands[p] \cup {C!ConnectEvent, C!GoneEvent})
<1> PICK S : S = Commands[p] \cup {C!ConnectEvent, C!GoneEvent}
  OBVIOUS
<1> PICK u : u = up[p]
  OBVIOUS
<1> PICK r : r = todo[p]
  OBVIOUS
<1> PICK v : v = up'[p]
  OBVIOUS
<1> PICK n : n = Len(u)
  OBVIOUS
<1>0. ClientTypeOK /\ PeerOK(p) /\ u \in Seq(S) /\ r \in Commands[p] /\ n \in Nat
  <2>1. ClientTypeOK /\ PeerOK(p)
    BY DEF SystemInv, ClientInv
  <2>2. u \in Seq(S)
    BY <2>1 DEF ClientTypeOK
  <2>3. r \in Commands[p]
    BY <2>1 DEF PeerOK, ProcessOK
  <2> QED BY <2>1, <2>2, <2>3
<1>1. /\ v \in Seq(S) /\ Len(v) = n + 1 /\ v[n + 1] = r /\ \A i \in 1 .. n : v[i] = u[i]
  BY <1>0, AppendProperties
<1>2. /\ DOMAIN u = 1 .. n /\ DOMAIN v = 1 .. n + 1 /\ v # << >>
      /\ \A i \in DOMAIN v : i \in DOMAIN u \/ i = n + 1
      /\ \A i \in DOMAIN u : i \in DOMAIN v /\ v[i] = u[i] /\ i < n + 1
      /\ n + 1 \in DOMAIN v
  BY <1>0, <1>1
<1>3. /\ r # C!ConnectEvent /\ r # C!GoneEvent
      /\ IsLeave(r) <=> ~C!Enters(r)
      /\ C!WritesRoom(r) /\ C!Enters(r) => r.code # NoCode
      /\ IsLeave(r) => r.code = NoCode
  BY <1>0, Kinds
<1>4. UpOK(p)'
  <2>1. \A i \in DOMAIN v : (v[i] = C!ConnectEvent => i = 1) /\ v[i] # C!GoneEvent
    BY <1>0, <1>1, <1>2, <1>3 DEF PeerOK, UpOK
  <2>2. v[1] = C!ConnectEvent <=> p \notin DOMAIN clients
    <3>1. CASE n = 0
      <4>1. u = << >>
        BY <1>0, <3>1, EmptySeq
      <4> QED BY <1>0, <1>1, <1>3, <3>1, <4>1 DEF PeerOK, UpOK
    <3>2. CASE n # 0
      <4>1. 1 \in DOMAIN u /\ u # << >>
        BY <1>0, <1>2, <3>2
      <4> QED BY <1>0, <1>2, <4>1 DEF PeerOK, UpOK
    <3> QED BY <3>1, <3>2
  <2> QED BY <1>2, <2>1, <2>2 DEF UpOK
<1>5. /\ \A i \in Asked(p)' : i \in Asked(p) \/ (i = n + 1 /\ C!Enters(r))
      /\ \A i \in Asked(p) : i \in Asked(p)' /\ i < n + 1
      /\ C!Enters(r) => n + 1 \in Asked(p)'
      /\ Answered(p)' = Answered(p) /\ ServerRoom(p)' = ServerRoom(p) /\ (Live(p)' <=> Live(p))
  BY <1>1, <1>2 DEF Asked, Answered, ServerRoom, Live
<1>6. ASSUME CarefulOK(p)
      PROVE  CarefulOK(p)'
  <2>1. ASSUME p \notin closing, C!Enters(r)
        PROVE  /\ ~waiting[p] /\ Asked(p) = {} /\ Answered(p) = {} /\ EndsIn(p, NoCode)
    BY <1>6, <2>1 DEF CarefulOK, SendingOK, AnswerOK, BeliefOK, Live
  <2>2. QueueOK(p)'
    <3>1. SUFFICES ASSUME p \notin closing
                   PROVE  /\ \A i, j \in Asked(p)' : i = j
                          /\ \A i \in Asked(p)' : ServerRoom(p) # NoCode =>
                               \E j \in DOMAIN v : j < i /\ IsLeave(v[j])
      BY <1>5 DEF QueueOK
    <3>2. CASE C!Enters(r)
      <4>1. ServerRoom(p) # NoCode => \E j \in DOMAIN u : IsLeave(u[j])
        BY <2>1, <3>1, <3>2 DEF EndsIn
      <4> QED BY <1>2, <1>5, <2>1, <3>1, <3>2, <4>1
    <3>3. CASE ~C!Enters(r)
      <4>1. Asked(p)' \subseteq Asked(p)
        BY <1>5, <3>3
      <4>2. /\ \A i, j \in Asked(p) : i = j
            /\ \A i \in Asked(p) : ServerRoom(p) # NoCode =>
                 \E j \in DOMAIN u : j < i /\ IsLeave(u[j])
        BY <1>6, <3>1 DEF CarefulOK, QueueOK
      <4> QED BY <1>2, <4>1, <4>2
    <3> QED BY <3>2, <3>3
  <2>3. AnswerOK(p)'
    <3>1. CASE C!Enters(r)
      BY <1>5, <2>1, <2>2, <3>1 DEF AnswerOK, Live
    <3>2. CASE ~C!Enters(r)
      <4>1. Asked(p)' = Asked(p)
        BY <1>5, <3>2
      <4> QED BY <1>5, <1>6, <3>2, <4>1 DEF CarefulOK, AnswerOK
    <3> QED BY <3>1, <3>2
  <2>4. BeliefOK(p)'
    <3>1. CASE C!WritesRoom(r)
      <4>1. main'[p] = "sent" /\ todo'[p] = r
        BY <3>1
      <4>2. EndsIn(p, todo[p].code)'
        <5>1. CASE IsLeave(r)
          BY <1>1, <1>2, <1>3, <1>5, <5>1 DEF EndsIn
        <5>2. CASE C!Enters(r)
          BY <1>1, <1>3, <1>5, <3>1, <4>1, <5>2 DEF EndsIn
        <5> QED BY <1>3, <5>1, <5>2
      <4> QED BY <4>1, <4>2 DEF BeliefOK
    <3>2. CASE ~C!WritesRoom(r)
      <4>1. C!Enters(r)
        BY <1>3, <3>2 DEF IsLeave, C!WritesRoom
      <4> QED BY <1>5, <3>2, <4>1 DEF BeliefOK
    <3> QED BY <3>1, <3>2
  <2>5. SendingOK(p)'
    BY <1>6 DEF CarefulOK, SendingOK
  <2> QED BY <2>2, <2>3, <2>4, <2>5 DEF CarefulOK
<1>7. ProcessOK(p)'
  BY <1>0 DEF PeerOK, ProcessOK
<1>8. DownOK(p)'
  BY <1>0 DEF PeerOK, DownOK
<1>9. StrandedOK(p)'
  <2>1. ASSUME Live(p)', ServerRoom(p)' # NoCode, \A i \in DOMAIN v : ~IsLeave(v[i])
        PROVE  currentRoom[p] # NoCode \/ \E i \in Answered(p) : down[p][i].type # "ERROR"
    <3>1. \A i \in DOMAIN u : ~IsLeave(u[i])
      BY <1>2, <2>1
    <3> QED BY <1>0, <1>5, <2>1, <3>1 DEF PeerOK, StrandedOK
  <2>2. main'[p] = "sent" => todo'[p] = r
    OBVIOUS
  <2>3. Len(v) = n + 1 /\ v[n + 1] = r /\ v # << >>
    BY <1>1, <1>2
  <2>4. IsLeave(r) => IsLeave(v[Len(v)])
    BY <2>3
  <2> QED BY <1>5, <2>1, <2>2, <2>3, <2>4 DEF StrandedOK
<1> QED BY <1>0, <1>1, <1>4, <1>6, <1>7, <1>8, <1>9 DEF PeerOK

LEMMA TransmitKeeps ==
  ASSUME SystemInv, NEW p \in Peers, C!Transmit(p), UNCHANGED vars
  PROVE  ClientInv'
<1>0. ClientTypeOK /\ PeerOK(p) /\ UNCHANGED <<clients, closing>> /\ main[p] = "sending"
  BY DEF SystemInv, ClientInv, vars, C!Transmit
<1>1. CASE peer[p] /\ link[p] \in {"connected", "lost"}
  <2>1. /\ IF C!WritesRoom(todo[p])
             THEN main' = [main EXCEPT ![p] = "sent"] /\ UNCHANGED todo
             ELSE C!Prompt(p)
        /\ up' = [up EXCEPT ![p] = IF link[p] = "connected" THEN Append(@, todo[p]) ELSE @]
        /\ waiting' = [waiting EXCEPT ![p] = @ \/ C!Enters(todo[p])]
        /\ UNCHANGED <<loop, running, peer, currentRoom, link, down>>
    BY <1>1 DEF C!Transmit
  <2>2. KeepsRest(p)
    BY <1>0, <2>1 DEF C!Prompt, KeepsRest, KeepsProcess, ClientTypeOK
  <2>3. /\ IF C!WritesRoom(todo[p]) THEN main'[p] = "sent" /\ todo'[p] = todo[p]
                                    ELSE main'[p] = "prompt"
        /\ up'[p] = IF link[p] = "connected" THEN Append(up[p], todo[p]) ELSE up[p]
        /\ waiting'[p] <=> (waiting[p] \/ C!Enters(todo[p]))
    BY <1>0, <2>1 DEF C!Prompt, ClientTypeOK
  <2>4. /\ PeerOK(p)'
        /\ up'[p] \in Seq(Commands[p] \cup {C!ConnectEvent, C!GoneEvent})
    <3>1. CASE link[p] = "connected"
      BY <1>0, <2>1, <2>3, <3>1, RequestSent
    <3>2. CASE link[p] # "connected"
      <4>1. KeepsConnection(p)
        BY <1>0, <2>1, <2>3, <3>2 DEF KeepsConnection
      <4>2. UpOK(p)' /\ DownOK(p)' /\ (QueueOK(p) => QueueOK(p)')
        BY <1>0, <4>1, ConnectionKept
      <4>3. StrandedOK(p)' /\ AnswerOK(p)' /\ SendingOK(p)' /\ BeliefOK(p)'
        BY <2>1, <3>2, NotLive
      <4>4. ProcessOK(p)'
        BY <1>0, <2>1, <2>3 DEF PeerOK, ProcessOK
      <4> QED BY <1>0, <2>3, <3>2, <4>2, <4>3, <4>4
              DEF PeerOK, CarefulOK, ClientTypeOK
    <3> QED BY <3>1, <3>2
  <2>5. ClientTypeOK'
    <3>1. waiting' \in [Peers -> BOOLEAN]
      BY <1>0, <2>1 DEF ClientTypeOK
    <3>2. /\ DOMAIN up' = Peers /\ DOMAIN todo' = Peers
          /\ main' \in [Peers -> {"off", "prompt", "sending", "sent", "joining"}]
          /\ \A q \in Peers \ {p} : up'[q] = up[q] /\ todo'[q] = todo[q]
          /\ todo'[p] \in {todo[p], C!NoRequest}
      BY <1>0, <2>1 DEF C!Prompt, ClientTypeOK
    <3> QED BY <1>0, <2>1, <2>4, <3>1, <3>2 DEF ClientTypeOK
  <2> QED BY <2>2, <2>4, <2>5, OneClient
<1>2. CASE peer[p] /\ link[p] = "none"
  <2>1. C!Prompt(p) /\ UNCHANGED <<loop, C!memory, link, up, down>>
    BY <1>2 DEF C!Transmit
  <2>2. KeepsRest(p) /\ ClientTypeOK'
    BY <1>0, <2>1 DEF C!Prompt, C!memory, KeepsRest, KeepsProcess, ClientTypeOK
  <2>3. main'[p] = "prompt" /\ KeepsConnection(p) /\ link'[p] # "connected"
    BY <1>0, <1>2, <2>1 DEF C!Prompt, ClientTypeOK, KeepsConnection
  <2> QED BY <1>0, <2>2, <2>3, ConnectionKept, NotLive, OneClient
          DEF PeerOK, CarefulOK, ProcessOK
<1>3. CASE ~peer[p]
  BY <1>3, ExitKeeps DEF C!Transmit
<1> QED BY <1>0, <1>1, <1>2, <1>3 DEF ClientTypeOK

\* Of the message that comes first, the others move up.
LEMMA Received ==
  ASSUME ClientTypeOK, NEW p \in Peers, down[p] # << >>, down'[p] = Tail(down[p])
  PROVE  /\ Head(down[p]) = down[p][1] /\ 1 \in DOMAIN down[p]
         /\ down'[p] \in Seq(Answers \cup Events)
         /\ \A i \in DOMAIN down'[p] : i + 1 \in DOMAIN down[p] /\ down'[p][i] = down[p][i + 1]
         /\ \A i \in DOMAIN down[p] : i = 1 \/ (i - 1 \in DOMAIN down'[p] /\ (i - 1) + 1 = i)
         /\ \A i \in DOMAIN down'[p] : i + 1 # 1
<1> PICK S : S = Answers \cup Events
  OBVIOUS
<1> PICK d : d = down[p]
  OBVIOUS
<1>1. d \in Seq(S) /\ d # << >>
  BY DEF ClientTypeOK, Events
<1>2. Len(d) \in Nat \ {0} /\ DOMAIN d = 1 .. Len(d) /\ Head(d) = d[1]
  BY <1>1, EmptySeq
<1>3. /\ Tail(d) \in Seq(S) /\ Len(Tail(d)) = Len(d) - 1
      /\ \A i \in 1 .. Len(Tail(d)) : Tail(d)[i] = d[i + 1]
  BY <1>1
<1>4. DOMAIN Tail(d) = 1 .. Len(d) - 1
  BY <1>3
<1> QED BY <1>1, <1>2, <1>3, <1>4

LEMMA MessageKept ==
  ASSUME SystemInv, NEW p \in Peers, main[p] # "off", down[p] # << >>,
         down'[p] = Tail(down[p]), down[p][1].type \in Acted,
         UNCHANGED <<clients, closing>>, up'[p] = up[p], link'[p] = link[p],
         main'[p] = main[p], todo'[p] = todo[p], ~waiting'[p],
         currentRoom'[p] = IF down[p][1].type = "ERROR" THEN currentRoom[p]
                                                        ELSE down[p][1].code
  PROVE  PeerOK(p)'
<1> PICK m : m = down[p][1]
  OBVIOUS
<1>0. ClientTypeOK /\ PeerOK(p)
  BY DEF SystemInv, ClientInv
<1>1. /\ 1 \in DOMAIN down[p]
      /\ \A i \in DOMAIN down'[p] : i + 1 \in DOMAIN down[p] /\ down'[p][i] = down[p][i + 1]
      /\ \A i \in DOMAIN down[p] : i = 1 \/ (i - 1 \in DOMAIN down'[p] /\ (i - 1) + 1 = i)
      /\ \A i \in DOMAIN down'[p] : i + 1 # 1
  BY <1>0, Received
<1>2. /\ Asked(p)' = Asked(p) /\ ServerRoom(p)' = ServerRoom(p) /\ (Live(p)' <=> Live(p))
      /\ \A x : (EndsIn(p, x)' <=> EndsIn(p, x))
  BY DEF Asked, ServerRoom, Live, EndsIn
<1>3. UpOK(p)' /\ ProcessOK(p)'
  BY <1>0 DEF PeerOK, UpOK, ProcessOK
<1>4. DownOK(p)'
  <2>1. m # C!DisconnectEvent
    BY EventKinds
  <2>2. (\E i \in DOMAIN down[p] : down[p][i] = C!DisconnectEvent) <=>
          \E i \in DOMAIN down'[p] : down'[p][i] = C!DisconnectEvent
    <3>1. ASSUME NEW i \in DOMAIN down[p], down[p][i] = C!DisconnectEvent
          PROVE  i - 1 \in DOMAIN down'[p] /\ down'[p][i - 1] = C!DisconnectEvent
      <4>1. i # 1
        BY <2>1, <3>1
      <4>2. i - 1 \in DOMAIN down'[p] /\ (i - 1) + 1 = i
        BY <1>1, <4>1
      <4>3. down'[p][i - 1] = down[p][(i - 1) + 1]
        BY <1>1, <4>2
      <4> QED BY <3>1, <4>2, <4>3
    <3> QED BY <1>1, <3>1
  <2> QED BY <1>0, <1>1, <2>2 DEF PeerOK, DownOK
<1>5. ASSUME CarefulOK(p)
      PROVE  CarefulOK(p)'
  <2>1. ASSUME Live(p)
        PROVE  /\ Asked(p) = {} /\ Answered(p)' = {} /\ waiting[p]
               /\ ServerRoom(p) # NoCode => m.type # "ERROR" /\ m.code = ServerRoom(p)
    <3>1. 1 \in Answered(p)
      BY <1>1 DEF Answered
    <3>2. \A i \in Answered(p) : i = 1
      BY <1>5, <2>1, <3>1 DEF CarefulOK, AnswerOK
    <3>3. \A i \in Answered(p)' : i + 1 \in Answered(p) /\ i + 1 # 1
      BY <1>1 DEF Answered
    <3>4. Answered(p)' = {}
      BY <3>2, <3>3
    <3>5. waiting[p] \in BOOLEAN /\ (~waiting[p] => Answered(p) = {})
      BY <1>0, <1>5, <2>1 DEF CarefulOK, AnswerOK, ClientTypeOK
    <3>6. waiting[p]
      BY <3>1, <3>5
    <3> QED BY <1>5, <2>1, <3>1, <3>4, <3>6 DEF CarefulOK, AnswerOK
  <2>2. AnswerOK(p)'
    BY <1>2, <2>1 DEF AnswerOK
  <2>3. SendingOK(p)'
    BY <1>2, <1>5, <2>1 DEF CarefulOK, SendingOK
  <2>4. BeliefOK(p)'
    <3>1. SUFFICES ASSUME Live(p)
                   PROVE  /\ main[p] = "sent" => EndsIn(p, todo[p].code)
                          /\ EndsIn(p, currentRoom'[p])
      BY <1>2 DEF BeliefOK, EndsIn
    <3>2. main[p] = "sent" => EndsIn(p, todo[p].code)
      BY <1>5, <3>1 DEF CarefulOK, BeliefOK
    <3>3. Asked(p) = {} /\ ServerRoom(p) \in {NoCode, currentRoom'[p]}
      BY <2>1, <3>1
    <3>4. EndsIn(p, currentRoom'[p])
      BY <3>3 DEF EndsIn
    <3> QED BY <3>2, <3>4
  <2>5. QueueOK(p)'
    BY <1>2, <1>5 DEF CarefulOK, QueueOK
  <2> QED BY <2>2, <2>3, <2>4, <2>5 DEF CarefulOK
<1>6. StrandedOK(p)'
  <2>1. ASSUME m.type # "ERROR"
        PROVE  currentRoom'[p] # NoCode
    <3>1. down[p] \in Seq(Answers \cup Events)
      BY <1>0 DEF ClientTypeOK, Events
    <3>2. m \in Answers \cup Events /\ \A e \in Events : e.type \notin Acted
      BY <1>1, <3>1, EventKinds DEF Events
    <3>3. m \in Answers
      BY <3>2
    <3>4. m.code \in Codes
      BY <2>1, <3>3 DEF Answers
    <3> QED BY <2>1, <3>4, ServerAssumption
  <2>2. ASSUME m.type = "ERROR", NEW i \in Answered(p), down[p][i].type # "ERROR"
        PROVE  \E k \in Answered(p)' : down'[p][k].type # "ERROR"
    <3>1. i - 1 \in DOMAIN down'[p] /\ (i - 1) + 1 = i
      BY <1>1, <2>2 DEF Answered
    <3>2. down'[p][i - 1] = down[p][i]
      BY <1>1, <3>1
    <3> QED BY <2>2, <3>1, <3>2 DEF Answered
  <2>3. m.type = "ERROR" => currentRoom'[p] = currentRoom[p]
    OBVIOUS
  <2> QED BY <1>0, <1>2, <2>1, <2>2, <2>3 DEF PeerOK, StrandedOK
<1> QED BY <1>0, <1>3, <1>4, <1>5, <1>6 DEF PeerOK

LEMMA DisconnectKept ==
  ASSUME SystemInv, NEW p \in Peers, main[p] # "off", down[p] # << >>,
         down[p][1] = C!DisconnectEvent, UNCHANGED <<clients, closing>>,
         up'[p] = IF link[p] = "connected" THEN <<C!GoneEvent>> ELSE up[p],
         link'[p] = "none", main'[p] = main[p], todo'[p] = todo[p]
  PROVE  PeerOK(p)'
<1>0. ClientTypeOK /\ PeerOK(p) /\ TypeOK
  BY DEF SystemInv, ClientInv, IInv
<1>1. UpOK(p)' /\ (QueueOK(p) => QueueOK(p)')
  <2>1. CASE link[p] = "connected"
    <3>1. 1 \in DOMAIN down[p]
      <4>1. down[p] \in Seq(Answers \cup {C!DisconnectEvent, C!TimeoutEvent})
        BY <1>0 DEF ClientTypeOK
      <4> QED BY <4>1, EmptySeq
    <3>2. p \in closing
      BY <1>0, <2>1, <3>1 DEF PeerOK, DownOK
    <3>3. p \in DOMAIN clients
      BY <1>0, <3>2 DEF TypeOK
    <3>4. PICK v : v = up'[p]
      OBVIOUS
    <3>5. v = <<C!GoneEvent>>
      BY <2>1, <3>4
    <3>6. DOMAIN v = {1} /\ Len(v) = 1 /\ v[1] = C!GoneEvent /\ v # << >>
      BY <3>5
    <3>7. UpOK(p)'
      BY <3>3, <3>4, <3>6, EventKinds DEF UpOK
    <3> QED BY <3>2, <3>7 DEF QueueOK
  <2>2. CASE link[p] # "connected"
    BY <1>0, <2>2 DEF PeerOK, UpOK, QueueOK, Asked, ServerRoom
  <2> QED BY <2>1, <2>2
<1>2. DownOK(p)' /\ ProcessOK(p)'
  BY <1>0 DEF PeerOK, DownOK, ProcessOK
<1> QED BY <1>0, <1>1, <1>2, NotLive DEF PeerOK, CarefulOK

LEMMA ReceiveKeeps ==
  ASSUME SystemInv, NEW p \in Peers, C!Receive(p), UNCHANGED vars
  PROVE  ClientInv'
<1>0. /\ ClientTypeOK /\ PeerOK(p) /\ UNCHANGED <<clients, closing>>
      /\ down[p] # << >> /\ down' = [down EXCEPT ![p] = Tail(@)]
      /\ UNCHANGED <<main, todo, running>> /\ C!NextLoop(p) /\ loop[p] = "service"
  BY DEF SystemInv, ClientInv, vars, C!Receive
<1>1. /\ down'[p] = Tail(down[p]) /\ DOMAIN down' = Peers
      /\ \A q \in Peers \ {p} : down'[q] = down[q] /\ loop'[q] = loop[q]
      /\ main[p] # "off" /\ loop' \in [Peers -> {"none", "service", "ended"}]
  BY <1>0 DEF ClientTypeOK, C!NextLoop, PeerOK, ProcessOK
<1>2. /\ Head(down[p]) = down[p][1] /\ 1 \in DOMAIN down[p]
      /\ down'[p] \in Seq(Answers \cup Events)
      /\ down[p][1] \in Answers \cup Events
  <2>1. down[p] \in Seq(Answers \cup Events)
    BY <1>0 DEF ClientTypeOK, Events
  <2>2. Head(down[p]) = down[p][1] /\ 1 \in DOMAIN down[p]
        /\ down'[p] \in Seq(Answers \cup Events)
    BY <1>0, <1>1, Received
  <2> QED BY <2>1, <2>2
<1>3. CASE C!ReceiveMessage(p)
  <2>1. /\ down[p][1].type \in Acted
        /\ currentRoom' = [currentRoom EXCEPT ![p] =
                             IF down[p][1].type = "ERROR" THEN @ ELSE down[p][1].code]
        /\ waiting' = [waiting EXCEPT ![p] = FALSE]
        /\ UNCHANGED <<peer, link, up>>
    BY <1>2, <1>3 DEF C!ReceiveMessage, Acted
  <2>2. /\ currentRoom'[p] = IF down[p][1].type = "ERROR" THEN currentRoom[p]
                                                          ELSE down[p][1].code
        /\ waiting'[p] = FALSE
    BY <1>0, <2>1 DEF ClientTypeOK
  <2>3. PeerOK(p)'
    BY <1>0, <1>1, <2>1, <2>2, MessageKept
  <2>4. KeepsRest(p)
    BY <1>0, <1>1, <2>1 DEF KeepsRest, KeepsProcess, ClientTypeOK
  <2>5. currentRoom' \in [Peers -> Codes \cup {NoCode}]
    <3>1. down[p][1] \in Answers
      <4>1. \A e \in Events : e.type \notin Acted
        BY EventKinds DEF Events
      <4> QED BY <1>2, <2>1, <4>1
    <3>2. down[p][1].type # "ERROR" => down[p][1].code \in Codes
      BY <3>1 DEF Answers
    <3> QED BY <1>0, <2>1, <3>2 DEF ClientTypeOK
  <2>6. ClientTypeOK'
    BY <1>0, <1>1, <1>2, <2>1, <2>5 DEF ClientTypeOK, Events
  <2> QED BY <2>3, <2>4, <2>6, OneClient
<1>4. CASE C!ReceiveDisconnect(p)
  <2>1. /\ down[p][1] = C!DisconnectEvent
        /\ up' = [up EXCEPT ![p] = IF link[p] = "connected" THEN <<C!GoneEvent>> ELSE @]
        /\ link' = [link EXCEPT ![p] = "none"]
        /\ currentRoom' = [currentRoom EXCEPT ![p] = NoCode]
        /\ waiting' = [waiting EXCEPT ![p] = FALSE] /\ peer' = [peer EXCEPT ![p] = FALSE]
    BY <1>2, <1>4 DEF C!ReceiveDisconnect
  <2>2. /\ up'[p] = IF link[p] = "connected" THEN <<C!GoneEvent>> ELSE up[p]
        /\ link'[p] = "none"
    BY <1>0, <2>1 DEF ClientTypeOK
  <2>3. PeerOK(p)'
    BY <1>0, <1>1, <2>1, <2>2, DisconnectKept
  <2>4. KeepsRest(p)
    BY <1>0, <1>1, <2>1 DEF KeepsRest, KeepsProcess, ClientTypeOK
  <2>5. /\ DOMAIN up' = Peers
        /\ \A q \in Peers : up'[q] \in Seq(Commands[q] \cup {C!ConnectEvent, C!GoneEvent})
    <3>1. <<C!GoneEvent>> \in Seq(Commands[p] \cup {C!ConnectEvent, C!GoneEvent})
      OBVIOUS
    <3> QED BY <1>0, <2>1, <3>1 DEF ClientTypeOK
  <2>6. ClientTypeOK'
    BY <1>0, <1>1, <1>2, <2>1, <2>5 DEF ClientTypeOK, Events
  <2> QED BY <2>3, <2>4, <2>6, OneClient
<1>5. CASE C!ReceiveTimeout(p)
  <2>1. /\ down[p][1] = C!TimeoutEvent
        /\ link' = [link EXCEPT ![p] = "none"] /\ waiting' = [waiting EXCEPT ![p] = FALSE]
        /\ UNCHANGED <<peer, currentRoom, up>>
    BY <1>2, <1>5 DEF C!ReceiveTimeout
  <2>2. link[p] # "connected" /\ link'[p] = "none"
    BY <1>0, <1>2, <2>1 DEF PeerOK, DownOK, ClientTypeOK
  <2>3. UpOK(p)' /\ (QueueOK(p) => QueueOK(p)') /\ DownOK(p)' /\ ProcessOK(p)'
    BY <1>0, <1>1, <2>1, <2>2
       DEF PeerOK, UpOK, QueueOK, DownOK, ProcessOK, Asked, ServerRoom
  <2>4. KeepsRest(p)
    BY <1>0, <1>1, <2>1 DEF KeepsRest, KeepsProcess, ClientTypeOK
  <2>5. ClientTypeOK'
    BY <1>0, <1>1, <1>2, <2>1 DEF ClientTypeOK, Events
  <2> QED BY <1>0, <2>2, <2>3, <2>4, <2>5, NotLive, OneClient DEF PeerOK, CarefulOK
<1> QED BY <1>3, <1>4, <1>5 DEF C!Receive

LEMMA BreakKeeps ==
  ASSUME SystemInv, NEW p \in Peers, C!Break(p), UNCHANGED vars
  PROVE  ClientInv'
<1>0. /\ ClientTypeOK /\ PeerOK(p) /\ UNCHANGED <<clients, closing>>
      /\ link[p] = "connected" /\ link' = [link EXCEPT ![p] = "lost"]
      /\ UNCHANGED <<main, todo, loop, C!memory>>
  BY DEF SystemInv, ClientInv, vars, C!Break
<1>1. PICK sent \in C!Remains(up[p]) : up' = [up EXCEPT ![p] = sent]
  BY DEF C!Break
<1>2. PICK rest \in C!Prefixes(down[p]) :
        down' = [down EXCEPT ![p] =
                   IF rest # << >> /\ C!Last(rest) = C!DisconnectEvent THEN rest
                   ELSE Append(rest, C!TimeoutEvent)]
  BY DEF C!Break
<1>3. KeepsRest(p)
  BY <1>0, <1>1, <1>2 DEF C!memory, KeepsRest, KeepsProcess, ClientTypeOK
<1>4. up'[p] \in C!Remains(up[p]) /\ link'[p] = "lost"
  BY <1>0, <1>1 DEF ClientTypeOK
<1>5. /\ UpOK(p)' /\ (QueueOK(p) => QueueOK(p)')
      /\ up'[p] \in Seq(Commands[p] \cup {C!ConnectEvent, C!GoneEvent})
  BY <1>0, <1>4, EndedUp DEF PeerOK
<1>6. down'[p] \in Seq(Answers \cup Events)
  <2> PICK S : S = Answers \cup Events
    OBVIOUS
  <2>1. down[p] \in Seq(S) /\ C!TimeoutEvent \in S
    BY <1>0 DEF ClientTypeOK, Events
  <2>2. rest \in Seq(S)
    BY <2>1, SubSeqProperties DEF C!Prefixes
  <2>3. Append(rest, C!TimeoutEvent) \in Seq(S)
    BY <2>1, <2>2
  <2>4. down'[p] = rest \/ down'[p] = Append(rest, C!TimeoutEvent)
    BY <1>0, <1>2 DEF ClientTypeOK
  <2> QED BY <2>2, <2>3, <2>4
<1>7. ClientTypeOK'
  BY <1>0, <1>1, <1>2, <1>5, <1>6 DEF C!memory, ClientTypeOK, Events
<1>8. ProcessOK(p)' /\ DownOK(p)'
  BY <1>0, <1>4 DEF C!memory, PeerOK, ProcessOK, DownOK
<1> QED BY <1>0, <1>3, <1>4, <1>5, <1>7, <1>8, NotLive, OneClient DEF PeerOK, CarefulOK

LEMMA ClientsKeep ==
  ASSUME SystemInv, NEW p \in Peers, UNCHANGED vars,
         C!MainThread(p) \/ C!MessageThread(p) \/ C!User(p) \/ C!World(p)
  PROVE  ClientInv'
<1>1. CASE C!MainThread(p)
  BY <1>1, TransmitKeeps, FinishKeeps, ExitKeeps DEF C!MainThread, C!Close
<1>2. CASE C!MessageThread(p)
  BY <1>2, ReceiveKeeps, ServiceTimeoutKeeps DEF C!MessageThread
<1>3. CASE C!User(p)
  BY <1>3, ConnectKeeps, QuitKeeps, CommandKeeps DEF C!User
<1>4. CASE C!World(p)
  BY <1>4, BreakKeeps, ExitKeeps DEF C!World, C!Crash
<1> QED BY <1>1, <1>2, <1>3, <1>4

-----------------------------------------------------------------------------
(***************************************************************************)
(* The inductive invariant of the system.                                  *)
(***************************************************************************)
LEMMA SystemInvInit ==
  SystemInit => SystemInv
<1> SUFFICES ASSUME SystemInit PROVE SystemInv
  OBVIOUS
<1>1. IInv
  BY InitInv DEF SystemInit
<1>2. DOMAIN clients = {} /\ closing = {}
  BY DEF SystemInit, Init
<1>3. ClientTypeOK
  <2>1. \A S : << >> \in Seq(S)
    BY EmptySeq
  <2> QED BY <2>1 DEF SystemInit, C!Init, ClientTypeOK
<1>4. ASSUME NEW p \in Peers
      PROVE  PeerOK(p)
  <2>1. /\ main[p] = "off" /\ loop[p] = "none" /\ link[p] = "none" /\ up[p] = << >>
        /\ down[p] = << >> /\ currentRoom[p] = NoCode /\ waiting[p] = FALSE
    BY DEF SystemInit, C!Init
  <2>2. DOMAIN up[p] = {} /\ DOMAIN down[p] = {} /\ ~Live(p) /\ Asked(p) = {}
    BY <2>1 DEF Live, Asked
  <2> QED BY <1>2, <2>1, <2>2
          DEF PeerOK, ProcessOK, UpOK, DownOK, StrandedOK, CarefulOK, QueueOK, AnswerOK,
              SendingOK, BeliefOK
<1> QED BY <1>1, <1>3, <1>4 DEF SystemInv, ClientInv

\* A step of the system is one of the server, or changes nothing of it; with
\* careful users it is one of a server whose clients leave first.
LEMMA SystemSteps ==
  ASSUME SystemInv, [SystemNext]_systemVars
  PROVE  /\ SystemInv'
         /\ UNCHANGED vars \/ (Next /\ (Careful = Peers => FreeSteps /\ LF!Next))
<1>0. SystemInv => IInv
  BY DEF SystemInv
<1>1. CASE UNCHANGED systemVars
  <2>1. UNCHANGED vars /\ UNCHANGED clientVars
    BY <1>1 DEF systemVars, vars
  <2>2. ASSUME NEW p \in Peers
        PROVE  PeerOK(p)'
    <3>1. PeerOK(p)
      BY DEF SystemInv, ClientInv
    <3>2. /\ KeepsProcess(p) /\ up'[p] = up[p] /\ down'[p] = down[p]
          /\ UNCHANGED <<clients, closing>>
      BY <2>1 DEF KeepsProcess, clientVars, vars
    <3> QED BY <3>1, <3>2, SameKept
  <2>3. ClientTypeOK'
    BY <2>1 DEF SystemInv, ClientInv, ClientTypeOK, clientVars
  <2> QED BY <1>0, <2>1, <2>2, <2>3, SameServer DEF SystemInv, ClientInv
<1>2. ASSUME NEW p \in Peers, Serve(p)
      PROVE  /\ SystemInv'
             /\ UNCHANGED vars \/ (Next /\ (Careful = Peers => FreeSteps /\ LF!Next))
  BY <1>2, ServeSteps, ServeKeepsServer, ServeKeepsClients DEF SystemInv
<1>3. ASSUME NEW p \in Peers, UNCHANGED vars,
             C!MainThread(p) \/ C!MessageThread(p) \/ C!User(p) \/ C!World(p)
      PROVE  SystemInv'
  BY <1>0, <1>3, ClientsKeep, SameServer DEF SystemInv
<1> QED BY <1>1, <1>2, <1>3 DEF SystemNext

\* A client at rest is one the server knows and listens to.
LEMMA RestIsLive ==
  ASSUME SystemInv, NEW p \in Peers, AtRest(p)
  PROVE  /\ PeerOK(p) /\ Live(p) /\ main[p] = "prompt" /\ p \in DOMAIN clients
         /\ DOMAIN up[p] = {} /\ Asked(p) = {} /\ Answered(p) = {}
<1>1. /\ PeerOK(p) /\ main[p] = "prompt" /\ link[p] = "connected"
      /\ DOMAIN up[p] = {} /\ DOMAIN down[p] = {} /\ up[p] = << >>
  BY DEF AtRest, SystemInv, ClientInv
<1>2. p \in DOMAIN clients /\ p \notin closing
  BY <1>1 DEF PeerOK, UpOK, DownOK
<1> QED BY <1>1, <1>2 DEF Asked, Answered, Live

\* What the invariant says when all has arrived.
LEMMA SystemInvMeans ==
  ASSUME SystemInv
  PROVE  NoStrandedClient /\ NoHiddenRoom
<1>1. ASSUME NEW p \in Peers, AtRest(p), clients[p].currentRoom # NoCode
      PROVE  currentRoom[p] # NoCode
  BY <1>1, RestIsLive DEF PeerOK, StrandedOK, ServerRoom
<1>2. ASSUME NEW p \in Careful, AtRest(p)
      PROVE  clients[p].currentRoom \in {NoCode, currentRoom[p]}
  <2>1. p \in Peers
    BY SystemAssumption
  <2>2. EndsIn(p, currentRoom[p])
    BY <1>2, <2>1, RestIsLive DEF PeerOK, CarefulOK, BeliefOK
  <2> QED BY <1>2, <2>1, <2>2, RestIsLive DEF EndsIn, ServerRoom
<1> QED BY <1>1, <1>2 DEF NoStrandedClient, NoHiddenRoom

\* Careful users put nobody in two rooms.
LEMMA CarefulPlaced ==
  Careful = Peers => (SystemSpec => []PlacedInv)
<1> SUFFICES ASSUME Careful = Peers PROVE SystemSpec => []PlacedInv
  OBVIOUS
<1>1. SystemInit => PlacedInv
  BY PlacedInit DEF SystemInit
<1>2. SystemInv /\ PlacedInv /\ [SystemNext]_systemVars => PlacedInv'
  <2> SUFFICES ASSUME SystemInv, PlacedInv, [SystemNext]_systemVars PROVE PlacedInv'
    OBVIOUS
  <2>1. IInv' /\ TypeOK
    BY SystemSteps DEF SystemInv, IInv
  <2>2. CASE UNCHANGED vars
    BY <2>1, <2>2
       DEF vars, PlacedInv, Placed, MembershipAgrees, NoDanglingRoom, ProtocolUniform,
           ClosingAreOut
  <2>3. CASE FreeSteps
    BY <2>1, <2>3, StepsKeepPlaced DEF PlacedInv
  <2> QED BY <2>2, <2>3, SystemSteps
<1> QED BY <1>1, <1>2, SystemInvInit, SystemSteps, PTL DEF SystemSpec

-----------------------------------------------------------------------------
(***************************************************************************)
(* Whatever the users do.                                                  *)
(***************************************************************************)
\* When all has arrived, a client the server has in a room has a currentRoom, so
\* that leaveRoom is open to it: whatever requests its user and the others gave,
\* and however these, the answers, closings, disconnections and accidents cross.
THEOREM ClientNeverStranded == SystemSpec => []NoStrandedClient
<1>1. SystemInv => NoStrandedClient
  BY SystemInvMeans
<1> QED BY <1>1, SystemInvInit, SystemSteps, PTL DEF SystemSpec

\* When all has arrived, the room the client of a careful user says it is in is
\* the room the server has it in, unless the server has it in none: whatever the
\* users of the other clients do.
THEOREM RoomNeverHidden == SystemSpec => []NoHiddenRoom
<1>1. SystemInv => NoHiddenRoom
  BY SystemInvMeans
<1> QED BY <1>1, SystemInvInit, SystemSteps, PTL DEF SystemSpec

\* A careful user's client asks to enter a room only while the server has it in
\* none, by the time the server comes to the request: whatever the others do.
THEOREM AlwaysLeavesRoomFirst == SystemSpec => []LeavesRoomFirst
<1>1. SystemInv => LeavesRoomFirst
  BY EnterServedFree DEF LeavesRoomFirst
<1> QED BY <1>1, SystemInvInit, SystemSteps, PTL DEF SystemSpec

\* The server of the system is YNetServer: what is proved of any server holds of
\* this one.
THEOREM SystemHasServer == SystemSpec => Spec
<1>1. SystemInit => Init
  BY DEF SystemInit
<1>2. SystemInv /\ [SystemNext]_systemVars => [Next]_vars
  BY SystemSteps
<1> QED BY <1>1, <1>2, SystemInvInit, SystemSteps, PTL DEF SystemSpec, Spec

-----------------------------------------------------------------------------
(***************************************************************************)
(* Where every user waits for the answer to a request to enter a room, and *)
(* gives none while the client says it is in one.                          *)
(***************************************************************************)
\* Careful users' clients leave a room before they enter another one: the server
\* of the system is a server of YNetServer with LeaveFirst.
THEOREM ClientsAlwaysLeaveFirst ==
  ASSUME Careful = Peers
  PROVE  SystemSpec => ClientsLeaveFirst
<1>1. SystemInit => LF!Init
  BY SameInit DEF SystemInit
<1>2. SystemInv /\ [SystemNext]_systemVars => [LF!Next]_(LF!vars)
  BY SystemSteps, SameVars
<1> QED BY <1>1, <1>2, SystemInvInit, SystemSteps, PTL DEF SystemSpec, ClientsLeaveFirst, LF!Spec

\* With careful users, the list of clients of every room and the rooms the
\* Clients name agree.
THEOREM SystemMembershipAgrees ==
  ASSUME Careful = Peers
  PROVE  SystemSpec => []MembershipAgrees
<1>1. PlacedInv => MembershipAgrees
  BY PlacedMeans
<1> QED BY <1>1, CarefulPlaced, PTL

\* With careful users, no Client names a room that has been removed.
THEOREM SystemNeverDangling ==
  ASSUME Careful = Peers
  PROVE  SystemSpec => []NoDanglingRoom
<1>1. PlacedInv => NoDanglingRoom
  BY PlacedMeans
<1> QED BY <1>1, CarefulPlaced, PTL

\* With careful users, every member of a room is connected.
THEOREM SystemMembersReachable ==
  ASSUME Careful = Peers
  PROVE  SystemSpec => []MembersReachable
<1>1. PlacedInv => MembersReachable
  BY PlacedMeans
<1> QED BY <1>1, CarefulPlaced, PTL

\* With careful users, the members of a room have its protocol version.
THEOREM SystemProtocolUniform ==
  ASSUME Careful = Peers
  PROVE  SystemSpec => []ProtocolUniform
<1>1. PlacedInv => ProtocolUniform
  BY PlacedMeans
<1> QED BY <1>1, CarefulPlaced, PTL

\* With careful users, somebody is in every room there is.
THEOREM SystemNeverAbandoned ==
  ASSUME Careful = Peers
  PROVE  SystemSpec => []NoAbandonedRoom
<1>1. PlacedInv => NoAbandonedRoom
  BY PlacedMeans
<1> QED BY <1>1, CarefulPlaced, PTL

\* With careful users, and at least as many room identifiers as peers, the search
\* of generateRoomId always ends.
THEOREM SystemNeverHangs ==
  ASSUME Careful = Peers, EnoughRoomIds
  PROVE  SystemSpec => []NeverHangs
<1>1. SystemInit => NeverHangs
  BY DEF SystemInit, Init, NeverHangs
<1>2. SystemInv /\ PlacedInv /\ NeverHangs /\ [SystemNext]_systemVars => NeverHangs'
  <2> SUFFICES ASSUME SystemInv, PlacedInv, NeverHangs, [SystemNext]_systemVars
               PROVE  NeverHangs'
    OBVIOUS
  <2>1. CASE UNCHANGED vars
    BY <2>1 DEF vars, NeverHangs
  <2>2. CASE FreeSteps
    BY <2>2, StepsNeverHang DEF PlacedInv
  <2> QED BY <2>1, <2>2, SystemSteps
<1> QED BY <1>1, <1>2, CarefulPlaced, SystemInvInit, SystemSteps, PTL DEF SystemSpec

\* With careful users, the server is a lobby.
THEOREM SystemImplementsLobby ==
  ASSUME Careful = Peers
  PROVE  SystemSpec => ImplementsLobby
<1>1. SystemInit => L!Init
  BY DEF SystemInit, Init, L!Init
<1>2. SystemInv /\ PlacedInv /\ [SystemNext]_systemVars => [L!Next]_(L!lobby)
  <2> SUFFICES ASSUME SystemInv, PlacedInv, [SystemNext]_systemVars
               PROVE  [L!Next]_(L!lobby)
    OBVIOUS
  <2>1. CASE UNCHANGED vars
    BY <2>1, SameLobby DEF vars
  <2>2. CASE FreeSteps
    BY <2>2, StepsInLobby
  <2> QED BY <2>1, <2>2, SystemSteps
<1> QED BY <1>1, <1>2, CarefulPlaced, SystemInvInit, SystemSteps, PTL
        DEF SystemSpec, ImplementsLobby, L!Spec
=============================================================================
