----------------------------- MODULE YNetSystem -----------------------------
(***************************************************************************)
(* The room server and its clients together: YNetServer takes the requests *)
(* YNetClient processes send, one at a time, and what it sends travels     *)
(* back.  Each connection is a pair of channels that deliver in order; the *)
(* clients start, quit, crash and lose their connection at any moment.     *)
(*                                                                         *)
(* Nothing restrains the server here (LeaveFirst is FALSE).  Nothing in    *)
(* the clients does either: what holds of careful users only is said so,   *)
(* and that clients leave a room before they enter another is shown of     *)
(* systems all of whose users are careful.                                 *)
(***************************************************************************)
EXTENDS YNetServer

CONSTANTS
  Commands,     \* for each client, the requests its user gives as commands
  Careful,      \* the clients whose users wait and leave before they enter
  Quitters,     \* the clients whose users may give the command quit
  Fragile,      \* the clients that may crash or lose their connection
  MaxPending    \* bound: requests and answers on their way at a command

VARIABLES main, todo, loop, running, peer, currentRoom, waiting, link, up, down

ASSUME SystemAssumption ==
  /\ ~LeaveFirst
  /\ Commands \in [Peers -> SUBSET (
       [type : {"ROOM_CREATE"}, code : Codes \cup {NoCode}]
       \cup [type : {"JOIN_ROOM_WITH_PASSWORD", "JOIN_OR_CREATE_ROOM"}, code : Codes]
       \cup [type : {"JOIN_OR_CREATE_ROOM_RANDOM", "ROOM_LEAVE"}, code : {NoCode}])]
  /\ Careful \subseteq Peers /\ Quitters \subseteq Peers /\ Fragile \subseteq Peers
  /\ MaxPending \in Nat \ {0}

clientVars == <<main, todo, loop, running, peer, currentRoom, waiting, link, up, down>>
systemVars == <<clients, closing, rooms, usedClientIds, nextClientId,
                usedRoomIds, nextRoomId, hung, out, clientVars>>

C == INSTANCE YNetClient

-----------------------------------------------------------------------------
\* What of the messages of the last handler a client's threads act upon: no
\* handler of the system sends a client two such messages.
Acted == {"CONFIRM_ROOM_CREATION", "CONFIRM_ROOM_JOIN", "ERROR"}

Bare(m) == IF m.type = "ERROR" THEN [type |-> m.type]
           ELSE [type |-> m.type, code |-> m.code]

Telling(msgs) ==
  LET acted == {i \in DOMAIN msgs : msgs[i].type \in Acted}
  IN IF acted = {} THEN << >> ELSE <<Bare(msgs[CHOOSE i \in acted : TRUE])>>

\* The messages of the handler go out on the connections there are, followed by
\* the disconnection once ENet has delivered them.
Deliver ==
  down' = [q \in Peers |->
             IF link[q] # "connected" THEN down[q]
             ELSE down[q] \o Telling(out'[q])
                  \o (IF q \in closing' \ closing THEN <<C!DisconnectEvent>> ELSE << >>)]

\* The handler of a request, for the peers ENet still receives from.
Handler(p, request) ==
  \/ /\ request.type = "ROOM_CREATE"
     /\ HandleRoomCreation(p, request.code, NoPassword)
  \/ /\ request.type = "JOIN_ROOM_WITH_PASSWORD"
     /\ HandleRoomJoin(p, request.code, NoPassword)
  \/ /\ request.type = "JOIN_OR_CREATE_ROOM"
     /\ HandleJoinOrCreateRoom(p, request.code, NoPassword)
  \/ /\ request.type = "JOIN_OR_CREATE_ROOM_RANDOM"
     /\ HandleJoinOrCreateRoomRandom(p)
  \/ /\ request.type = "ROOM_LEAVE"
     /\ HandleRoomLeave(p)

(***************************************************************************)
(* YNetServer::run: one event of one peer.  A peer in disconnect_later is  *)
(* not listened to.                                                        *)
(***************************************************************************)
\* Mutant: the DISCONNECT of a peer the server has disconnected is overlooked.
ServeGoneUnlessClosing(p) ==
  /\ Head(up[p]) = C!GoneEvent
  /\ \/ p \notin closing /\ Disconnect(p) /\ Deliver
     \/ p \in closing /\ UNCHANGED vars /\ UNCHANGED down

ServeGone(p) ==
  /\ Head(up[p]) = C!GoneEvent
  /\ Disconnect(p) /\ Deliver

ServeConnect(p) ==
  /\ Head(up[p]) = C!ConnectEvent
  /\ \E protocol \in Protocols : Connect(p, protocol)
  /\ Deliver

ServeRequest(p) ==
  LET request == Head(up[p])
  IN /\ request \in Commands[p]
     /\ \/ p \in Connected /\ Handler(p, request) /\ Deliver
        \/ p \notin Connected /\ UNCHANGED vars /\ UNCHANGED down

Serve(p) ==
  /\ ~hung /\ up[p] # << >>
  /\ ServeConnect(p) \/ ServeGone(p) \/ ServeRequest(p)
  /\ up' = [up EXCEPT ![p] = Tail(@)]
  /\ UNCHANGED <<main, todo, loop, running, peer, currentRoom, waiting, link>>

SystemInit == Init /\ C!Init

SystemNext ==
  \E p \in Peers :
    \/ Serve(p)
    \/ (C!MainThread(p) \/ C!MessageThread(p) \/ C!User(p) \/ C!World(p)) /\ UNCHANGED vars

\* The server's thread and the two threads of a client keep running, and the
\* network delivers; users and accidents are free to do nothing.
Fairness ==
  \A p \in Peers :
    /\ WF_systemVars(Serve(p))
    /\ WF_systemVars(C!MainThread(p) /\ UNCHANGED vars)
    /\ WF_systemVars(C!MessageThread(p) /\ UNCHANGED vars)

SystemSpec == SystemInit /\ [][SystemNext]_systemVars

FairSystemSpec == SystemSpec /\ Fairness

-----------------------------------------------------------------------------
\* Between these two: p's process runs, ENet has its connection, and nothing
\* that p sent or was sent is on its way.
AtRest(p) ==
  /\ main[p] = "prompt" /\ link[p] = "connected"
  /\ up[p] = << >> /\ down[p] = << >>

\* When all has arrived, a client the server has in a room has a currentRoom:
\* leaveRoom, which wants one, is open to it, whatever its user and the others
\* did and however their requests and the answers crossed.
NoStrandedClient ==
  \A p \in Peers : AtRest(p) /\ clients[p].currentRoom # NoCode => currentRoom[p] # NoCode

\* When all has arrived, a careful user's client takes no other room for its own
\* than the server does, careless as the other users may be.  (The idea of a
\* room it is not in remains after a join that was refused.)
NoHiddenRoom ==
  \A p \in Careful : AtRest(p) =>
    clients[p].currentRoom \in {NoCode, currentRoom[p]}

\* When the server comes to a careful user's request to enter a room, it has the
\* client in none: waiting for the answers is enough, however late answers and
\* commands cross, and whatever the other users do.
LeavesRoomFirst ==
  \A p \in Careful :
    p \in Connected /\ up[p] # << >> /\ C!Enters(Head(up[p])) =>
      clients[p].currentRoom = NoCode

\* enet_peer_send is never called with the null pointer of a connection that
\* ended: sendMessage answers "Not connected to server".
SendsOnPeer == \A p \in Peers : main[p] = "sending" => peer[p]

\* The server's part of every behaviour is one of a server whose clients leave
\* a room before they enter another: what YNetServer shows with LeaveFirst is so
\* in systems whose users are all careful, by LeavesRoomFirst.
LF == INSTANCE YNetServer WITH LeaveFirst <- TRUE

ClientsLeaveFirst == LF!Spec

\* A user who asked to enter a room hears of it: of success, of an error or of
\* the end of the connection (while generateRoomId returns, as it does where
\* the codes do not outnumber the identifiers).
RequestAnswered == \A p \in Peers : waiting[p] ~> ~waiting[p]

\* A client that quits or dies does not stay: the main thread gets past the
\* message thread, and the server takes the Client out of clients and of its
\* room and gives its identifier back, unless the client is back before that
\* (and, as above, while generateRoomId returns).
GoneForgotten ==
  \A p \in Peers : main[p] \in {"joining", "off"} ~>
    (p \notin DOMAIN clients \/ main[p] \notin {"joining", "off"})
=============================================================================
