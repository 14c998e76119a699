----------------------------- MODULE YNetClient -----------------------------
(***************************************************************************)
(* The test client, YNetClient: a main thread that reads commands and a    *)
(* message thread that handles what the server sends, over one ENet host.  *)
(* The two share peer and currentRoom without a lock.                      *)
(*                                                                         *)
(* There is one client process at a time for each ENet peer slot of the    *)
(* server.  The steps between two accesses to what the threads share are   *)
(* atomic: an assignment to currentRoom, a check of peer, an ENet call.    *)
(*                                                                         *)
(* The client keeps nobody from entering a second room.  A careful user    *)
(* waits for the answer to a request to enter a room before the next one,  *)
(* and enters none while the client says it is in one; the others give     *)
(* their commands at any time.  All name the room they join.  Left out:    *)
(* commands whose answer is only printed, and messages only printed.       *)
(***************************************************************************)
EXTENDS Integers, SequencesExt

CONSTANTS
  Peers, Codes, NoCode,
  Commands,       \* for each client, the requests its user gives as commands
  Careful,        \* the clients whose users wait and leave before they enter
  Quitters,       \* the clients whose users may give the command quit
  Fragile,        \* the clients that may crash or lose their connection
  MaxPending      \* bound: requests and answers on their way at a command

VARIABLES
  main,           \* what the main thread is about to do
  todo,           \* the request it is sending
  loop,           \* the message thread: "none", "service" or "ended"
  running,        \* the flag that keeps the message thread going
  peer,           \* peer # nullptr
  currentRoom,
  waiting,        \* the user waits for the answer to a request
  link,           \* ENet's side of the connection
  up, down        \* what travels to the server and to the client, in order

memory == <<running, peer, currentRoom, waiting>>
clientVars == <<main, todo, loop, running, peer, currentRoom, waiting, link, up, down>>

-----------------------------------------------------------------------------
Enters(request) ==
  request.type \in {"ROOM_CREATE", "JOIN_ROOM_WITH_PASSWORD", "JOIN_OR_CREATE_ROOM",
                    "JOIN_OR_CREATE_ROOM_RANDOM"}

NoRequest == [type |-> "NONE"]

\* What the two ends see besides messages: the events of ENet.
ConnectEvent == [type |-> "CONNECT"]
GoneEvent    == [type |-> "GONE"]        \* the server's DISCONNECT or timeout
DisconnectEvent == [type |-> "DISCONNECT"]
TimeoutEvent    == [type |-> "DISCONNECT_TIMEOUT"]

\* The commands that write currentRoom after the request is sent.
WritesRoom(request) ==
  request.type \in {"JOIN_ROOM_WITH_PASSWORD", "JOIN_OR_CREATE_ROOM", "ROOM_LEAVE"}

Init ==
  /\ main = [p \in Peers |-> "off"]
  /\ todo = [p \in Peers |-> NoRequest]
  /\ loop = [p \in Peers |-> "none"]
  /\ running = [p \in Peers |-> FALSE]
  /\ peer = [p \in Peers |-> FALSE]
  /\ currentRoom = [p \in Peers |-> NoCode]
  /\ waiting = [p \in Peers |-> FALSE]
  /\ link = [p \in Peers |-> "none"]
  /\ up = [p \in Peers |-> << >>]
  /\ down = [p \in Peers |-> << >>]

-----------------------------------------------------------------------------
\* What the server gets of s when the client goes: ENet drops what has not
\* been acknowledged, and the server learns that the peer has gone, by a
\* DISCONNECT or by a timeout, if it knows of the connection at all.
Remains(s) ==
  {IF kept = << >> /\ s # << >> /\ Head(s) = ConnectEvent THEN << >>
   ELSE Append(kept, GoneEvent) : kept \in Prefixes(s)}

\* The ENet host goes, with the client's end of the connection.
Vanish(p) ==
  /\ \E rest \in Remains(up[p]) :
       up' = [up EXCEPT ![p] = IF link[p] = "connected" THEN rest ELSE @]
  /\ down' = [down EXCEPT ![p] = << >>]
  /\ link' = [link EXCEPT ![p] = "none"]

\* The process ends.
Exit(p) ==
  /\ main' = [main EXCEPT ![p] = "off"]
  /\ todo' = [todo EXCEPT ![p] = NoRequest]
  /\ loop' = [loop EXCEPT ![p] = "none"]
  /\ running' = [running EXCEPT ![p] = FALSE]
  /\ peer' = [peer EXCEPT ![p] = FALSE]
  /\ currentRoom' = [currentRoom EXCEPT ![p] = NoCode]
  /\ waiting' = [waiting EXCEPT ![p] = FALSE]

(***************************************************************************)
(* connect: five times two seconds for the CONNECT event; a process that   *)
(* gets none ends without a trace.  ENet confirms the connection to the    *)
(* client first; the server's event follows.                               *)
(***************************************************************************)
Connect(p) ==
  /\ main[p] = "off" /\ up[p] = << >>
  /\ main' = [main EXCEPT ![p] = "prompt"]
  /\ loop' = [loop EXCEPT ![p] = "service"]
  /\ running' = [running EXCEPT ![p] = TRUE]
  /\ peer' = [peer EXCEPT ![p] = TRUE]
  /\ link' = [link EXCEPT ![p] = "connected"]
  /\ up' = [up EXCEPT ![p] = <<ConnectEvent>>]
  /\ UNCHANGED <<todo, currentRoom, waiting, down>>

-----------------------------------------------------------------------------
\* The main thread is back at reading commands.
Prompt(p) ==
  /\ main' = [main EXCEPT ![p] = "prompt"]
  /\ todo' = [todo EXCEPT ![p] = NoRequest]

\* A command.  leaveRoom wants a currentRoom; createRoom and joinRoom send their
\* request whatever it is.  sendMessage looks at peer.
Command(p, request) ==
  /\ main[p] = "prompt"
  /\ Len(up[p]) + Len(down[p]) < MaxPending
  /\ request.type = "ROOM_LEAVE" => currentRoom[p] # NoCode
  /\ peer[p]
  /\ main' = [main EXCEPT ![p] = "sending"]
  /\ todo' = [todo EXCEPT ![p] = request]
  /\ UNCHANGED <<loop, memory, link, up, down>>

\* The rest of sendMessage.  enet_peer_send takes the request while ENet has
\* the peer as connected, which it does for a while after the network is gone;
\* called with the null pointer the message thread has left, it crashes.
Transmit(p) ==
  /\ main[p] = "sending"
  /\ \/ /\ peer[p] /\ link[p] \in {"connected", "lost"}
        /\ IF WritesRoom(todo[p])
             THEN main' = [main EXCEPT ![p] = "sent"] /\ UNCHANGED todo
             ELSE Prompt(p)
        /\ up' = [up EXCEPT ![p] = IF link[p] = "connected" THEN Append(@, todo[p]) ELSE @]
        /\ waiting' = [waiting EXCEPT ![p] = @ \/ Enters(todo[p])]
        /\ UNCHANGED <<loop, running, peer, currentRoom, link, down>>
     \/ /\ peer[p] /\ link[p] = "none"
        /\ Prompt(p)
        /\ UNCHANGED <<loop, memory, link, up, down>>
     \/ /\ ~peer[p]
        /\ Exit(p) /\ Vanish(p)

\* joinRoom, joinOrCreateRoom and leaveRoom assume the request will succeed.
\* Mutant: a request that has gone out clears currentRoom.
FinishBlank(p) ==
  /\ main[p] = "sent"
  /\ Prompt(p)
  /\ currentRoom' = [currentRoom EXCEPT ![p] = NoCode]
  /\ UNCHANGED <<loop, running, peer, waiting, link, up, down>>

Finish(p) ==
  /\ main[p] = "sent"
  /\ Prompt(p)
  /\ currentRoom' = [currentRoom EXCEPT ![p] = todo[p].code]
  /\ UNCHANGED <<loop, running, peer, waiting, link, up, down>>

-----------------------------------------------------------------------------
(***************************************************************************)
(* messageLoop: one event, then the test of running.                       *)
(***************************************************************************)
NextLoop(p) == loop' = [loop EXCEPT ![p] = IF running[p] THEN "service" ELSE "ended"]

\* Mutant: no case for CONFIRM_ROOM_CREATION.
ReceiveMessageNotCreation(p) ==
  LET msg == Head(down[p])
  IN /\ msg.type \in {"CONFIRM_ROOM_CREATION", "CONFIRM_ROOM_JOIN", "ERROR"}
     /\ currentRoom' = [currentRoom EXCEPT ![p] =
                         IF msg.type = "CONFIRM_ROOM_JOIN" THEN msg.code ELSE @]
     /\ waiting' = [waiting EXCEPT ![p] = FALSE]
     /\ UNCHANGED <<peer, link, up>>

ReceiveMessage(p) ==
  LET msg == Head(down[p])
  IN /\ msg.type \in {"CONFIRM_ROOM_CREATION", "CONFIRM_ROOM_JOIN", "ERROR"}
     /\ currentRoom' = [currentRoom EXCEPT ![p] = IF msg.type = "ERROR" THEN @ ELSE msg.code]
     /\ waiting' = [waiting EXCEPT ![p] = FALSE]
     /\ UNCHANGED <<peer, link, up>>

\* ENet has acknowledged the disconnection; the server sees that, unless the
\* network is gone and it has had its timeout.
ReceiveDisconnect(p) ==
  /\ Head(down[p]) = DisconnectEvent
  /\ peer' = [peer EXCEPT ![p] = FALSE]
  /\ currentRoom' = [currentRoom EXCEPT ![p] = NoCode]
  /\ waiting' = [waiting EXCEPT ![p] = FALSE]
  /\ link' = [link EXCEPT ![p] = "none"]
  /\ up' = [up EXCEPT ![p] = IF link[p] = "connected" THEN <<GoneEvent>> ELSE @]

\* DISCONNECT_TIMEOUT has no case: peer and currentRoom stay as they are.
ReceiveTimeout(p) ==
  /\ Head(down[p]) = TimeoutEvent
  /\ link' = [link EXCEPT ![p] = "none"]
  /\ waiting' = [waiting EXCEPT ![p] = FALSE]
  /\ UNCHANGED <<peer, currentRoom, up>>

Receive(p) ==
  /\ loop[p] = "service" /\ down[p] # << >>
  /\ ReceiveMessage(p) \/ ReceiveDisconnect(p) \/ ReceiveTimeout(p)
  /\ down' = [down EXCEPT ![p] = Tail(@)]
  /\ NextLoop(p)
  /\ UNCHANGED <<main, todo, running>>

\* enet_host_service comes back empty-handed after two seconds.
ServiceTimeout(p) ==
  /\ loop[p] = "service" /\ ~running[p]
  /\ NextLoop(p)
  /\ UNCHANGED <<main, todo, memory, link, up, down>>

-----------------------------------------------------------------------------
\* quit: the destructor calls disconnect, which waits for the message thread.
Quit(p) ==
  /\ main[p] = "prompt" /\ p \in Quitters
  /\ main' = [main EXCEPT ![p] = "joining"]
  /\ running' = [running EXCEPT ![p] = FALSE]
  /\ UNCHANGED <<todo, loop, peer, currentRoom, waiting, link, up, down>>

\* The thread is joined; enet_peer_disconnect drops what is queued.
Close(p) ==
  /\ main[p] = "joining" /\ loop[p] = "ended"
  /\ Exit(p) /\ Vanish(p)

(***************************************************************************)
(* What befalls a client: it is killed, or the network is gone, of which   *)
(* both ends learn by a timeout.                                           *)
(***************************************************************************)
Crash(p) ==
  /\ main[p] # "off"
  /\ Exit(p) /\ Vanish(p)

Break(p) ==
  /\ link[p] = "connected"
  /\ link' = [link EXCEPT ![p] = "lost"]
  /\ \E rest \in Remains(up[p]) : up' = [up EXCEPT ![p] = rest]
  /\ \E rest \in Prefixes(down[p]) :
       down' = [down EXCEPT ![p] = IF rest # << >> /\ Last(rest) = DisconnectEvent THEN rest
                                   ELSE Append(rest, TimeoutEvent)]
  /\ UNCHANGED <<main, todo, loop, memory>>

\* What the threads do by themselves, and what the user and the world do.
MainThread(p) == Transmit(p) \/ Finish(p) \/ Close(p)

MessageThread(p) == Receive(p) \/ ServiceTimeout(p)

\* What the user asks of the client: a careful one does not enter a room twice.
Allows(p, request) ==
  p \in Careful /\ Enters(request) => currentRoom[p] = NoCode /\ ~waiting[p]

User(p) == \/ Connect(p) \/ Quit(p)
           \/ \E request \in Commands[p] : Allows(p, request) /\ Command(p, request)

World(p) == p \in Fragile /\ (Crash(p) \/ Break(p))
=============================================================================
