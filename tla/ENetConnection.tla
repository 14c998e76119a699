--------------------------- MODULE ENetConnection ---------------------------
(***************************************************************************)
(* One ENet peer of the room server and the client processes that connect  *)
(* to it one after the other: handshake, reliable packets, disconnection   *)
(* and timeouts over a network that loses, repeats, delays and reorders.   *)
(*                                                                         *)
(* Each call of enet_host_service dispatches what is queued for the        *)
(* application, sends, receives and sends again; phase says where it is.   *)
(* A command that waits for its acknowledgement is sent again and again,   *)
(* so net keeps what was ever sent to an address that is still there: a    *)
(* datagram that is never received again is lost.  Each command is a       *)
(* datagram of its own.                                                    *)
(*                                                                         *)
(* A timeout may come whenever something is unacknowledged; on a           *)
(* connection that is up something always may be, for ENet pings it.       *)
(* Left out: pings, unreliable packets, fragments, checksums, bandwidth,   *)
(* and the width of sequence numbers with the windows that come with it.   *)
(***************************************************************************)
EXTENDS Integers, Sequences, FiniteSets

CONSTANTS
  MaxConnections,   \* bound: client processes, one after the other
  MaxSessions,      \* bound: the times the server's peer is used
  SessionIds,       \* 4: session IDs are two bits wide
  MaxPackets        \* bound: for each end, the packets it sends

ASSUME ConnectionAssumption ==
  /\ MaxConnections \in Nat /\ MaxSessions \in Nat
  /\ SessionIds \in Nat /\ SessionIds >= 2
  /\ MaxPackets \in [{"client", "server"} -> Nat]

VARIABLES
  peer,     \* each end's ENetPeer
  phase,    \* where enet_host_service is: "dispatch" or "receive"
  net,      \* the datagrams
  app,      \* each end's application: what it knows of the connection
  event,    \* what the last step reported to an application
  met       \* history: the connections the client was told of

vars == <<peer, phase, net, app, event, met>>

-----------------------------------------------------------------------------
Ends == {"client", "server"}
Other(e) == IF e = "client" THEN "server" ELSE "client"

\* Commands that are sent until they are acknowledged.  data tells the packets
\* of different connections apart.
Command(name) == [name |-> name, seq |-> 0]
Packet(p, n)  == [name |-> "SEND_RELIABLE", seq |-> n, data |-> <<p.conn, p.session, n>>]

\* The client's address differs from one connection to the next, and conn
\* stands for it and for the connectID.  session counts the uses of the
\* server's peer, from NoSession before the first; the pair of session IDs,
\* which change together, is this count modulo SessionIds.
NoSession == -1

SameId(s, t) ==
  s # NoSession /\ t # NoSession /\ s % SessionIds = t % SessionIds

NewPeer(state, conn, session, unacked) ==
  [state |-> state, conn |-> conn, session |-> session,
   unacked |-> unacked,       \* outgoing and sent commands
   acknowledgements |-> {},   \* commands to acknowledge
   sent |-> 0,                \* outgoingReliableSequenceNumber of the channel
   received |-> 0,            \* incomingReliableSequenceNumber
   incoming |-> {},           \* packets that came early, in the channel
   dispatched |-> << >>]      \* packets for the application

\* enet_peer_reset
Reset(p) == NewPeer("DISCONNECTED", p.conn, p.session, {})

\* enet_peer_reset_queues
ResetQueues(p) ==
  [p EXCEPT !.unacked = {}, !.acknowledgements = {}, !.incoming = {}, !.dispatched = << >>]

\* enet_peer_disconnect, of a peer that is up
Disconnecting(p) ==
  [ResetQueues(p) EXCEPT !.state = "DISCONNECTING", !.unacked = {Command("DISCONNECT")}]

NoEvent == [end |-> "nobody", type |-> "NONE"]

NobodyThere == [status |-> "none", conn |-> 0, got |-> << >>]

Init ==
  /\ peer = [e \in Ends |-> NewPeer("DISCONNECTED", 0, NoSession, {})]
  /\ phase = [e \in Ends |-> "dispatch"]
  /\ net = {}
  /\ app = [e \in Ends |-> NobodyThere]
  /\ event = NoEvent
  /\ met = {}

-----------------------------------------------------------------------------
\* Everything unacknowledged goes out, now and again.
Wire(e, p) ==
  {[to |-> Other(e), conn |-> p.conn, session |-> p.session, name |-> "COMMAND",
    command |-> c] : c \in p.unacked}

AckWire(e, p) ==
  {[to |-> Other(e), conn |-> p.conn, session |-> p.session, name |-> "ACKNOWLEDGE",
    command |-> c] : c \in p.acknowledgements}

\* A connection has an address of its own: what is for a client that is gone
\* never arrives.
Arrives(m, client) ==
  m.to = "client" => m.conn = client.conn /\ client.state # "DISCONNECTED"

Transmit(datagrams) == net' = {m \in net \cup datagrams : Arrives(m, peer'["client"])}

Become(e, p) ==
  /\ peer' = [peer EXCEPT ![e] = p]
  /\ Transmit(Wire(e, p))

\* The application is not told: its status is "closing" once it services its
\* host without an event to fill.
Quietly == event' = NoEvent /\ UNCHANGED <<app, met>>

Tell(e, type) ==
  /\ event' = [end |-> e, type |-> type]
  /\ app' = [app EXCEPT ![e] =
       IF type = "CONNECT" THEN [status |-> "open", conn |-> peer[e].conn, got |-> << >>]
       ELSE NobodyThere]
  /\ met' = IF e = "client" /\ type = "CONNECT" THEN met \cup {peer[e].conn} ELSE met

\* Mutant: the peer is reset and the application not told.
NotifyDisconnectSilently(e, type) == Become(e, Reset(peer[e])) /\ Quietly

\* enet_protocol_notify_disconnect and _timeout, of a peer whose connection the
\* application knows of or waits for.
NotifyDisconnect(e, type) ==
  IF app[e].status = "closing"
    THEN Become(e, [peer[e] EXCEPT !.state = "ZOMBIE"]) /\ Quietly
    ELSE Become(e, Reset(peer[e])) /\ Tell(e, type)

-----------------------------------------------------------------------------
(***************************************************************************)
(* enet_protocol_handle_incoming_commands: one command that has arrived.   *)
(***************************************************************************)
\* Mutant: the session in the header is not looked at.
AcceptsAnySession(e, m) ==
  /\ m.to = e
  /\ \/ m.name = "COMMAND" /\ m.command.name = "CONNECT"
     \/ /\ peer[e].state \notin {"DISCONNECTED", "ZOMBIE"}
        /\ m.conn = peer[e].conn

\* The header names the session, once both ends know of it.
Accepts(e, m) ==
  /\ m.to = e
  /\ \/ m.name = "COMMAND" /\ m.command.name = "CONNECT"
     \/ /\ peer[e].state \notin {"DISCONNECTED", "ZOMBIE"}
        /\ m.conn = peer[e].conn
        /\ peer[e].state = "CONNECTING" \/ SameId(m.session, peer[e].session)

\* The acknowledgement that follows what a handler has done.
Acknowledging(p, c) ==
  IF p.state \in {"CONNECTED", "DISCONNECT_LATER"}
     \/ (p.state = "ACKNOWLEDGING_DISCONNECT" /\ c.name = "DISCONNECT")
    THEN [p EXCEPT !.acknowledgements = @ \cup {c}]
    ELSE p

\* Assumed of the network and of the timeouts, which ENet relies on: when a
\* client's address gets a session ID again, nothing is left of the session that
\* had it, neither a datagram nor the client's end.
Bearers == net \cup {peer[e] : e \in Ends}

IdIsFree(conn, session) ==
  \A x \in Bearers :
    x.conn = conn /\ x.session # NoSession => session < x.session + SessionIds

\* Mutant: the server reports the connection before the client confirms it.
HandleConnectAtOnce(e, m) ==
  /\ e = "server" /\ peer[e].state = "DISCONNECTED"
  /\ peer[e].session + 1 < MaxSessions /\ IdIsFree(m.conn, peer[e].session + 1)
  /\ Become(e, NewPeer("CONNECTED", m.conn, peer[e].session + 1,
                       {Command("VERIFY_CONNECT")}))
  /\ event' = [end |-> e, type |-> "CONNECT"]
  /\ app' = [app EXCEPT ![e] = [status |-> "open", conn |-> m.conn, got |-> << >>]]
  /\ UNCHANGED <<phase, met>>

\* enet_protocol_handle_connect, with the one peer there is
HandleConnect(e, m) ==
  /\ e = "server" /\ peer[e].state = "DISCONNECTED"
  /\ peer[e].session + 1 < MaxSessions /\ IdIsFree(m.conn, peer[e].session + 1)
  /\ Become(e, NewPeer("ACKNOWLEDGING_CONNECT", m.conn, peer[e].session + 1,
                       {Command("VERIFY_CONNECT")}))
  /\ Quietly /\ UNCHANGED phase

HandleVerifyConnect(e, m) ==
  \/ /\ peer[e].state = "CONNECTING"
     /\ Become(e, [peer[e] EXCEPT !.state = "CONNECTED", !.session = m.session,
                     !.unacked = {}, !.acknowledgements = {m.command}])
     /\ Tell(e, "CONNECT")
     /\ phase' = [phase EXCEPT ![e] = "dispatch"]
  \/ /\ peer[e].state # "CONNECTING"
     /\ Become(e, Acknowledging(peer[e], m.command))
     /\ Quietly /\ UNCHANGED phase

HandleDisconnect(e, m) ==
  LET clear == ResetQueues(peer[e])
  IN /\ Become(e, CASE peer[e].state \in {"DISCONNECTING", "CONNECTING"} ->
                         [clear EXCEPT !.state = "ZOMBIE"]
                    [] peer[e].state = "ACKNOWLEDGING_CONNECT" -> Reset(clear)
                    [] peer[e].state \in {"CONNECTED", "DISCONNECT_LATER"} ->
                         Acknowledging([clear EXCEPT !.state = "ACKNOWLEDGING_DISCONNECT"],
                                       m.command)
                    [] OTHER -> Acknowledging(peer[e], m.command))
     /\ Quietly /\ UNCHANGED phase

\* enet_peer_dispatch_incoming_reliable_commands
DispatchReliable(p) ==
  LET run == {c \in p.incoming :
                \A n \in p.received + 1 .. c.seq : \E d \in p.incoming : d.seq = n}
      count == Cardinality(run)
  IN [p EXCEPT !.received = @ + count,
               !.incoming = @ \ run,
               !.dispatched = @ \o [i \in 1..count |->
                  (CHOOSE c \in run : c.seq = p.received + i).data]]

\* enet_peer_queue_incoming_command
HandleSendReliable(e, m) ==
  LET p     == peer[e]
      known == m.command.seq <= p.received \/ m.command \in p.incoming
  IN /\ p.state \in {"CONNECTED", "DISCONNECT_LATER"}
     /\ Become(e, Acknowledging(
                     IF p.state = "DISCONNECT_LATER" \/ known THEN p
                     ELSE DispatchReliable([p EXCEPT !.incoming = @ \cup {m.command}]),
                     m.command))
     /\ Quietly /\ UNCHANGED phase

HandleAcknowledge(e, m) ==
  LET p == [peer[e] EXCEPT !.unacked = @ \ {m.command}]
  IN /\ m.command \in peer[e].unacked
     /\ \/ /\ p.state = "ACKNOWLEDGING_CONNECT"
           /\ Become(e, [p EXCEPT !.state = "CONNECTED"])
           /\ Tell(e, "CONNECT")
           /\ phase' = [phase EXCEPT ![e] = "dispatch"]
        \/ /\ p.state = "DISCONNECTING"
           /\ NotifyDisconnect(e, "DISCONNECT")
           /\ phase' = [phase EXCEPT ![e] = "dispatch"]
        \/ /\ p.state = "DISCONNECT_LATER"
           /\ Become(e, IF p.unacked = {} THEN Disconnecting(p) ELSE p)
           /\ Quietly /\ UNCHANGED phase
        \/ /\ p.state \in {"CONNECTING", "CONNECTED", "ACKNOWLEDGING_DISCONNECT"}
           /\ Become(e, p)
           /\ Quietly /\ UNCHANGED phase

Receive(e, m) ==
  /\ phase[e] = "receive"
  /\ Accepts(e, m)
  /\ \/ m.name = "ACKNOWLEDGE" /\ HandleAcknowledge(e, m)
     \/ /\ m.name = "COMMAND"
        /\ \/ m.command.name = "CONNECT"        /\ HandleConnect(e, m)
           \/ m.command.name = "VERIFY_CONNECT" /\ HandleVerifyConnect(e, m)
           \/ m.command.name = "DISCONNECT"     /\ HandleDisconnect(e, m)
           \/ m.command.name = "SEND_RELIABLE"  /\ HandleSendReliable(e, m)

-----------------------------------------------------------------------------
(***************************************************************************)
(* enet_protocol_dispatch_incoming_commands: one event, at the beginning   *)
(* of a call and at its end.                                               *)
(***************************************************************************)
NeedsDispatch(e) ==
  /\ app[e].status # "closing"
  /\ \/ peer[e].state = "ZOMBIE"
     \/ peer[e].state = "CONNECTED" /\ peer[e].dispatched # << >>

Dispatch(e) ==
  /\ phase[e] = "dispatch" /\ NeedsDispatch(e)
  /\ \/ /\ peer[e].state = "ZOMBIE"
        /\ Become(e, Reset(peer[e]))
        /\ Tell(e, "DISCONNECT")
     \/ /\ peer[e].state = "CONNECTED"
        /\ Become(e, [peer[e] EXCEPT !.dispatched = Tail(@)])
        /\ event' = [end |-> e, type |-> "RECEIVE"]
        /\ app' = [app EXCEPT ![e].got = Append(@, Head(peer[e].dispatched))]
        /\ UNCHANGED met
  /\ UNCHANGED phase

\* enet_protocol_send_outgoing_commands: acknowledgements go out, and with
\* that of a DISCONNECT the connection is over.
Flush(e) ==
  LET p == peer[e]
  IN /\ peer' = [peer EXCEPT ![e].acknowledgements = {},
                   ![e].state = IF Command("DISCONNECT") \in p.acknowledgements
                                  THEN "ZOMBIE" ELSE @]
     /\ Transmit(AckWire(e, p))
     /\ Quietly

HasHost(e) == e = "client" => app[e].status # "none"

SendOutgoing(e) ==
  /\ HasHost(e)
  /\ phase[e] = "dispatch" => ~NeedsDispatch(e)
  /\ Flush(e)
  /\ phase' = [phase EXCEPT ![e] = IF @ = "dispatch" THEN "receive" ELSE "dispatch"]

\* An event of another peer of the server ends the call: its application runs
\* with acknowledgements of this peer still to be sent.
EventElsewhere ==
  /\ phase["server"] = "receive"
  /\ phase' = [phase EXCEPT !["server"] = "dispatch"]
  /\ Quietly /\ UNCHANGED <<peer, net>>

\* Mutant: the application is told of a handshake that timed out.
CheckTimeoutsTold(e) ==
  /\ peer[e].state \in {"ACKNOWLEDGING_CONNECT", "CONNECTING", "CONNECTED",
                        "DISCONNECT_LATER", "DISCONNECTING"}
  /\ NotifyDisconnect(e, "DISCONNECT_TIMEOUT")
  /\ phase' = [phase EXCEPT ![e] = "dispatch"]

\* enet_protocol_check_timeouts finds a command, or a ping, too old.
CheckTimeouts(e) ==
  /\ \/ /\ peer[e].state = "ACKNOWLEDGING_CONNECT"
        /\ Become(e, Reset(peer[e])) /\ Quietly
     \/ /\ peer[e].state \in {"CONNECTING", "CONNECTED", "DISCONNECT_LATER", "DISCONNECTING"}
        /\ NotifyDisconnect(e, "DISCONNECT_TIMEOUT")
  /\ phase' = [phase EXCEPT ![e] = "dispatch"]

-----------------------------------------------------------------------------
(***************************************************************************)
(* What the applications call.  The handlers of the server run between two *)
(* calls of enet_host_service, the client's main thread at any time.       *)
(***************************************************************************)
\* setupClient and connect: a new ENetHost, and with it a new address
HostConnect ==
  /\ peer["client"].state = "DISCONNECTED" /\ app["client"].status = "none"
  /\ peer["client"].conn < MaxConnections
  /\ Become("client", NewPeer("CONNECTING", peer["client"].conn + 1, NoSession,
                              {Command("CONNECT")}))
  /\ app' = [app EXCEPT !["client"].status = "connecting"]
  /\ event' = NoEvent
  /\ UNCHANGED <<phase, met>>

PeerSend(e) ==
  LET p == [peer[e] EXCEPT !.sent = @ + 1]
  IN /\ app[e].status = "open" /\ peer[e].state = "CONNECTED"
     /\ p.sent <= MaxPackets[e]
     /\ e = "server" => phase[e] = "dispatch"
     /\ Become(e, [p EXCEPT !.unacked = @ \cup {Packet(p, p.sent)}])
     /\ Quietly /\ UNCHANGED phase

\* enet_host_flush, in any handler
HostFlush ==
  /\ phase["server"] = "dispatch" /\ peer["server"].acknowledgements # {}
  /\ Flush("server")
  /\ UNCHANGED phase

\* Mutant: the connection is closed before the packets have arrived.
DisconnectNow ==
  /\ phase["server"] = "dispatch" /\ app["server"].status = "open"
  /\ peer["server"].state = "CONNECTED"
  /\ Become("server", Disconnecting(peer["server"]))
  /\ Quietly /\ UNCHANGED phase

\* enet_peer_disconnect_later
DisconnectLater ==
  LET p == peer["server"]
  IN /\ phase["server"] = "dispatch" /\ app["server"].status = "open"
     /\ p.state = "CONNECTED"
     /\ Become("server", IF p.unacked # {} THEN [p EXCEPT !.state = "DISCONNECT_LATER"]
                         ELSE Disconnecting(p))
     /\ Quietly /\ UNCHANGED phase

\* YNetClient::disconnect services its host once more, and takes no event.
Disconnect ==
  LET p == peer["client"]
  IN /\ app["client"].status = "open"
     /\ Become("client", IF p.state = "CONNECTED" THEN Disconnecting(p) ELSE p)
     /\ app' = [app EXCEPT !["client"].status = "closing"]
     /\ event' = NoEvent
     /\ UNCHANGED <<phase, met>>

\* enet_host_destroy at the end of disconnect or of a connect that failed, or
\* the process is killed: nothing reaches its address any more.
Destroy ==
  /\ \/ app["client"].status # "none"
     \/ peer["client"].state # "DISCONNECTED"
  /\ Become("client", Reset(peer["client"]))
  /\ app' = [app EXCEPT !["client"] = NobodyThere]
  /\ event' = NoEvent
  /\ phase' = [phase EXCEPT !["client"] = "dispatch"]
  /\ UNCHANGED met

-----------------------------------------------------------------------------
Service(e) == Dispatch(e) \/ SendOutgoing(e) \/ \E m \in net : Receive(e, m)

Next ==
  \/ \E e \in Ends : Service(e) \/ CheckTimeouts(e) \/ PeerSend(e)
  \/ EventElsewhere \/ HostConnect \/ HostFlush \/ DisconnectLater \/ Disconnect \/ Destroy

Spec == Init /\ [][Next]_vars

\* The server's application knows of a client whose ENetHost is gone.
ClientGone ==
  /\ app["server"].status = "open"
  /\ app["server"].conn # peer["client"].conn \/ peer["client"].state = "DISCONNECTED"

\* The server keeps servicing its host, and what is sent to a client that is
\* gone, a ping if nothing else, is not acknowledged.
Fairness ==
  /\ WF_vars(Dispatch("server"))
  /\ WF_vars(SendOutgoing("server"))
  /\ WF_vars(ClientGone /\ CheckTimeouts("server"))

FairSpec == Spec /\ Fairness

-----------------------------------------------------------------------------
\* run() finds a Client for every RECEIVE and DISCONNECT, and none for a
\* CONNECT: the server is told of a connection once, then of its packets, and
\* of its end once.
EventsPaired ==
  [][event'.end = "server" =>
       (app["server"].status = "open") = (event'.type # "CONNECT")]_vars

\* The packets an application has got are the first ones the other end sent on
\* this very connection, each once and in order.
InOrder ==
  \A e \in Ends : app[e].status = "open" =>
    /\ app[e].conn = peer[e].conn
    /\ app[e].got = [n \in 1..Len(app[e].got) |-> <<peer[e].conn, peer[e].session, n>>]

\* Who is kicked reads why: a client is told of the disconnection after all the
\* packets the server sent it.
ToldBeforeDisconnect ==
  [][event' = [end |-> "client", type |-> "DISCONNECT"] =>
       Len(app["client"].got) =
         Cardinality({m \in net : m.to = "client" /\ m.name = "COMMAND"
                                 /\ m.command.name = "SEND_RELIABLE"})]_vars

\* The server is told only of connections the client was told of first, and the
\* two agree on the session, however old the datagrams are that it acts on.
ServerFollows ==
  app["server"].status = "open" =>
    /\ app["server"].conn \in met
    /\ peer["client"].conn = app["server"].conn /\ peer["client"].state = "CONNECTED" =>
         peer["client"].session = peer["server"].session

\* The server is told that a client is gone.
GoneNoticed == ClientGone ~> ~ClientGone
=============================================================================
