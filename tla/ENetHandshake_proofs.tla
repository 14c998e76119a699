------------------------ MODULE ENetHandshake_proofs ------------------------
(***************************************************************************)
(* Proofs about ENetConnection, for any number of connections, sessions    *)
(* and packets, whatever the network loses, repeats, delays and reorders:  *)
(* the handshake is safe, and a client is told of the end of its           *)
(* connection after all that the server sent it.  Assumed is IdIsFree: a   *)
(* session ID comes round only when nothing is left of its last session.   *)
(***************************************************************************)
EXTENDS ENetConnection_proofs

\* The states of a connection that came up at this end.
Shown == {"CONNECTED", "DISCONNECT_LATER", "DISCONNECTING", "ACKNOWLEDGING_DISCONNECT"}

\* The client was told of the connection, and if it is still its connection,
\* its session is this one.  It takes a session once: it is CONNECTING before.
Confirmed(conn, session) ==
  /\ conn \in met
  /\ conn = peer["client"].conn =>
       peer["client"].state # "CONNECTING" /\ peer["client"].session = session

Confirms(m) ==
  m.to = "server" /\ m.name = "ACKNOWLEDGE" /\ m.command = Command("VERIFY_CONNECT")

\* A client process has a connection number that nobody was told of before.
ClientSound ==
  /\ peer["client"].conn \in Nat /\ met \subseteq 0..peer["client"].conn
  /\ peer["client"].state # "ACKNOWLEDGING_CONNECT"
  /\ peer["client"].state \in Shown => peer["client"].conn \in met
  /\ peer["client"].acknowledgements # {} =>
       peer["client"].conn \in met /\ peer["client"].state # "CONNECTING"

ServerSound ==
  /\ peer["server"].state \in Known =>
       /\ Confirmed(peer["server"].conn, peer["server"].session)
       /\ app["server"].conn = peer["server"].conn
  /\ peer["server"].state = "ACKNOWLEDGING_CONNECT" =>
       peer["server"].unacked = {Command("VERIFY_CONNECT")}

\* However old it is, an acknowledgement of a VERIFY_CONNECT tells the truth.
NetSound == \A m \in net : Confirms(m) => Confirmed(m.conn, m.session)

Handshake == ClientSound /\ ServerSound /\ NetSound

-----------------------------------------------------------------------------
(***************************************************************************)
(* Most steps take a peer from p to q without coming up or starting anew.  *)
(***************************************************************************)
Ordinary(p, q) ==
  /\ q.conn = p.conn /\ q.session = p.session
  /\ q.state = "CONNECTING" =>
       p.state = "CONNECTING" /\ q.acknowledgements \subseteq p.acknowledgements
  /\ q.acknowledgements # {} => p.acknowledgements # {} \/ p.state \in Shown
  /\ q.state \in Shown => p.state \in Shown
  /\ p.state \in Unknown => q.state \in Unknown
  /\ q.state = "ACKNOWLEDGING_CONNECT" => p.state = q.state /\ q.unacked = p.unacked

LEMMA OrdinaryReset ==
  ASSUME NEW p
  PROVE  Ordinary(p, Reset(p))
BY DEF Ordinary, Reset, NewPeer, Shown, Unknown

LEMMA OrdinaryQueues ==
  ASSUME NEW p, SoundPeer(p), p.state # "ACKNOWLEDGING_CONNECT"
  PROVE  Ordinary(p, ResetQueues(p))
BY DEF Ordinary, SoundPeer, ResetQueues, Unknown

LEMMA OrdinaryDisconnecting ==
  ASSUME NEW p, SoundPeer(p), p.state \in Shown
  PROVE  Ordinary(p, Disconnecting(p))
BY DEF Ordinary, SoundPeer, Disconnecting, ResetQueues, Shown, Unknown

LEMMA OrdinaryAcknowledging ==
  ASSUME NEW p, SoundPeer(p), NEW c
  PROVE  Ordinary(p, Acknowledging(p, c))
BY DEF Ordinary, SoundPeer, Acknowledging, Shown, Unknown

LEMMA OrdinaryTwice ==
  ASSUME NEW p, NEW q, NEW r, Ordinary(p, q), Ordinary(q, r)
  PROVE  Ordinary(p, r)
BY DEF Ordinary

LEMMA OrdinarySame ==
  ASSUME NEW p, NEW q, q.conn = p.conn, q.session = p.session, q.state = p.state,
         q.acknowledgements = p.acknowledgements,
         q.unacked = p.unacked \/ p.state # "ACKNOWLEDGING_CONNECT"
  PROVE  Ordinary(p, q)
BY DEF Ordinary, Unknown

\* What Become sends confirms nothing.
LEMMA WireConfirmsNothing ==
  ASSUME NEW e \in Ends, NEW p, Become(e, p)
  PROVE  \A m \in net' : m \in net \/ ~Confirms(m)
<1>1. \A m \in net' : m \in net \/ m \in Wire(e, p)
  BY DEF Become, Transmit
<1>2. \A m \in Wire(e, p) : m.name = "COMMAND"
  BY DEF Wire
<1> QED BY <1>1, <1>2 DEF Confirms

\* The server's application keeps the connection it knows of, or forgets it.
KeepsConn(e, q) ==
  \/ app'["server"].conn = app["server"].conn
  \/ e = "server" /\ q.state \notin Known

LEMMA OrdinaryStep ==
  ASSUME IInv, Handshake, NEW e \in Ends, NEW q, MovesTo(e, q), Ordinary(peer[e], q),
         met' = met,
         KeepsConn(e, q),
         \A m \in net' : \/ m \in net
                         \/ ~Confirms(m)
                         \/ /\ e = "client" /\ peer["client"].acknowledgements # {}
                            /\ m.conn = peer["client"].conn
                            /\ m.session = peer["client"].session
  PROVE  Handshake'
<1>1. /\ peer'[e] = q /\ \A f \in Ends \ {e} : peer'[f] = peer[f]
      /\ Ends = {"client", "server"}
  BY MoveSets DEF IInv, Ends
<1>2. ClientSound'
  <2>1. CASE e = "client"
    BY <1>1, <2>1 DEF Handshake, ClientSound, Ordinary
  <2>2. CASE e = "server"
    BY <1>1, <2>2 DEF Handshake, ClientSound
  <2> QED BY <1>1, <2>1, <2>2
<1>3. ASSUME NEW conn, NEW session, Confirmed(conn, session)
      PROVE  Confirmed(conn, session)'
  <2>1. CASE e = "client"
    BY <1>1, <1>3, <2>1 DEF Confirmed, Ordinary, Unknown
  <2>2. CASE e = "server"
    BY <1>1, <1>3, <2>2 DEF Confirmed
  <2> QED BY <1>1, <2>1, <2>2
<1>4. ServerSound'
  <2>1. CASE e = "client"
    <3>1. peer'["server"] = peer["server"] /\ app'["server"].conn = app["server"].conn
      BY <1>1, <2>1 DEF KeepsConn
    <3> QED BY <1>3, <3>1 DEF Handshake, ServerSound
  <2>2. CASE e = "server"
    <3>1. q.state \in Known => peer["server"].state \in Known
      BY <2>2 DEF IInv, ServerKnows, Known, Unknown, Ordinary
    <3>2. peer'["server"] = q /\ q.conn = peer["server"].conn /\ q.session = peer["server"].session
      BY <1>1, <2>2 DEF Ordinary, Unknown
    <3>3. q.state \in Known => /\ Confirmed(peer["server"].conn, peer["server"].session)
                               /\ app'["server"].conn = q.conn
      BY <2>2, <3>1, <3>2 DEF Handshake, ServerSound, Ordinary, KeepsConn
    <3>4. q.state = "ACKNOWLEDGING_CONNECT" => q.unacked = {Command("VERIFY_CONNECT")}
      BY <2>2 DEF Handshake, ServerSound, Ordinary, Unknown
    <3>5. PICK c, s : c = peer["server"].conn /\ s = peer["server"].session
      OBVIOUS
    <3>6. q.state \in Known => Confirmed(c, s)'
      BY <1>3, <3>3, <3>5
    <3>7. peer'["server"].conn = c /\ peer'["server"].session = s
      BY <3>2, <3>5
    <3> QED BY <3>2, <3>3, <3>4, <3>6, <3>7 DEF ServerSound, Confirmed
  <2> QED BY <1>1, <2>1, <2>2
<1>5. NetSound'
  <2> SUFFICES ASSUME NEW m \in net', Confirms(m)
               PROVE  Confirmed(m.conn, m.session)'
    BY DEF NetSound, Confirms
  <2>1. Confirmed(m.conn, m.session)
    BY DEF Handshake, NetSound, ClientSound, Confirmed
  <2> QED BY <1>3, <2>1
<1> QED BY <1>2, <1>4, <1>5 DEF Handshake

LEMMA QuietOrdinary ==
  ASSUME IInv, Handshake, NEW e \in Ends, NEW q, Become(e, q), Ordinary(peer[e], q), Quietly
  PROVE  Handshake'
<1>1. MovesTo(e, q) /\ met' = met /\ KeepsConn(e, q)
  BY DEF Become, MovesTo, Quietly, KeepsConn
<1> QED BY <1>1, WireConfirmsNothing, OrdinaryStep DEF MovesTo

LEMMA ToldOrdinary ==
  ASSUME IInv, Handshake, NEW e \in Ends, NEW q, Become(e, q), Ordinary(peer[e], q),
         NEW type, type # "CONNECT", Tell(e, type), q.state \notin Known
  PROVE  Handshake'
<1>1. e = "client" => app'["server"] = app["server"]
  BY TellSets DEF IInv, Ends
<1>2. met' = met
  BY DEF Tell
<1>3. KeepsConn(e, q)
  BY <1>1 DEF Ends, KeepsConn
<1> QED BY <1>2, <1>3, WireConfirmsNothing, OrdinaryStep DEF Become, MovesTo

LEMMA NotifiedOrdinary ==
  ASSUME IInv, Handshake, NEW e \in Ends, NEW type, type # "CONNECT",
         NotifyDisconnect(e, type), peer[e].state \in Known \cup {"CONNECTING"}
  PROVE  Handshake'
<1>1. CASE app[e].status = "closing"
  <2>1. Ordinary(peer[e], [peer[e] EXCEPT !.state = "ZOMBIE"])
    <3>1. SoundPeer(peer[e])
      BY DEF IInv, Shape
    <3> QED BY <3>1 DEF Ordinary, SoundPeer, Shown, Known, Unknown
  <2> QED BY <1>1, <2>1, QuietOrdinary DEF NotifyDisconnect
<1>2. CASE app[e].status # "closing"
  <2>1. Reset(peer[e]).state \notin Known
    BY ResetState DEF Known
  <2> QED BY <1>2, <2>1, OrdinaryReset, ToldOrdinary DEF NotifyDisconnect
<1> QED BY <1>1, <1>2

-----------------------------------------------------------------------------
(***************************************************************************)
(* The four steps of a handshake.                                          *)
(***************************************************************************)
LEMMA HostConnectHandshake ==
  ASSUME IInv, Handshake, HostConnect
  PROVE  Handshake'
<1>1. PICK q : q = NewPeer("CONNECTING", peer["client"].conn + 1, NoSession, {Command("CONNECT")})
  OBVIOUS
<1>2. /\ q.state = "CONNECTING" /\ q.conn = peer["client"].conn + 1
      /\ q.acknowledgements = {}
  BY <1>1 DEF NewPeer
<1>3. "client" \in Ends /\ "server" \in Ends /\ Become("client", q) /\ met' = met
      /\ app'["server"] = app["server"]
  BY <1>1 DEF HostConnect, IInv, Shape, Ends
<1>4. peer'["client"] = q /\ peer'["server"] = peer["server"]
  BY <1>3, MoveSets DEF IInv, Become, MovesTo
<1>5. ClientSound'
  BY <1>2, <1>3, <1>4 DEF Handshake, ClientSound, Shown
<1>6. ASSUME NEW conn, NEW session, Confirmed(conn, session)
      PROVE  Confirmed(conn, session)'
  <2>1. conn # peer["client"].conn + 1
    BY <1>6 DEF Handshake, ClientSound, Confirmed
  <2> QED BY <1>2, <1>3, <1>4, <1>6, <2>1 DEF Confirmed
<1>7. ServerSound'
  BY <1>3, <1>4, <1>6 DEF Handshake, ServerSound
<1>8. NetSound'
  BY <1>3, <1>6, WireConfirmsNothing DEF Handshake, NetSound, Confirms
<1> QED BY <1>5, <1>7, <1>8 DEF Handshake

LEMMA ConnectHandshake ==
  ASSUME IInv, Handshake, NEW e \in Ends, NEW m, HandleConnect(e, m)
  PROVE  Handshake'
<1>1. PICK q : q = NewPeer("ACKNOWLEDGING_CONNECT", m.conn, peer[e].session + 1,
                           {Command("VERIFY_CONNECT")})
  OBVIOUS
<1>2. q.state = "ACKNOWLEDGING_CONNECT" /\ q.unacked = {Command("VERIFY_CONNECT")}
  BY <1>1 DEF NewPeer
<1>3. e = "server" /\ Become(e, q) /\ met' = met
  BY <1>1 DEF HandleConnect, Quietly
<1>4. "client" \in Ends /\ peer'["server"] = q /\ peer'["client"] = peer["client"]
  BY <1>3, MoveSets DEF IInv, Become, MovesTo, Ends
<1>5. ASSUME NEW conn, NEW session, Confirmed(conn, session)
      PROVE  Confirmed(conn, session)'
  BY <1>3, <1>4, <1>5 DEF Confirmed
<1>6. ClientSound'
  BY <1>3, <1>4 DEF Handshake, ClientSound
<1>7. ServerSound'
  BY <1>2, <1>4 DEF ServerSound, Known
<1>8. NetSound'
  BY <1>3, <1>5, WireConfirmsNothing DEF Handshake, NetSound, Confirms
<1> QED BY <1>6, <1>7, <1>8 DEF Handshake

LEMMA VerifyConnectHandshake ==
  ASSUME IInv, Handshake, NEW e \in Ends, NEW m, HandleVerifyConnect(e, m)
  PROVE  Handshake'
<1>0. SoundPeer(peer[e])
  BY DEF IInv, Shape
<1>1. CASE peer[e].state # "CONNECTING"
  BY <1>0, <1>1, OrdinaryAcknowledging, QuietOrdinary DEF HandleVerifyConnect
<1>2. CASE peer[e].state = "CONNECTING"
  <2>1. e = "client" /\ "server" \in Ends
    BY <1>2 DEF Ends, IInv, ServerKnows, Known, Unknown
  <2>2. PICK q : q = [peer[e] EXCEPT !.state = "CONNECTED", !.session = m.session,
                        !.unacked = {}, !.acknowledgements = {m.command}]
    OBVIOUS
  <2>3. q.state = "CONNECTED" /\ q.conn = peer["client"].conn
    BY <1>0, <2>1, <2>2 DEF SoundPeer
  <2>4. Become("client", q) /\ Tell("client", "CONNECT")
    BY <1>2, <2>1, <2>2 DEF HandleVerifyConnect
  <2>5. peer'["client"] = q /\ peer'["server"] = peer["server"]
    BY <2>1, <2>4, MoveSets DEF IInv, Become, MovesTo
  <2>6. met' = met \cup {peer["client"].conn} /\ app'["server"] = app["server"]
    BY <2>1, <2>4, TellSets DEF Tell, IInv
  <2>7. ClientSound'
    <3>1. peer["client"].conn \in Nat /\ met \subseteq 0..peer["client"].conn
      BY DEF Handshake, ClientSound
    <3>2. peer["client"].conn \in 0..peer["client"].conn
      BY <3>1
    <3>3. met' \subseteq 0..q.conn
      BY <2>3, <2>6, <3>1, <3>2
    <3> QED BY <2>3, <2>5, <2>6, <3>1, <3>3 DEF ClientSound
  <2>8. ASSUME NEW conn, NEW session, Confirmed(conn, session)
        PROVE  Confirmed(conn, session)'
    <3>1. conn # peer["client"].conn
      BY <1>2, <2>1, <2>8 DEF Confirmed
    <3> QED BY <2>3, <2>5, <2>6, <2>8, <3>1 DEF Confirmed
  <2>9. ServerSound'
    BY <2>5, <2>6, <2>8 DEF Handshake, ServerSound
  <2>10. NetSound'
    BY <2>1, <2>4, <2>8, WireConfirmsNothing DEF Handshake, NetSound, Confirms
  <2> QED BY <2>7, <2>9, <2>10 DEF Handshake
<1> QED BY <1>1, <1>2

\* The server is told of the connection: what it takes for a confirmation names
\* its session, and it has sent nothing but the VERIFY_CONNECT.
LEMMA AcknowledgeHandshake ==
  ASSUME IInv, StampInv, Handshake, NEW e \in Ends, NEW m \in net, Receive(e, m),
         HandleAcknowledge(e, m),
         m.name = "ACKNOWLEDGE", peer[e].state = "ACKNOWLEDGING_CONNECT"
  PROVE  Handshake'
<1>0. SoundPeer(peer[e])
  BY DEF IInv, Shape
<1>1. e = "server" /\ "client" \in Ends
  BY DEF Handshake, ClientSound, Ends
<1>2. PICK p : p = [peer[e] EXCEPT !.unacked = @ \ {m.command}]
  OBVIOUS
<1>3. PICK q : q = [p EXCEPT !.state = "CONNECTED"]
  OBVIOUS
<1>4. /\ p.state = "ACKNOWLEDGING_CONNECT" /\ q.state = "CONNECTED"
      /\ q.conn = peer["server"].conn /\ q.session = peer["server"].session
  BY <1>0, <1>1, <1>2, <1>3 DEF SoundPeer
<1>5. Become("server", q) /\ Tell("server", "CONNECT")
  BY <1>1, <1>2, <1>3, <1>4 DEF HandleAcknowledge
<1>6. Confirmed(peer["server"].conn, peer["server"].session)
  <2>1. m.to = "server" /\ m.conn = peer["server"].conn /\ m.session = peer["server"].session
    BY <1>1, AcceptedSession DEF Receive
  <2>2. m.command = Command("VERIFY_CONNECT")
    BY <1>1 DEF HandleAcknowledge, Handshake, ServerSound
  <2> QED BY <2>1, <2>2 DEF Handshake, NetSound, Confirms
<1>7. peer'["server"] = q /\ peer'["client"] = peer["client"]
  BY <1>1, <1>5, MoveSets DEF IInv, Become, MovesTo
<1>8. met' = met /\ app'["server"].conn = peer["server"].conn
  BY <1>1, <1>5 DEF Tell, IInv, Shape
<1>9. ClientSound'
  BY <1>7, <1>8 DEF Handshake, ClientSound
<1>10. ASSUME NEW conn, NEW session, Confirmed(conn, session)
       PROVE  Confirmed(conn, session)'
  BY <1>7, <1>8, <1>10 DEF Confirmed
<1>11. ServerSound'
  <2>1. PICK c, s : c = peer["server"].conn /\ s = peer["server"].session
    OBVIOUS
  <2>2. Confirmed(c, s)'
    BY <1>6, <1>10, <2>1
  <2> QED BY <1>4, <1>7, <1>8, <2>1, <2>2 DEF ServerSound, Confirmed
<1>12. NetSound'
  BY <1>1, <1>5, <1>10, WireConfirmsNothing DEF Handshake, NetSound, Confirms
<1> QED BY <1>9, <1>11, <1>12 DEF Handshake

-----------------------------------------------------------------------------
(***************************************************************************)
(* The other steps.                                                        *)
(***************************************************************************)
LEMMA DisconnectHandshake ==
  ASSUME IInv, Handshake, NEW e \in Ends, NEW m, HandleDisconnect(e, m)
  PROVE  Handshake'
<1>1. PICK clear : clear = ResetQueues(peer[e])
  OBVIOUS
<1>2. /\ SoundPeer(peer[e]) /\ SoundPeer(clear) /\ clear.state = peer[e].state
      /\ clear.conn = peer[e].conn /\ clear.session = peer[e].session
      /\ clear.acknowledgements = {}
  <2>1. SoundPeer(peer[e])
    BY DEF IInv, Shape
  <2> QED BY <1>1, <2>1 DEF SoundPeer, ResetQueues
<1>3. CASE peer[e].state \in {"DISCONNECTING", "CONNECTING"}
  <2>1. PICK q : q = [clear EXCEPT !.state = "ZOMBIE"]
    OBVIOUS
  <2>2. Ordinary(peer[e], q)
    BY <1>2, <1>3, <2>1 DEF Ordinary, SoundPeer, Shown, Unknown
  <2>3. Become(e, q) /\ Quietly
    BY <1>1, <1>3, <2>1 DEF HandleDisconnect
  <2> QED BY <2>2, <2>3, QuietOrdinary
<1>4. CASE peer[e].state = "ACKNOWLEDGING_CONNECT"
  <2>1. PICK q : q = Reset(clear)
    OBVIOUS
  <2>2. Ordinary(peer[e], q)
    BY <1>2, <2>1 DEF Ordinary, Reset, NewPeer, Shown, Unknown
  <2>3. Become(e, q) /\ Quietly
    BY <1>1, <1>4, <2>1 DEF HandleDisconnect
  <2> QED BY <2>2, <2>3, QuietOrdinary
<1>5. CASE peer[e].state \in {"CONNECTED", "DISCONNECT_LATER"}
  <2>1. PICK r : r = [clear EXCEPT !.state = "ACKNOWLEDGING_DISCONNECT"]
    OBVIOUS
  <2>2. Ordinary(peer[e], r) /\ SoundPeer(r)
    BY <1>2, <1>5, <2>1 DEF Ordinary, SoundPeer, Shown, Unknown
  <2>3. Become(e, Acknowledging(r, m.command)) /\ Quietly
    BY <1>1, <1>5, <2>1 DEF HandleDisconnect
  <2> QED BY <2>2, <2>3, OrdinaryAcknowledging, OrdinaryTwice, QuietOrdinary
<1>6. CASE peer[e].state \notin {"DISCONNECTING", "CONNECTING", "ACKNOWLEDGING_CONNECT",
                                "CONNECTED", "DISCONNECT_LATER"}
  <2>1. Become(e, Acknowledging(peer[e], m.command)) /\ Quietly
    BY <1>6 DEF HandleDisconnect
  <2> QED BY <1>2, <2>1, OrdinaryAcknowledging, QuietOrdinary
<1> QED BY <1>3, <1>4, <1>5, <1>6

LEMMA SendReliableHandshake ==
  ASSUME IInv, Handshake, NEW e \in Ends, NEW m, HandleSendReliable(e, m)
  PROVE  Handshake'
<1>1. SoundPeer(peer[e])
  BY DEF IInv, Shape
<1>2. PICK p : p = [peer[e] EXCEPT !.incoming = @ \cup {m.command}]
  OBVIOUS
<1>3. PICK r \in {peer[e], DispatchReliable(p)} :
        Become(e, Acknowledging(r, m.command)) /\ Quietly
  BY <1>2 DEF HandleSendReliable
<1>4. \A f \in {"state", "conn", "session", "unacked", "acknowledgements"} :
        f \in DOMAIN p /\ p[f] = peer[e][f]
  BY <1>1, <1>2 DEF SoundPeer
<1>5. \A f \in {"state", "conn", "session", "unacked", "acknowledgements"} :
        f \in DOMAIN r /\ r[f] = peer[e][f]
  BY <1>1, <1>3, <1>4 DEF SoundPeer, DispatchReliable
<1>6. SoundPeer(r) /\ Ordinary(peer[e], r)
  BY <1>1, <1>5, OrdinarySame DEF SoundPeer
<1> QED BY <1>3, <1>6, OrdinaryAcknowledging, OrdinaryTwice, QuietOrdinary

LEMMA AcknowledgedHandshake ==
  ASSUME IInv, Handshake, NEW e \in Ends, NEW m, HandleAcknowledge(e, m),
         peer[e].state # "ACKNOWLEDGING_CONNECT"
  PROVE  Handshake'
<1>1. SoundPeer(peer[e])
  BY DEF IInv, Shape
<1>2. PICK p : p = [peer[e] EXCEPT !.unacked = @ \ {m.command}]
  OBVIOUS
<1>3. SoundPeer(p) /\ p.state = peer[e].state /\ Ordinary(peer[e], p)
  BY <1>1, <1>2 DEF SoundPeer, Ordinary, Unknown
<1>4. CASE p.state = "DISCONNECTING"
  <2>1. NotifyDisconnect(e, "DISCONNECT")
    BY <1>2, <1>4 DEF HandleAcknowledge
  <2> QED BY <1>3, <1>4, <2>1, NotifiedOrdinary DEF Known
<1>5. CASE p.state = "DISCONNECT_LATER"
  <2>1. PICK r \in {p, Disconnecting(p)} : Become(e, r) /\ Quietly
    BY <1>2, <1>5 DEF HandleAcknowledge
  <2>2. Ordinary(p, Disconnecting(p))
    BY <1>3, <1>5, OrdinaryDisconnecting DEF Shown
  <2>3. Ordinary(peer[e], r)
    BY <1>3, <2>1, <2>2, OrdinaryTwice
  <2> QED BY <2>1, <2>3, QuietOrdinary
<1>6. CASE p.state \notin {"DISCONNECTING", "DISCONNECT_LATER"}
  <2>1. Become(e, p) /\ Quietly
    BY <1>2, <1>3, <1>6 DEF HandleAcknowledge
  <2> QED BY <1>3, <2>1, QuietOrdinary
<1> QED BY <1>4, <1>5, <1>6

LEMMA ReceiveHandshake ==
  ASSUME IInv, StampInv, Handshake, NEW e \in Ends, NEW m \in net, Receive(e, m)
  PROVE  Handshake'
<1>1. \/ HandleAcknowledge(e, m) /\ m.name = "ACKNOWLEDGE"
      \/ HandleConnect(e, m) \/ HandleVerifyConnect(e, m)
      \/ HandleDisconnect(e, m) \/ HandleSendReliable(e, m)
  BY DEF Receive
<1> QED BY <1>1, AcknowledgeHandshake, AcknowledgedHandshake, ConnectHandshake,
           VerifyConnectHandshake, DisconnectHandshake, SendReliableHandshake

LEMMA DispatchHandshake ==
  ASSUME IInv, Handshake, NEW e \in Ends, Dispatch(e)
  PROVE  Handshake'
<1>0. SoundPeer(peer[e])
  BY DEF IInv, Shape
<1>1. CASE peer[e].state = "ZOMBIE"
  <2>1. Become(e, Reset(peer[e])) /\ Tell(e, "DISCONNECT")
    BY <1>1 DEF Dispatch
  <2>2. Reset(peer[e]).state \notin Known
    BY ResetState DEF Known
  <2> QED BY <2>1, <2>2, OrdinaryReset, ToldOrdinary
<1>2. CASE peer[e].state = "CONNECTED"
  <2>1. PICK q : q = [peer[e] EXCEPT !.dispatched = Tail(@)]
    OBVIOUS
  <2>2. Ordinary(peer[e], q)
    BY <1>0, <2>1, OrdinarySame DEF SoundPeer
  <2>3. /\ Become(e, q) /\ met' = met
        /\ app' = [app EXCEPT ![e].got = Append(@, Head(peer[e].dispatched))]
    BY <1>2, <2>1 DEF Dispatch
  <2>4. KeepsConn(e, q)
    BY <2>3 DEF IInv, Shape, Ends, KeepsConn
  <2> QED BY <2>2, <2>3, <2>4, WireConfirmsNothing, OrdinaryStep DEF Become, MovesTo
<1> QED BY <1>1, <1>2 DEF Dispatch

\* What the client acknowledges, it acknowledges as it is.
LEMMA FlushHandshake ==
  ASSUME IInv, Handshake, NEW e \in Ends, Flush(e)
  PROVE  Handshake'
<1>0. SoundPeer(peer[e]) /\ DOMAIN peer = Ends
  BY DEF IInv, Shape
<1>1. PICK s : s = IF Command("DISCONNECT") \in peer[e].acknowledgements
                     THEN "ZOMBIE" ELSE peer[e].state
  OBVIOUS
<1>2. PICK q : q = [peer[e] EXCEPT !.acknowledgements = {}, !.state = s]
  OBVIOUS
<1>3. MovesTo(e, q) /\ met' = met /\ KeepsConn(e, q)
  BY <1>0, <1>1, <1>2 DEF Flush, MovesTo, Quietly, KeepsConn
<1>4. /\ q.state = s /\ q.conn = peer[e].conn /\ q.session = peer[e].session
      /\ q.acknowledgements = {} /\ q.unacked = peer[e].unacked
  BY <1>0, <1>2 DEF SoundPeer
<1>5. Ordinary(peer[e], q)
  <2>1. CASE s = peer[e].state
    BY <1>4, <2>1 DEF Ordinary, Unknown
  <2>2. CASE s = "ZOMBIE" /\ peer[e].acknowledgements # {}
    <3>1. peer[e].state \notin Unknown
      BY <1>0, <2>2 DEF SoundPeer
    <3>2. peer[e].state \notin Shown => s \notin Shown
      BY <2>2 DEF Shown
    <3> QED BY <1>4, <2>2, <3>1, <3>2 DEF Ordinary
  <2> QED BY <1>1, <2>1, <2>2
<1>6. ASSUME NEW m \in net'
      PROVE  \/ m \in net
             \/ ~Confirms(m)
             \/ /\ e = "client" /\ peer["client"].acknowledgements # {}
                /\ m.conn = peer["client"].conn /\ m.session = peer["client"].session
  <2>1. m \in net \/ m \in AckWire(e, peer[e])
    BY <1>6 DEF Flush, Transmit
  <2>2. ASSUME m \in AckWire(e, peer[e])
        PROVE  /\ m.to = Other(e) /\ peer[e].acknowledgements # {}
               /\ m.conn = peer[e].conn /\ m.session = peer[e].session
    BY <2>2 DEF AckWire
  <2> QED BY <2>1, <2>2 DEF Confirms, Other, Ends
<1> QED BY <1>3, <1>5, <1>6, OrdinaryStep DEF MovesTo

LEMMA TimeoutHandshake ==
  ASSUME IInv, Handshake, NEW e \in Ends, CheckTimeouts(e)
  PROVE  Handshake'
<1>1. CASE peer[e].state = "ACKNOWLEDGING_CONNECT"
  <2>1. Become(e, Reset(peer[e])) /\ Quietly
    BY <1>1 DEF CheckTimeouts
  <2> QED BY <2>1, OrdinaryReset, QuietOrdinary
<1>2. CASE peer[e].state \in {"CONNECTING", "CONNECTED", "DISCONNECT_LATER", "DISCONNECTING"}
  <2>1. NotifyDisconnect(e, "DISCONNECT_TIMEOUT")
    BY <1>2 DEF CheckTimeouts
  <2>2. peer[e].state \in Known \cup {"CONNECTING"}
    BY <1>2 DEF Known
  <2> QED BY <2>1, <2>2, NotifiedOrdinary
<1> QED BY <1>1, <1>2 DEF CheckTimeouts

LEMMA SendHandshake ==
  ASSUME IInv, Handshake, NEW e \in Ends, PeerSend(e)
  PROVE  Handshake'
<1>0. SoundPeer(peer[e]) /\ peer[e].state = "CONNECTED"
  BY DEF IInv, Shape, PeerSend
<1>1. PICK p : p = [peer[e] EXCEPT !.sent = @ + 1]
  OBVIOUS
<1>2. PICK r : r = [p EXCEPT !.unacked = @ \cup {Packet(p, p.sent)}]
  OBVIOUS
<1>3. Ordinary(peer[e], r)
  <2>1. \A f \in {"state", "conn", "session", "acknowledgements"} :
          f \in DOMAIN p /\ p[f] = peer[e][f]
    BY <1>0, <1>1 DEF SoundPeer
  <2>2. \A f \in {"state", "conn", "session", "acknowledgements"} : r[f] = peer[e][f]
    BY <1>2, <2>1
  <2> QED BY <1>0, <2>2, OrdinarySame
<1>4. Become(e, r) /\ Quietly
  BY <1>1, <1>2 DEF PeerSend
<1> QED BY <1>3, <1>4, QuietOrdinary

LEMMA DisconnectLaterHandshake ==
  ASSUME IInv, Handshake, DisconnectLater
  PROVE  Handshake'
<1>0. "server" \in Ends /\ SoundPeer(peer["server"]) /\ peer["server"].state = "CONNECTED"
  BY DEF IInv, Shape, DisconnectLater, Ends
<1>1. PICK p : p = [peer["server"] EXCEPT !.state = "DISCONNECT_LATER"]
  OBVIOUS
<1>2. Ordinary(peer["server"], p)
  BY <1>0, <1>1 DEF Ordinary, SoundPeer, Shown, Unknown
<1>3. Ordinary(peer["server"], Disconnecting(peer["server"]))
  BY <1>0, OrdinaryDisconnecting DEF Shown
<1>4. PICK r \in {p, Disconnecting(peer["server"])} : Become("server", r) /\ Quietly
  BY <1>1 DEF DisconnectLater
<1> QED BY <1>0, <1>2, <1>3, <1>4, QuietOrdinary

LEMMA CloseHandshake ==
  ASSUME IInv, Handshake, Disconnect \/ Destroy
  PROVE  Handshake'
<1>0. "client" \in Ends /\ SoundPeer(peer["client"])
  BY DEF IInv, Shape, Ends
<1>1. ASSUME NEW q, Ordinary(peer["client"], q), Become("client", q)
      PROVE  Handshake'
  <2>1. met' = met
    BY DEF Disconnect, Destroy
  <2>2. app'["server"] = app["server"]
    BY DEF Disconnect, Destroy, IInv, Shape, Ends
  <2>3. KeepsConn("client", q)
    BY <2>2 DEF KeepsConn
  <2> QED BY <1>0, <1>1, <2>1, <2>3, WireConfirmsNothing, OrdinaryStep DEF Become, MovesTo
<1>2. Ordinary(peer["client"], peer["client"])
  BY OrdinarySame
<1>3. CASE Disconnect
  <2>1. CASE peer["client"].state = "CONNECTED"
    BY <1>0, <1>1, <1>3, <2>1, OrdinaryDisconnecting DEF Disconnect, Shown
  <2>2. CASE peer["client"].state # "CONNECTED"
    BY <1>1, <1>2, <1>3, <2>2 DEF Disconnect
  <2> QED BY <2>1, <2>2
<1>4. CASE Destroy
  BY <1>1, <1>4, OrdinaryReset DEF Destroy
<1> QED BY <1>3, <1>4

LEMMA ElsewhereHandshake ==
  ASSUME Handshake, UNCHANGED <<peer, net, met>>, app' = app
  PROVE  Handshake'
BY DEF Handshake, ClientSound, ServerSound, NetSound, Confirmed, Confirms

LEMMA NextHandshake ==
  ASSUME IInv, StampInv, Handshake, Next
  PROVE  Handshake'
<1>1. ASSUME NEW e \in Ends, SendOutgoing(e)
      PROVE  Handshake'
  BY <1>1, FlushHandshake DEF SendOutgoing
<1>2. ASSUME HostFlush
      PROVE  Handshake'
  BY <1>2, FlushHandshake DEF HostFlush, Ends
<1>3. ASSUME EventElsewhere
      PROVE  Handshake'
  BY <1>3, ElsewhereHandshake DEF EventElsewhere, Quietly
<1> QED BY <1>1, <1>2, <1>3, DispatchHandshake, ReceiveHandshake, TimeoutHandshake,
           SendHandshake, DisconnectLaterHandshake, HostConnectHandshake, CloseHandshake
        DEF Next, Service

LEMMA InitHandshake == Init => Handshake
<1>1. Ends = {"client", "server"}
  BY DEF Ends
<1>2. ASSUME Init
      PROVE  /\ \A e \in Ends : /\ peer[e].state = "DISCONNECTED" /\ peer[e].conn = 0
                                /\ peer[e].acknowledgements = {}
             /\ net = {} /\ met = {}
  BY <1>1, <1>2 DEF Init, NewPeer
<1> QED BY <1>1, <1>2 DEF Handshake, ClientSound, ServerSound, NetSound, Known, Shown

LEMMA NextKeepsHandshake ==
  ASSUME IInv, StampInv, Handshake, [Next]_vars
  PROVE  IInv' /\ StampInv' /\ Handshake'
<1>0. StampInv'
  BY NextKeepsStamps
<1>1. CASE Next
  BY <1>0, <1>1, NextPreserves, NextHandshake
<1>2. CASE UNCHANGED vars
  <2>1. IInv'
    BY <1>2 DEF vars, IInv, Shape, ServerKnows
  <2> QED BY <1>0, <1>2, <2>1, ElsewhereHandshake DEF vars
<1> QED BY <1>1, <1>2

-----------------------------------------------------------------------------
(***************************************************************************)
(* The server is told only of connections the client was told of first,    *)
(* and the two agree on the session: a CONNECT, a VERIFY_CONNECT or an     *)
(* acknowledgement that comes late, twice or from an earlier session never *)
(* makes the server report a connection nobody confirmed, or use another   *)
(* session than its client (enet_protocol_handle_connect, _verify_connect, *)
(* _acknowledge), if an address gets a session ID again only when nothing  *)
(* of the earlier session is left (IdIsFree).                              *)
(***************************************************************************)
THEOREM ServerAlwaysFollows == Spec => []ServerFollows
<1>1. Init => IInv /\ StampInv /\ Handshake
  BY InitIInv, InitStamps, InitHandshake
<1>2. IInv /\ StampInv /\ Handshake /\ [Next]_vars => (IInv /\ StampInv /\ Handshake)'
  BY NextKeepsHandshake
<1>3. IInv /\ Handshake => ServerFollows
  BY DEF IInv, ServerKnows, Handshake, ServerSound, Confirmed, ServerFollows
<1> QED BY <1>1, <1>2, <1>3, PTL DEF Spec

-----------------------------------------------------------------------------
(***************************************************************************)
(* The end of a connection.  The server ends it when the client has        *)
(* acknowledged all its packets; the client acknowledges what has come     *)
(* before its application gets it, but receives nothing, and so learns of  *)
(* no end, while a packet waits for its application.                       *)
(***************************************************************************)
\* The server's peer is up and may still send packets, now or later.
Running == {"CONNECTED", "DISCONNECT_LATER"}

\* An acknowledgement by the client of connection conn.
IsAck(m, conn) == m.to = "server" /\ m.name = "ACKNOWLEDGE" /\ m.conn = conn
Acked(x, conn, nt) == \E m \in nt : IsAck(m, conn) /\ m.command = x

\* A packet for the client, and the end of its connection.
IsParcel(m) == m.to = "client" /\ m.name = "COMMAND" /\ m.command.name = "SEND_RELIABLE"
IsEnd(m) == m.to = "client" /\ m.name = "COMMAND" /\ m.command.name = "DISCONNECT"

\* The datagram with the packet number n.
Parcel(conn, session, n) ==
  [to |-> "client", conn |-> conn, session |-> session, name |-> "COMMAND",
   command |-> Numbered(conn, session, n)]

\* Nothing on its way is of a connection or a session to come, and what is for
\* the client is of its connection.
Addressed(c, s, nt) ==
  /\ c.conn \in Nat /\ s.conn \in 0..c.conn
  /\ s.session \in Int /\ c.session \in Int /\ NoSession <= s.session /\ c.session <= s.session
  /\ \A m \in nt : /\ m.conn \in 0..c.conn
                   /\ m.to = "client" => /\ m.conn = c.conn /\ c.state # "DISCONNECTED"
                                         /\ m.session \in Int /\ m.session <= s.session
  /\ c.state = "CONNECTING" => \A m \in nt : ~IsAck(m, c.conn)

\* The server has sent N packets on the client's connection, and waits for the
\* acknowledgement of each that the client has not acknowledged.
Sends(N, c, s, nt) ==
  /\ \A m \in nt : IsParcel(m) => \E n \in 1..N : m = Parcel(c.conn, c.session, n)
  /\ \A n \in 1..N : Parcel(c.conn, c.session, n) \in nt
  /\ c.state \in {"CONNECTING", "DISCONNECTED"} => N = 0
  /\ \A m \in Wire("server", s) : Arrives(m, c) => m \in nt
  /\ s.state = "ACKNOWLEDGING_CONNECT" => s.sent = 0
  /\ s.conn = c.conn /\ c.state # "DISCONNECTED" =>
       /\ s.state = "ACKNOWLEDGING_CONNECT" /\ s.session = c.session => N = 0
       /\ s.state \in Running =>
            /\ s.sent = N
            /\ \A n \in 1..N : LET x == Numbered(c.conn, c.session, n)
                               IN x \in s.unacked \/ Acked(x, c.conn, nt)

\* The server sends on the client's connection, or is about to.
Serves(c, s) ==
  /\ s.conn = c.conn /\ s.session = c.session
  /\ s.state \in Running \cup {"ACKNOWLEDGING_CONNECT"}

\* The end of the connection is sent when all packets are acknowledged, and no
\* packet after it.
Over(N, c, s, nt) ==
  (\E m \in nt : IsEnd(m)) =>
    /\ c.state # "CONNECTING" /\ ~Serves(c, s)
    /\ \A n \in 1..N : Acked(Numbered(c.conn, c.session, n), c.conn, nt)

\* What the client acknowledges has come.
Had(c, x) == x.name = "SEND_RELIABLE" => x.seq \in 1..c.received \/ x \in c.incoming

\* The client has not acknowledged the packet that it waits for, and while it
\* receives, not even the one that its application waits for.
Reads(N, c, a, ph, nt) ==
  c.state = "CONNECTED" =>
    /\ a.status = "open"
    /\ c.received <= N
    /\ \A x \in c.incoming : x.seq <= N /\ x.seq # c.received + 1
    /\ \A x \in c.acknowledgements : Had(c, x)
    /\ \A m \in nt : IsAck(m, c.conn) => Had(c, m.command)
    /\ ph = "receive" =>
         \A m \in nt : IsAck(m, c.conn) /\ m.command.name = "SEND_RELIABLE" =>
           m.command.seq # Len(a.got) + 1

\* A client that does not close the connection itself is told of its end only
\* when its application has got all the packets.
Leaves(N, c, a, nt) ==
  /\ c.state \notin {"DISCONNECT_LATER", "ACKNOWLEDGING_CONNECT"}
  /\ c.state = "DISCONNECTING" => a.status = "closing"
  /\ \A x \in c.acknowledgements : x.name = "DISCONNECT" => c.state = "ACKNOWLEDGING_DISCONNECT"
  /\ c.state \in {"ACKNOWLEDGING_DISCONNECT", "ZOMBIE"} /\ a.status # "closing" =>
       Len(a.got) = N /\ \E m \in nt : IsEnd(m)

Told(N, c, s, a, ph, nt) ==
  /\ Addressed(c, s, nt) /\ Sends(N, c, s, nt) /\ Over(N, c, s, nt)
  /\ Reads(N, c, a, ph, nt) /\ Leaves(N, c, a, nt)

ToldInv ==
  /\ DOMAIN phase = Ends
  /\ \E N \in Nat : Told(N, peer["client"], peer["server"], app["client"], phase["client"], net)

\* A connection the server is told of has the client's session (Handshake).
Agree(c, s) ==
  s.state \in Known /\ s.conn = c.conn => s.session = c.session /\ c.state # "CONNECTING"

Arriving(nt, sent, c) == {m \in nt \cup sent : Arrives(m, c)}

-----------------------------------------------------------------------------
(***************************************************************************)
(* The server's steps.                                                     *)
(***************************************************************************)
\* What is added to nt is no packet, no end of the connection and no
\* acknowledgement of the client's.
Harmless(nt, next) ==
  /\ nt \subseteq next
  /\ \A m \in next : m \in nt \/ (m.to = "client" /\ ~IsParcel(m) /\ ~IsEnd(m))

LEMMA AllArrive ==
  ASSUME NEW c, NEW s, NEW nt, Addressed(c, s, nt), NEW sent
  PROVE  /\ nt \subseteq Arriving(nt, sent, c)
         /\ \A m \in Arriving(nt, sent, c) : m \in nt \/ (m \in sent /\ Arrives(m, c))
BY DEF Addressed, Arriving, Arrives

LEMMA HarmlessAcks ==
  ASSUME NEW nt, NEW next, Harmless(nt, next), NEW conn
  PROVE  /\ \A m \in next : IsAck(m, conn) => m \in nt
         /\ \A x : Acked(x, conn, next) <=> Acked(x, conn, nt)
         /\ (\E m \in next : IsEnd(m)) <=> (\E m \in nt : IsEnd(m))
<1>1. \A m \in next : IsAck(m, conn) => m \in nt
  BY DEF Harmless, IsAck
<1>2. \A m \in next : IsEnd(m) => m \in nt
  BY DEF Harmless
<1> QED BY <1>1, <1>2 DEF Harmless, Acked

LEMMA ServerMoves ==
  ASSUME NEW N \in Nat, NEW c, NEW s, NEW a, NEW ph, NEW nt, Told(N, c, s, a, ph, nt),
         NEW q, NEW next, Harmless(nt, next), Addressed(c, q, next), Sends(N, c, q, next),
         Serves(c, q) => Serves(c, s)
  PROVE  Told(N, c, q, a, ph, next)
<1>1. /\ \A m \in next : IsAck(m, c.conn) => m \in nt
      /\ \A x : Acked(x, c.conn, next) <=> Acked(x, c.conn, nt)
      /\ (\E m \in next : IsEnd(m)) <=> (\E m \in nt : IsEnd(m))
  BY HarmlessAcks
<1>2. Over(N, c, q, next)
  BY <1>1 DEF Told, Over
<1>3. Reads(N, c, a, ph, next)
  BY <1>1 DEF Told, Reads
<1>4. Leaves(N, c, a, next)
  BY <1>1 DEF Told, Leaves
<1> QED BY <1>2, <1>3, <1>4 DEF Told

\* The server's peer on its way down, or with fewer commands to be acknowledged.
Eases(s, q) ==
  /\ q.conn = s.conn /\ q.session = s.session /\ q.unacked \subseteq s.unacked
  /\ q.state = "ACKNOWLEDGING_CONNECT" => s.state = q.state /\ q.sent = s.sent
  /\ q.state \in Running => s.state \in Running /\ q.sent = s.sent

LEMMA ServerEases ==
  ASSUME NEW N \in Nat, NEW c, NEW s, NEW a, NEW ph, NEW nt, Told(N, c, s, a, ph, nt),
         NEW q, Eases(s, q),
         q.state \in Running /\ s.conn = c.conn =>
           \A x \in s.unacked : x \in q.unacked \/ Acked(x, c.conn, nt),
         NEW sent, \A m \in sent : m \in Wire("server", q) \/ m \in AckWire("server", s),
         NEW next, next = Arriving(nt, sent, c)
  PROVE  Told(N, c, q, a, ph, next)
<1>1. /\ nt \subseteq next
      /\ \A m \in next : m \in nt \/ (m \in sent /\ Arrives(m, c))
  BY AllArrive DEF Told
<1>2. Wire("server", q) \subseteq Wire("server", s)
  BY DEF Wire, Eases
<1>3. \A m \in next : m \in nt \/ (m \in AckWire("server", s) /\ Arrives(m, c))
  BY <1>1, <1>2 DEF Told, Sends
<1>4. \A m \in AckWire("server", s) :
        m.to = "client" /\ m.name = "ACKNOWLEDGE" /\ m.conn = s.conn /\ m.session = s.session
  BY DEF AckWire, Other
<1>5. Harmless(nt, next)
  BY <1>1, <1>3, <1>4 DEF Harmless, IsParcel, IsEnd
<1>6. Addressed(c, q, next)
  <2>1. Addressed(c, q, nt)
    BY DEF Told, Addressed, Eases
  <2>2. \A m \in next : m \in nt \/ /\ m.to = "client" /\ m.conn = c.conn
                                    /\ c.state # "DISCONNECTED" /\ m.session = q.session
    BY <1>3, <1>4 DEF Arrives, Eases
  <2> QED BY <2>1, <2>2 DEF Addressed, IsAck
<1>7. Sends(N, c, q, next)
  <2>1. \A m \in next : IsParcel(m) => m \in nt
    BY <1>5 DEF Harmless
  <2>2. \A x : Acked(x, c.conn, next) <=> Acked(x, c.conn, nt)
    BY <1>5, HarmlessAcks
  <2>3. \A m \in Wire("server", q) : Arrives(m, c) => m \in next
    BY <1>1, <1>2 DEF Told, Sends
  <2>4. s.conn = c.conn /\ c.state # "DISCONNECTED" =>
          /\ q.state = "ACKNOWLEDGING_CONNECT" /\ q.session = c.session => N = 0
          /\ q.state \in Running =>
               /\ q.sent = N
               /\ \A n \in 1..N : LET x == Numbered(c.conn, c.session, n)
                                  IN x \in q.unacked \/ Acked(x, c.conn, next)
    BY <2>2 DEF Told, Sends, Eases
  <2> QED BY <1>1, <2>1, <2>3, <2>4 DEF Told, Sends, Eases
<1>8. Serves(c, q) => Serves(c, s)
  BY DEF Serves, Eases
<1> QED BY <1>5, <1>6, <1>7, <1>8, ServerMoves

\* A session of its own begins.
LEMMA ServerStarts ==
  ASSUME NEW N \in Nat, NEW c, NEW s, NEW a, NEW ph, NEW nt, Told(N, c, s, a, ph, nt),
         NEW q, q.conn \in 0..c.conn, q.session = s.session + 1,
         q.state = "ACKNOWLEDGING_CONNECT", q.sent = 0,
         q.unacked = {Command("VERIFY_CONNECT")},
         NEW next, next = Arriving(nt, Wire("server", q), c)
  PROVE  Told(N, c, q, a, ph, next)
<1>1. /\ nt \subseteq next
      /\ \A m \in next : m \in nt \/ (m \in Wire("server", q) /\ Arrives(m, c))
  BY AllArrive DEF Told
<1>2. \A m \in Wire("server", q) :
        /\ m.to = "client" /\ m.name = "COMMAND" /\ m.command = Command("VERIFY_CONNECT")
        /\ m.conn = q.conn /\ m.session = q.session
  BY DEF Wire, Other
<1>3. Harmless(nt, next)
  BY <1>1, <1>2 DEF Harmless, IsParcel, IsEnd, Command
<1>4. Addressed(c, q, next)
  <2>1. Addressed(c, q, nt)
    BY DEF Told, Addressed, NoSession
  <2>2. \A m \in next : m \in nt \/ /\ m.to = "client" /\ m.conn = c.conn
                                    /\ c.state # "DISCONNECTED" /\ m.session = q.session
    BY <1>1, <1>2 DEF Arrives
  <2> QED BY <2>1, <2>2 DEF Addressed, IsAck
<1>5. ~Serves(c, q) /\ q.session # c.session
  BY DEF Told, Addressed, Serves
<1>6. Sends(N, c, q, next)
  <2>1. \A m \in next : IsParcel(m) => m \in nt
    BY <1>3 DEF Harmless
  <2>2. \A m \in Wire("server", q) : Arrives(m, c) => m \in next
    BY DEF Arriving
  <2> QED BY <1>1, <1>5, <2>1, <2>2 DEF Told, Sends, Running
<1> QED BY <1>3, <1>4, <1>5, <1>6, ServerMoves

\* The connection comes up: nothing has been sent on it.
LEMMA ServerComesUp ==
  ASSUME NEW N \in Nat, NEW c, NEW s, NEW a, NEW ph, NEW nt, Told(N, c, s, a, ph, nt),
         s.state = "ACKNOWLEDGING_CONNECT",
         NEW q, q.conn = s.conn, q.session = s.session, q.state = "CONNECTED", q.sent = s.sent,
         q.unacked \subseteq s.unacked, Agree(c, q),
         NEW next, next = Arriving(nt, Wire("server", q), c)
  PROVE  Told(N, c, q, a, ph, next)
<1>1. /\ nt \subseteq next
      /\ \A m \in next : m \in nt \/ (m \in Wire("server", q) /\ Arrives(m, c))
  BY AllArrive DEF Told
<1>2. Wire("server", q) \subseteq Wire("server", s)
  BY DEF Wire
<1>3. next = nt
  BY <1>1, <1>2 DEF Told, Sends
<1>4. Addressed(c, q, nt)
  BY DEF Told, Addressed
<1>5. s.conn = c.conn => s.session = c.session
  BY DEF Agree, Known
<1>6. Sends(N, c, q, nt)
  <2>1. \A m \in Wire("server", q) : Arrives(m, c) => m \in nt
    BY <1>2 DEF Told, Sends
  <2>2. s.conn = c.conn /\ c.state # "DISCONNECTED" => N = 0 /\ q.sent = 0
    BY <1>5 DEF Told, Sends
  <2>3. s.conn = c.conn /\ c.state # "DISCONNECTED" => 1..N = {}
    BY <2>2
  <2> QED BY <2>1, <2>2, <2>3 DEF Told, Sends
<1>7. Serves(c, q) => Serves(c, s)
  BY DEF Serves
<1>8. Harmless(nt, nt)
  BY DEF Harmless
<1> QED BY <1>3, <1>4, <1>6, <1>7, <1>8, ServerMoves

\* The server sends a packet.
LEMMA ServerSends ==
  ASSUME NEW N \in Nat, NEW c, NEW s, NEW a, NEW ph, NEW nt, Told(N, c, s, a, ph, nt),
         s.state = "CONNECTED", Agree(c, s), s.sent \in Nat, QueuesNumbered(c),
         NEW q, q.conn = s.conn, q.session = s.session, q.state = s.state, q.sent = s.sent + 1,
         q.unacked = s.unacked \cup {Numbered(s.conn, s.session, s.sent + 1)},
         NEW next, next = Arriving(nt, Wire("server", q), c)
  PROVE  \E M \in Nat : Told(M, c, q, a, ph, next)
<1>1. /\ nt \subseteq next
      /\ \A m \in next : m \in nt \/ (m \in Wire("server", q) /\ Arrives(m, c))
  BY AllArrive DEF Told
<1>2. PICK new : new = Parcel(s.conn, s.session, s.sent + 1)
  OBVIOUS
<1>3. Wire("server", q) = Wire("server", s) \cup {new}
  BY <1>2 DEF Wire, Other, Parcel
<1>4. new.to = "client" /\ new.conn = s.conn /\ new.session = s.session
      /\ new.name = "COMMAND" /\ new.command = Numbered(s.conn, s.session, s.sent + 1)
  BY <1>2 DEF Parcel
<1>5. /\ \A m \in next : m \in nt \/ (m = new /\ Arrives(new, c))
      /\ Arrives(new, c) => new \in next
  BY <1>1, <1>3 DEF Told, Sends, Arriving
<1>6. Addressed(c, q, next)
  <2>1. Addressed(c, q, nt)
    BY DEF Told, Addressed
  <2>2. Arrives(new, c) => new.conn = c.conn /\ c.state # "DISCONNECTED"
    BY <1>4 DEF Arrives
  <2> QED BY <1>4, <1>5, <2>1, <2>2 DEF Addressed, IsAck
<1>7. \A m \in next : IsAck(m, c.conn) => m \in nt
  BY <1>4, <1>5 DEF IsAck
<1>8. \A x : Acked(x, c.conn, next) <=> Acked(x, c.conn, nt)
  BY <1>1, <1>7 DEF Acked
<1>9. ~IsEnd(new)
  BY <1>4 DEF IsEnd, Numbered, Command
<1>10. (\E m \in next : IsEnd(m)) <=> (\E m \in nt : IsEnd(m))
  BY <1>1, <1>5, <1>9
<1>11. CASE s.conn = c.conn /\ c.state # "DISCONNECTED"
  <2>1. s.session = c.session /\ c.state # "CONNECTING" /\ Serves(c, s)
    BY <1>11 DEF Agree, Known, Serves, Running
  <2>2. ~ \E m \in nt : IsEnd(m)
    BY <2>1 DEF Told, Over
  <2>3. s.sent = N
    BY <1>11 DEF Told, Sends, Running
  <2>4. PICK M \in Nat : M = N + 1
    OBVIOUS
  <2>5. \A n \in 1..M : n \in 1..N \/ n = M
    BY <2>4
  <2>6. M \in 1..M /\ 1..N \subseteq 1..M
    BY <2>4
  <2>7. new = Parcel(c.conn, c.session, M) /\ new \in next
    BY <1>2, <1>4, <1>5, <1>11, <2>1, <2>3, <2>4 DEF Arrives
  <2>8. Sends(M, c, q, next)
    <3>1. \A m \in next : IsParcel(m) => \E n \in 1..M : m = Parcel(c.conn, c.session, n)
      BY <1>5, <2>6, <2>7 DEF Told, Sends
    <3>2. \A n \in 1..M : Parcel(c.conn, c.session, n) \in next
      BY <1>1, <2>5, <2>7 DEF Told, Sends
    <3>3. \A m \in Wire("server", q) : Arrives(m, c) => m \in next
      BY DEF Arriving
    <3>4. ASSUME NEW n \in 1..M, NEW x, x = Numbered(c.conn, c.session, n)
          PROVE  x \in q.unacked \/ Acked(x, c.conn, next)
      <4>1. CASE n \in 1..N
        <5>1. x \in s.unacked \/ Acked(x, c.conn, nt)
          BY <1>11, <3>4, <4>1 DEF Told, Sends, Running
        <5> QED BY <1>8, <5>1
      <4>2. CASE n = M
        BY <1>11, <2>1, <2>3, <2>4, <3>4, <4>2
      <4> QED BY <2>5, <4>1, <4>2
    <3>5. q.sent = M /\ q.state = "CONNECTED"
      BY <2>3, <2>4
    <3> QED BY <1>11, <2>1, <3>1, <3>2, <3>3, <3>4, <3>5 DEF Sends, Running
  <2>9. Over(M, c, q, next)
    BY <1>10, <2>2 DEF Over
  <2>10. Reads(M, c, a, ph, next)
    <3>1. c.state = "CONNECTED" =>
            /\ c.received <= M
            /\ \A x \in c.incoming : x.seq <= M /\ x.seq # c.received + 1
      <4> SUFFICES ASSUME c.state = "CONNECTED"
                   PROVE  /\ c.received <= M
                          /\ \A x \in c.incoming : x.seq <= M /\ x.seq # c.received + 1
        OBVIOUS
      <4>1. /\ c.received <= N
            /\ \A x \in c.incoming : x.seq <= N /\ x.seq # c.received + 1
        BY DEF Told, Reads
      <4>2. c.received \in Nat /\ \A x \in c.incoming : x.seq \in Nat
        BY PacketIs DEF QueuesNumbered, Early
      <4>3. c.received <= M
        BY <2>4, <4>1, <4>2
      <4>4. \A x \in c.incoming : x.seq <= M
        BY <2>4, <4>1, <4>2
      <4> QED BY <4>1, <4>3, <4>4
    <3> QED BY <1>7, <3>1 DEF Told, Reads
  <2>11. Leaves(M, c, a, next)
    BY <2>2 DEF Told, Leaves
  <2> QED BY <1>6, <2>8, <2>9, <2>10, <2>11 DEF Told
<1>12. CASE ~(s.conn = c.conn /\ c.state # "DISCONNECTED")
  <2>1. ~Arrives(new, c)
    BY <1>4, <1>12 DEF Arrives
  <2>2. next = nt
    BY <1>1, <1>5, <2>1
  <2>3. Harmless(nt, next)
    BY <2>2 DEF Harmless
  <2>4. Sends(N, c, q, next)
    <3>1. \A m \in Wire("server", q) : Arrives(m, c) => m \in next
      BY DEF Arriving
    <3> QED BY <1>12, <2>2, <3>1 DEF Told, Sends
  <2>5. Serves(c, q) => Serves(c, s)
    BY DEF Serves
  <2> QED BY <1>6, <2>3, <2>4, <2>5, ServerMoves
<1> QED BY <1>11, <1>12

\* The server ends the connection: all it has sent is acknowledged.
LEMMA ServerEnds ==
  ASSUME NEW N \in Nat, NEW c, NEW s, NEW a, NEW ph, NEW nt, Told(N, c, s, a, ph, nt),
         s.state \in Running, Agree(c, s),
         s.conn = c.conn => \A x \in s.unacked : Acked(x, c.conn, nt),
         NEW q, q.conn = s.conn, q.session = s.session, q.state = "DISCONNECTING",
         q.unacked = {Command("DISCONNECT")},
         NEW next, next = Arriving(nt, Wire("server", q), c)
  PROVE  Told(N, c, q, a, ph, next)
<1>1. /\ nt \subseteq next
      /\ \A m \in next : m \in nt \/ (m \in Wire("server", q) /\ Arrives(m, c))
  BY AllArrive DEF Told
<1>2. \A m \in Wire("server", q) :
        /\ m.to = "client" /\ m.name = "COMMAND" /\ m.command = Command("DISCONNECT")
        /\ m.conn = s.conn /\ m.session = s.session
  BY DEF Wire, Other
<1>3. \A m \in next : m \in nt \/ /\ m.to = "client" /\ m.conn = c.conn /\ ~IsParcel(m)
                                  /\ m.session = q.session
                                  /\ s.conn = c.conn /\ c.state # "DISCONNECTED"
  BY <1>1, <1>2 DEF Arrives, IsParcel, Command
<1>4. Addressed(c, q, next)
  <2>1. Addressed(c, q, nt)
    BY DEF Told, Addressed
  <2> QED BY <1>3, <2>1 DEF Addressed, IsAck
<1>5. \A m \in next : IsAck(m, c.conn) => m \in nt
  BY <1>3 DEF IsAck
<1>6. \A x : Acked(x, c.conn, next) <=> Acked(x, c.conn, nt)
  BY <1>1, <1>5 DEF Acked
<1>7. Sends(N, c, q, next)
  <2>1. \A m \in Wire("server", q) : Arrives(m, c) => m \in next
    BY DEF Arriving
  <2>2. q.state \notin Running \cup {"ACKNOWLEDGING_CONNECT"}
    BY DEF Running
  <2> QED BY <1>1, <1>3, <2>1, <2>2 DEF Told, Sends
<1>8. Over(N, c, q, next)
  <2> SUFFICES ASSUME \E m \in next : IsEnd(m)
               PROVE  /\ c.state # "CONNECTING" /\ ~Serves(c, q)
                      /\ \A n \in 1..N : Acked(Numbered(c.conn, c.session, n), c.conn, next)
    BY DEF Over
  <2>1. ~Serves(c, q)
    BY DEF Serves, Running
  <2>2. CASE \E m \in nt : IsEnd(m)
    BY <1>6, <2>1, <2>2 DEF Told, Over
  <2>3. CASE s.conn = c.conn /\ c.state # "DISCONNECTED"
    <3>1. c.state # "CONNECTING"
      BY <2>3 DEF Agree, Known, Running
    <3>2. \A n \in 1..N : LET x == Numbered(c.conn, c.session, n)
                          IN x \in s.unacked \/ Acked(x, c.conn, nt)
      BY <2>3 DEF Told, Sends
    <3> QED BY <1>6, <2>1, <2>3, <3>1, <3>2
  <2> QED BY <1>3, <2>2, <2>3
<1>9. Reads(N, c, a, ph, next)
  BY <1>5 DEF Told, Reads
<1>10. Leaves(N, c, a, next)
  BY <1>1 DEF Told, Leaves
<1> QED BY <1>4, <1>7, <1>8, <1>9, <1>10 DEF Told

-----------------------------------------------------------------------------
(***************************************************************************)
(* The client's steps.                                                     *)
(***************************************************************************)
\* The client's connection stays, up or down.
Steady(c, q) ==
  /\ q.conn = c.conn /\ q.session = c.session
  /\ q.state = "DISCONNECTED" <=> c.state = "DISCONNECTED"
  /\ q.state = "CONNECTING" => c.state = "CONNECTING"

LEMMA AllStay ==
  ASSUME NEW c, NEW s, NEW nt, Addressed(c, s, nt), NEW q, Steady(c, q),
         NEW sent, \A m \in sent : m.to = "server"
  PROVE  Arriving(nt, sent, q) = nt \cup sent
<1>1. \A m \in nt : Arrives(m, q)
  BY DEF Addressed, Arrives, Steady
<1>2. \A m \in sent : Arrives(m, q)
  BY DEF Arrives
<1> QED BY <1>1, <1>2 DEF Arriving

\* Only commands go out.
LEMMA ClientGoesOn ==
  ASSUME NEW N \in Nat, NEW c, NEW s, NEW a, NEW ph, NEW nt, Told(N, c, s, a, ph, nt),
         NEW q, Steady(c, q), NEW b, NEW at, Reads(N, q, b, at, nt), Leaves(N, q, b, nt),
         NEW next, next = Arriving(nt, Wire("client", q), q)
  PROVE  Told(N, q, s, b, at, next)
<1>1. \A m \in Wire("client", q) : m.to = "server" /\ m.name = "COMMAND" /\ m.conn = c.conn
  BY DEF Wire, Other, Steady
<1>2. next = nt \cup Wire("client", q)
  BY <1>1, AllStay DEF Told
<1>3. /\ \A m \in next : m \in nt \/ (m.to = "server" /\ m.name = "COMMAND" /\ m.conn = c.conn)
      /\ nt \subseteq next
  BY <1>1, <1>2
<1>4. \A m \in next : m.to = "client" => m \in nt
  BY <1>3
<1>5. \A m \in next : IsAck(m, c.conn) => m \in nt
  BY <1>3 DEF IsAck
<1>6. \A x : Acked(x, c.conn, next) <=> Acked(x, c.conn, nt)
  BY <1>3, <1>5 DEF Acked
<1>7. (\E m \in next : IsEnd(m)) <=> (\E m \in nt : IsEnd(m))
  BY <1>3, <1>4 DEF IsEnd
<1>8. Addressed(q, s, next)
  <2>1. c.conn \in 0..c.conn
    BY DEF Told, Addressed
  <2>2. \A m \in next : m.conn \in 0..c.conn
    BY <1>3, <2>1 DEF Told, Addressed
  <2> QED BY <1>4, <1>5, <2>2 DEF Told, Addressed, Steady
<1>9. Sends(N, q, s, next)
  <2>1. \A m \in next : IsParcel(m) => \E n \in 1..N : m = Parcel(q.conn, q.session, n)
    BY <1>4 DEF Told, Sends, IsParcel, Steady
  <2>2. \A n \in 1..N : Parcel(q.conn, q.session, n) \in next
    BY <1>3 DEF Told, Sends, Steady
  <2>3. \A m \in Wire("server", s) : Arrives(m, q) => m \in next
    BY <1>3 DEF Told, Sends, Arrives, Steady
  <2>4. s.conn = q.conn /\ q.state # "DISCONNECTED" =>
          /\ s.state = "ACKNOWLEDGING_CONNECT" /\ s.session = q.session => N = 0
          /\ s.state \in Running =>
               /\ s.sent = N
               /\ \A n \in 1..N : LET x == Numbered(q.conn, q.session, n)
                                  IN x \in s.unacked \/ Acked(x, q.conn, next)
    BY <1>6 DEF Told, Sends, Steady
  <2> QED BY <2>1, <2>2, <2>3, <2>4 DEF Told, Sends, Steady
<1>10. Over(N, q, s, next)
  BY <1>6, <1>7 DEF Told, Over, Serves, Steady
<1>11. Reads(N, q, b, at, next)
  BY <1>5 DEF Reads, Steady
<1>12. Leaves(N, q, b, next)
  BY <1>7 DEF Leaves
<1> QED BY <1>8, <1>9, <1>10, <1>11, <1>12 DEF Told

\* The client is gone, and nothing for it remains.
LEMMA ClientGoes ==
  ASSUME NEW N \in Nat, NEW c, NEW s, NEW a, NEW ph, NEW nt, Told(N, c, s, a, ph, nt),
         NEW q, q = Reset(c), NEW b, NEW at,
         NEW next, next = Arriving(nt, Wire("client", q), q)
  PROVE  Told(0, q, s, b, at, next)
<1>1. /\ q.state = "DISCONNECTED" /\ q.conn = c.conn /\ q.session = c.session
      /\ q.unacked = {} /\ q.acknowledgements = {}
  BY DEF Reset, NewPeer
<1>2. Wire("client", q) = {}
  BY <1>1 DEF Wire
<1>3. \A m \in next : m \in nt /\ m.to # "client"
  BY <1>1, <1>2 DEF Arriving, Arrives
<1>4. Addressed(q, s, next)
  BY <1>1, <1>3 DEF Told, Addressed
<1>5. Sends(0, q, s, next)
  <2>1. \A m \in Wire("server", s) : ~Arrives(m, q)
    BY <1>1 DEF Wire, Other, Arrives
  <2>2. 1..0 = {}
    OBVIOUS
  <2> QED BY <1>1, <1>3, <2>1, <2>2 DEF Told, Sends, IsParcel
<1>6. Over(0, q, s, next)
  BY <1>3 DEF Over, IsEnd
<1> QED BY <1>1, <1>4, <1>5, <1>6 DEF Told, Reads, Leaves

\* A new process, with an address of its own.
LEMMA ClientComes ==
  ASSUME NEW N \in Nat, NEW c, NEW s, NEW a, NEW ph, NEW nt, Told(N, c, s, a, ph, nt),
         c.state = "DISCONNECTED", NEW q, q.state = "CONNECTING", q.conn = c.conn + 1,
         q.session = NoSession, q.acknowledgements = {}, NEW b, NEW at,
         NEW next, next = Arriving(nt, Wire("client", q), q)
  PROVE  Told(0, q, s, b, at, next)
<1>1. \A m \in Wire("client", q) : m.to = "server" /\ m.name = "COMMAND" /\ m.conn = q.conn
  BY DEF Wire, Other
<1>2. \A m \in next : m \in nt \/ (m.to = "server" /\ m.name = "COMMAND" /\ m.conn = q.conn)
  BY <1>1 DEF Arriving
<1>3. \A m \in next : m.to # "client"
  BY <1>2 DEF Told, Addressed
<1>4. c.conn \in Nat /\ s.conn \in 0..c.conn /\ \A m \in nt : m.conn \in 0..c.conn
  BY DEF Told, Addressed
<1>5. q.conn \in Nat /\ s.conn \in 0..q.conn /\ s.conn # q.conn /\ q.conn \in 0..q.conn
  BY <1>4
<1>6. \A m \in nt : m.conn \in 0..q.conn /\ m.conn # q.conn
  BY <1>4
<1>7. Addressed(q, s, next)
  <2>1. \A m \in next : ~IsAck(m, q.conn)
    BY <1>2, <1>6 DEF IsAck
  <2>2. s.session \in Int /\ q.session \in Int /\ NoSession <= s.session /\ q.session <= s.session
    BY DEF Told, Addressed, NoSession
  <2> QED BY <1>2, <1>3, <1>5, <1>6, <2>1, <2>2 DEF Addressed
<1>8. Sends(0, q, s, next)
  <2>1. \A m \in Wire("server", s) : ~Arrives(m, q)
    BY <1>5 DEF Wire, Other, Arrives
  <2>2. 1..0 = {}
    OBVIOUS
  <2> QED BY <1>3, <1>5, <2>1, <2>2 DEF Told, Sends, IsParcel
<1>9. Over(0, q, s, next)
  BY <1>3 DEF Over, IsEnd
<1> QED BY <1>7, <1>8, <1>9 DEF Told, Reads, Leaves

\* The connection comes up at the client: nothing has been sent on it.
LEMMA ClientComesUp ==
  ASSUME NEW N \in Nat, NEW c, NEW s, NEW a, NEW ph, NEW nt, Told(N, c, s, a, ph, nt),
         c.state = "CONNECTING", Agree(c, s), s.state \in Known \cup Unknown,
         NEW m \in nt, m.to = "client",
         NEW q, q.state = "CONNECTED", q.conn = c.conn, q.session = m.session, q.unacked = {},
         q.received = 0, q.incoming = {},
         \A x \in q.acknowledgements : x.name = "VERIFY_CONNECT",
         NEW b, b.status = "open",
         NEW next, next = Arriving(nt, Wire("client", q), q)
  PROVE  Told(N, q, s, b, "dispatch", next)
<1>1. next = nt
  <2>1. Wire("client", q) = {}
    BY DEF Wire
  <2>2. \A k \in nt : Arrives(k, q)
    BY DEF Told, Addressed, Arrives
  <2> QED BY <2>1, <2>2 DEF Arriving
<1>2. \A k \in nt : ~IsAck(k, c.conn)
  BY DEF Told, Addressed
<1>3. N = 0 /\ 1..N = {} /\ \A k \in nt : ~IsParcel(k) /\ ~IsEnd(k)
  <2>1. N = 0
    BY DEF Told, Sends
  <2>2. 1..N = {}
    BY <2>1
  <2> QED BY <2>1, <2>2 DEF Told, Sends, Over
<1>4. Addressed(q, s, nt)
  BY DEF Told, Addressed
<1>5. Sends(N, q, s, nt)
  <2>1. s.conn = q.conn => s.state \notin Running
    BY DEF Agree, Known, Running
  <2>2. \A k \in Wire("server", s) : Arrives(k, q) => k \in nt
    BY DEF Told, Sends, Arrives
  <2> QED BY <1>3, <2>1, <2>2 DEF Told, Sends
<1>6. Over(N, q, s, nt)
  BY <1>3 DEF Over
<1>7. Reads(N, q, b, "dispatch", nt)
  BY <1>2, <1>3 DEF Reads, Had
<1>8. Leaves(N, q, b, nt)
  BY DEF Leaves
<1> QED BY <1>1, <1>4, <1>5, <1>6, <1>7, <1>8 DEF Told

\* The application has got what was moved on, once none waits for it.
LEMMA GotAll ==
  ASSUME NEW c, NEW a, GotNumbered(c, a), QueuesNumbered(c), a.status = "open",
         c.state = "CONNECTED"
  PROVE  /\ Len(a.got) \in Nat /\ c.received \in Nat /\ Len(a.got) <= c.received
         /\ c.dispatched = << >> => Len(a.got) = c.received
<1>1. PICK g : g = Len(a.got)
  OBVIOUS
<1>2. PICK r : r = c.received
  OBVIOUS
<1>3. /\ g \in Nat /\ r \in Nat /\ g <= r
      /\ c.dispatched = Numbers(c.conn, c.session, g, r - g)
  BY <1>1, <1>2 DEF GotNumbered, QueuesNumbered
<1>4. PICK k \in Nat : k = r - g
  BY <1>3
<1>5. Counts(Numbers(c.conn, c.session, g, k), c.conn, c.session, g, k)
  BY <1>3, NumbersAre
<1>6. Len(c.dispatched) = k
  BY <1>3, <1>4, <1>5 DEF Counts
<1>7. c.dispatched = << >> => k = 0
  BY <1>6
<1>8. c.dispatched = << >> => g = r
  BY <1>3, <1>4, <1>7
<1> QED BY <1>1, <1>2, <1>3, <1>8

\* The acknowledgements go out, and with that of a DISCONNECT the connection is
\* over.  The client receives when no packet waits for its application.
LEMMA ClientFlushes ==
  ASSUME NEW N \in Nat, NEW c, NEW s, NEW a, NEW ph, NEW nt, Told(N, c, s, a, ph, nt),
         SoundPeer(c), EndNumbered(c, a), c.acknowledgements # {} => c.state # "CONNECTING",
         NEW q, q.conn = c.conn, q.session = c.session, q.acknowledgements = {},
         q.received = c.received, q.incoming = c.incoming,
         q.state = IF Command("DISCONNECT") \in c.acknowledgements THEN "ZOMBIE" ELSE c.state,
         NEW at, at = "receive" /\ a.status = "open" /\ c.state = "CONNECTED" =>
                   c.dispatched = << >>,
         NEW next, next = Arriving(nt, AckWire("client", c), q)
  PROVE  Told(N, q, s, a, at, next)
<1>1. PICK sent : sent = AckWire("client", c)
  OBVIOUS
<1>2. \A m \in sent : /\ m.to = "server" /\ m.name = "ACKNOWLEDGE" /\ m.conn = c.conn
                      /\ m.command \in c.acknowledgements
  BY <1>1 DEF AckWire, Other
<1>3. \/ q.state = c.state /\ Command("DISCONNECT") \notin c.acknowledgements
      \/ q.state = "ZOMBIE" /\ c.state = "ACKNOWLEDGING_DISCONNECT"
  <2>1. Command("DISCONNECT").name = "DISCONNECT"
    BY DEF Command
  <2> QED BY <2>1 DEF Told, Leaves
<1>4. Steady(c, q)
  BY <1>3 DEF Steady
<1>5. next = nt \cup sent
  BY <1>1, <1>2, <1>4, AllStay DEF Told
<1>6. /\ \A m \in next : m.to = "client" => m \in nt
      /\ \A m \in next : IsAck(m, c.conn) => m \in nt \/ m.command \in c.acknowledgements
      /\ nt \subseteq next
  BY <1>2, <1>5
<1>7. \A x : Acked(x, c.conn, nt) => Acked(x, c.conn, next)
  BY <1>6 DEF Acked
<1>8. (\E m \in next : IsEnd(m)) <=> (\E m \in nt : IsEnd(m))
  BY <1>6 DEF IsEnd
<1>9. Addressed(q, s, next)
  <2>1. c.conn \in 0..c.conn
    BY DEF Told, Addressed
  <2>2. \A m \in next : m.conn \in 0..c.conn
    BY <1>2, <1>5, <2>1 DEF Told, Addressed
  <2>3. c.state = "CONNECTING" => next = nt
    BY <1>1, <1>5 DEF AckWire
  <2> QED BY <1>4, <1>6, <2>2, <2>3 DEF Told, Addressed, Steady
<1>10. Sends(N, q, s, next)
  <2>1. \A m \in next : IsParcel(m) => \E n \in 1..N : m = Parcel(q.conn, q.session, n)
    BY <1>6 DEF Told, Sends, IsParcel
  <2>2. \A n \in 1..N : Parcel(q.conn, q.session, n) \in next
    BY <1>6 DEF Told, Sends
  <2>3. \A m \in Wire("server", s) : Arrives(m, q) => m \in next
    BY <1>4, <1>6 DEF Told, Sends, Arrives, Steady
  <2>4. s.conn = q.conn /\ q.state # "DISCONNECTED" =>
          /\ s.state = "ACKNOWLEDGING_CONNECT" /\ s.session = q.session => N = 0
          /\ s.state \in Running =>
               /\ s.sent = N
               /\ \A n \in 1..N : LET x == Numbered(q.conn, q.session, n)
                                  IN x \in s.unacked \/ Acked(x, q.conn, next)
    BY <1>4, <1>7 DEF Told, Sends, Steady
  <2> QED BY <1>4, <2>1, <2>2, <2>3, <2>4 DEF Told, Sends, Steady
<1>11. Over(N, q, s, next)
  BY <1>4, <1>7, <1>8 DEF Told, Over, Serves, Steady
<1>12. Reads(N, q, a, at, next)
  <2> SUFFICES ASSUME q.state = "CONNECTED" PROVE Reads(N, q, a, at, next)
    BY DEF Reads
  <2>1. c.state = "CONNECTED"
    BY <1>3
  <2>2. /\ a.status = "open" /\ c.received <= N
        /\ \A x \in c.incoming : x.seq <= N /\ x.seq # c.received + 1
        /\ \A x \in c.acknowledgements : Had(c, x)
        /\ \A m \in nt : IsAck(m, c.conn) => Had(c, m.command)
    BY <2>1 DEF Told, Reads
  <2>3. \A m \in next : IsAck(m, q.conn) => Had(q, m.command)
    BY <1>6, <2>2 DEF Had
  <2>4. ASSUME at = "receive", NEW m \in next, IsAck(m, q.conn), m.command.name = "SEND_RELIABLE"
        PROVE  m.command.seq # Len(a.got) + 1
    <3>1. c.received \in Nat /\ Len(a.got) = c.received
      BY <2>1, <2>2, <2>4, GotAll DEF EndNumbered
    <3>2. m.command.seq \in 1..c.received \/ m.command \in c.incoming
      BY <2>3, <2>4 DEF Had
    <3>3. CASE m.command \in c.incoming
      BY <2>2, <3>1, <3>3
    <3>4. CASE m.command.seq \in 1..c.received
      BY <3>1, <3>4
    <3> QED BY <3>2, <3>3, <3>4
  <2> QED BY <2>2, <2>3, <2>4 DEF Reads
<1>13. Leaves(N, q, a, next)
  BY <1>3, <1>8 DEF Told, Leaves
<1> QED BY <1>9, <1>10, <1>11, <1>12, <1>13 DEF Told

\* The client is told of the end: its application has got all the packets.
LEMMA ClientEnds ==
  ASSUME NEW N \in Nat, NEW c, NEW s, NEW a, NEW nt, Told(N, c, s, a, "receive", nt),
         EndNumbered(c, a), c.state = "CONNECTED", NEW m \in nt, IsEnd(m)
  PROVE  Len(a.got) = N
<1>1. /\ a.status = "open" /\ c.received <= N
      /\ \A k \in nt : IsAck(k, c.conn) /\ k.command.name = "SEND_RELIABLE" =>
           k.command.seq # Len(a.got) + 1
  BY DEF Told, Reads
<1>2. PICK g : g = Len(a.got)
  OBVIOUS
<1>3. g \in Nat /\ c.received \in Nat /\ g <= c.received
  BY <1>1, <1>2, GotAll DEF EndNumbered
<1>4. g <= N
  BY <1>1, <1>3
<1>5. CASE g # N
  <2>1. g + 1 \in 1..N
    BY <1>3, <1>4, <1>5
  <2>2. Acked(Numbered(c.conn, c.session, g + 1), c.conn, nt)
    BY <2>1 DEF Told, Over
  <2>3. PICK k \in nt : IsAck(k, c.conn) /\ k.command = Numbered(c.conn, c.session, g + 1)
    BY <2>2 DEF Acked
  <2>4. k.command.name = "SEND_RELIABLE" /\ k.command.seq = g + 1
    BY <2>3 DEF Numbered
  <2> QED BY <1>1, <1>2, <2>3, <2>4
<1> QED BY <1>2, <1>5

\* A packet comes that the client waits for, and it moves on what it can.
LEMMA ClientReads ==
  ASSUME NEW N \in Nat, NEW c, NEW s, NEW a, NEW nt, Told(N, c, s, a, "receive", nt),
         QueuesNumbered(c), c.state = "CONNECTED",
         NEW x, IsPacket(x, c.conn, c.session), x.seq <= N, x.seq > c.received,
         NEW incoming, incoming = c.incoming \cup {x},
         NEW run, run = RunOf(incoming, c.received),
         NEW q, q.state = c.state, q.conn = c.conn,
         q.received = c.received + Cardinality(run),
         q.incoming = incoming \ run, q.acknowledgements = c.acknowledgements \cup {x}
  PROVE  Reads(N, q, a, "receive", nt)
<1>1. /\ a.status = "open" /\ c.received <= N
      /\ \A y \in c.incoming : y.seq <= N /\ y.seq # c.received + 1
      /\ \A y \in c.acknowledgements : Had(c, y)
      /\ \A m \in nt : IsAck(m, c.conn) => Had(c, m.command)
      /\ \A m \in nt : IsAck(m, c.conn) /\ m.command.name = "SEND_RELIABLE" =>
           m.command.seq # Len(a.got) + 1
  BY DEF Told, Reads
<1>2. PICK r \in Nat : r = c.received
  BY DEF QueuesNumbered
<1>3. Early(incoming, c.conn, c.session, r)
  <2>1. IsFiniteSet(incoming)
    BY FS_AddElement DEF QueuesNumbered, Early
  <2> QED BY <1>2, <2>1 DEF QueuesNumbered, Early
<1>4. PICK count : count = Cardinality(run)
  OBVIOUS
<1>5. /\ run \subseteq incoming /\ count \in Nat
      /\ \A n \in r + 1 .. r + count : \E y \in run : y.seq = n
      /\ \A y \in run : y.seq <= r + count
  <2>1. NextRun(run, incoming, r, count)
    BY <1>2, <1>3, <1>4, RunIsNext
  <2> QED BY <2>1 DEF NextRun
<1>6. PICK now \in Nat : now = r + count
  BY <1>5
<1>7. \A y \in incoming : y.seq \in Nat /\ y.seq > r /\ y.seq <= N
  BY <1>1, <1>3, PacketIs DEF Early
<1>8. q.received = now
  BY <1>2, <1>4, <1>6
<1>9. now <= N
  <2>1. CASE count = 0
    BY <1>1, <1>2, <1>6, <2>1
  <2>2. CASE count # 0
    <3>1. now \in r + 1 .. r + count
      BY <1>5, <1>6, <2>2
    <3>2. PICK y \in run : y.seq = now
      BY <1>5, <3>1
    <3> QED BY <1>5, <1>7, <3>2
  <2> QED BY <2>1, <2>2
<1>10. ASSUME NEW y \in incoming \ run
       PROVE  y.seq <= N /\ y.seq # now + 1
  <2>1. CASE y.seq = now + 1
    <3>1. ASSUME NEW n \in r + 1 .. y.seq
          PROVE  \E d \in incoming : d.seq = n
      <4>1. n \in r + 1 .. r + count \/ n = y.seq
        BY <1>5, <1>6, <2>1
      <4> QED BY <1>5, <4>1
    <3>2. y \in run
      BY <1>2, <3>1 DEF RunOf
    <3> QED BY <3>2
  <2> QED BY <1>7, <2>1
<1>11. ASSUME NEW y \in incoming, y \notin q.incoming
      PROVE  y.seq \in 1..now
  <2>1. y \in run
    BY <1>11
  <2>2. y.seq <= r + count
    BY <1>5, <2>1
  <2> QED BY <1>2, <1>5, <1>6, <1>7, <2>2
<1>12. ASSUME NEW y, Had(c, y)
       PROVE  Had(q, y)
  <2>1. ASSUME y \in c.incoming, y \notin q.incoming
        PROVE  y.seq \in 1..now
    BY <1>11, <2>1
  <2>2. y.seq \in 1..r => y.seq \in 1..now
    BY <1>5, <1>6
  <2> QED BY <1>2, <1>8, <1>12, <2>1, <2>2 DEF Had
<1>13. Had(q, x)
  <2>1. x \in q.incoming \/ x.seq \in 1..now
    BY <1>11
  <2> QED BY <1>8, <2>1 DEF Had
<1> QED BY <1>1, <1>8, <1>9, <1>10, <1>12, <1>13 DEF Reads

-----------------------------------------------------------------------------
\* What the proofs above say of every reachable state.
Sound == IInv /\ StampInv /\ OrderInv /\ Handshake /\ ToldInv

LEMMA AgreeWhenSound ==
  ASSUME Handshake
  PROVE  Agree(peer["client"], peer["server"])
BY DEF Handshake, ServerSound, Confirmed, Agree

LEMMA SoundEnds ==
  ASSUME Sound
  PROVE  /\ Ends = {"client", "server"} /\ DOMAIN peer = Ends
         /\ \A e \in Ends : SoundPeer(peer[e]) /\ EndNumbered(peer[e], app[e])
         /\ peer["server"].state \in Known \cup Unknown
BY DEF Sound, IInv, Shape, ServerKnows, OrderInv, Ends

-----------------------------------------------------------------------------
(***************************************************************************)
(* The server's actions.                                                   *)
(***************************************************************************)
\* The client's application and its host go on as they were.
Apart ==
  /\ app'["client"] = app["client"]
  /\ DOMAIN phase' = Ends /\ phase'["client"] = phase["client"]

LEMMA ServerPhase ==
  ASSUME ToldInv, NEW v, phase' = phase \/ phase' = [phase EXCEPT !["server"] = v]
  PROVE  DOMAIN phase' = Ends /\ phase'["client"] = phase["client"]
BY DEF ToldInv, Ends

LEMMA ServerApart ==
  ASSUME Sound, NEW v, phase' = phase \/ phase' = [phase EXCEPT !["server"] = v],
         Quietly \/ \E type : Tell("server", type)
  PROVE  Apart
<1>1. DOMAIN phase' = Ends /\ phase'["client"] = phase["client"]
  BY ServerPhase DEF Sound
<1>2. app'["client"] = app["client"]
  <2>1. "server" \in Ends /\ "client" \in Ends \ {"server"} /\ Shape
    BY DEF Ends, Sound, IInv
  <2>2. CASE Quietly
    BY <2>2, QuietSets
  <2>3. ASSUME NEW type, Tell("server", type)
        PROVE  app'["client"] = app["client"]
    BY <2>1, <2>3, TellSets
  <2> QED BY <2>2, <2>3
<1> QED BY <1>1, <1>2 DEF Apart

LEMMA ServerActs ==
  ASSUME Sound, NEW q, MovesTo("server", q), NEW sent, Transmit(sent), Apart,
         NEW N \in Nat,
         Told(N, peer["client"], q, app["client"], phase["client"],
              Arriving(net, sent, peer["client"]))
  PROVE  ToldInv'
<1>1. peer'["server"] = q /\ peer'["client"] = peer["client"]
  BY MoveSets DEF Sound, IInv, Ends
<1>2. net' = Arriving(net, sent, peer["client"])
  BY <1>1 DEF Transmit, Arriving
<1>3. Told(N, peer'["client"], peer'["server"], app'["client"], phase'["client"], net')
  BY <1>1, <1>2 DEF Apart
<1>4. DOMAIN phase' = Ends
  BY DEF Apart
<1> QED BY <1>3, <1>4 DEF ToldInv

LEMMA ServerActsEasily ==
  ASSUME Sound, NEW q, MovesTo("server", q), Eases(peer["server"], q), Apart,
         q.state \in Running /\ peer["server"].conn = peer["client"].conn =>
           \A x \in peer["server"].unacked : x \in q.unacked \/ Acked(x, peer["client"].conn, net),
         NEW sent, Transmit(sent),
         \A m \in sent : m \in Wire("server", q) \/ m \in AckWire("server", peer["server"])
  PROVE  ToldInv'
<1>1. PICK N \in Nat : Told(N, peer["client"], peer["server"], app["client"], phase["client"], net)
  BY DEF Sound, ToldInv
<1>2. Told(N, peer["client"], q, app["client"], phase["client"],
           Arriving(net, sent, peer["client"]))
  BY <1>1, ServerEases
<1> QED BY <1>1, <1>2, ServerActs

\* Nothing but acknowledgements and what was received changes.
LEMMA ServerKeeps ==
  ASSUME Sound, NEW q, Become("server", q), Apart,
         LET p == peer["server"]
         IN q.conn = p.conn /\ q.session = p.session /\ q.state = p.state
            /\ q.sent = p.sent /\ q.unacked = p.unacked
  PROVE  ToldInv'
<1>1. Eases(peer["server"], q)
  BY DEF Eases
<1> QED BY <1>1, ServerActsEasily DEF Become, MovesTo

\* The server's peer goes down.
LEMMA ServerGoesDown ==
  ASSUME Sound, NEW q, Become("server", q), Apart,
         q.conn = peer["server"].conn, q.session = peer["server"].session,
         q.unacked \subseteq peer["server"].unacked,
         q.state \notin Running \cup {"ACKNOWLEDGING_CONNECT"}
  PROVE  ToldInv'
<1>1. Eases(peer["server"], q)
  BY DEF Eases, Running
<1> QED BY <1>1, ServerActsEasily DEF Become, MovesTo

LEMMA ResetGoesDown ==
  ASSUME NEW p
  PROVE  /\ Reset(p).conn = p.conn /\ Reset(p).session = p.session /\ Reset(p).unacked = {}
         /\ Reset(p).state = "DISCONNECTED" /\ Reset(p).acknowledgements = {}
BY DEF Reset, NewPeer

LEMMA ServerResets ==
  ASSUME Sound, Become("server", Reset(peer["server"])), Apart
  PROVE  ToldInv'
<1>1. PICK q : q = Reset(peer["server"])
  OBVIOUS
<1>2. /\ q.conn = peer["server"].conn /\ q.session = peer["server"].session /\ q.unacked = {}
      /\ q.state = "DISCONNECTED"
  BY <1>1, ResetGoesDown
<1> QED BY <1>1, <1>2, ServerGoesDown DEF Running

\* What Acknowledging changes.
Acknowledged(p, q, x) ==
  /\ \A f \in {"conn", "session", "state", "sent", "unacked", "received", "incoming"} :
       f \in DOMAIN q /\ q[f] = p[f]
  /\ q.acknowledgements = p.acknowledgements
     \/ /\ q.acknowledgements = p.acknowledgements \cup {x}
        /\ \/ p.state \in {"CONNECTED", "DISCONNECT_LATER"}
           \/ p.state = "ACKNOWLEDGING_DISCONNECT" /\ x.name = "DISCONNECT"

LEMMA AcknowledgingIs ==
  ASSUME NEW p, WholePeer(p), NEW x
  PROVE  Acknowledged(p, Acknowledging(p, x), x)
<1>1. PICK q : q = [p EXCEPT !.acknowledgements = @ \cup {x}]
  OBVIOUS
<1>2. /\ \A f \in {"conn", "session", "state", "sent", "unacked", "received", "incoming"} :
           f \in DOMAIN q /\ q[f] = p[f]
      /\ q.acknowledgements = p.acknowledgements \cup {x}
  BY <1>1 DEF WholePeer
<1>3. \A f \in {"conn", "session", "state", "sent", "unacked", "received", "incoming"} :
        f \in DOMAIN p
  BY DEF WholePeer
<1> QED BY <1>1, <1>2, <1>3 DEF Acknowledging, Acknowledged

LEMMA ServerAcknowledges ==
  ASSUME Sound, NEW x, Become("server", Acknowledging(peer["server"], x)), Apart
  PROVE  ToldInv'
<1>1. PICK q : q = Acknowledging(peer["server"], x)
  OBVIOUS
<1>2. Acknowledged(peer["server"], q, x)
  BY <1>1, SoundEnds, AcknowledgingIs DEF EndNumbered
<1> QED BY <1>1, <1>2, ServerKeeps DEF Acknowledged

LEMMA ConnectTold ==
  ASSUME Sound, NEW m \in net, HandleConnect("server", m)
  PROVE  ToldInv'
<1>1. PICK q : q = NewPeer("ACKNOWLEDGING_CONNECT", m.conn, peer["server"].session + 1,
                           {Command("VERIFY_CONNECT")})
  OBVIOUS
<1>2. /\ q.state = "ACKNOWLEDGING_CONNECT" /\ q.conn = m.conn
      /\ q.session = peer["server"].session + 1 /\ q.sent = 0
      /\ q.unacked = {Command("VERIFY_CONNECT")}
  BY <1>1 DEF NewPeer
<1>3. Become("server", q) /\ Apart
  BY <1>1, ServerApart DEF HandleConnect
<1>4. PICK N \in Nat : Told(N, peer["client"], peer["server"], app["client"], phase["client"], net)
  BY DEF Sound, ToldInv
<1>5. q.conn \in 0..peer["client"].conn
  BY <1>2, <1>4 DEF Told, Addressed
<1>6. Told(N, peer["client"], q, app["client"], phase["client"],
           Arriving(net, Wire("server", q), peer["client"]))
  BY <1>2, <1>4, <1>5, ServerStarts
<1> QED BY <1>3, <1>4, <1>6, ServerActs DEF Become, MovesTo

LEMMA ServerDisconnectTold ==
  ASSUME Sound, NEW m \in net, HandleDisconnect("server", m)
  PROVE  ToldInv'
<1>1. Apart
  BY ServerApart DEF HandleDisconnect
<1>2. PICK p : p = peer["server"]
  OBVIOUS
<1>3. WholePeer(p)
  BY <1>2, SoundEnds DEF EndNumbered
<1>4. PICK clear : clear = ResetQueues(p)
  OBVIOUS
<1>5. WholePeer(clear) /\ clear.conn = p.conn /\ clear.session = p.session /\ clear.unacked = {}
  BY <1>3, <1>4 DEF ResetQueues, WholePeer
<1>6. CASE p.state \in {"DISCONNECTING", "CONNECTING"}
  <2>1. PICK q : q = [clear EXCEPT !.state = "ZOMBIE"]
    OBVIOUS
  <2>2. Become("server", q)
    BY <1>2, <1>4, <1>6, <2>1 DEF HandleDisconnect
  <2>3. q.conn = p.conn /\ q.session = p.session /\ q.unacked = {} /\ q.state = "ZOMBIE"
    BY <1>5, <2>1 DEF WholePeer
  <2> QED BY <1>1, <1>2, <2>2, <2>3, ServerGoesDown DEF Running
<1>7. CASE p.state = "ACKNOWLEDGING_CONNECT"
  <2>1. PICK q : q = Reset(clear)
    OBVIOUS
  <2>2. Become("server", q)
    BY <1>2, <1>4, <1>7, <2>1 DEF HandleDisconnect
  <2>3. q.conn = p.conn /\ q.session = p.session /\ q.unacked = {} /\ q.state = "DISCONNECTED"
    BY <1>5, <2>1, ResetGoesDown
  <2> QED BY <1>1, <1>2, <2>2, <2>3, ServerGoesDown DEF Running
<1>8. CASE p.state \in {"CONNECTED", "DISCONNECT_LATER"}
  <2>1. PICK r : r = [clear EXCEPT !.state = "ACKNOWLEDGING_DISCONNECT"]
    OBVIOUS
  <2>2. PICK q : q = Acknowledging(r, m.command)
    OBVIOUS
  <2>3. Become("server", q)
    BY <1>2, <1>4, <1>8, <2>1, <2>2 DEF HandleDisconnect
  <2>4. /\ WholePeer(r) /\ r.conn = p.conn /\ r.session = p.session /\ r.unacked = {}
        /\ r.state = "ACKNOWLEDGING_DISCONNECT"
    BY <1>5, <2>1 DEF WholePeer
  <2>5. Acknowledged(r, q, m.command)
    BY <2>2, <2>4, AcknowledgingIs
  <2>6. /\ q.conn = p.conn /\ q.session = p.session /\ q.unacked = {}
        /\ q.state = "ACKNOWLEDGING_DISCONNECT"
    BY <2>4, <2>5 DEF Acknowledged
  <2> QED BY <1>1, <1>2, <2>3, <2>6, ServerGoesDown DEF Running
<1>9. CASE p.state \notin {"DISCONNECTING", "CONNECTING", "ACKNOWLEDGING_CONNECT",
                           "CONNECTED", "DISCONNECT_LATER"}
  <2>1. Become("server", Acknowledging(peer["server"], m.command))
    BY <1>2, <1>9 DEF HandleDisconnect
  <2> QED BY <1>1, <2>1, ServerAcknowledges
<1> QED BY <1>6, <1>7, <1>8, <1>9

LEMMA ServerSendReliableTold ==
  ASSUME Sound, NEW m \in net, HandleSendReliable("server", m)
  PROVE  ToldInv'
<1>1. Apart
  BY ServerApart DEF HandleSendReliable
<1>2. PICK p : p = peer["server"]
  OBVIOUS
<1>3. WholePeer(p)
  BY <1>2, SoundEnds DEF EndNumbered
<1>4. PICK i : i = [p EXCEPT !.incoming = @ \cup {m.command}]
  OBVIOUS
<1>5. PICK r \in {p, DispatchReliable(i)} : Become("server", Acknowledging(r, m.command))
  BY <1>2, <1>4 DEF HandleSendReliable
<1>6. WholePeer(i) /\ i.conn = p.conn /\ i.session = p.session /\ i.state = p.state
      /\ i.sent = p.sent /\ i.unacked = p.unacked
  BY <1>3, <1>4 DEF WholePeer
<1>7. WholePeer(r) /\ r.conn = p.conn /\ r.session = p.session /\ r.state = p.state
      /\ r.sent = p.sent /\ r.unacked = p.unacked
  BY <1>3, <1>5, <1>6 DEF WholePeer, DispatchReliable
<1>8. PICK q : q = Acknowledging(r, m.command)
  OBVIOUS
<1>9. Acknowledged(r, q, m.command)
  BY <1>7, <1>8, AcknowledgingIs
<1>10. /\ q.conn = p.conn /\ q.session = p.session /\ q.state = p.state
       /\ q.sent = p.sent /\ q.unacked = p.unacked
  BY <1>7, <1>9 DEF Acknowledged
<1> QED BY <1>1, <1>2, <1>5, <1>8, <1>10, ServerKeeps

\* All that was sent on the connection is acknowledged: the server disconnects.
LEMMA ServerDisconnects ==
  ASSUME Sound, Become("server", Disconnecting(peer["server"])), Apart,
         peer["server"].state \in Running,
         peer["server"].conn = peer["client"].conn =>
           \A x \in peer["server"].unacked : Acked(x, peer["client"].conn, net)
  PROVE  ToldInv'
<1>1. PICK q : q = Disconnecting(peer["server"])
  OBVIOUS
<1>2. WholePeer(peer["server"])
  BY SoundEnds DEF EndNumbered
<1>3. /\ q.conn = peer["server"].conn /\ q.session = peer["server"].session
      /\ q.state = "DISCONNECTING" /\ q.unacked = {Command("DISCONNECT")}
  BY <1>1, <1>2 DEF Disconnecting, ResetQueues, WholePeer
<1>4. PICK N \in Nat : Told(N, peer["client"], peer["server"], app["client"], phase["client"], net)
  BY DEF Sound, ToldInv
<1>5. Agree(peer["client"], peer["server"])
  BY AgreeWhenSound DEF Sound
<1>6. Told(N, peer["client"], q, app["client"], phase["client"],
           Arriving(net, Wire("server", q), peer["client"]))
  BY <1>3, <1>4, <1>5, ServerEnds
<1> QED BY <1>1, <1>4, <1>6, ServerActs DEF Become, MovesTo

LEMMA ServerAcknowledgeTold ==
  ASSUME Sound, Handshake', NEW m \in net, Accepts("server", m), m.name = "ACKNOWLEDGE",
         HandleAcknowledge("server", m)
  PROVE  ToldInv'
<1>1. PICK s : s = peer["server"]
  OBVIOUS
<1>2. WholePeer(s) /\ s.state \in Known \cup Unknown
  BY <1>1, SoundEnds DEF EndNumbered
<1>3. PICK p : p = [s EXCEPT !.unacked = @ \ {m.command}]
  OBVIOUS
<1>4. /\ WholePeer(p) /\ p.conn = s.conn /\ p.session = s.session /\ p.state = s.state
      /\ p.sent = s.sent /\ p.unacked = s.unacked \ {m.command}
  BY <1>2, <1>3 DEF WholePeer
<1>5. CASE p.state = "ACKNOWLEDGING_CONNECT"
  <2>1. PICK q : q = [p EXCEPT !.state = "CONNECTED"]
    OBVIOUS
  <2>2. /\ Become("server", q) /\ Tell("server", "CONNECT")
        /\ phase' = [phase EXCEPT !["server"] = "dispatch"]
    BY <1>1, <1>3, <1>5, <2>1 DEF HandleAcknowledge
  <2>3. Apart
    BY <2>2, ServerApart
  <2>4. /\ q.conn = s.conn /\ q.session = s.session /\ q.state = "CONNECTED"
        /\ q.sent = s.sent /\ q.unacked \subseteq s.unacked
    BY <1>4, <2>1 DEF WholePeer
  <2>5. peer'["server"] = q /\ peer'["client"] = peer["client"]
    BY <2>2, MoveSets DEF Sound, IInv, Ends, Become, MovesTo
  <2>6. Agree(peer["client"], q)
    BY <2>5 DEF Handshake, ServerSound, Confirmed, Agree
  <2>7. PICK N \in Nat :
          Told(N, peer["client"], peer["server"], app["client"], phase["client"], net)
    BY DEF Sound, ToldInv
  <2>8. Told(N, peer["client"], q, app["client"], phase["client"],
             Arriving(net, Wire("server", q), peer["client"]))
    BY <1>1, <1>4, <1>5, <2>4, <2>6, <2>7, ServerComesUp
  <2> QED BY <2>2, <2>3, <2>7, <2>8, ServerActs DEF Become, MovesTo
<1>6. CASE p.state = "DISCONNECTING"
  <2>1. NotifyDisconnect("server", "DISCONNECT") /\ phase' = [phase EXCEPT !["server"] = "dispatch"]
    BY <1>1, <1>3, <1>6 DEF HandleAcknowledge
  <2>2. app["server"].status # "closing"
    BY DEF Sound, IInv, ServerKnows
  <2>3. Become("server", Reset(peer["server"])) /\ Tell("server", "DISCONNECT")
    BY <2>1, <2>2 DEF NotifyDisconnect
  <2> QED BY <2>1, <2>3, ServerApart, ServerResets
<1>7. CASE p.state \in {"CONNECTED", "DISCONNECT_LATER", "ACKNOWLEDGING_DISCONNECT"}
  <2>1. Quietly /\ phase' = phase
    BY <1>1, <1>3, <1>7 DEF HandleAcknowledge
  <2>2. Apart
    BY <2>1, ServerApart
  <2>3. s.conn = peer["client"].conn => Acked(m.command, peer["client"].conn, net)
    BY <1>1, <1>4, <1>7 DEF Accepts, Acked, IsAck
  <2>4. CASE Become("server", p)
    <3>1. Eases(s, p)
      BY <1>4, <1>7 DEF Eases
    <3>2. s.conn = peer["client"].conn =>
            \A x \in s.unacked : x \in p.unacked \/ Acked(x, peer["client"].conn, net)
      BY <1>4, <2>3
    <3> QED BY <1>1, <2>2, <2>4, <3>1, <3>2, ServerActsEasily DEF Become, MovesTo
  <2>5. CASE p.state = "DISCONNECT_LATER" /\ p.unacked = {} /\ Become("server", Disconnecting(p))
    <3>1. Disconnecting(p) = Disconnecting(s)
      BY <1>2, <1>3 DEF Disconnecting, ResetQueues, WholePeer
    <3>2. s.conn = peer["client"].conn =>
            \A x \in s.unacked : Acked(x, peer["client"].conn, net)
      BY <1>4, <2>3, <2>5
    <3> QED BY <1>1, <1>4, <2>2, <2>5, <3>1, <3>2, ServerDisconnects DEF Running
  <2> QED BY <1>1, <1>3, <1>7, <2>4, <2>5 DEF HandleAcknowledge
<1>8. p.state # "CONNECTING"
  BY <1>2, <1>4 DEF Known, Unknown
<1> QED BY <1>1, <1>3, <1>5, <1>6, <1>7, <1>8 DEF HandleAcknowledge

LEMMA ServerReceiveTold ==
  ASSUME Sound, Handshake', NEW m \in net, Receive("server", m)
  PROVE  ToldInv'
<1>1. ASSUME HandleVerifyConnect("server", m)
      PROVE  ToldInv'
  <2>1. peer["server"].state # "CONNECTING"
    BY SoundEnds DEF Known, Unknown
  <2>2. Become("server", Acknowledging(peer["server"], m.command)) /\ Quietly /\ phase' = phase
    BY <1>1, <2>1 DEF HandleVerifyConnect
  <2> QED BY <2>2, ServerApart, ServerAcknowledges
<1>2. \/ /\ Accepts("server", m) /\ m.name = "ACKNOWLEDGE"
         /\ HandleAcknowledge("server", m)
      \/ HandleConnect("server", m) \/ HandleVerifyConnect("server", m)
      \/ HandleDisconnect("server", m) \/ HandleSendReliable("server", m)
  BY DEF Receive
<1> QED BY <1>1, <1>2, ServerAcknowledgeTold, ConnectTold, ServerDisconnectTold,
           ServerSendReliableTold

LEMMA ServerDispatchTold ==
  ASSUME Sound, Dispatch("server")
  PROVE  ToldInv'
<1>1. phase' = phase
  BY DEF Dispatch
<1>2. CASE peer["server"].state = "ZOMBIE"
  <2>1. Become("server", Reset(peer["server"])) /\ Tell("server", "DISCONNECT")
    BY <1>2 DEF Dispatch
  <2> QED BY <1>1, <2>1, ServerApart, ServerResets
<1>3. CASE peer["server"].state = "CONNECTED"
  <2>1. PICK q : q = [peer["server"] EXCEPT !.dispatched = Tail(@)]
    OBVIOUS
  <2>2. /\ Become("server", q)
        /\ app' = [app EXCEPT !["server"].got = Append(@, Head(peer["server"].dispatched))]
    BY <1>3, <2>1 DEF Dispatch
  <2>3. Apart
    <3>1. DOMAIN app = Ends /\ DOMAIN phase = Ends
      BY DEF Sound, IInv, Shape, ToldInv
    <3> QED BY <1>1, <2>2, <3>1 DEF Apart, Ends
  <2>4. WholePeer(peer["server"])
    BY SoundEnds DEF EndNumbered
  <2>5. /\ q.conn = peer["server"].conn /\ q.session = peer["server"].session
        /\ q.state = peer["server"].state /\ q.sent = peer["server"].sent
        /\ q.unacked = peer["server"].unacked
    BY <2>1, <2>4 DEF WholePeer
  <2> QED BY <2>2, <2>3, <2>5, ServerKeeps
<1> QED BY <1>2, <1>3 DEF Dispatch

LEMMA ServerFlushTold ==
  ASSUME Sound, Flush("server"),
         NEW v, phase' = phase \/ phase' = [phase EXCEPT !["server"] = v]
  PROVE  ToldInv'
<1>1. Apart
  BY ServerApart DEF Flush
<1>2. PICK s : s = peer["server"]
  OBVIOUS
<1>3. WholePeer(s) /\ DOMAIN peer = Ends /\ SoundPeer(s)
  BY <1>2, SoundEnds DEF EndNumbered
<1>4. PICK state : state = IF Command("DISCONNECT") \in s.acknowledgements
                             THEN "ZOMBIE" ELSE s.state
  OBVIOUS
<1>5. PICK q : q = [s EXCEPT !.acknowledgements = {}, !.state = state]
  OBVIOUS
<1>6. MovesTo("server", q) /\ Transmit(AckWire("server", s))
  BY <1>2, <1>3, <1>4, <1>5 DEF Flush, MovesTo, Ends
<1>7. /\ q.conn = s.conn /\ q.session = s.session /\ q.state = state /\ q.sent = s.sent
      /\ q.unacked = s.unacked
  BY <1>3, <1>5 DEF WholePeer
<1>8. Eases(s, q)
  BY <1>4, <1>7 DEF Eases, Running
<1> QED BY <1>1, <1>2, <1>6, <1>7, <1>8, ServerActsEasily

LEMMA ServerTimeoutTold ==
  ASSUME Sound, CheckTimeouts("server")
  PROVE  ToldInv'
<1>1. app["server"].status # "closing"
  BY DEF Sound, IInv, ServerKnows
<1>2. /\ Become("server", Reset(peer["server"]))
      /\ Quietly \/ Tell("server", "DISCONNECT_TIMEOUT")
      /\ phase' = [phase EXCEPT !["server"] = "dispatch"]
  BY <1>1 DEF CheckTimeouts, NotifyDisconnect
<1> QED BY <1>2, ServerApart, ServerResets

LEMMA ServerSendTold ==
  ASSUME Sound, PeerSend("server")
  PROVE  ToldInv'
<1>1. Apart
  BY ServerApart DEF PeerSend
<1>2. PICK s : s = peer["server"]
  OBVIOUS
<1>3. WholePeer(s) /\ s.sent \in Nat /\ QueuesNumbered(peer["client"])
  BY <1>2, SoundEnds DEF EndNumbered, SendsNumbered
<1>4. PICK p : p = [s EXCEPT !.sent = @ + 1]
  OBVIOUS
<1>5. PICK q : q = [p EXCEPT !.unacked = @ \cup {Packet(p, p.sent)}]
  OBVIOUS
<1>6. Become("server", q) /\ s.state = "CONNECTED"
  BY <1>2, <1>4, <1>5 DEF PeerSend
<1>7. /\ WholePeer(p) /\ p.conn = s.conn /\ p.session = s.session /\ p.state = s.state
      /\ p.sent = s.sent + 1 /\ p.unacked = s.unacked
  BY <1>3, <1>4 DEF WholePeer
<1>8. Packet(p, p.sent) = Numbered(s.conn, s.session, s.sent + 1)
  BY <1>7 DEF Packet, Numbered, Datum
<1>9. /\ q.conn = s.conn /\ q.session = s.session /\ q.state = s.state /\ q.sent = s.sent + 1
      /\ q.unacked = s.unacked \cup {Numbered(s.conn, s.session, s.sent + 1)}
  BY <1>5, <1>7, <1>8 DEF WholePeer
<1>10. PICK N \in Nat : Told(N, peer["client"], s, app["client"], phase["client"], net)
  BY <1>2 DEF Sound, ToldInv
<1>11. Agree(peer["client"], s)
  BY <1>2, AgreeWhenSound DEF Sound
<1>12. PICK M \in Nat : Told(M, peer["client"], q, app["client"], phase["client"],
                             Arriving(net, Wire("server", q), peer["client"]))
  BY <1>3, <1>6, <1>9, <1>10, <1>11, ServerSends
<1> QED BY <1>1, <1>6, <1>12, ServerActs DEF Become, MovesTo

LEMMA DisconnectLaterTold ==
  ASSUME Sound, DisconnectLater
  PROVE  ToldInv'
<1>1. Apart
  BY ServerApart DEF DisconnectLater
<1>2. PICK s : s = peer["server"]
  OBVIOUS
<1>3. WholePeer(s) /\ s.state = "CONNECTED"
  BY <1>2, SoundEnds DEF EndNumbered, DisconnectLater
<1>4. CASE s.unacked # {}
  <2>1. PICK q : q = [s EXCEPT !.state = "DISCONNECT_LATER"]
    OBVIOUS
  <2>2. Become("server", q)
    BY <1>2, <1>4, <2>1 DEF DisconnectLater
  <2>3. /\ q.conn = s.conn /\ q.session = s.session /\ q.state = "DISCONNECT_LATER"
        /\ q.sent = s.sent /\ q.unacked = s.unacked
    BY <1>3, <2>1 DEF WholePeer
  <2>4. Eases(s, q)
    BY <1>3, <2>3 DEF Eases, Running
  <2> QED BY <1>1, <1>2, <2>2, <2>3, <2>4, ServerActsEasily DEF Become, MovesTo
<1>5. CASE s.unacked = {}
  <2>1. Become("server", Disconnecting(s))
    BY <1>2, <1>5 DEF DisconnectLater
  <2> QED BY <1>1, <1>2, <1>3, <1>5, <2>1, ServerDisconnects DEF Running
<1> QED BY <1>4, <1>5

LEMMA ElsewhereTold ==
  ASSUME Sound, UNCHANGED <<peer, net, app>>,
         NEW v, phase' = phase \/ phase' = [phase EXCEPT !["server"] = v]
  PROVE  ToldInv'
<1>1. DOMAIN phase' = Ends /\ phase'["client"] = phase["client"]
  BY ServerPhase DEF Sound
<1>2. PICK N \in Nat : Told(N, peer["client"], peer["server"], app["client"], phase["client"], net)
  BY DEF Sound, ToldInv
<1>3. Told(N, peer'["client"], peer'["server"], app'["client"], phase'["client"], net')
  BY <1>1, <1>2
<1> QED BY <1>1, <1>3 DEF ToldInv

-----------------------------------------------------------------------------
(***************************************************************************)
(* The client's actions.                                                   *)
(***************************************************************************)
LEMMA ClientActs ==
  ASSUME Sound, NEW q, MovesTo("client", q), NEW sent, Transmit(sent),
         NEW b, app'["client"] = b, NEW at, phase'["client"] = at, DOMAIN phase' = Ends,
         NEW N \in Nat, Told(N, q, peer["server"], b, at, Arriving(net, sent, q))
  PROVE  ToldInv'
<1>1. peer'["client"] = q /\ peer'["server"] = peer["server"]
  BY MoveSets DEF Sound, IInv, Ends
<1>2. net' = Arriving(net, sent, q)
  BY <1>1 DEF Transmit, Arriving
<1>3. Told(N, peer'["client"], peer'["server"], app'["client"], phase'["client"], net')
  BY <1>1, <1>2
<1> QED BY <1>3 DEF ToldInv

LEMMA ClientPhase ==
  ASSUME ToldInv, NEW v, phase' = phase \/ phase' = [phase EXCEPT !["client"] = v]
  PROVE  /\ DOMAIN phase' = Ends
         /\ phase'["client"] = phase["client"] \/ phase'["client"] = v
BY DEF ToldInv, Ends

\* The connection stays, and what the client reads and how it leaves is told.
LEMMA ClientActsOn ==
  ASSUME Sound, NEW q, Become("client", q), Steady(peer["client"], q), DOMAIN phase' = Ends,
         \A N \in Nat :
           Told(N, peer["client"], peer["server"], app["client"], phase["client"], net) =>
             /\ Reads(N, q, app'["client"], phase'["client"], net)
             /\ Leaves(N, q, app'["client"], net)
  PROVE  ToldInv'
<1>1. PICK N \in Nat : Told(N, peer["client"], peer["server"], app["client"], phase["client"], net)
  BY DEF Sound, ToldInv
<1>2. PICK b : b = app'["client"]
  OBVIOUS
<1>3. PICK at : at = phase'["client"]
  OBVIOUS
<1>4. Reads(N, q, b, at, net) /\ Leaves(N, q, b, net)
  BY <1>1, <1>2, <1>3
<1>5. Told(N, q, peer["server"], b, at, Arriving(net, Wire("client", q), q))
  BY <1>1, <1>4, ClientGoesOn
<1> QED BY <1>2, <1>3, <1>5, ClientActs DEF Become, MovesTo

\* Only what is sent changes, and what the application has got while no packet
\* is received.
Alike(c, q) ==
  /\ q.conn = c.conn /\ q.session = c.session /\ q.state = c.state
  /\ q.received = c.received /\ q.incoming = c.incoming
  /\ q.acknowledgements = c.acknowledgements

LEMMA ClientAlike ==
  ASSUME Sound, NEW q, Become("client", q), Alike(peer["client"], q), DOMAIN phase' = Ends,
         app'["client"] = app["client"],
         phase'["client"] \in {phase["client"], "dispatch"}
  PROVE  ToldInv'
<1>1. Steady(peer["client"], q)
  BY DEF Steady, Alike
<1>2. ASSUME NEW N \in Nat, NEW a, a = app["client"],
             Told(N, peer["client"], peer["server"], a, phase["client"], net)
      PROVE  Reads(N, q, a, phase'["client"], net) /\ Leaves(N, q, a, net)
  <2>1. Reads(N, peer["client"], a, phase["client"], net) /\ Leaves(N, peer["client"], a, net)
    BY <1>2 DEF Told
  <2>2. Leaves(N, q, a, net)
    BY <2>1 DEF Leaves, Alike
  <2>3. Reads(N, q, a, phase'["client"], net)
    BY <2>1 DEF Reads, Had, Alike
  <2> QED BY <2>2, <2>3
<1> QED BY <1>1, <1>2, ClientActsOn

\* The client's peer goes down while its application closes the connection.
LEMMA ClientCloses ==
  ASSUME Sound, NEW q, Become("client", q), DOMAIN phase' = Ends,
         q.conn = peer["client"].conn, q.session = peer["client"].session,
         q.state \in {"DISCONNECTING", "ZOMBIE"}, peer["client"].state # "DISCONNECTED",
         \A x \in q.acknowledgements : x.name # "DISCONNECT",
         app'["client"].status = "closing"
  PROVE  ToldInv'
<1>1. Steady(peer["client"], q)
  BY DEF Steady
<1>2. PICK b : b = app'["client"]
  OBVIOUS
<1>3. ASSUME NEW N
      PROVE  Reads(N, q, b, phase'["client"], net) /\ Leaves(N, q, b, net)
  BY <1>2 DEF Reads, Leaves
<1> QED BY <1>1, <1>2, <1>3, ClientActsOn

LEMMA ClientResets ==
  ASSUME Sound, Become("client", Reset(peer["client"])), DOMAIN phase' = Ends
  PROVE  ToldInv'
<1>1. PICK N \in Nat : Told(N, peer["client"], peer["server"], app["client"], phase["client"], net)
  BY DEF Sound, ToldInv
<1>2. PICK q : q = Reset(peer["client"])
  OBVIOUS
<1>3. PICK b : b = app'["client"]
  OBVIOUS
<1>4. PICK at : at = phase'["client"]
  OBVIOUS
<1>5. Told(0, q, peer["server"], b, at, Arriving(net, Wire("client", q), q))
  BY <1>1, <1>2, ClientGoes
<1>6. 0 \in Nat
  OBVIOUS
<1> QED BY <1>2, <1>3, <1>4, <1>5, <1>6, ClientActs DEF Become, MovesTo

LEMMA ClientNotified ==
  ASSUME Sound, NEW type, NotifyDisconnect("client", type),
         peer["client"].state # "DISCONNECTED",
         \A x \in peer["client"].acknowledgements : x.name # "DISCONNECT",
         NEW v, phase' = [phase EXCEPT !["client"] = v]
  PROVE  ToldInv'
<1>0. DOMAIN phase' = Ends
  BY ClientPhase DEF Sound
<1>1. CASE app["client"].status = "closing"
  <2>1. PICK q : q = [peer["client"] EXCEPT !.state = "ZOMBIE"]
    OBVIOUS
  <2>2. Become("client", q) /\ app' = app
    BY <1>1, <2>1 DEF NotifyDisconnect, Quietly
  <2>3. /\ q.conn = peer["client"].conn /\ q.session = peer["client"].session
        /\ q.state = "ZOMBIE" /\ q.acknowledgements = peer["client"].acknowledgements
    <3>1. WholePeer(peer["client"])
      BY SoundEnds DEF EndNumbered
    <3> QED BY <2>1, <3>1 DEF WholePeer
  <2> QED BY <1>0, <1>1, <2>2, <2>3, ClientCloses
<1>2. CASE app["client"].status # "closing"
  BY <1>0, <1>2, ClientResets DEF NotifyDisconnect
<1> QED BY <1>1, <1>2

LEMMA ClientLeaves ==
  ASSUME Sound
  PROVE  /\ \A x \in peer["client"].acknowledgements :
              x.name = "DISCONNECT" => peer["client"].state = "ACKNOWLEDGING_DISCONNECT"
         /\ peer["client"].state \notin {"DISCONNECT_LATER", "ACKNOWLEDGING_CONNECT"}
         /\ peer["client"].state = "DISCONNECTING" => app["client"].status = "closing"
BY DEF Sound, ToldInv, Told, Leaves

LEMMA VerifyConnectTold ==
  ASSUME Sound, NEW m \in net, m.to = "client", m.command.name = "VERIFY_CONNECT",
         HandleVerifyConnect("client", m)
  PROVE  ToldInv'
<1>1. PICK c : c = peer["client"]
  OBVIOUS
<1>2. WholePeer(c) /\ QueuesNumbered(c) /\ Ends = {"client", "server"} /\ DOMAIN phase = Ends
  BY <1>1, SoundEnds DEF EndNumbered, Sound, ToldInv
<1>3. CASE c.state = "CONNECTING"
  <2>1. PICK q : q = [c EXCEPT !.state = "CONNECTED", !.session = m.session,
                        !.unacked = {}, !.acknowledgements = {m.command}]
    OBVIOUS
  <2>2. /\ Become("client", q) /\ Tell("client", "CONNECT")
        /\ phase' = [phase EXCEPT !["client"] = "dispatch"]
    BY <1>1, <1>3, <2>1 DEF HandleVerifyConnect
  <2>3. /\ q.state = "CONNECTED" /\ q.conn = c.conn /\ q.session = m.session /\ q.unacked = {}
        /\ q.received = 0 /\ q.incoming = {} /\ q.acknowledgements = {m.command}
    BY <1>2, <1>3, <2>1 DEF WholePeer, QueuesNumbered
  <2>4. PICK b : b = app'["client"]
    OBVIOUS
  <2>5. b.status = "open"
    BY <1>2, <2>2, <2>4, TellSets DEF Sound, IInv
  <2>6. DOMAIN phase' = Ends /\ phase'["client"] = "dispatch"
    BY <1>2, <2>2
  <2>7. PICK N \in Nat : Told(N, c, peer["server"], app["client"], phase["client"], net)
    BY <1>1 DEF Sound, ToldInv
  <2>8. Agree(c, peer["server"]) /\ peer["server"].state \in Known \cup Unknown
    BY <1>1, AgreeWhenSound, SoundEnds DEF Sound
  <2>9. Told(N, q, peer["server"], b, "dispatch", Arriving(net, Wire("client", q), q))
    BY <1>3, <2>3, <2>5, <2>7, <2>8, ClientComesUp
  <2> QED BY <2>2, <2>4, <2>6, <2>7, <2>9, ClientActs DEF Become, MovesTo
<1>4. CASE c.state # "CONNECTING"
  <2>1. PICK q : q = Acknowledging(c, m.command)
    OBVIOUS
  <2>2. Become("client", q) /\ app' = app /\ phase' = phase
    BY <1>1, <1>4, <2>1 DEF HandleVerifyConnect, Quietly
  <2>3. Acknowledged(c, q, m.command)
    BY <1>2, <2>1, AcknowledgingIs
  <2>4. Steady(c, q)
    BY <2>3 DEF Acknowledged, Steady
  <2>5. ASSUME NEW N \in Nat, NEW a, a = app["client"], NEW ph, ph = phase["client"],
               Told(N, c, peer["server"], a, ph, net)
        PROVE  Reads(N, q, a, ph, net) /\ Leaves(N, q, a, net)
    <3>1. Reads(N, c, a, ph, net) /\ Leaves(N, c, a, net)
      BY <2>5 DEF Told
    <3>2. Reads(N, q, a, ph, net)
      BY <2>3, <3>1 DEF Acknowledged, Reads, Had
    <3>3. Leaves(N, q, a, net)
      BY <2>3, <3>1 DEF Acknowledged, Leaves
    <3> QED BY <3>2, <3>3
  <2> QED BY <1>1, <1>2, <2>2, <2>4, <2>5, ClientActsOn
<1> QED BY <1>3, <1>4

LEMMA DisconnectTold ==
  ASSUME Sound, NEW m \in net, m.to = "client", m.name = "COMMAND",
         m.command.name = "DISCONNECT", phase["client"] = "receive",
         peer["client"].state # "DISCONNECTED", HandleDisconnect("client", m)
  PROVE  ToldInv'
<1>1. PICK c : c = peer["client"]
  OBVIOUS
<1>2. /\ WholePeer(c) /\ EndNumbered(c, app["client"]) /\ DOMAIN phase = Ends
      /\ Ends = {"client", "server"}
  BY <1>1, SoundEnds DEF EndNumbered, Sound, ToldInv
<1>3. IsEnd(m)
  BY DEF IsEnd
<1>4. app' = app /\ phase' = phase
  BY DEF HandleDisconnect, Quietly
<1>5. PICK clear : clear = ResetQueues(c)
  OBVIOUS
<1>6. /\ WholePeer(clear) /\ clear.conn = c.conn /\ clear.session = c.session
      /\ clear.acknowledgements = {}
  BY <1>2, <1>5 DEF ResetQueues, WholePeer
<1>7. CASE c.state = "DISCONNECTING"
  <2>1. PICK q : q = [clear EXCEPT !.state = "ZOMBIE"]
    OBVIOUS
  <2>2. Become("client", q)
    BY <1>1, <1>5, <1>7, <2>1 DEF HandleDisconnect
  <2>3. /\ q.conn = c.conn /\ q.session = c.session /\ q.state = "ZOMBIE"
        /\ q.acknowledgements = {}
    BY <1>6, <2>1 DEF WholePeer
  <2>4. app["client"].status = "closing"
    BY <1>1, <1>7, ClientLeaves
  <2> QED BY <1>1, <1>2, <1>4, <1>7, <2>2, <2>3, <2>4, ClientCloses
<1>8. c.state \notin {"CONNECTING", "DISCONNECT_LATER", "ACKNOWLEDGING_CONNECT"}
  <2>1. c.state # "CONNECTING"
    BY <1>1, <1>3 DEF Sound, ToldInv, Told, Over
  <2> QED BY <1>1, <2>1, ClientLeaves
<1>9. CASE c.state = "CONNECTED"
  <2>1. PICK r : r = [clear EXCEPT !.state = "ACKNOWLEDGING_DISCONNECT"]
    OBVIOUS
  <2>2. PICK q : q = Acknowledging(r, m.command)
    OBVIOUS
  <2>3. Become("client", q)
    BY <1>1, <1>5, <1>9, <2>1, <2>2 DEF HandleDisconnect
  <2>4. /\ WholePeer(r) /\ r.conn = c.conn /\ r.session = c.session
        /\ r.state = "ACKNOWLEDGING_DISCONNECT"
    BY <1>6, <2>1 DEF WholePeer
  <2>5. Acknowledged(r, q, m.command)
    BY <2>2, <2>4, AcknowledgingIs
  <2>6. q.conn = c.conn /\ q.session = c.session /\ q.state = "ACKNOWLEDGING_DISCONNECT"
    BY <2>4, <2>5 DEF Acknowledged
  <2>7. Steady(c, q)
    BY <1>9, <2>6 DEF Steady
  <2>8. ASSUME NEW N \in Nat, NEW a, a = app["client"], NEW ph, ph = phase["client"],
               Told(N, c, peer["server"], a, ph, net)
        PROVE  Reads(N, q, a, ph, net) /\ Leaves(N, q, a, net)
    <3>1. Len(a.got) = N
      BY <1>2, <1>3, <1>9, <2>8, ClientEnds
    <3> QED BY <1>3, <2>6, <3>1 DEF Reads, Leaves
  <2> QED BY <1>1, <1>2, <1>4, <2>3, <2>7, <2>8, ClientActsOn
<1>10. CASE c.state \notin {"DISCONNECTING", "CONNECTING", "ACKNOWLEDGING_CONNECT",
                            "CONNECTED", "DISCONNECT_LATER"}
  <2>1. PICK q : q = Acknowledging(c, m.command)
    OBVIOUS
  <2>2. Become("client", q)
    BY <1>1, <1>10, <2>1 DEF HandleDisconnect
  <2>3. Acknowledged(c, q, m.command)
    BY <1>2, <2>1, AcknowledgingIs
  <2>4. Steady(c, q)
    BY <2>3 DEF Acknowledged, Steady
  <2>5. ASSUME NEW N \in Nat, NEW a, a = app["client"], NEW ph, ph = phase["client"],
               Told(N, c, peer["server"], a, ph, net)
        PROVE  Reads(N, q, a, ph, net) /\ Leaves(N, q, a, net)
    <3>1. Leaves(N, c, a, net)
      BY <2>5 DEF Told
    <3>2. Reads(N, q, a, ph, net)
      BY <1>10, <2>3 DEF Acknowledged, Reads
    <3>3. Leaves(N, q, a, net)
      BY <1>10, <2>3, <3>1 DEF Acknowledged, Leaves
    <3> QED BY <3>2, <3>3
  <2> QED BY <1>1, <1>2, <1>4, <2>2, <2>4, <2>5, ClientActsOn
<1> QED BY <1>7, <1>8, <1>9, <1>10

LEMMA SendReliableTold ==
  ASSUME Sound, NEW m \in net, m.to = "client", m.name = "COMMAND",
         m.command.name = "SEND_RELIABLE", phase["client"] = "receive",
         HandleSendReliable("client", m)
  PROVE  ToldInv'
<1>1. PICK c : c = peer["client"]
  OBVIOUS
<1>2. /\ WholePeer(c) /\ QueuesNumbered(c) /\ DOMAIN phase = Ends /\ Ends = {"client", "server"}
  BY <1>1, SoundEnds DEF EndNumbered, Sound, ToldInv
<1>3. app' = app /\ phase' = phase
  BY DEF HandleSendReliable, Quietly
<1>4. c.state = "CONNECTED"
  BY <1>1, ClientLeaves DEF HandleSendReliable
<1>5. PICK x : x = m.command
  OBVIOUS
<1>6. ASSUME NEW N \in Nat, NEW a, NEW ph, Told(N, c, peer["server"], a, ph, net)
      PROVE  IsPacket(x, c.conn, c.session) /\ x.seq \in Nat /\ x.seq > 0 /\ x.seq <= N
  <2>1. PICK n \in 1..N : m = Parcel(c.conn, c.session, n)
    BY <1>6 DEF Told, Sends, IsParcel
  <2>2. x = Numbered(c.conn, c.session, n)
    BY <1>5, <2>1 DEF Parcel
  <2>3. x.seq = n
    BY <2>2 DEF Numbered
  <2>4. n \in Nat \ {0} /\ n > 0 /\ n <= N
    OBVIOUS
  <2> QED BY <2>2, <2>3, <2>4 DEF IsPacket
<1>7. CASE x.seq <= c.received \/ x \in c.incoming
  <2>1. PICK q : q = Acknowledging(c, x)
    OBVIOUS
  <2>2. Become("client", q)
    BY <1>1, <1>5, <1>7, <2>1 DEF HandleSendReliable
  <2>3. Acknowledged(c, q, x)
    BY <1>2, <2>1, AcknowledgingIs
  <2>4. Steady(c, q)
    BY <2>3 DEF Acknowledged, Steady
  <2>5. ASSUME NEW N \in Nat, NEW a, a = app["client"], NEW ph, ph = phase["client"],
               Told(N, c, peer["server"], a, ph, net)
        PROVE  Reads(N, q, a, ph, net) /\ Leaves(N, q, a, net)
    <3>1. Reads(N, c, a, ph, net)
      BY <2>5 DEF Told
    <3>2. x.seq \in Nat /\ x.seq > 0 /\ c.received \in Nat
      BY <1>2, <1>6, <2>5 DEF QueuesNumbered
    <3>3. x.seq \in 1..c.received \/ x \in c.incoming
      BY <1>7, <3>2
    <3>4. Reads(N, q, a, ph, net)
      BY <2>3, <3>1, <3>3 DEF Acknowledged, Reads, Had
    <3>5. x.name # "DISCONNECT"
      BY <1>5
    <3>6. Leaves(N, q, a, net)
      BY <1>4, <2>3, <2>5, <3>5 DEF Acknowledged, Told, Leaves
    <3> QED BY <3>4, <3>6
  <2> QED BY <1>1, <1>2, <1>3, <2>2, <2>4, <2>5, ClientActsOn
<1>8. CASE ~(x.seq <= c.received \/ x \in c.incoming)
  <2>1. PICK incoming : incoming = c.incoming \cup {x}
    OBVIOUS
  <2>2. PICK more : more = [c EXCEPT !.incoming = incoming]
    OBVIOUS
  <2>3. PICK r : r = DispatchReliable(more)
    OBVIOUS
  <2>4. PICK q : q = Acknowledging(r, x)
    OBVIOUS
  <2>5. Become("client", q)
    BY <1>1, <1>4, <1>5, <1>8, <2>1, <2>2, <2>3, <2>4 DEF HandleSendReliable
  <2>6. /\ WholePeer(more) /\ more.conn = c.conn /\ more.session = c.session /\ more.state = c.state
        /\ more.received = c.received /\ more.incoming = incoming
        /\ more.acknowledgements = c.acknowledgements
    BY <1>2, <2>2 DEF WholePeer
  <2>7. PICK run : run = RunOf(incoming, c.received)
    OBVIOUS
  <2>8. \E moved : r = MovedOn(more, run, Cardinality(run), moved)
    <3>1. \E moved : r = MovedOn(more, RunOf(more.incoming, more.received),
                                Cardinality(RunOf(more.incoming, more.received)), moved)
      BY <2>3, DispatchMoves
    <3> QED BY <2>6, <2>7, <3>1
  <2>9. /\ WholePeer(r) /\ r.conn = c.conn /\ r.session = c.session /\ r.state = c.state
        /\ r.received = c.received + Cardinality(run) /\ r.incoming = incoming \ run
        /\ r.acknowledgements = c.acknowledgements
    BY <2>6, <2>8 DEF MovedOn, WholePeer
  <2>10. /\ q.conn = c.conn /\ q.session = c.session /\ q.state = c.state
         /\ q.received = c.received + Cardinality(run) /\ q.incoming = incoming \ run
         /\ q.acknowledgements = c.acknowledgements \cup {x}
    BY <1>4, <2>4, <2>9 DEF Acknowledging, WholePeer
  <2>11. Steady(c, q)
    BY <2>10 DEF Steady
  <2>12. ASSUME NEW N \in Nat, NEW a, a = app["client"],
                Told(N, c, peer["server"], a, "receive", net)
         PROVE  Reads(N, q, a, "receive", net) /\ Leaves(N, q, a, net)
    <3>1. IsPacket(x, c.conn, c.session) /\ x.seq \in Nat /\ x.seq <= N /\ c.received \in Nat
      BY <1>2, <1>6, <2>12 DEF QueuesNumbered
    <3>2. x.seq > c.received
      BY <1>8, <3>1
    <3>3. Reads(N, q, a, "receive", net)
      BY <1>2, <1>4, <2>1, <2>7, <2>10, <2>12, <3>1, <3>2, ClientReads
    <3>4. x.name # "DISCONNECT"
      BY <1>5
    <3>5. Leaves(N, q, a, net)
      BY <1>4, <2>10, <2>12, <3>4 DEF Told, Leaves
    <3> QED BY <3>3, <3>5
  <2> QED BY <1>1, <1>2, <1>3, <2>5, <2>11, <2>12, ClientActsOn
<1> QED BY <1>7, <1>8

LEMMA AcknowledgeTold ==
  ASSUME Sound, NEW m, HandleAcknowledge("client", m)
  PROVE  ToldInv'
<1>1. PICK c : c = peer["client"]
  OBVIOUS
<1>2. WholePeer(c) /\ DOMAIN phase = Ends
  BY <1>1, SoundEnds DEF EndNumbered, Sound, ToldInv
<1>3. PICK p : p = [c EXCEPT !.unacked = @ \ {m.command}]
  OBVIOUS
<1>4. Alike(c, p)
  BY <1>2, <1>3 DEF WholePeer, Alike
<1>5. c.state \notin {"DISCONNECT_LATER", "ACKNOWLEDGING_CONNECT"}
  BY <1>1, ClientLeaves
<1>6. CASE c.state = "DISCONNECTING"
  <2>1. NotifyDisconnect("client", "DISCONNECT") /\ phase' = [phase EXCEPT !["client"] = "dispatch"]
    BY <1>1, <1>3, <1>4, <1>6 DEF HandleAcknowledge, Alike
  <2>2. \A x \in c.acknowledgements : x.name # "DISCONNECT"
    BY <1>1, <1>6, ClientLeaves
  <2> QED BY <1>1, <1>6, <2>1, <2>2, ClientNotified
<1>7. CASE c.state # "DISCONNECTING"
  <2>1. Become("client", p) /\ app' = app /\ phase' = phase
    BY <1>1, <1>3, <1>4, <1>5, <1>7 DEF HandleAcknowledge, Alike, Quietly
  <2> QED BY <1>1, <1>2, <1>4, <2>1, ClientAlike
<1> QED BY <1>6, <1>7

LEMMA ReceiveTold ==
  ASSUME Sound, NEW m \in net, Receive("client", m)
  PROVE  ToldInv'
<1>1. m.to = "client" /\ phase["client"] = "receive"
  BY DEF Receive, Accepts
<1>2. ~HandleConnect("client", m)
  BY DEF HandleConnect
<1>3. ASSUME m.name = "COMMAND", m.command.name = "DISCONNECT", HandleDisconnect("client", m)
      PROVE  ToldInv'
  <2>1. peer["client"].state # "DISCONNECTED"
    BY <1>3 DEF Receive, Accepts
  <2> QED BY <1>1, <1>3, <2>1, DisconnectTold
<1>4. \/ HandleAcknowledge("client", m)
      \/ m.command.name = "VERIFY_CONNECT" /\ HandleVerifyConnect("client", m)
      \/ /\ m.name = "COMMAND" /\ m.command.name = "DISCONNECT"
         /\ HandleDisconnect("client", m)
      \/ /\ m.name = "COMMAND" /\ m.command.name = "SEND_RELIABLE"
         /\ HandleSendReliable("client", m)
  BY <1>2 DEF Receive
<1> QED BY <1>1, <1>3, <1>4, AcknowledgeTold, VerifyConnectTold, SendReliableTold

LEMMA ClientDispatchTold ==
  ASSUME Sound, Dispatch("client")
  PROVE  ToldInv'
<1>1. phase' = phase /\ phase["client"] = "dispatch" /\ DOMAIN phase' = Ends
  BY DEF Dispatch, Sound, ToldInv
<1>2. CASE peer["client"].state = "ZOMBIE"
  <2>1. Become("client", Reset(peer["client"]))
    BY <1>2 DEF Dispatch
  <2> QED BY <1>1, <2>1, ClientResets
<1>3. CASE peer["client"].state = "CONNECTED"
  <2>1. PICK c : c = peer["client"]
    OBVIOUS
  <2>2. PICK q : q = [c EXCEPT !.dispatched = Tail(@)]
    OBVIOUS
  <2>3. PICK a : a = app["client"]
    OBVIOUS
  <2>4. PICK b : b = [a EXCEPT !.got = Append(@, Head(c.dispatched))]
    OBVIOUS
  <2>5. Become("client", q)
    BY <1>3, <2>1, <2>2 DEF Dispatch
  <2>6. app'["client"] = b
    BY <1>3, <2>1, <2>3, <2>4 DEF Dispatch, Sound, IInv, Shape, Ends
  <2>7. Alike(c, q)
    <3>1. WholePeer(c)
      BY <2>1, SoundEnds DEF EndNumbered
    <3> QED BY <2>2, <3>1 DEF WholePeer, Alike
  <2>8. Steady(c, q)
    BY <2>7 DEF Steady, Alike
  <2>9. ASSUME NEW N \in Nat, Told(N, c, peer["server"], a, "dispatch", net)
        PROVE  Reads(N, q, b, "dispatch", net) /\ Leaves(N, q, b, net)
    <3>1. Reads(N, c, a, "dispatch", net) /\ Leaves(N, c, a, net)
      BY <2>9 DEF Told
    <3>2. a.status = "open" /\ b.status = "open"
      <4>1. a.status = "open"
        BY <1>3, <2>1, <3>1 DEF Reads
      <4>2. "status" \in DOMAIN a
        BY <2>3, SoundEnds DEF EndNumbered
      <4> QED BY <2>4, <4>1, <4>2
    <3>3. Reads(N, q, b, "dispatch", net)
      BY <2>7, <3>1, <3>2 DEF Reads, Had, Alike
    <3>4. Leaves(N, q, b, net)
      BY <1>3, <2>1, <2>7, <3>1 DEF Leaves, Alike
    <3> QED BY <3>3, <3>4
  <2> QED BY <1>1, <2>1, <2>3, <2>5, <2>6, <2>8, <2>9, ClientActsOn
<1> QED BY <1>2, <1>3 DEF Dispatch

LEMMA ClientSendOutgoingTold ==
  ASSUME Sound, SendOutgoing("client")
  PROVE  ToldInv'
<1>1. PICK c : c = peer["client"]
  OBVIOUS
<1>2. PICK a : a = app["client"]
  OBVIOUS
<1>3. /\ WholePeer(c) /\ SoundPeer(c) /\ EndNumbered(c, a) /\ DOMAIN peer = Ends
      /\ Ends = {"client", "server"} /\ DOMAIN phase = Ends
  BY <1>1, <1>2, SoundEnds DEF EndNumbered, Sound, ToldInv
<1>4. PICK state : state = IF Command("DISCONNECT") \in c.acknowledgements
                             THEN "ZOMBIE" ELSE c.state
  OBVIOUS
<1>5. PICK q : q = [c EXCEPT !.acknowledgements = {}, !.state = state]
  OBVIOUS
<1>6. MovesTo("client", q) /\ Transmit(AckWire("client", c)) /\ app' = app
  BY <1>1, <1>3, <1>4, <1>5 DEF SendOutgoing, Flush, Quietly, MovesTo
<1>7. /\ q.conn = c.conn /\ q.session = c.session /\ q.acknowledgements = {}
      /\ q.received = c.received /\ q.incoming = c.incoming
      /\ q.state = IF Command("DISCONNECT") \in c.acknowledgements THEN "ZOMBIE" ELSE c.state
  BY <1>3, <1>4, <1>5 DEF WholePeer
<1>8. PICK at : at = IF phase["client"] = "dispatch" THEN "receive" ELSE "dispatch"
  OBVIOUS
<1>9. DOMAIN phase' = Ends /\ phase'["client"] = at
  BY <1>3, <1>8 DEF SendOutgoing
<1>10. at = "receive" /\ a.status = "open" /\ c.state = "CONNECTED" => c.dispatched = << >>
  BY <1>1, <1>2, <1>8 DEF SendOutgoing, NeedsDispatch
<1>11. c.acknowledgements # {} => c.state # "CONNECTING"
  BY <1>1 DEF Sound, Handshake, ClientSound
<1>12. PICK N \in Nat : Told(N, c, peer["server"], a, phase["client"], net)
  BY <1>1, <1>2 DEF Sound, ToldInv
<1>13. Told(N, q, peer["server"], a, at, Arriving(net, AckWire("client", c), q))
  BY <1>3, <1>7, <1>10, <1>11, <1>12, ClientFlushes
<1> QED BY <1>2, <1>6, <1>9, <1>12, <1>13, ClientActs

LEMMA ClientTimeoutTold ==
  ASSUME Sound, CheckTimeouts("client")
  PROVE  ToldInv'
<1>1. peer["client"].state # "ACKNOWLEDGING_CONNECT"
  BY ClientLeaves
<1>2. /\ peer["client"].state \in {"CONNECTING", "CONNECTED", "DISCONNECT_LATER", "DISCONNECTING"}
      /\ NotifyDisconnect("client", "DISCONNECT_TIMEOUT")
      /\ phase' = [phase EXCEPT !["client"] = "dispatch"]
  BY <1>1 DEF CheckTimeouts
<1>3. \A x \in peer["client"].acknowledgements : x.name # "DISCONNECT"
  BY <1>2, ClientLeaves
<1> QED BY <1>2, <1>3, ClientNotified

LEMMA ClientSendTold ==
  ASSUME Sound, PeerSend("client")
  PROVE  ToldInv'
<1>1. PICK c : c = peer["client"]
  OBVIOUS
<1>2. WholePeer(c) /\ DOMAIN phase = Ends
  BY <1>1, SoundEnds DEF EndNumbered, Sound, ToldInv
<1>3. PICK p : p = [c EXCEPT !.sent = @ + 1]
  OBVIOUS
<1>4. PICK q : q = [p EXCEPT !.unacked = @ \cup {Packet(p, p.sent)}]
  OBVIOUS
<1>5. Become("client", q) /\ app' = app /\ phase' = phase
  BY <1>1, <1>3, <1>4 DEF PeerSend, Quietly
<1>6. WholePeer(p) /\ Alike(c, p)
  BY <1>2, <1>3 DEF WholePeer, Alike
<1>7. Alike(c, q)
  BY <1>4, <1>6 DEF WholePeer, Alike
<1> QED BY <1>1, <1>2, <1>5, <1>7, ClientAlike

LEMMA DisconnectCallTold ==
  ASSUME Sound, Disconnect
  PROVE  ToldInv'
<1>1. PICK c : c = peer["client"]
  OBVIOUS
<1>2. WholePeer(c) /\ DOMAIN phase' = Ends /\ phase' = phase
  BY <1>1, SoundEnds DEF EndNumbered, Sound, ToldInv, Disconnect
<1>3. app'["client"].status = "closing"
  <2>1. "client" \in DOMAIN app /\ "status" \in DOMAIN app["client"]
    BY DEF Sound, IInv, Shape, Ends
  <2> QED BY <2>1 DEF Disconnect
<1>4. CASE c.state = "CONNECTED"
  <2>1. PICK q : q = Disconnecting(c)
    OBVIOUS
  <2>2. Become("client", q)
    BY <1>1, <1>4, <2>1 DEF Disconnect
  <2>3. /\ q.conn = c.conn /\ q.session = c.session /\ q.state = "DISCONNECTING"
        /\ q.acknowledgements = {}
    BY <1>2, <2>1 DEF Disconnecting, ResetQueues, WholePeer
  <2> QED BY <1>1, <1>2, <1>3, <1>4, <2>2, <2>3, ClientCloses
<1>5. CASE c.state # "CONNECTED"
  <2>1. Become("client", c)
    BY <1>1, <1>5 DEF Disconnect
  <2>2. Steady(c, c)
    BY DEF Steady
  <2>3. PICK b : b = app'["client"]
    OBVIOUS
  <2>4. ASSUME NEW N, Told(N, c, peer["server"], app["client"], phase["client"], net)
        PROVE  Reads(N, c, b, phase'["client"], net) /\ Leaves(N, c, b, net)
    BY <1>3, <1>5, <2>3, <2>4 DEF Told, Reads, Leaves
  <2> QED BY <1>1, <1>2, <2>1, <2>2, <2>3, <2>4, ClientActsOn
<1> QED BY <1>4, <1>5

LEMMA DestroyTold ==
  ASSUME Sound, Destroy
  PROVE  ToldInv'
<1>1. DOMAIN phase' = Ends /\ Become("client", Reset(peer["client"]))
  BY DEF Destroy, Sound, ToldInv
<1> QED BY <1>1, ClientResets

LEMMA HostConnectTold ==
  ASSUME Sound, HostConnect
  PROVE  ToldInv'
<1>1. PICK c : c = peer["client"]
  OBVIOUS
<1>2. PICK q : q = NewPeer("CONNECTING", c.conn + 1, NoSession, {Command("CONNECT")})
  OBVIOUS
<1>3. /\ q.state = "CONNECTING" /\ q.conn = c.conn + 1 /\ q.session = NoSession
      /\ q.acknowledgements = {}
  BY <1>2 DEF NewPeer
<1>4. Become("client", q) /\ c.state = "DISCONNECTED" /\ DOMAIN phase' = Ends
  BY <1>1, <1>2 DEF HostConnect, Sound, ToldInv
<1>5. PICK b : b = app'["client"]
  OBVIOUS
<1>6. PICK at : at = phase'["client"]
  OBVIOUS
<1>7. PICK N \in Nat : Told(N, c, peer["server"], app["client"], phase["client"], net)
  BY <1>1 DEF Sound, ToldInv
<1>8. Told(0, q, peer["server"], b, at, Arriving(net, Wire("client", q), q))
  BY <1>3, <1>4, <1>7, ClientComes
<1>9. 0 \in Nat
  OBVIOUS
<1> QED BY <1>4, <1>5, <1>6, <1>8, <1>9, ClientActs DEF Become, MovesTo

-----------------------------------------------------------------------------
LEMMA NextTold ==
  ASSUME Sound, Handshake', Next
  PROVE  ToldInv'
<1>1. ASSUME NEW e \in Ends, Service(e) \/ CheckTimeouts(e) \/ PeerSend(e)
      PROVE  ToldInv'
  <2>1. CASE e = "client"
    BY <1>1, <2>1, ClientDispatchTold, ClientSendOutgoingTold, ReceiveTold,
       ClientTimeoutTold, ClientSendTold DEF Service
  <2>2. CASE e = "server"
    <3>1. SendOutgoing("server") => ToldInv'
      BY ServerFlushTold DEF SendOutgoing
    <3> QED BY <1>1, <2>2, <3>1, ServerDispatchTold, ServerReceiveTold,
               ServerTimeoutTold, ServerSendTold DEF Service
  <2> QED BY <2>1, <2>2 DEF Ends
<1>2. HostFlush => ToldInv'
  BY ServerFlushTold DEF HostFlush
<1>3. EventElsewhere => ToldInv'
  BY ElsewhereTold DEF EventElsewhere, Quietly
<1> QED BY <1>1, <1>2, <1>3, DisconnectLaterTold, HostConnectTold, DisconnectCallTold, DestroyTold
        DEF Next

LEMMA StutterTold ==
  ASSUME Sound, UNCHANGED vars
  PROVE  ToldInv'
<1>1. UNCHANGED <<peer, net, app>> /\ phase' = phase
  BY DEF vars
<1> QED BY <1>1, ElsewhereTold

LEMMA InitTold == Init => ToldInv
<1> SUFFICES ASSUME Init PROVE ToldInv
  OBVIOUS
<1>1. PICK p : p = NewPeer("DISCONNECTED", 0, NoSession, {})
  OBVIOUS
<1>2. /\ p.state = "DISCONNECTED" /\ p.conn = 0 /\ p.session = NoSession /\ p.unacked = {}
      /\ p.acknowledgements = {} /\ p.sent = 0
  BY <1>1 DEF NewPeer
<1>3. /\ peer["client"] = p /\ peer["server"] = p /\ net = {} /\ DOMAIN phase = Ends
  BY <1>1 DEF Init, Ends
<1>4. PICK a : a = app["client"]
  OBVIOUS
<1>5. PICK ph : ph = phase["client"]
  OBVIOUS
<1>6. Addressed(p, p, {})
  BY <1>2 DEF Addressed, NoSession
<1>7. Sends(0, p, p, {})
  <2>1. Wire("server", p) = {}
    BY <1>2 DEF Wire
  <2>2. 1..0 = {}
    OBVIOUS
  <2> QED BY <1>2, <2>1, <2>2 DEF Sends
<1>8. Told(0, p, p, a, ph, {})
  BY <1>2, <1>6, <1>7 DEF Told, Over, Reads, Leaves
<1>9. 0 \in Nat
  OBVIOUS
<1> QED BY <1>3, <1>4, <1>5, <1>8, <1>9 DEF ToldInv

\* The number of a packet tells it from the others.
LEMMA ParcelsCounted ==
  ASSUME NEW N \in Nat, NEW conn, NEW session, NEW parcels,
         parcels = {Parcel(conn, session, n) : n \in 1..N}
  PROVE  Cardinality(parcels) = N
<1>1. IsFiniteSet(1..N) /\ Cardinality(1..N) = N
  BY FS_Interval
<1>2. PICK f : f = [n \in 1..N |-> Parcel(conn, session, n)]
  OBVIOUS
<1>3. f \in [1..N -> parcels]
  BY <1>2
<1>4. ASSUME NEW j \in 1..N, NEW k \in 1..N, f[j] = f[k]
      PROVE  j = k
  <2>1. Parcel(conn, session, j) = Parcel(conn, session, k)
    BY <1>2, <1>4
  <2>2. \A n \in 1..N : Parcel(conn, session, n).command.seq = n
    BY DEF Parcel, Numbered
  <2> QED BY <2>1, <2>2
<1>5. \A m \in parcels : \E n \in 1..N : f[n] = m
  BY <1>2
<1>6. f \in Bijection(1..N, parcels)
  BY <1>3, <1>4, <1>5 DEF Bijection, Injection, IsInjective, Surjection
<1>7. ExistsBijection(1..N, parcels)
  BY <1>6 DEF ExistsBijection
<1> QED BY <1>1, <1>7, FS_Bijection

\* What a step that reports the end to the client's application does.
ToldAll ==
  event' = [end |-> "client", type |-> "DISCONNECT"] =>
    Len(app["client"].got) =
      Cardinality({m \in net : m.to = "client" /\ m.name = "COMMAND"
                              /\ m.command.name = "SEND_RELIABLE"})

LEMMA TellsTheEnd ==
  ASSUME Sound, Next, event' = [end |-> "client", type |-> "DISCONNECT"]
  PROVE  peer["client"].state = "ZOMBIE" /\ app["client"].status # "closing"
<1>1. event'.end = "client" /\ event'.type = "DISCONNECT"
  OBVIOUS
<1>2. ~Quietly /\ event' # NoEvent
  BY <1>1 DEF Quietly, NoEvent
<1>3. ASSUME NEW e, NEW type, Tell(e, type)
      PROVE  e = "client" /\ type = "DISCONNECT"
  BY <1>1, <1>3 DEF Tell
<1>4. ASSUME NEW e, NEW type, NotifyDisconnect(e, type)
      PROVE  e = "client" /\ type = "DISCONNECT" /\ app["client"].status # "closing"
  BY <1>2, <1>3, <1>4 DEF NotifyDisconnect
<1>5. ASSUME NEW e, NEW m, HandleAcknowledge(e, m)
      PROVE  FALSE
  <2>1. PICK p : p = [peer[e] EXCEPT !.unacked = @ \ {m.command}]
    OBVIOUS
  <2>2. ~Tell(e, "CONNECT")
    BY <1>3
  <2>3. p.state = "DISCONNECTING" /\ NotifyDisconnect(e, "DISCONNECT")
    BY <1>2, <1>5, <2>1, <2>2 DEF HandleAcknowledge
  <2>4. e = "client" /\ app["client"].status # "closing"
    BY <1>4, <2>3
  <2>5. peer["client"].state = "DISCONNECTING"
    <3>1. WholePeer(peer["client"])
      BY SoundEnds DEF EndNumbered
    <3> QED BY <2>1, <2>3, <2>4, <3>1 DEF WholePeer
  <2> QED BY <2>4, <2>5, ClientLeaves
<1>6. ASSUME NEW e, NEW m, Receive(e, m)
      PROVE  FALSE
  <2>1. ~HandleConnect(e, m) /\ ~HandleVerifyConnect(e, m) /\ ~HandleDisconnect(e, m)
        /\ ~HandleSendReliable(e, m)
    BY <1>2, <1>3 DEF HandleConnect, HandleVerifyConnect, HandleDisconnect, HandleSendReliable
  <2> QED BY <1>5, <1>6, <2>1 DEF Receive
<1>7. ASSUME NEW e, CheckTimeouts(e)
      PROVE  FALSE
  BY <1>2, <1>4, <1>7 DEF CheckTimeouts
<1>8. ASSUME NEW e, Dispatch(e)
      PROVE  peer["client"].state = "ZOMBIE" /\ app["client"].status # "closing"
  BY <1>1, <1>3, <1>8 DEF Dispatch, NeedsDispatch
<1> QED BY <1>2, <1>6, <1>7, <1>8
        DEF Next, Service, SendOutgoing, Flush, HostFlush, PeerSend, EventElsewhere, HostConnect,
            DisconnectLater, Disconnect, Destroy

LEMMA EndTold ==
  ASSUME Sound, Next
  PROVE  ToldAll
<1> SUFFICES ASSUME event' = [end |-> "client", type |-> "DISCONNECT"]
             PROVE  Len(app["client"].got) =
                      Cardinality({m \in net : m.to = "client" /\ m.name = "COMMAND"
                                              /\ m.command.name = "SEND_RELIABLE"})
  BY DEF ToldAll
<1>1. peer["client"].state = "ZOMBIE" /\ app["client"].status # "closing"
  BY TellsTheEnd
<1>2. PICK c : c = peer["client"]
  OBVIOUS
<1>3. PICK N \in Nat : Told(N, c, peer["server"], app["client"], phase["client"], net)
  BY <1>2 DEF Sound, ToldInv
<1>4. Len(app["client"].got) = N
  BY <1>1, <1>2, <1>3 DEF Told, Leaves
<1>5. PICK parcels : parcels = {m \in net : IsParcel(m)}
  OBVIOUS
<1>6. \A n \in 1..N : IsParcel(Parcel(c.conn, c.session, n))
  BY DEF IsParcel, Parcel, Numbered
<1>7. parcels = {Parcel(c.conn, c.session, n) : n \in 1..N}
  BY <1>3, <1>5, <1>6 DEF Told, Sends
<1>8. Cardinality(parcels) = N
  BY <1>7, ParcelsCounted
<1>9. parcels = {m \in net : m.to = "client" /\ m.name = "COMMAND"
                            /\ m.command.name = "SEND_RELIABLE"}
  BY <1>5 DEF IsParcel
<1> QED BY <1>4, <1>8, <1>9

-----------------------------------------------------------------------------
(***************************************************************************)
(* Who is kicked reads why: when enet_host_service reports the disconnect  *)
(* to a client, its application has got every packet the server sent on    *)
(* the connection, for enet_peer_disconnect_later waits until all are      *)
(* acknowledged and the client takes no DISCONNECT in a call before the    *)
(* packets that wait are dispatched (enet_protocol_handle_disconnect,      *)
(* enet_protocol_dispatch_incoming_commands).                              *)
(***************************************************************************)
THEOREM AlwaysToldBeforeDisconnect == Spec => ToldBeforeDisconnect
<1>1. Init => Sound
  BY InitIInv, InitStamps, InitNumbered, InitHandshake, InitTold DEF Sound
<1>2. Sound /\ [Next]_vars => Sound'
  <2> SUFFICES ASSUME Sound, [Next]_vars PROVE Sound'
    OBVIOUS
  <2>1. OrderInv'
    BY NextKeepsOrder DEF Sound
  <2>2. IInv' /\ StampInv' /\ Handshake'
    BY NextKeepsHandshake DEF Sound
  <2>3. ToldInv'
    BY <2>2, NextTold, StutterTold
  <2> QED BY <2>1, <2>2, <2>3 DEF Sound
<1>3. Sound /\ [Next]_vars => [ToldAll]_vars
  BY EndTold
<1> QED BY <1>1, <1>2, <1>3, PTL DEF Spec, ToldBeforeDisconnect, ToldAll
=============================================================================
