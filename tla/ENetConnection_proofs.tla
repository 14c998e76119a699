------------------------ MODULE ENetConnection_proofs ------------------------
(***************************************************************************)
(* Proofs about ENetConnection, for any number of connections, sessions    *)
(* and packets: what the server's application is told, and in which order  *)
(* either application gets the packets of the other.  Session IDs come     *)
(* round; that each tells its session from the others that are still about *)
(* is the invariant StampInv, from the assumption IdIsFree of the model.   *)
(***************************************************************************)
EXTENDS ENetConnection, TLAPS, SequenceTheorems, FiniteSetTheorems

\* The states of a connection the application was told of.
Known == {"CONNECTED", "DISCONNECT_LATER", "DISCONNECTING", "ACKNOWLEDGING_DISCONNECT", "ZOMBIE"}
Unknown == {"DISCONNECTED", "ACKNOWLEDGING_CONNECT"}

\* A peer that is down or not confirmed yet has nothing to acknowledge, so no
\* flush makes it a zombie.
SoundPeer(p) ==
  /\ {"state", "conn", "session", "unacked", "acknowledgements"} \subseteq DOMAIN p
  /\ p.state \in Unknown => p.acknowledgements = {}

Shape ==
  /\ DOMAIN peer = Ends /\ DOMAIN app = Ends
  /\ \A e \in Ends : SoundPeer(peer[e]) /\ {"status", "got"} \subseteq DOMAIN app[e]

\* The server's application knows of a connection exactly when its peer has
\* come so far; it never closes one on its own.
ServerKnows ==
  \/ peer["server"].state \in Known /\ app["server"].status = "open"
  \/ peer["server"].state \in Unknown /\ app["server"].status = "none"

IInv == Shape /\ ServerKnows

Paired == event'.end = "server" => (app["server"].status = "open") = (event'.type # "CONNECT")

-----------------------------------------------------------------------------
(***************************************************************************)
(* What a step does to one end.                                            *)
(***************************************************************************)
LEMMA NewPeerState ==
  ASSUME NEW state, NEW conn, NEW session, NEW unacked
  PROVE  SoundPeer(NewPeer(state, conn, session, unacked))
         /\ NewPeer(state, conn, session, unacked).state = state
BY DEF NewPeer, SoundPeer

LEMMA ResetState ==
  ASSUME NEW p
  PROVE  SoundPeer(Reset(p)) /\ Reset(p).state = "DISCONNECTED"
BY NewPeerState DEF Reset

LEMMA SameState ==
  ASSUME NEW p, SoundPeer(p)
  PROVE  /\ SoundPeer(ResetQueues(p)) /\ ResetQueues(p).state = p.state
         /\ SoundPeer(Disconnecting(p)) /\ Disconnecting(p).state = "DISCONNECTING"
         /\ \A c : SoundPeer(Acknowledging(p, c)) /\ Acknowledging(p, c).state = p.state
         /\ SoundPeer(DispatchReliable(p)) /\ DispatchReliable(p).state = p.state
BY DEF SoundPeer, Unknown, ResetQueues, Disconnecting, Acknowledging, DispatchReliable

MovesTo(e, p) == peer' = [peer EXCEPT ![e] = p]

LEMMA MoveSets ==
  ASSUME Shape, NEW e \in Ends, NEW p, MovesTo(e, p)
  PROVE  /\ DOMAIN peer' = Ends /\ peer'[e] = p
         /\ \A f \in Ends \ {e} : peer'[f] = peer[f]
BY DEF Shape, MovesTo

LEMMA TellSets ==
  ASSUME Shape, NEW e \in Ends, NEW type, Tell(e, type)
  PROVE  /\ event'.end = e /\ event'.type = type
         /\ DOMAIN app' = Ends
         /\ \A f \in Ends \ {e} : app'[f] = app[f]
         /\ {"status", "got"} \subseteq DOMAIN app'[e]
         /\ app'[e].status = IF type = "CONNECT" THEN "open" ELSE "none"
BY DEF Shape, Tell, NobodyThere

LEMMA QuietSets ==
  ASSUME Quietly
  PROVE  app' = app /\ event'.end # "server" /\ event'.end # "client"
BY DEF Quietly, NoEvent

-----------------------------------------------------------------------------
(***************************************************************************)
(* The kinds of steps.                                                     *)
(***************************************************************************)
LEMMA ServerQuiet ==
  ASSUME IInv, NEW p, SoundPeer(p), MovesTo("server", p), Quietly,
         \/ p.state \in Known /\ peer["server"].state \in Known
         \/ p.state \in Unknown /\ peer["server"].state \in Unknown
  PROVE  IInv' /\ Paired
<1>1. "server" \in Ends /\ Known \cap Unknown = {}
  BY DEF Ends, Known, Unknown
<1>2. /\ DOMAIN peer' = Ends /\ peer'["server"] = p
      /\ \A f \in Ends \ {"server"} : peer'[f] = peer[f]
  BY <1>1, MoveSets DEF IInv
<1>3. app' = app /\ event'.end # "server"
  BY QuietSets
<1>4. Shape'
  BY <1>2, <1>3 DEF IInv, Shape, SoundPeer
<1>5. ServerKnows'
  BY <1>1, <1>2, <1>3 DEF IInv, ServerKnows
<1> QED BY <1>3, <1>4, <1>5 DEF IInv, Paired

LEMMA ServerTold ==
  ASSUME IInv, NEW p, SoundPeer(p), NEW type, MovesTo("server", p), Tell("server", type),
         \/ type = "CONNECT" /\ p.state \in Known /\ peer["server"].state \in Unknown
         \/ type # "CONNECT" /\ p.state \in Unknown /\ peer["server"].state \in Known
  PROVE  IInv' /\ Paired
<1>1. "server" \in Ends /\ Known \cap Unknown = {}
  BY DEF Ends, Known, Unknown
<1>2. /\ DOMAIN peer' = Ends /\ peer'["server"] = p
      /\ \A f \in Ends \ {"server"} : peer'[f] = peer[f]
  BY <1>1, MoveSets DEF IInv
<1>3. /\ event'.end = "server" /\ event'.type = type
      /\ DOMAIN app' = Ends
      /\ \A f \in Ends \ {"server"} : app'[f] = app[f]
      /\ {"status", "got"} \subseteq DOMAIN app'["server"]
      /\ app'["server"].status = IF type = "CONNECT" THEN "open" ELSE "none"
  BY <1>1, TellSets DEF IInv
<1>4. Shape'
  BY <1>2, <1>3 DEF IInv, Shape, SoundPeer
<1>5. ServerKnows' /\ ((app["server"].status = "open") = (type # "CONNECT"))
  BY <1>1, <1>2, <1>3 DEF IInv, ServerKnows
<1> QED BY <1>3, <1>4, <1>5 DEF IInv, Paired

LEMMA ClientStep ==
  ASSUME IInv, NEW p, SoundPeer(p), MovesTo("client", p), DOMAIN app' = Ends,
         app'["server"] = app["server"], {"status", "got"} \subseteq DOMAIN app'["client"],
         event'.end # "server"
  PROVE  IInv' /\ Paired
<1>1. Ends = {"client", "server"}
  BY DEF Ends
<1>2. /\ DOMAIN peer' = Ends /\ peer'["client"] = p
      /\ \A f \in Ends \ {"client"} : peer'[f] = peer[f]
  BY <1>1, MoveSets DEF IInv
<1>3. Shape' /\ ServerKnows'
  BY <1>1, <1>2 DEF IInv, Shape, ServerKnows, SoundPeer
<1> QED BY <1>3 DEF IInv, Paired

\* The client's end changes and its application is told, or nobody is.
LEMMA ClientMoves ==
  ASSUME IInv, NEW p, SoundPeer(p), MovesTo("client", p),
         Quietly \/ \E type : Tell("client", type)
  PROVE  IInv' /\ Paired
<1>1. "client" \in Ends /\ "server" \in Ends \ {"client"} /\ Shape
  BY DEF Ends, IInv
<1>2. CASE Quietly
  BY <1>1, <1>2, QuietSets, ClientStep DEF Shape
<1>3. ASSUME NEW type, Tell("client", type)
      PROVE  IInv' /\ Paired
  <2>1. /\ event'.end = "client" /\ DOMAIN app' = Ends
        /\ app'["server"] = app["server"]
        /\ {"status", "got"} \subseteq DOMAIN app'["client"]
    BY <1>1, <1>3, TellSets
  <2> QED BY <2>1, ClientStep
<1> QED BY <1>2, <1>3

\* Either end moves and nobody is told.
LEMMA QuietMove ==
  ASSUME IInv, NEW e \in Ends, NEW p, SoundPeer(p), MovesTo(e, p), Quietly,
         \/ p.state = peer[e].state
         \/ p.state \in Known /\ peer[e].state \in Known
         \/ p.state \in Unknown /\ peer[e].state \in Unknown
  PROVE  IInv' /\ Paired
<1>1. CASE e = "client"
  BY <1>1, ClientMoves
<1>2. CASE e = "server"
  BY <1>2, ServerQuiet DEF IInv, ServerKnows
<1> QED BY <1>1, <1>2 DEF Ends

\* Either end moves and its application is told.
LEMMA ToldMove ==
  ASSUME IInv, NEW e \in Ends, NEW p, SoundPeer(p), NEW type, MovesTo(e, p), Tell(e, type),
         e = "server" =>
           \/ type = "CONNECT" /\ p.state \in Known /\ peer[e].state \in Unknown
           \/ type # "CONNECT" /\ p.state \in Unknown /\ peer[e].state \in Known
  PROVE  IInv' /\ Paired
<1>1. CASE e = "client"
  BY <1>1, ClientMoves
<1>2. CASE e = "server"
  BY <1>2, ServerTold
<1> QED BY <1>1, <1>2 DEF Ends

LEMMA Notified ==
  ASSUME IInv, NEW e \in Ends, NEW type, type # "CONNECT", NotifyDisconnect(e, type),
         e = "server" => peer[e].state \in Known
  PROVE  IInv' /\ Paired
<1>0. SoundPeer(peer[e]) /\ (e = "server" => app[e].status # "closing")
  BY DEF IInv, Shape, SoundPeer, ServerKnows
<1>1. CASE app[e].status = "closing"
  <2>1. SoundPeer([peer[e] EXCEPT !.state = "ZOMBIE"]) /\ e = "client"
    BY <1>0, <1>1 DEF SoundPeer, Unknown, Ends
  <2> QED BY <1>1, <2>1, ClientMoves DEF NotifyDisconnect, Become, MovesTo
<1>2. CASE app[e].status # "closing"
  <2>1. SoundPeer(Reset(peer[e])) /\ Reset(peer[e]).state \in Unknown
    BY ResetState DEF Unknown
  <2> QED BY <1>2, <2>1, ToldMove DEF NotifyDisconnect, Become, MovesTo
<1> QED BY <1>1, <1>2

-----------------------------------------------------------------------------
(***************************************************************************)
(* The steps.                                                              *)
(***************************************************************************)
LEMMA ConnectHandled ==
  ASSUME IInv, NEW e \in Ends, NEW m, HandleConnect(e, m)
  PROVE  IInv' /\ Paired
<1> DEFINE p == NewPeer("ACKNOWLEDGING_CONNECT", m.conn, peer[e].session + 1,
                        {Command("VERIFY_CONNECT")})
<1>1. SoundPeer(p) /\ p.state = "ACKNOWLEDGING_CONNECT"
  BY NewPeerState
<1>2. MovesTo(e, p) /\ Quietly /\ peer[e].state = "DISCONNECTED"
  BY DEF HandleConnect, Become, MovesTo
<1> HIDE DEF p
<1> QED BY <1>1, <1>2, QuietMove DEF Unknown

LEMMA VerifyConnectHandled ==
  ASSUME IInv, NEW e \in Ends, NEW m, HandleVerifyConnect(e, m)
  PROVE  IInv' /\ Paired
<1>0. SoundPeer(peer[e])
  BY DEF IInv, Shape, SoundPeer
<1>1. CASE peer[e].state = "CONNECTING"
  <2>1. e = "client"
    BY <1>1 DEF Ends, IInv, ServerKnows, Known, Unknown
  <2>2. PICK p : p = [peer[e] EXCEPT !.state = "CONNECTED", !.session = m.session,
                        !.unacked = {}, !.acknowledgements = {m.command}]
    OBVIOUS
  <2>3. SoundPeer(p)
    BY <1>0, <2>2 DEF SoundPeer, Unknown
  <2>4. MovesTo(e, p) /\ Tell(e, "CONNECT")
    BY <1>1, <2>2 DEF HandleVerifyConnect, Become, MovesTo
  <2> QED BY <2>1, <2>3, <2>4, ToldMove
<1>2. CASE peer[e].state # "CONNECTING"
  <2>1. MovesTo(e, Acknowledging(peer[e], m.command)) /\ Quietly
    BY <1>2 DEF HandleVerifyConnect, Become, MovesTo
  <2> QED BY <1>0, <2>1, SameState, QuietMove
<1> QED BY <1>1, <1>2

LEMMA DisconnectHandled ==
  ASSUME IInv, NEW e \in Ends, NEW m, HandleDisconnect(e, m)
  PROVE  IInv' /\ Paired
<1> DEFINE clear == ResetQueues(peer[e])
<1>0. SoundPeer(peer[e]) /\ SoundPeer(clear) /\ Quietly
  BY SameState DEF HandleDisconnect, IInv, Shape, SoundPeer
<1>1. CASE peer[e].state \in {"DISCONNECTING", "CONNECTING"}
  <2>1. MovesTo(e, [clear EXCEPT !.state = "ZOMBIE"])
    BY <1>1 DEF HandleDisconnect, Become, MovesTo
  <2>2. /\ SoundPeer([clear EXCEPT !.state = "ZOMBIE"])
        /\ [clear EXCEPT !.state = "ZOMBIE"].state = "ZOMBIE"
    BY <1>0 DEF SoundPeer, Unknown
  <2>3. e = "server" => peer[e].state \in Known
    BY <1>1 DEF IInv, ServerKnows, Known, Unknown
  <2>4. CASE e = "client"
    BY <1>0, <2>1, <2>2, <2>4, ClientMoves
  <2>5. CASE e = "server"
    BY <1>0, <2>1, <2>2, <2>3, <2>5, QuietMove DEF Known
  <2> QED BY <2>4, <2>5 DEF Ends
<1>2. CASE peer[e].state = "ACKNOWLEDGING_CONNECT"
  <2>1. MovesTo(e, Reset(clear))
    BY <1>2 DEF HandleDisconnect, Become, MovesTo
  <2> QED BY <1>0, <1>2, <2>1, ResetState, QuietMove DEF Unknown
<1>3. CASE peer[e].state \in {"CONNECTED", "DISCONNECT_LATER"}
  <2>1. PICK p : p = [clear EXCEPT !.state = "ACKNOWLEDGING_DISCONNECT"]
    OBVIOUS
  <2>2. SoundPeer(p) /\ p.state = "ACKNOWLEDGING_DISCONNECT"
    BY <1>0, <2>1 DEF SoundPeer, Unknown
  <2>3. MovesTo(e, Acknowledging(p, m.command))
    BY <1>3, <2>1 DEF HandleDisconnect, Become, MovesTo
  <2> QED BY <1>0, <1>3, <2>2, <2>3, SameState, QuietMove DEF Known
<1>4. CASE peer[e].state \notin {"DISCONNECTING", "CONNECTING", "ACKNOWLEDGING_CONNECT",
                                "CONNECTED", "DISCONNECT_LATER"}
  <2>1. MovesTo(e, Acknowledging(peer[e], m.command))
    BY <1>4 DEF HandleDisconnect, Become, MovesTo
  <2> QED BY <1>0, <2>1, SameState, QuietMove
<1> QED BY <1>1, <1>2, <1>3, <1>4

LEMMA SendReliableHandled ==
  ASSUME IInv, NEW e \in Ends, NEW m, HandleSendReliable(e, m)
  PROVE  IInv' /\ Paired
<1>0. SoundPeer(peer[e])
  BY DEF IInv, Shape, SoundPeer
<1>1. PICK p : p = [peer[e] EXCEPT !.incoming = @ \cup {m.command}]
  OBVIOUS
<1>2. SoundPeer(p) /\ p.state = peer[e].state
  BY <1>0, <1>1 DEF SoundPeer
<1>3. PICK r \in {peer[e], DispatchReliable(p)} :
        MovesTo(e, Acknowledging(r, m.command)) /\ Quietly
  BY <1>1 DEF HandleSendReliable, Become, MovesTo
<1>4. SoundPeer(r) /\ r.state = peer[e].state
  BY <1>0, <1>2, <1>3, SameState
<1> QED BY <1>3, <1>4, SameState, QuietMove

LEMMA AcknowledgeHandled ==
  ASSUME IInv, NEW e \in Ends, NEW m, HandleAcknowledge(e, m)
  PROVE  IInv' /\ Paired
<1>1. PICK p : p = [peer[e] EXCEPT !.unacked = @ \ {m.command}]
  OBVIOUS
<1>2. SoundPeer(peer[e]) /\ SoundPeer(p) /\ p.state = peer[e].state
  BY <1>1 DEF IInv, Shape, SoundPeer
<1>3. CASE p.state = "ACKNOWLEDGING_CONNECT"
  <2>1. PICK r : r = [p EXCEPT !.state = "CONNECTED"]
    OBVIOUS
  <2>2. SoundPeer(r) /\ r.state = "CONNECTED"
    BY <1>2, <2>1 DEF SoundPeer, Unknown
  <2>3. MovesTo(e, r) /\ Tell(e, "CONNECT")
    BY <1>1, <1>3, <2>1 DEF HandleAcknowledge, Become, MovesTo
  <2> QED BY <1>2, <1>3, <2>2, <2>3, ToldMove DEF Known, Unknown
<1>4. CASE p.state = "DISCONNECTING"
  <2>1. NotifyDisconnect(e, "DISCONNECT")
    BY <1>1, <1>4 DEF HandleAcknowledge
  <2> QED BY <1>2, <1>4, <2>1, Notified DEF Known
<1>5. CASE p.state = "DISCONNECT_LATER"
  <2>1. PICK r \in {p, Disconnecting(p)} : MovesTo(e, r) /\ Quietly
    BY <1>1, <1>5 DEF HandleAcknowledge, Become, MovesTo
  <2>2. SoundPeer(r) /\ r.state \in Known
    BY <1>2, <1>5, <2>1, SameState DEF Known
  <2> QED BY <1>2, <1>5, <2>1, <2>2, QuietMove DEF Known
<1>6. CASE p.state \notin {"ACKNOWLEDGING_CONNECT", "DISCONNECTING", "DISCONNECT_LATER"}
  <2>1. MovesTo(e, p) /\ Quietly
    BY <1>1, <1>6 DEF HandleAcknowledge, Become, MovesTo
  <2> QED BY <1>2, <2>1, QuietMove
<1> QED BY <1>3, <1>4, <1>5, <1>6

LEMMA ReceiveStep ==
  ASSUME IInv, NEW e \in Ends, NEW m, Receive(e, m)
  PROVE  IInv' /\ Paired
<1>1. \/ HandleAcknowledge(e, m) \/ HandleConnect(e, m) \/ HandleVerifyConnect(e, m)
      \/ HandleDisconnect(e, m) \/ HandleSendReliable(e, m)
  BY DEF Receive
<1> QED BY <1>1, AcknowledgeHandled, ConnectHandled, VerifyConnectHandled,
           DisconnectHandled, SendReliableHandled

LEMMA DispatchStep ==
  ASSUME IInv, NEW e \in Ends, Dispatch(e)
  PROVE  IInv' /\ Paired
<1>0. SoundPeer(peer[e])
  BY DEF IInv, Shape, SoundPeer
<1>1. CASE peer[e].state = "ZOMBIE"
  <2>1. MovesTo(e, Reset(peer[e])) /\ Tell(e, "DISCONNECT")
    BY <1>1 DEF Dispatch, Become, MovesTo
  <2> QED BY <1>1, <2>1, ResetState, ToldMove DEF Known, Unknown
<1>2. CASE peer[e].state = "CONNECTED"
  <2>1. PICK p : p = [peer[e] EXCEPT !.dispatched = Tail(@)]
    OBVIOUS
  <2>2. SoundPeer(p) /\ p.state = "CONNECTED"
    BY <1>0, <1>2, <2>1 DEF SoundPeer
  <2>3. /\ MovesTo(e, p) /\ event' = [end |-> e, type |-> "RECEIVE"]
        /\ app' = [app EXCEPT ![e].got = Append(@, Head(peer[e].dispatched))]
    BY <1>2, <2>1 DEF Dispatch, Become, MovesTo
  <2>4. /\ DOMAIN app' = Ends
        /\ \A f \in Ends : {"status", "got"} \subseteq DOMAIN app'[f] /\ app'[f].status = app[f].status
    BY <2>3 DEF IInv, Shape
  <2>5. /\ DOMAIN peer' = Ends /\ peer'[e] = p
        /\ \A f \in Ends \ {e} : peer'[f] = peer[f]
    BY <2>3, MoveSets DEF IInv
  <2>6. Shape'
    BY <2>2, <2>4, <2>5 DEF IInv, Shape, SoundPeer
  <2>7. \A f \in Ends : peer'[f].state = peer[f].state
    BY <1>2, <2>2, <2>5
  <2>8. ServerKnows'
    BY <2>4, <2>7 DEF IInv, ServerKnows, Ends
  <2>9. Paired
    <3>1. event'.end = e /\ event'.type = "RECEIVE"
      BY <2>3
    <3>2. e = "server" => app["server"].status = "open"
      BY <1>2 DEF IInv, ServerKnows, Unknown
    <3> QED BY <3>1, <3>2 DEF Paired
  <2> QED BY <2>6, <2>8, <2>9 DEF IInv
<1> QED BY <1>1, <1>2 DEF Dispatch

LEMMA FlushStep ==
  ASSUME IInv, NEW e \in Ends, Flush(e)
  PROVE  IInv' /\ Paired
<1>0. SoundPeer(peer[e]) /\ DOMAIN peer = Ends /\ Quietly
  BY DEF IInv, Shape, Flush
<1>1. PICK s : s = IF Command("DISCONNECT") \in peer[e].acknowledgements
                     THEN "ZOMBIE" ELSE peer[e].state
  OBVIOUS
<1>2. PICK p : p = [peer[e] EXCEPT !.acknowledgements = {}, !.state = s]
  OBVIOUS
<1>3. SoundPeer(p) /\ p.state = s
  BY <1>0, <1>2 DEF SoundPeer
<1>4. MovesTo(e, p)
  BY <1>0, <1>1, <1>2 DEF Flush, MovesTo
<1>5. CASE s = peer[e].state
  BY <1>0, <1>3, <1>4, <1>5, QuietMove
<1>6. CASE s = "ZOMBIE" /\ peer[e].state \notin Unknown
  <2>1. CASE e = "client"
    BY <1>0, <1>3, <1>4, <2>1, ClientMoves
  <2>2. CASE e = "server"
    <3>1. peer[e].state \in Known
      BY <1>6, <2>2 DEF IInv, ServerKnows
    <3> QED BY <1>0, <1>3, <1>4, <1>6, <3>1, QuietMove DEF Known
  <2> QED BY <2>1, <2>2 DEF Ends
<1> QED BY <1>0, <1>1, <1>5, <1>6 DEF SoundPeer

LEMMA TimeoutStep ==
  ASSUME IInv, NEW e \in Ends, CheckTimeouts(e)
  PROVE  IInv' /\ Paired
<1>1. CASE peer[e].state = "ACKNOWLEDGING_CONNECT"
  <2>1. MovesTo(e, Reset(peer[e])) /\ Quietly
    BY <1>1 DEF CheckTimeouts, Become, MovesTo
  <2> QED BY <1>1, <2>1, ResetState, QuietMove DEF Unknown
<1>2. CASE peer[e].state \in {"CONNECTING", "CONNECTED", "DISCONNECT_LATER", "DISCONNECTING"}
  <2>1. NotifyDisconnect(e, "DISCONNECT_TIMEOUT")
    BY <1>2 DEF CheckTimeouts
  <2>2. e = "server" => peer[e].state \in Known
    BY <1>2 DEF IInv, ServerKnows, Known, Unknown
  <2> QED BY <2>1, <2>2, Notified
<1> QED BY <1>1, <1>2 DEF CheckTimeouts

LEMMA SendStep ==
  ASSUME IInv, NEW e \in Ends, PeerSend(e)
  PROVE  IInv' /\ Paired
<1>0. SoundPeer(peer[e]) /\ peer[e].state = "CONNECTED"
  BY DEF IInv, Shape, PeerSend
<1>1. PICK p : p = [peer[e] EXCEPT !.sent = @ + 1]
  OBVIOUS
<1>2. PICK r : r = [p EXCEPT !.unacked = @ \cup {Packet(p, p.sent)}]
  OBVIOUS
<1>3. SoundPeer(r) /\ r.state = peer[e].state
  BY <1>0, <1>1, <1>2 DEF SoundPeer, Unknown
<1>4. MovesTo(e, r) /\ Quietly
  BY <1>1, <1>2 DEF PeerSend, Become, MovesTo
<1> QED BY <1>3, <1>4, QuietMove

LEMMA DisconnectLaterStep ==
  ASSUME IInv, DisconnectLater
  PROVE  IInv' /\ Paired
<1>0. "server" \in Ends /\ SoundPeer(peer["server"]) /\ peer["server"].state = "CONNECTED"
  BY DEF IInv, Shape, DisconnectLater, Ends
<1>1. PICK p : p = [peer["server"] EXCEPT !.state = "DISCONNECT_LATER"]
  OBVIOUS
<1>2. SoundPeer(p) /\ p.state = "DISCONNECT_LATER"
  BY <1>0, <1>1 DEF SoundPeer, Unknown
<1>3. PICK r \in {p, Disconnecting(peer["server"])} : MovesTo("server", r) /\ Quietly
  BY <1>1 DEF DisconnectLater, Become, MovesTo
<1>4. SoundPeer(r) /\ r.state \in Known
  BY <1>0, <1>2, <1>3, SameState DEF Known
<1> QED BY <1>0, <1>3, <1>4, QuietMove DEF Known

LEMMA ClientCalls ==
  ASSUME IInv, HostConnect \/ Disconnect \/ Destroy
  PROVE  IInv' /\ Paired
<1>0. "client" \in Ends /\ "server" \in Ends \ {"client"} /\ SoundPeer(peer["client"])
  BY DEF IInv, Shape, Ends
<1>1. PICK n : n = NewPeer("CONNECTING", peer["client"].conn + 1, NoSession, {Command("CONNECT")})
  OBVIOUS
<1>2. PICK p \in {n, peer["client"], Disconnecting(peer["client"]), Reset(peer["client"])} :
        MovesTo("client", p)
  BY <1>0, <1>1 DEF HostConnect, Disconnect, Destroy, Become, MovesTo
<1>3. SoundPeer(p)
  <2>1. SoundPeer(n)
    BY <1>1, NewPeerState
  <2>2. SoundPeer(Disconnecting(peer["client"]))
    BY <1>0, SameState
  <2>3. SoundPeer(Reset(peer["client"]))
    BY ResetState
  <2> QED BY <1>0, <1>2, <2>1, <2>2, <2>3
<1>4. /\ DOMAIN app' = Ends /\ app'["server"] = app["server"]
      /\ {"status", "got"} \subseteq DOMAIN app'["client"]
  <2>1. CASE HostConnect
    BY <1>0, <2>1 DEF HostConnect, IInv, Shape
  <2>2. CASE Disconnect
    BY <1>0, <2>2 DEF Disconnect, IInv, Shape
  <2>3. CASE Destroy
    BY <1>0, <2>3 DEF Destroy, NobodyThere, IInv, Shape
  <2> QED BY <1>0, <2>1, <2>2, <2>3
<1>5. event'.end # "server"
  BY <1>0 DEF HostConnect, Disconnect, Destroy, NoEvent
<1> QED BY <1>2, <1>3, <1>4, <1>5, ClientStep

LEMMA NextPreserves ==
  ASSUME IInv, Next
  PROVE  IInv' /\ Paired
<1>1. ASSUME NEW e \in Ends, SendOutgoing(e)
      PROVE  IInv' /\ Paired
  BY <1>1, FlushStep DEF SendOutgoing
<1>2. ASSUME HostFlush
      PROVE  IInv' /\ Paired
  BY <1>2, FlushStep DEF HostFlush, Ends
<1>3. ASSUME EventElsewhere
      PROVE  IInv' /\ Paired
  BY <1>3, QuietSets DEF EventElsewhere, IInv, Shape, ServerKnows, Paired
<1> QED BY <1>1, <1>2, <1>3, DispatchStep, ReceiveStep, TimeoutStep, SendStep,
           DisconnectLaterStep, ClientCalls DEF Next, Service

LEMMA InitIInv == Init => IInv
<1>1. "server" \in Ends
  BY DEF Ends
<1> QED BY <1>1, NewPeerState
        DEF Init, IInv, Shape, ServerKnows, NobodyThere, NewPeer, SoundPeer, Unknown

-----------------------------------------------------------------------------
(***************************************************************************)
(* The server, which makes a Client for every CONNECT and looks one up for *)
(* every other event (run of ynetserver.cpp), is told of a connection      *)
(* exactly once, then of its packets, then of its end exactly once,        *)
(* whatever the network does and however the clients come and go.          *)
(***************************************************************************)
THEOREM EventsAlwaysPaired == Spec => EventsPaired
<1>1. Init => IInv
  BY InitIInv
<1>2. IInv /\ [Next]_vars => IInv'
  <2> SUFFICES ASSUME IInv, [Next]_vars PROVE IInv'
    OBVIOUS
  <2>1. CASE Next
    BY <2>1, NextPreserves
  <2>2. CASE UNCHANGED vars
    BY <2>2 DEF vars, IInv, Shape, ServerKnows
  <2> QED BY <2>1, <2>2
<1>3. IInv /\ [Next]_vars => [Paired]_vars
  BY NextPreserves
<1> QED BY <1>1, <1>2, <1>3, PTL DEF Spec, EventsPaired, Paired

-----------------------------------------------------------------------------
(***************************************************************************)
(* The sessions.  The server's peer counts them, the others have theirs    *)
(* from it, and those of one address that are still about are fewer than   *)
(* the IDs: the ID in a header tells which session is meant.               *)
(***************************************************************************)
StampInv ==
  /\ peer["server"].session \in Int /\ NoSession <= peer["server"].session
  /\ \A x \in Bearers : x.session \in NoSession .. peer["server"].session
  /\ \A x, y \in Bearers :
       x.conn = y.conn /\ x.session # NoSession => y.session < x.session + SessionIds

LEMMA Quotient ==
  ASSUME NEW K \in Nat \ {0}, NEW s \in Int
  PROVE  \E a \in Int : s = (K * a) + (s % K)
<1>1. PICK a \in Int : a = s \div K
  OBVIOUS
<1>2. s = (K * a) + (s % K)
  BY <1>1
<1> QED BY <1>2

\* Numbers that are less than K apart and have the same remainder are the same.
LEMMA SameRemainder ==
  ASSUME NEW K \in Nat \ {0}, NEW s \in Int, NEW t \in Int, s % K = t % K, s < t + K, t < s + K
  PROVE  s = t
<1>a. PICK a \in Int : s = (K * a) + (s % K)
  BY Quotient
<1>b. PICK b \in Int : t = (K * b) + (t % K)
  BY Quotient
<1>2. s % K \in Int
  OBVIOUS
<1>3. s - t = K * (a - b) /\ K * (a - b) < K /\ -K < K * (a - b)
  BY <1>a, <1>b, <1>2
<1>4. a - b \in Int
  OBVIOUS
<1>5. a - b < 1 /\ a - b > -1
  BY <1>3, <1>4
<1>6. a - b = 0
  BY <1>4, <1>5
<1> QED BY <1>3, <1>6

LEMMA IdsTell ==
  ASSUME StampInv, NEW x \in Bearers, NEW y \in Bearers, x.conn = y.conn,
         SameId(x.session, y.session)
  PROVE  x.session = y.session
<1>1. SessionIds \in Nat \ {0}
  BY ConnectionAssumption
<1>2. PICK s \in Int, t \in Int : s = x.session /\ t = y.session
  BY DEF StampInv, NoSession
<1>3. s < t + SessionIds /\ t < s + SessionIds /\ s % SessionIds = t % SessionIds
  BY <1>2 DEF StampInv, SameId
<1> QED BY <1>1, <1>2, <1>3, SameRemainder

\* What an end takes for its own is of its session.
LEMMA AcceptedSession ==
  ASSUME StampInv, NEW e \in Ends, NEW m \in net, Accepts(e, m),
         peer[e].state # "CONNECTING",
         ~(m.name = "COMMAND" /\ m.command.name = "CONNECT")
  PROVE  m.to = e /\ m.conn = peer[e].conn /\ m.session = peer[e].session
<1>1. m \in Bearers /\ peer[e] \in Bearers
  BY DEF Bearers
<1> QED BY <1>1, IdsTell DEF Accepts

SameStamp(x, y) == x.conn = y.conn /\ x.session = y.session

\* No session begins.
LEMMA StampsKept ==
  ASSUME StampInv, peer'["server"].session = peer["server"].session,
         \A y \in Bearers' : y.session = NoSession \/ \E x \in Bearers : SameStamp(x, y)
  PROVE  StampInv'
<1>1. SessionIds \in Nat \ {0} /\ NoSession \in Int
  BY ConnectionAssumption DEF NoSession
<1>2. ASSUME NEW y \in Bearers'
      PROVE  y.session \in NoSession .. peer["server"].session
  <2>1. CASE y.session = NoSession
    BY <1>1, <2>1 DEF StampInv
  <2>2. ASSUME NEW x \in Bearers, SameStamp(x, y)
        PROVE  y.session \in NoSession .. peer["server"].session
    BY <2>2 DEF StampInv, SameStamp
  <2> QED BY <2>1, <2>2
<1>3. ASSUME NEW x \in Bearers', NEW y \in Bearers', x.conn = y.conn, x.session # NoSession
      PROVE  y.session < x.session + SessionIds
  <2>1. PICK u \in Bearers : SameStamp(u, x)
    BY <1>3
  <2>2. CASE y.session = NoSession
    BY <1>1, <1>2, <1>3, <2>2 DEF StampInv
  <2>3. ASSUME NEW v \in Bearers, SameStamp(v, y)
        PROVE  y.session < x.session + SessionIds
    BY <1>3, <2>1, <2>3 DEF StampInv, SameStamp
  <2> QED BY <2>2, <2>3
<1> QED BY <1>2, <1>3 DEF StampInv

\* What an end sends has the stamp of its peer.
LEMMA MoveBearers ==
  ASSUME Shape, NEW e \in Ends, NEW q, MovesTo(e, q),
         net' \subseteq net \cup Wire(e, q) \cup AckWire(e, peer[e]), NEW y \in Bearers'
  PROVE  SameStamp(q, y) \/ \E x \in Bearers : SameStamp(x, y)
<1>1. peer'[e] = q /\ \A f \in Ends \ {e} : peer'[f] = peer[f]
  BY MoveSets
<1>2. CASE y \in net'
  <2>1. CASE y \in net
    BY <2>1 DEF Bearers, SameStamp
  <2>2. CASE y \in Wire(e, q)
    BY <2>2 DEF Wire, SameStamp
  <2>3. CASE y \in AckWire(e, peer[e])
    <3>1. SameStamp(peer[e], y) /\ peer[e] \in Bearers
      BY <2>3 DEF AckWire, SameStamp, Bearers
    <3> QED BY <3>1
  <2> QED BY <1>2, <2>1, <2>2, <2>3
<1>3. ASSUME NEW f \in Ends, y = peer'[f]
      PROVE  SameStamp(q, y) \/ \E x \in Bearers : SameStamp(x, y)
  <2>1. CASE f = e
    BY <1>1, <1>3, <2>1 DEF SameStamp
  <2>2. CASE f # e
    <3>1. y = peer[f] /\ peer[f] \in Bearers
      BY <1>1, <1>3, <2>2 DEF Bearers
    <3> QED BY <3>1 DEF SameStamp
  <2> QED BY <2>1, <2>2
<1> QED BY <1>2, <1>3 DEF Bearers

\* A peer goes on with the session it had.
Keeps(p, q) == {"conn", "session"} \subseteq DOMAIN q /\ SameStamp(p, q)

LEMMA KeepsStamp ==
  ASSUME NEW p, NEW q, Keeps(p, q)
  PROVE  /\ Keeps(p, Reset(q)) /\ Keeps(p, ResetQueues(q)) /\ Keeps(p, Disconnecting(q))
         /\ Keeps(p, DispatchReliable(q)) /\ \A c : Keeps(p, Acknowledging(q, c))
<1>1. Keeps(p, Reset(q))
  BY DEF Keeps, SameStamp, Reset, NewPeer
<1>2. Keeps(p, ResetQueues(q)) /\ Keeps(p, Disconnecting(q))
  BY DEF Keeps, SameStamp, ResetQueues, Disconnecting
<1>3. Keeps(p, DispatchReliable(q))
  BY DEF Keeps, SameStamp, DispatchReliable
<1>4. \A c : Keeps(p, Acknowledging(q, c))
  BY DEF Keeps, SameStamp, Acknowledging
<1> QED BY <1>1, <1>2, <1>3, <1>4

LEMMA KeepsOwn ==
  ASSUME IInv, NEW e \in Ends
  PROVE  Keeps(peer[e], peer[e])
BY DEF IInv, Shape, SoundPeer, Keeps, SameStamp

LEMMA ContinuesStamps ==
  ASSUME IInv, StampInv, NEW e \in Ends, NEW q, MovesTo(e, q), Keeps(peer[e], q),
         net' \subseteq net \cup Wire(e, q) \cup AckWire(e, peer[e])
  PROVE  StampInv'
<1>1. "server" \in Ends /\ peer'[e] = q /\ \A f \in Ends \ {e} : peer'[f] = peer[f]
  BY MoveSets DEF IInv, Ends
<1>2. peer'["server"].session = peer["server"].session
  BY <1>1 DEF Keeps, SameStamp
<1>3. ASSUME NEW y \in Bearers'
      PROVE  \E x \in Bearers : SameStamp(x, y)
  <2>1. SameStamp(q, y) \/ \E x \in Bearers : SameStamp(x, y)
    BY MoveBearers DEF IInv
  <2>2. peer[e] \in Bearers /\ SameStamp(peer[e], q)
    BY DEF Bearers, Keeps
  <2> QED BY <2>1, <2>2 DEF SameStamp
<1> QED BY <1>2, <1>3, StampsKept

LEMMA BecomeStamps ==
  ASSUME IInv, StampInv, NEW e \in Ends, NEW q, Become(e, q), Keeps(peer[e], q)
  PROVE  StampInv'
<1>1. MovesTo(e, q) /\ net' \subseteq net \cup Wire(e, q) \cup AckWire(e, peer[e])
  BY DEF Become, MovesTo, Transmit
<1> QED BY <1>1, ContinuesStamps

LEMMA BecomeBearers ==
  ASSUME IInv, NEW e \in Ends, NEW q, Become(e, q), NEW y \in Bearers'
  PROVE  SameStamp(q, y) \/ \E x \in Bearers : SameStamp(x, y)
<1>1. MovesTo(e, q) /\ net' \subseteq net \cup Wire(e, q) \cup AckWire(e, peer[e])
  BY DEF Become, MovesTo, Transmit
<1> QED BY <1>1, MoveBearers DEF IInv

LEMMA NotifiedStamps ==
  ASSUME IInv, StampInv, NEW e \in Ends, NEW type, NotifyDisconnect(e, type)
  PROVE  StampInv'
<1>1. PICK p : p = peer[e]
  OBVIOUS
<1>2. Keeps(p, p) /\ Keeps(p, Reset(p))
  BY <1>1, KeepsOwn, KeepsStamp
<1>3. PICK z : z = [p EXCEPT !.state = "ZOMBIE"]
  OBVIOUS
<1>4. Keeps(p, z)
  BY <1>2, <1>3 DEF Keeps, SameStamp
<1>5. Become(e, z) \/ Become(e, Reset(p))
  BY <1>1, <1>3 DEF NotifyDisconnect
<1> QED BY <1>1, <1>2, <1>4, <1>5, BecomeStamps

\* The server's next session: nothing is left of one with its ID.
LEMMA ConnectStamps ==
  ASSUME IInv, StampInv, NEW e \in Ends, NEW m, HandleConnect(e, m)
  PROVE  StampInv'
<1>1. PICK t \in Int : t = peer["server"].session + 1 /\ t > NoSession
  BY DEF StampInv, NoSession
<1>2. PICK q : q = NewPeer("ACKNOWLEDGING_CONNECT", m.conn, t, {Command("VERIFY_CONNECT")})
  OBVIOUS
<1>3. q.conn = m.conn /\ q.session = t
  BY <1>2 DEF NewPeer
<1>4. e = "server" /\ Become(e, q) /\ IdIsFree(m.conn, t)
  BY <1>1, <1>2 DEF HandleConnect
<1>5. peer'["server"] = q
  BY <1>4, MoveSets DEF IInv, Become, MovesTo
<1>6. ASSUME NEW y \in Bearers'
      PROVE  SameStamp(q, y) \/ \E x \in Bearers : SameStamp(x, y)
  BY <1>4, BecomeBearers
<1>7. SessionIds \in Nat \ {0} /\ NoSession \in Int
  BY ConnectionAssumption DEF NoSession
<1>8. \A x \in Bearers : x.session \in Int /\ NoSession <= x.session /\ x.session < t
  BY <1>1, <1>7 DEF StampInv
<1>9. \A y \in Bearers' : y.session \in NoSession .. t
  BY <1>1, <1>3, <1>6, <1>7, <1>8 DEF SameStamp
<1>10. ASSUME NEW x \in Bearers', NEW y \in Bearers', x.conn = y.conn, x.session # NoSession
       PROVE  y.session < x.session + SessionIds
  <2>1. CASE SameStamp(q, x)
    BY <1>3, <1>7, <1>9, <2>1 DEF SameStamp
  <2>2. ASSUME NEW u \in Bearers, SameStamp(u, x), SameStamp(q, y)
        PROVE  y.session < x.session + SessionIds
    BY <1>3, <1>4, <1>10, <2>2 DEF SameStamp, IdIsFree
  <2>3. ASSUME NEW u \in Bearers, SameStamp(u, x), NEW v \in Bearers, SameStamp(v, y)
        PROVE  y.session < x.session + SessionIds
    BY <1>10, <2>3 DEF StampInv, SameStamp
  <2> QED BY <1>6, <2>1, <2>2, <2>3
<1>11. t \in Int /\ NoSession <= t
  BY <1>1, <1>7
<1> QED BY <1>3, <1>5, <1>9, <1>10, <1>11 DEF StampInv

\* The client takes its session from what it received.
LEMMA VerifyConnectStamps ==
  ASSUME IInv, StampInv, NEW e \in Ends, NEW m \in net, Accepts(e, m), m.name = "COMMAND",
         m.command.name = "VERIFY_CONNECT", HandleVerifyConnect(e, m)
  PROVE  StampInv'
<1>0. SoundPeer(peer[e])
  BY DEF IInv, Shape
<1>1. CASE peer[e].state # "CONNECTING"
  <2>1. Become(e, Acknowledging(peer[e], m.command))
    BY <1>1 DEF HandleVerifyConnect
  <2> QED BY <2>1, KeepsOwn, KeepsStamp, BecomeStamps
<1>2. CASE peer[e].state = "CONNECTING"
  <2>1. e = "client" /\ "server" \in Ends
    BY <1>2 DEF Ends, IInv, ServerKnows, Known, Unknown
  <2>2. PICK q : q = [peer[e] EXCEPT !.state = "CONNECTED", !.session = m.session,
                        !.unacked = {}, !.acknowledgements = {m.command}]
    OBVIOUS
  <2>3. Become(e, q)
    BY <1>2, <2>2 DEF HandleVerifyConnect
  <2>4. SameStamp(m, q) /\ m \in Bearers
    BY <1>0, <2>2 DEF Accepts, SoundPeer, SameStamp, Bearers
  <2>5. peer'["server"] = peer["server"]
    BY <2>1, <2>3, MoveSets DEF IInv, Become, MovesTo
  <2>6. ASSUME NEW y \in Bearers'
        PROVE  SameStamp(q, y) \/ \E x \in Bearers : SameStamp(x, y)
    BY <2>3, BecomeBearers
  <2>7. \A y \in Bearers' : \E x \in Bearers : SameStamp(x, y)
    BY <2>4, <2>6 DEF SameStamp
  <2> QED BY <2>5, <2>7, StampsKept
<1> QED BY <1>1, <1>2

LEMMA HostConnectStamps ==
  ASSUME IInv, StampInv, HostConnect
  PROVE  StampInv'
<1>1. PICK q : q = NewPeer("CONNECTING", peer["client"].conn + 1, NoSession, {Command("CONNECT")})
  OBVIOUS
<1>2. "client" \in Ends /\ "server" \in Ends /\ Become("client", q) /\ q.session = NoSession
  BY <1>1 DEF HostConnect, Ends, NewPeer
<1>3. peer'["server"] = peer["server"]
  BY <1>2, MoveSets DEF IInv, Become, MovesTo
<1>4. ASSUME NEW y \in Bearers'
      PROVE  SameStamp(q, y) \/ \E x \in Bearers : SameStamp(x, y)
  BY <1>2, BecomeBearers
<1>5. \A y \in Bearers' : y.session = NoSession \/ \E x \in Bearers : SameStamp(x, y)
  BY <1>2, <1>4 DEF SameStamp
<1> QED BY <1>3, <1>5, StampsKept

LEMMA ReceiveStamps ==
  ASSUME IInv, StampInv, NEW e \in Ends, NEW m \in net, Receive(e, m)
  PROVE  StampInv'
<1>1. PICK p : p = peer[e]
  OBVIOUS
<1>2. Keeps(p, p) /\ Keeps(p, ResetQueues(p))
  BY <1>1, KeepsOwn, KeepsStamp
<1>3. ASSUME HandleDisconnect(e, m)
      PROVE  StampInv'
  <2>1. PICK q : q = ResetQueues(p)
    OBVIOUS
  <2>2. PICK r : r = [q EXCEPT !.state = "ACKNOWLEDGING_DISCONNECT"]
    OBVIOUS
  <2>z. PICK z : z = [q EXCEPT !.state = "ZOMBIE"]
    OBVIOUS
  <2>3. \/ Become(e, z) \/ Become(e, Reset(q))
        \/ Become(e, Acknowledging(r, m.command)) \/ Become(e, Acknowledging(p, m.command))
    BY <1>1, <1>3, <2>1, <2>2, <2>z DEF HandleDisconnect
  <2>4. Keeps(p, q)
    BY <1>2, <2>1
  <2>5. Keeps(p, r) /\ Keeps(p, z)
    BY <2>2, <2>4, <2>z DEF Keeps, SameStamp
  <2>6. /\ Keeps(p, Reset(q)) /\ Keeps(p, Acknowledging(r, m.command))
        /\ Keeps(p, Acknowledging(p, m.command))
    BY <1>2, <2>4, <2>5, KeepsStamp
  <2> QED BY <1>1, <2>3, <2>5, <2>6, BecomeStamps
<1>4. ASSUME HandleSendReliable(e, m)
      PROVE  StampInv'
  <2>1. PICK q : q = [p EXCEPT !.incoming = @ \cup {m.command}]
    OBVIOUS
  <2>2. PICK r \in {p, DispatchReliable(q)} : Become(e, Acknowledging(r, m.command))
    BY <1>1, <1>4, <2>1 DEF HandleSendReliable
  <2>3. Keeps(p, q)
    BY <1>2, <2>1 DEF Keeps, SameStamp
  <2>4. Keeps(p, r)
    BY <1>2, <2>2, <2>3, KeepsStamp
  <2>5. Keeps(p, Acknowledging(r, m.command))
    BY <2>4, KeepsStamp
  <2> QED BY <1>1, <2>2, <2>5, BecomeStamps
<1>5. ASSUME HandleAcknowledge(e, m)
      PROVE  StampInv'
  <2>1. PICK q : q = [p EXCEPT !.unacked = @ \ {m.command}]
    OBVIOUS
  <2>z. PICK z : z = [q EXCEPT !.state = "CONNECTED"]
    OBVIOUS
  <2>2. \/ Become(e, q) \/ Become(e, z) \/ Become(e, Disconnecting(q))
        \/ NotifyDisconnect(e, "DISCONNECT")
    BY <1>1, <1>5, <2>1, <2>z DEF HandleAcknowledge
  <2>3. Keeps(p, q)
    BY <1>2, <2>1 DEF Keeps, SameStamp
  <2>4. Keeps(p, z) /\ Keeps(p, Disconnecting(q))
    BY <2>3, <2>z, KeepsStamp DEF Keeps, SameStamp
  <2> QED BY <1>1, <2>2, <2>3, <2>4, BecomeStamps, NotifiedStamps
<1>6. \/ HandleAcknowledge(e, m) \/ HandleConnect(e, m) \/ HandleDisconnect(e, m)
      \/ HandleSendReliable(e, m)
      \/ /\ Accepts(e, m) /\ m.name = "COMMAND" /\ m.command.name = "VERIFY_CONNECT"
         /\ HandleVerifyConnect(e, m)
  BY DEF Receive
<1> QED BY <1>3, <1>4, <1>5, <1>6, ConnectStamps, VerifyConnectStamps

LEMMA FlushStamps ==
  ASSUME IInv, StampInv, NEW e \in Ends, Flush(e)
  PROVE  StampInv'
<1>1. PICK p : p = peer[e]
  OBVIOUS
<1>2. PICK s : s = IF Command("DISCONNECT") \in p.acknowledgements THEN "ZOMBIE" ELSE p.state
  OBVIOUS
<1>3. PICK q : q = [p EXCEPT !.acknowledgements = {}, !.state = s]
  OBVIOUS
<1>4. MovesTo(e, q)
  BY <1>1, <1>2, <1>3 DEF Flush, MovesTo, IInv, Shape
<1>5. Keeps(p, q)
  BY <1>1, <1>3, KeepsOwn DEF Keeps, SameStamp
<1>6. net' \subseteq net \cup Wire(e, q) \cup AckWire(e, p)
  BY <1>1 DEF Flush, Transmit
<1> QED BY <1>1, <1>4, <1>5, <1>6, ContinuesStamps

\* What the applications call, and the timeouts.
LEMMA CallStamps ==
  ASSUME IInv, StampInv, NEW e \in Ends,
         Dispatch(e) \/ CheckTimeouts(e) \/ PeerSend(e) \/ DisconnectLater \/ Disconnect \/ Destroy
  PROVE  StampInv'
<1>1. \A f \in Ends : Keeps(peer[f], peer[f])
  BY KeepsOwn
<1>2. \A f \in Ends : Keeps(peer[f], Reset(peer[f])) /\ Keeps(peer[f], Disconnecting(peer[f]))
  BY <1>1, KeepsStamp
<1>3. CASE Dispatch(e)
  <2>1. PICK q : q = [peer[e] EXCEPT !.dispatched = Tail(@)]
    OBVIOUS
  <2>2. Become(e, Reset(peer[e])) \/ Become(e, q)
    BY <1>3, <2>1 DEF Dispatch
  <2>3. Keeps(peer[e], q)
    BY <1>1, <2>1 DEF Keeps, SameStamp
  <2> QED BY <1>2, <2>2, <2>3, BecomeStamps
<1>4. CASE CheckTimeouts(e)
  BY <1>2, <1>4, BecomeStamps, NotifiedStamps DEF CheckTimeouts
<1>5. CASE PeerSend(e)
  <2>1. PICK p : p = [peer[e] EXCEPT !.sent = @ + 1]
    OBVIOUS
  <2>2. PICK q : q = [p EXCEPT !.unacked = @ \cup {Packet(p, p.sent)}]
    OBVIOUS
  <2>3. Keeps(peer[e], p)
    BY <1>1, <2>1 DEF Keeps, SameStamp
  <2>4. Keeps(peer[e], q)
    BY <2>2, <2>3 DEF Keeps, SameStamp
  <2>5. Become(e, q)
    BY <1>5, <2>1, <2>2 DEF PeerSend
  <2> QED BY <2>4, <2>5, BecomeStamps
<1>6. CASE DisconnectLater
  <2>1. "server" \in Ends
    BY DEF Ends
  <2>2. PICK q : q = [peer["server"] EXCEPT !.state = "DISCONNECT_LATER"]
    OBVIOUS
  <2>3. Become("server", q) \/ Become("server", Disconnecting(peer["server"]))
    BY <1>6, <2>2 DEF DisconnectLater
  <2>4. Keeps(peer["server"], q)
    BY <1>1, <2>1, <2>2 DEF Keeps, SameStamp
  <2> QED BY <1>2, <2>1, <2>3, <2>4, BecomeStamps
<1>7. CASE Disconnect \/ Destroy
  <2>1. "client" \in Ends
    BY DEF Ends
  <2>2. \E q \in {peer["client"], Disconnecting(peer["client"]), Reset(peer["client"])} :
          Become("client", q)
    BY <1>7 DEF Disconnect, Destroy
  <2> QED BY <1>1, <1>2, <2>1, <2>2, BecomeStamps
<1> QED BY <1>3, <1>4, <1>5, <1>6, <1>7

LEMMA NextKeepsStamps ==
  ASSUME IInv, StampInv, [Next]_vars
  PROVE  StampInv'
<1>1. ASSUME NEW e \in Ends, SendOutgoing(e)
      PROVE  StampInv'
  BY <1>1, FlushStamps DEF SendOutgoing
<1>2. ASSUME HostFlush
      PROVE  StampInv'
  BY <1>2, FlushStamps DEF HostFlush, Ends
<1>3. ASSUME EventElsewhere \/ UNCHANGED vars
      PROVE  StampInv'
  <2>1. peer' = peer /\ net' = net
    BY <1>3 DEF EventElsewhere, vars
  <2> QED BY <2>1 DEF StampInv, Bearers
<1>4. "client" \in Ends
  BY DEF Ends
<1> QED BY <1>1, <1>2, <1>3, <1>4, CallStamps, ReceiveStamps, HostConnectStamps DEF Next, Service

LEMMA InitStamps == Init => StampInv
<1> SUFFICES ASSUME Init PROVE StampInv
  OBVIOUS
<1>1. SessionIds \in Nat \ {0} /\ NoSession \in Int /\ "server" \in Ends
  BY ConnectionAssumption DEF NoSession, Ends
<1>2. \A e \in Ends : peer[e].session = NoSession
  BY DEF Init, NewPeer
<1>3. \A x \in Bearers : x.session = NoSession
  BY <1>2 DEF Init, Bearers
<1> QED BY <1>1, <1>2, <1>3 DEF StampInv

-----------------------------------------------------------------------------
(***************************************************************************)
(* The order of the packets.  What an end sends is numbered; what it       *)
(* receives is, up to a number, got or waiting, and beyond it, early.      *)
(***************************************************************************)
\* What the packet number n of a connection carries.
Datum(conn, session, n) == <<conn, session, n>>

\* The packet number n of a connection.
Numbered(conn, session, n) ==
  [name |-> "SEND_RELIABLE", seq |-> n, data |-> Datum(conn, session, n)]

IsPacket(c, conn, session) == c.seq \in Nat \ {0} /\ c = Numbered(conn, session, c.seq)

\* What count packets after number from carry.
Numbers(conn, session, from, count) == [i \in 1..count |-> Datum(conn, session, from + i)]

\* Packets of one connection that have not been moved on yet.
Early(incoming, conn, session, received) ==
  /\ IsFiniteSet(incoming)
  /\ \A c \in incoming : IsPacket(c, conn, session) /\ c.seq > received

\* Those moved on that the application has not got yet: the last ones.
Waiting(dispatched, conn, session, received) ==
  \E k \in 0..received : dispatched = Numbers(conn, session, received - k, k)

\* Every field is there.
WholePeer(p) ==
  {"state", "conn", "session", "unacked", "acknowledgements", "sent", "received",
   "incoming", "dispatched"} \subseteq DOMAIN p

\* What an end sends are packets of its connection, numbered from 1.
SendsNumbered(p) ==
  /\ p.sent \in Nat
  /\ \A c \in p.unacked : c.name = "SEND_RELIABLE" => IsPacket(c, p.conn, p.session)

\* What an end received up to a number and has not handed over yet are the
\* last packets up to it; what came early has greater numbers.
QueuesNumbered(p) ==
  /\ p.received \in Nat
  /\ Early(p.incoming, p.conn, p.session, p.received)
  /\ Waiting(p.dispatched, p.conn, p.session, p.received)
  /\ p.state \in {"CONNECTING", "ACKNOWLEDGING_CONNECT"} =>
       p.received = 0 /\ p.incoming = {} /\ p.dispatched = << >>

\* What the application got are the first packets, and while more are handed
\* over, the next ones are those that wait.
GotNumbered(p, a) ==
  a.status = "open" =>
    /\ a.conn = p.conn
    /\ Len(a.got) \in Nat /\ a.got = Numbers(p.conn, p.session, 0, Len(a.got))
    /\ p.state = "CONNECTED" =>
         /\ Len(a.got) <= p.received
         /\ p.dispatched = Numbers(p.conn, p.session, Len(a.got), p.received - Len(a.got))

\* What is known of an end and its application.
EndNumbered(p, a) ==
  WholePeer(p) /\ {"status", "conn", "got"} \subseteq DOMAIN a
  /\ SendsNumbered(p) /\ QueuesNumbered(p) /\ GotNumbered(p, a)

\* Every packet on the wire is the one its number says, of its connection.
NetNumbered ==
  \A m \in net : m.name = "COMMAND" /\ m.command.name = "SEND_RELIABLE" =>
    IsPacket(m.command, m.conn, m.session)

OrderInv == NetNumbered /\ \A e \in Ends : EndNumbered(peer[e], app[e])

-----------------------------------------------------------------------------
(***************************************************************************)
(* Sequences of numbered packets.                                          *)
(***************************************************************************)
Data(conn, session) == {Datum(conn, session, n) : n \in Nat}

\* A sequence of count packets after number from, element by element.
Counts(s, conn, session, from, count) ==
  /\ s \in Seq(Data(conn, session)) /\ Len(s) = count
  /\ \A i \in 1..count : s[i] = Datum(conn, session, from + i)

LEMMA NumbersAre ==
  ASSUME NEW conn, NEW session, NEW from \in Nat, NEW count \in Nat
  PROVE  Counts(Numbers(conn, session, from, count), conn, session, from, count)
<1>1. PICK D : D = Data(conn, session)
  OBVIOUS
<1>2. PICK s : s = [i \in 1..count |-> Datum(conn, session, from + i)]
  OBVIOUS
<1>3. \A i \in 1..count : Datum(conn, session, from + i) \in D
  BY <1>1 DEF Data
<1>4. s \in [1..count -> D]
  BY <1>2, <1>3
<1>5. s \in Seq(D) /\ Len(s) = count
  BY <1>4
<1>6. \A i \in 1..count : s[i] = Datum(conn, session, from + i)
  BY <1>2
<1> QED BY <1>1, <1>2, <1>5, <1>6 DEF Numbers, Counts

LEMMA NoNumbers ==
  ASSUME NEW conn, NEW session, NEW from \in Nat
  PROVE  Numbers(conn, session, from, 0) = << >>
<1>1. PICK s : s = Numbers(conn, session, from, 0)
  OBVIOUS
<1>2. Counts(s, conn, session, from, 0)
  BY <1>1, NumbersAre
<1>3. s \in Seq(Data(conn, session)) /\ Len(s) = 0
  BY <1>2 DEF Counts
<1> QED BY <1>1, <1>3, EmptySeq

\* j packets and the k that follow.
Joined(conn, session, from, j, k) ==
  Numbers(conn, session, from, j) \o Numbers(conn, session, from + j, k)
    = Numbers(conn, session, from, j + k)

LEMMA NumbersJoin ==
  ASSUME NEW conn, NEW session, NEW from \in Nat, NEW j \in Nat, NEW k \in Nat
  PROVE  Joined(conn, session, from, j, k)
<1>1. PICK D : D = Data(conn, session)
  OBVIOUS
<1>2. PICK s : s = Numbers(conn, session, from, j)
  OBVIOUS
<1>3. PICK t : t = Numbers(conn, session, from + j, k)
  OBVIOUS
<1>4. PICK u : u = Numbers(conn, session, from, j + k)
  OBVIOUS
<1>5. /\ s \in Seq(D) /\ Len(s) = j
      /\ \A i \in 1..j : s[i] = Datum(conn, session, from + i)
  <2>1. Counts(s, conn, session, from, j)
    BY <1>2, NumbersAre
  <2> QED BY <1>1, <2>1 DEF Counts
<1>6. /\ t \in Seq(D) /\ Len(t) = k
      /\ \A i \in 1..k : t[i] = Datum(conn, session, from + j + i)
  <2>1. from + j \in Nat /\ k \in Nat
    BY SMT
  <2>2. Counts(t, conn, session, from + j, k)
    BY <2>1, <1>3, NumbersAre
  <2> QED BY <1>1, <2>2 DEF Counts
<1>7. /\ u \in Seq(D) /\ Len(u) = j + k
      /\ \A i \in 1..j + k : u[i] = Datum(conn, session, from + i)
  <2>1. from \in Nat /\ j + k \in Nat
    BY SMT
  <2>2. Counts(u, conn, session, from, j + k)
    BY <2>1, <1>4, NumbersAre
  <2> QED BY <1>1, <2>2 DEF Counts
<1>8. /\ s \o t \in Seq(D) /\ Len(s \o t) = j + k
      /\ \A i \in 1..j + k : (s \o t)[i] = IF i <= j THEN s[i] ELSE t[i - j]
  BY <1>5, <1>6, ConcatProperties
<1>9. ASSUME NEW i \in 1..j + k
      PROVE  (s \o t)[i] = u[i]
  <2>1. CASE i <= j
    BY <2>1, <1>5, <1>7, <1>8
  <2>2. CASE i > j
    <3>1. i - j \in 1..k /\ from + j + (i - j) = from + i
      BY <2>2
    <3> QED BY <2>2, <3>1, <1>6, <1>7, <1>8
  <2>3. i <= j \/ i > j
    BY SMT
  <2> QED BY <2>1, <2>2, <2>3
<1>10. s \o t = u
  BY <1>7, <1>8, <1>9, SeqEqual
<1> QED BY <1>2, <1>3, <1>4, <1>10 DEF Joined

LEMMA NumbersAppend ==
  ASSUME NEW conn, NEW session, NEW g \in Nat
  PROVE  Append(Numbers(conn, session, 0, g), Datum(conn, session, g + 1))
           = Numbers(conn, session, 0, g + 1)
<1>1. PICK D : D = Data(conn, session)
  OBVIOUS
<1>2. PICK s : s = Numbers(conn, session, 0, g)
  OBVIOUS
<1>3. PICK u : u = Numbers(conn, session, 0, g + 1)
  OBVIOUS
<1>4. PICK d : d = Datum(conn, session, g + 1)
  OBVIOUS
<1>5. d \in D
  BY <1>1, <1>4 DEF Data
<1>6. /\ s \in Seq(D) /\ Len(s) = g
      /\ \A i \in 1..g : s[i] = Datum(conn, session, 0 + i)
  <2>1. Counts(s, conn, session, 0, g)
    BY <1>2, NumbersAre
  <2> QED BY <1>1, <2>1 DEF Counts
<1>7. /\ u \in Seq(D) /\ Len(u) = g + 1
      /\ \A i \in 1..g + 1 : u[i] = Datum(conn, session, 0 + i)
  <2>1. 0 \in Nat /\ g + 1 \in Nat
    BY SMT
  <2>2. Counts(u, conn, session, 0, g + 1)
    BY <2>1, <1>3, NumbersAre
  <2> QED BY <1>1, <2>2 DEF Counts
<1>8. /\ Append(s, d) \in Seq(D) /\ Len(Append(s, d)) = g + 1
      /\ \A i \in 1..g : Append(s, d)[i] = s[i]
      /\ Append(s, d)[g + 1] = d
  BY <1>5, <1>6, AppendProperties
<1>9. \A i \in 1..g + 1 : Append(s, d)[i] = u[i]
  <2> SUFFICES ASSUME NEW i \in 1..g + 1 PROVE Append(s, d)[i] = u[i]
    OBVIOUS
  <2>1. CASE i <= g
    BY <2>1, <1>6, <1>7, <1>8
  <2>2. CASE i = g + 1
    BY <2>2, <1>4, <1>7, <1>8
  <2>3. i <= g \/ i = g + 1
    BY SMT
  <2> QED BY <2>1, <2>2, <2>3
<1>10. Append(s, d) = u
  BY <1>7, <1>8, <1>9, SeqEqual
<1> QED BY <1>2, <1>3, <1>4, <1>10

\* The first of them and the rest.
Starts(s, conn, session, from, count) ==
  /\ count > 0
  /\ Head(s) = Datum(conn, session, from + 1)
  /\ Tail(s) = Numbers(conn, session, from + 1, count - 1)

LEMMA NumbersHead ==
  ASSUME NEW conn, NEW session, NEW from \in Nat, NEW count \in Nat,
         Numbers(conn, session, from, count) # << >>
  PROVE  Starts(Numbers(conn, session, from, count), conn, session, from, count)
<1>0. count > 0
  BY NoNumbers
<1>1. PICK D : D = Data(conn, session)
  OBVIOUS
<1>2. PICK s : s = Numbers(conn, session, from, count)
  OBVIOUS
<1>3. PICK u : u = Numbers(conn, session, from + 1, count - 1)
  OBVIOUS
<1>4. /\ s \in Seq(D) /\ Len(s) = count
      /\ \A i \in 1..count : s[i] = Datum(conn, session, from + i)
  <2>1. Counts(s, conn, session, from, count)
    BY <1>2, NumbersAre
  <2> QED BY <1>1, <2>1 DEF Counts
<1>5. /\ u \in Seq(D) /\ Len(u) = count - 1
      /\ \A i \in 1..count - 1 : u[i] = Datum(conn, session, from + 1 + i)
  <2>1. from + 1 \in Nat /\ count - 1 \in Nat
    BY <1>0
  <2>2. Counts(u, conn, session, from + 1, count - 1)
    BY <2>1, <1>3, NumbersAre
  <2> QED BY <1>1, <2>2 DEF Counts
<1>6. s # << >>
  BY <1>2
<1>7. /\ Head(s) = s[1] /\ Tail(s) \in Seq(D) /\ Len(Tail(s)) = count - 1
      /\ \A i \in 1..count - 1 : Tail(s)[i] = s[i + 1]
  BY <1>4, <1>6, HeadTailProperties
<1>8. \A i \in 1..count - 1 : Tail(s)[i] = u[i]
  <2> SUFFICES ASSUME NEW i \in 1..count - 1 PROVE Tail(s)[i] = u[i]
    OBVIOUS
  <2>1. i + 1 \in 1..count /\ from + (i + 1) = from + 1 + i
    OBVIOUS
  <2> QED BY <2>1, <1>4, <1>5, <1>7
<1>9. Tail(s) = u
  BY <1>5, <1>7, <1>8, SeqEqual
<1>10. Head(s) = Datum(conn, session, from + 1)
  BY <1>0, <1>4, <1>7
<1> QED BY <1>0, <1>2, <1>3, <1>9, <1>10 DEF Starts

-----------------------------------------------------------------------------
(***************************************************************************)
(* The packets that DispatchReliable moves on: the numbers it takes are    *)
(* all above received, and with each all between are taken, so that their  *)
(* count tells which they are.                                             *)
(***************************************************************************)
RunOf(incoming, received) ==
  {c \in incoming : \A n \in received + 1 .. c.seq : \E d \in incoming : d.seq = n}

LEMMA SameNumber ==
  ASSUME NEW conn, NEW session, NEW c, NEW d, IsPacket(c, conn, session),
         IsPacket(d, conn, session), c.seq = d.seq
  PROVE  c = d
BY DEF IsPacket

LEMMA PacketIs ==
  ASSUME NEW conn, NEW session, NEW c, IsPacket(c, conn, session)
  PROVE  c.seq \in Nat /\ c.seq > 0 /\ c.data = Datum(conn, session, c.seq)
BY DEF IsPacket, Numbered

\* They are the next count packets.
NextRun(run, incoming, received, count) ==
  /\ run \subseteq incoming /\ count \in Nat
  /\ \A n \in received + 1 .. received + count : \E c \in run : c.seq = n
  /\ \A c \in run : c.seq <= received + count

LEMMA RunIsNext ==
  ASSUME NEW conn, NEW session, NEW received \in Nat, NEW incoming,
         Early(incoming, conn, session, received),
         NEW run, run = RunOf(incoming, received)
  PROVE  NextRun(run, incoming, received, Cardinality(run))
<1>1. run \subseteq incoming
  BY DEF RunOf
<1>2. IsFiniteSet(run)
  BY <1>1, FS_Subset DEF Early
<1>3. PICK count : count = Cardinality(run)
  OBVIOUS
<1>4. count \in Nat
  BY <1>2, <1>3, FS_CardinalityType
<1>5. PICK T : T = {c.seq : c \in run}
  OBVIOUS
<1>6. IsFiniteSet(T) /\ Cardinality(T) = count
  <2>1. PICK f : f = [c \in run |-> c.seq]
    OBVIOUS
  <2>2. \A c \in run : IsPacket(c, conn, session)
    BY <1>1 DEF Early
  <2>3. f \in [run -> T]
    BY <1>5, <2>1
  <2>4. \A c, d \in run : f[c] = f[d] => c = d
    BY <2>1, <2>2, SameNumber
  <2>5. \A n \in T : \E c \in run : f[c] = n
    BY <1>5, <2>1
  <2>6. f \in Bijection(run, T)
    BY <2>3, <2>4, <2>5 DEF Bijection, Injection, IsInjective, Surjection
  <2>7. ExistsBijection(run, T)
    BY <2>6 DEF ExistsBijection
  <2> QED BY <1>2, <1>3, <2>7, FS_Bijection
<1>7. \A t \in T : t \in Nat /\ t > received
  BY <1>1, <1>5, PacketIs DEF Early
<1>8. ASSUME NEW t \in T
      PROVE  received + 1 .. t \subseteq T
  <2>1. PICK c \in run : c.seq = t
    BY <1>5
  <2>2. \A n \in received + 1 .. t : \E d \in incoming : d.seq = n
    BY <2>1 DEF RunOf
  <2> SUFFICES ASSUME NEW n \in received + 1 .. t PROVE n \in T
    OBVIOUS
  <2>3. PICK d \in incoming : d.seq = n
    BY <2>2
  <2>4. \A i \in received + 1 .. n : i \in received + 1 .. t
    BY <1>7
  <2>5. d \in run
    BY <2>2, <2>3, <2>4 DEF RunOf
  <2> QED BY <1>5, <2>3, <2>5
<1>9. ASSUME NEW t \in T
      PROVE  t <= received + count
  <2>1. t \in Nat /\ t > received
    BY <1>7
  <2>2. received + 1 \in Int /\ t \in Int
    BY <2>1
  <2>3. Cardinality(received + 1 .. t) = IF received + 1 > t THEN 0 ELSE t - (received + 1) + 1
    BY <2>2, FS_Interval
  <2>4. received + 1 .. t \in SUBSET T
    BY <1>8
  <2>5. Cardinality(received + 1 .. t) <= count
    BY <1>6, <2>4, FS_Subset
  <2> QED BY <1>4, <2>1, <2>3, <2>5
<1>10. T = received + 1 .. received + count
  <2>1. T \in SUBSET (received + 1 .. received + count)
    BY <1>4, <1>7, <1>9
  <2>2. PICK last \in Int : last = received + count
    BY <1>4
  <2>3. /\ IsFiniteSet(received + 1 .. last)
        /\ Cardinality(received + 1 .. last) =
             IF received + 1 > last THEN 0 ELSE last - (received + 1) + 1
    BY FS_Interval
  <2>4. Cardinality(received + 1 .. last) = count
    BY <1>4, <2>2, <2>3
  <2> QED BY <1>6, <2>1, <2>2, <2>3, <2>4, FS_Subset
<1>11. \A n \in received + 1 .. received + count : \E c \in run : c.seq = n
  BY <1>5, <1>10
<1>12. \A c \in run : c.seq <= received + count
  BY <1>5, <1>9
<1> QED BY <1>1, <1>3, <1>4, <1>11, <1>12 DEF NextRun

\* DispatchReliable moves the next packets on, each once and in order.
Moves(run, incoming, conn, session, received, count) ==
  /\ count \in Nat
  /\ [i \in 1..count |-> (CHOOSE c \in run : c.seq = received + i).data]
       = Numbers(conn, session, received, count)
  /\ Early(incoming \ run, conn, session, received + count)

LEMMA RunMoves ==
  ASSUME NEW conn, NEW session, NEW received \in Nat, NEW incoming,
         Early(incoming, conn, session, received),
         NEW run, run = RunOf(incoming, received),
         NEW count, count = Cardinality(run)
  PROVE  Moves(run, incoming, conn, session, received, count)
<1>1. /\ run \subseteq incoming /\ count \in Nat
      /\ \A n \in received + 1 .. received + count : \E c \in run : c.seq = n
      /\ \A c \in run : c.seq <= received + count
  <2>1. NextRun(run, incoming, received, count)
    BY RunIsNext
  <2> QED BY <2>1 DEF NextRun
<1>2. ASSUME NEW i \in 1..count
      PROVE  (CHOOSE c \in run : c.seq = received + i).data = Datum(conn, session, received + i)
  <2>1. received + i \in received + 1 .. received + count
    BY <1>1
  <2>2. \E c \in run : c.seq = received + i
    BY <1>1, <2>1
  <2>3. PICK c : c = CHOOSE d \in run : d.seq = received + i
    OBVIOUS
  <2>4. c \in run /\ c.seq = received + i
    BY <2>2, <2>3
  <2>5. c.data = Datum(conn, session, c.seq)
    BY <1>1, <2>4, PacketIs DEF Early
  <2> QED BY <2>3, <2>4, <2>5
<1>3. [i \in 1..count |-> (CHOOSE c \in run : c.seq = received + i).data]
        = Numbers(conn, session, received, count)
  BY <1>2 DEF Numbers
<1>4. IsFiniteSet(incoming \ run)
  BY FS_Subset DEF Early
<1>5. ASSUME NEW c \in incoming \ run
      PROVE  IsPacket(c, conn, session) /\ c.seq > received + count
  <2>1. IsPacket(c, conn, session) /\ c.seq > received
    BY DEF Early
  <2>2. c.seq \in Nat
    BY <2>1, PacketIs
  <2>3. CASE c.seq <= received + count
    <3>1. c.seq \in received + 1 .. received + count
      BY <1>1, <2>1, <2>2, <2>3
    <3>2. PICK d \in run : d.seq = c.seq
      BY <1>1, <3>1
    <3>3. IsPacket(d, conn, session)
      BY <1>1, <3>2 DEF Early
    <3>4. c = d
      BY <2>1, <3>2, <3>3, SameNumber
    <3> QED BY <3>2, <3>4
  <2>4. c.seq <= received + count \/ c.seq > received + count
    BY <1>1, <2>2
  <2> QED BY <2>1, <2>3, <2>4
<1> QED BY <1>1, <1>3, <1>4, <1>5 DEF Early, Moves

-----------------------------------------------------------------------------
\* The states in which an end has yet to be told, or is told, of packets.
Live == {"CONNECTING", "ACKNOWLEDGING_CONNECT", "CONNECTED"}

LEMMA NothingEarly ==
  ASSUME NEW conn, NEW session, NEW received \in Nat
  PROVE  Early({}, conn, session, received) /\ Waiting(<< >>, conn, session, received)
<1>1. Early({}, conn, session, received)
  BY FS_EmptySet DEF Early
<1>2. << >> = Numbers(conn, session, received - 0, 0)
  BY NoNumbers
<1>3. 0 \in 0..received
  OBVIOUS
<1> QED BY <1>1, <1>2, <1>3 DEF Waiting

\* The queues stay, and the state too or the end is on its way down.
Kept(p, q) ==
  /\ WholePeer(q) /\ q.conn = p.conn /\ q.session = p.session
  /\ q.received = p.received /\ q.incoming = p.incoming /\ q.dispatched = p.dispatched
  /\ q.state = p.state \/ q.state \notin Live

\* The queues are empty, and the end is on its way down.
Cleared(p, q) ==
  /\ WholePeer(q) /\ q.conn = p.conn /\ q.session = p.session
  /\ q.received \in Nat /\ q.incoming = {} /\ q.dispatched = << >>
  /\ q.state \notin Live

LEMMA KeptNumbered ==
  ASSUME NEW p, NEW q, NEW a, EndNumbered(p, a), Kept(p, q), SendsNumbered(q)
  PROVE  EndNumbered(q, a)
<1>1. QueuesNumbered(q)
  BY DEF EndNumbered, QueuesNumbered, Kept, Live
<1>2. GotNumbered(q, a)
  BY DEF EndNumbered, GotNumbered, Kept, Live
<1> QED BY <1>1, <1>2 DEF EndNumbered, Kept

LEMMA ClearedNumbered ==
  ASSUME NEW p, NEW q, NEW a, EndNumbered(p, a), Cleared(p, q), SendsNumbered(q)
  PROVE  EndNumbered(q, a)
<1>1. QueuesNumbered(q)
  BY NothingEarly DEF QueuesNumbered, Cleared, Live
<1>2. GotNumbered(q, a)
  BY DEF EndNumbered, GotNumbered, Cleared, Live
<1> QED BY <1>1, <1>2 DEF EndNumbered, Cleared

\* An application that is not connected is not concerned.
LEMMA NotOpenNumbered ==
  ASSUME NEW p, NEW a, NEW b, EndNumbered(p, a), {"status", "conn", "got"} \subseteq DOMAIN b,
         b.status # "open"
  PROVE  EndNumbered(p, b)
BY DEF EndNumbered, GotNumbered

LEMMA PeersKept ==
  ASSUME NEW p, NEW a, EndNumbered(p, a), NEW c
  PROVE  EndNumbered(Acknowledging(p, c), a)
<1>1. CASE Acknowledging(p, c) = p
  BY <1>1
<1>2. CASE Acknowledging(p, c) = [p EXCEPT !.acknowledgements = @ \cup {c}]
  <2>1. PICK q : q = [p EXCEPT !.acknowledgements = @ \cup {c}]
    OBVIOUS
  <2>2. Kept(p, q) /\ q.sent = p.sent /\ q.unacked = p.unacked
    BY <2>1 DEF EndNumbered, WholePeer, Kept
  <2>3. SendsNumbered(q)
    BY <2>2 DEF EndNumbered, SendsNumbered, Kept
  <2> QED BY <1>2, <2>1, <2>2, <2>3, KeptNumbered
<1> QED BY <1>1, <1>2 DEF Acknowledging

LEMMA ResetNumbered ==
  ASSUME NEW p, NEW a, EndNumbered(p, a)
  PROVE  EndNumbered(Reset(p), a)
<1>1. Cleared(p, Reset(p)) /\ SendsNumbered(Reset(p))
  BY DEF Reset, NewPeer, Cleared, WholePeer, SendsNumbered, Live
<1> QED BY <1>1, ClearedNumbered

\* Its queues emptied, an end may only go down.
LEMMA ClearNumbered ==
  ASSUME NEW p, NEW a, EndNumbered(p, a), NEW state, state \notin Live
  PROVE  EndNumbered([ResetQueues(p) EXCEPT !.state = state], a)
<1>1. PICK q : q = [ResetQueues(p) EXCEPT !.state = state]
  OBVIOUS
<1>2. p.received \in Nat /\ p.sent \in Nat
  BY DEF EndNumbered, SendsNumbered, QueuesNumbered
<1>3. Cleared(p, q) /\ q.unacked = {} /\ q.sent = p.sent
  BY <1>1, <1>2 DEF ResetQueues, EndNumbered, WholePeer, Cleared
<1>4. SendsNumbered(q)
  BY <1>2, <1>3 DEF SendsNumbered
<1> QED BY <1>1, <1>3, <1>4, ClearedNumbered

LEMMA ClearResetNumbered ==
  ASSUME NEW p, NEW a, EndNumbered(p, a)
  PROVE  EndNumbered(Reset(ResetQueues(p)), a)
<1>1. PICK q : q = Reset(ResetQueues(p))
  OBVIOUS
<1>2. Cleared(p, q) /\ SendsNumbered(q)
  BY <1>1 DEF ResetQueues, Reset, NewPeer, EndNumbered, Cleared, WholePeer, SendsNumbered, Live
<1> QED BY <1>1, <1>2, ClearedNumbered

LEMMA DisconnectingNumbered ==
  ASSUME NEW p, NEW a, EndNumbered(p, a)
  PROVE  EndNumbered(Disconnecting(p), a)
<1>1. PICK q : q = Disconnecting(p)
  OBVIOUS
<1>2. p.received \in Nat /\ p.sent \in Nat
  BY DEF EndNumbered, SendsNumbered, QueuesNumbered
<1>3. Cleared(p, q) /\ q.unacked = {Command("DISCONNECT")} /\ q.sent = p.sent
  BY <1>1, <1>2 DEF Disconnecting, ResetQueues, EndNumbered, WholePeer, Cleared, Live
<1>4. SendsNumbered(q)
  BY <1>2, <1>3 DEF SendsNumbered, Command
<1> QED BY <1>1, <1>3, <1>4, ClearedNumbered

LEMMA IsWaiting ==
  ASSUME NEW conn, NEW session, NEW received, NEW dispatched, NEW k \in 0..received,
         dispatched = Numbers(conn, session, received - k, k)
  PROVE  Waiting(dispatched, conn, session, received)
BY DEF Waiting

\* What waits, with the packets that follow, still waits.
LEMMA WaitingGrows ==
  ASSUME NEW conn, NEW session, NEW received \in Nat, NEW dispatched, NEW count \in Nat,
         Waiting(dispatched, conn, session, received)
  PROVE  Waiting(dispatched \o Numbers(conn, session, received, count),
                 conn, session, received + count)
<1>1. PICK k \in 0..received : dispatched = Numbers(conn, session, received - k, k)
  BY DEF Waiting
<1>2. PICK from \in Nat : from = received - k
  BY <1>1
<1>3. k \in Nat /\ from + k = received /\ received + count - (k + count) = from
      /\ k + count \in 0..received + count
  BY <1>2
<1>4. Numbers(conn, session, from, k) \o Numbers(conn, session, from + k, count)
        = Numbers(conn, session, from, k + count)
  <2>1. Joined(conn, session, from, k, count)
    BY <1>2, <1>3, NumbersJoin
  <2> QED BY <2>1 DEF Joined
<1>5. dispatched \o Numbers(conn, session, received, count)
        = Numbers(conn, session, from, k + count)
  BY <1>1, <1>2, <1>3, <1>4
<1>6. dispatched \o Numbers(conn, session, received, count)
        = Numbers(conn, session, received + count - (k + count), k + count)
  BY <1>3, <1>5
<1>7. PICK total : total = received + count
  OBVIOUS
<1>8. PICK d : d = dispatched \o Numbers(conn, session, received, count)
  OBVIOUS
<1>9. PICK j : j = k + count
  OBVIOUS
<1>10. j \in 0..total
  BY <1>3, <1>7, <1>9
<1>11. d = Numbers(conn, session, total - j, j)
  BY <1>6, <1>7, <1>8, <1>9
<1>12. Waiting(d, conn, session, total)
  BY <1>10, <1>11, IsWaiting
<1> QED BY <1>7, <1>8, <1>12

\* The parts of DispatchReliable.
MovedOn(p, run, count, moved) ==
  [p EXCEPT !.received = @ + count, !.incoming = @ \ run, !.dispatched = @ \o moved]

LEMMA DispatchMoves ==
  ASSUME NEW p
  PROVE  DispatchReliable(p) =
           MovedOn(p, RunOf(p.incoming, p.received), Cardinality(RunOf(p.incoming, p.received)),
             [i \in 1..Cardinality(RunOf(p.incoming, p.received)) |->
                (CHOOSE c \in RunOf(p.incoming, p.received) : c.seq = p.received + i).data])
BY DEF DispatchReliable, MovedOn, RunOf

\* DispatchReliable, once a packet of the connection has come.
LEMMA ArrivedNumbered ==
  ASSUME NEW p, NEW a, EndNumbered(p, a), p.state = "CONNECTED",
         NEW c, IsPacket(c, p.conn, p.session), ~(c.seq <= p.received)
  PROVE  EndNumbered(DispatchReliable([p EXCEPT !.incoming = @ \cup {c}]), a)
<1>1. PICK conn, session, received : conn = p.conn /\ session = p.session /\ received = p.received
  OBVIOUS
<1>2. received \in Nat
  BY <1>1 DEF EndNumbered, QueuesNumbered
<1>3. PICK incoming : incoming = p.incoming \cup {c}
  OBVIOUS
<1>4. Early(incoming, conn, session, received)
  <2>1. Early(p.incoming, conn, session, received)
    BY <1>1 DEF EndNumbered, QueuesNumbered
  <2>2. c.seq > received
    BY <1>1, <1>2, PacketIs
  <2>3. IsFiniteSet(incoming)
    BY <1>3, <2>1, FS_AddElement DEF Early
  <2> QED BY <1>1, <1>3, <2>1, <2>2, <2>3 DEF Early
<1>5. PICK r : r = [p EXCEPT !.incoming = @ \cup {c}]
  OBVIOUS
<1>6. /\ WholePeer(r) /\ r.conn = conn /\ r.session = session /\ r.received = received
      /\ r.incoming = incoming /\ r.dispatched = p.dispatched /\ r.state = "CONNECTED"
      /\ r.sent = p.sent /\ r.unacked = p.unacked
  BY <1>1, <1>3, <1>5 DEF EndNumbered, WholePeer
<1>7. PICK run : run = RunOf(incoming, received)
  OBVIOUS
<1>8. PICK count : count = Cardinality(run)
  OBVIOUS
<1>9. PICK moved : moved = Numbers(conn, session, received, count)
  OBVIOUS
<1>10. /\ count \in Nat
       /\ [i \in 1..count |-> (CHOOSE d \in run : d.seq = received + i).data] = moved
       /\ Early(incoming \ run, conn, session, received + count)
  <2>1. Moves(run, incoming, conn, session, received, count)
    BY <1>2, <1>4, <1>7, <1>8, RunMoves
  <2> QED BY <1>9, <2>1 DEF Moves
<1>11. DispatchReliable(r) = MovedOn(r, run, count, moved)
  <2>1. DispatchReliable(r) =
          MovedOn(r, RunOf(r.incoming, r.received), Cardinality(RunOf(r.incoming, r.received)),
            [i \in 1..Cardinality(RunOf(r.incoming, r.received)) |->
               (CHOOSE d \in RunOf(r.incoming, r.received) : d.seq = r.received + i).data])
    BY DispatchMoves
  <2>2. run = RunOf(r.incoming, r.received)
    BY <1>6, <1>7
  <2>3. DispatchReliable(r) =
          MovedOn(r, run, count,
            [i \in 1..count |-> (CHOOSE d \in run : d.seq = received + i).data])
    BY <1>6, <1>8, <2>1, <2>2
  <2> QED BY <1>10, <2>3
<1>12. PICK q : q = DispatchReliable(r)
  OBVIOUS
<1>13. /\ WholePeer(q) /\ q.conn = conn /\ q.session = session /\ q.received = received + count
       /\ q.incoming = incoming \ run /\ q.dispatched = p.dispatched \o moved
       /\ q.state = "CONNECTED" /\ q.sent = p.sent /\ q.unacked = p.unacked
  BY <1>6, <1>11, <1>12 DEF WholePeer, MovedOn
<1>14. SendsNumbered(q)
  BY <1>1, <1>13 DEF EndNumbered, SendsNumbered
<1>15. QueuesNumbered(q)
  <2>1. Waiting(p.dispatched, conn, session, received)
    BY <1>1 DEF EndNumbered, QueuesNumbered
  <2>2. Waiting(p.dispatched \o moved, conn, session, received + count)
    BY <1>2, <1>9, <1>10, <2>1, WaitingGrows
  <2>3. received + count \in Nat
    BY <1>2, <1>10
  <2> QED BY <1>10, <1>13, <2>2, <2>3 DEF QueuesNumbered
<1>16. GotNumbered(q, a)
  <2> SUFFICES ASSUME a.status = "open" PROVE GotNumbered(q, a)
    BY DEF GotNumbered
  <2>1. PICK g : g = Len(a.got)
    OBVIOUS
  <2>2. /\ a.conn = conn /\ g \in Nat /\ a.got = Numbers(conn, session, 0, g)
        /\ g <= received /\ p.dispatched = Numbers(conn, session, g, received - g)
    BY <1>1, <2>1 DEF EndNumbered, GotNumbered
  <2>3. PICK k \in Nat : k = received - g
    BY <1>2, <2>2
  <2>4. g + k = received /\ received + count - g = k + count /\ g <= received + count
    BY <1>2, <1>10, <2>2, <2>3
  <2>5. Numbers(conn, session, g, k) \o Numbers(conn, session, g + k, count)
          = Numbers(conn, session, g, k + count)
    <3>1. Joined(conn, session, g, k, count)
      BY <1>10, <2>2, <2>3, NumbersJoin
    <3> QED BY <3>1 DEF Joined
  <2>6. p.dispatched \o moved = Numbers(conn, session, g, received + count - g)
    BY <1>9, <2>2, <2>3, <2>4, <2>5
  <2>7. g <= q.received /\ q.dispatched = Numbers(conn, session, g, q.received - g)
    <3>1. g <= q.received
      BY <1>13, <2>4
    <3>2. PICK left : left = received + count - g
      OBVIOUS
    <3>3. q.received - g = left
      <4>1. q.received = received + count
        BY <1>13
      <4> QED BY <1>2, <1>10, <2>2, <3>2, <4>1
    <3>4. q.dispatched = Numbers(conn, session, g, left)
      BY <1>13, <2>6, <3>2
    <3> QED BY <3>1, <3>3, <3>4
  <2> QED BY <1>13, <2>1, <2>2, <2>7 DEF GotNumbered
<1> QED BY <1>5, <1>12, <1>13, <1>14, <1>15, <1>16 DEF EndNumbered

\* A RECEIVE event hands the first of those that wait over.
LEMMA ReceivedNumbered ==
  ASSUME NEW p, NEW a, EndNumbered(p, a), p.state = "CONNECTED", p.dispatched # << >>
  PROVE  EndNumbered([p EXCEPT !.dispatched = Tail(@)],
                     [a EXCEPT !.got = Append(@, Head(p.dispatched))])
<1>1. PICK conn, session, received : conn = p.conn /\ session = p.session /\ received = p.received
  OBVIOUS
<1>2. received \in Nat /\ Waiting(p.dispatched, conn, session, received)
  BY <1>1 DEF EndNumbered, QueuesNumbered
<1>3. PICK q : q = [p EXCEPT !.dispatched = Tail(@)]
  OBVIOUS
<1>4. PICK b : b = [a EXCEPT !.got = Append(@, Head(p.dispatched))]
  OBVIOUS
<1>5. /\ WholePeer(q) /\ q.conn = conn /\ q.session = session /\ q.received = received
      /\ q.incoming = p.incoming /\ q.dispatched = Tail(p.dispatched)
      /\ q.state = "CONNECTED" /\ q.sent = p.sent /\ q.unacked = p.unacked
  BY <1>1, <1>3 DEF EndNumbered, WholePeer
<1>6. /\ {"status", "conn", "got"} \subseteq DOMAIN b /\ b.status = a.status /\ b.conn = a.conn
      /\ b.got = Append(a.got, Head(p.dispatched))
  BY <1>4 DEF EndNumbered
<1>7. SendsNumbered(q)
  BY <1>1, <1>5 DEF EndNumbered, SendsNumbered
<1>8. QueuesNumbered(q)
  <2>1. PICK k \in 0..received : p.dispatched = Numbers(conn, session, received - k, k)
    BY <1>2 DEF Waiting
  <2>2. PICK from \in Nat : from = received - k
    BY <1>2
  <2>3. k > 0 /\ Tail(p.dispatched) = Numbers(conn, session, from + 1, k - 1)
    <3>1. k \in Nat /\ p.dispatched = Numbers(conn, session, from, k)
      BY <1>2, <2>1, <2>2
    <3>2. Starts(p.dispatched, conn, session, from, k)
      BY <2>2, <3>1, NumbersHead
    <3> QED BY <3>2 DEF Starts
  <2>4. k - 1 \in 0..received /\ received - (k - 1) = from + 1
    BY <1>2, <2>2, <2>3
  <2>5. Waiting(Tail(p.dispatched), conn, session, received)
    BY <2>3, <2>4 DEF Waiting
  <2> QED BY <1>1, <1>5, <2>5 DEF EndNumbered, QueuesNumbered
<1>9. GotNumbered(q, b)
  <2> SUFFICES ASSUME a.status = "open" PROVE GotNumbered(q, b)
    BY <1>6 DEF GotNumbered
  <2>1. PICK g : g = Len(a.got)
    OBVIOUS
  <2>2. /\ a.conn = conn /\ g \in Nat /\ a.got = Numbers(conn, session, 0, g)
        /\ g <= received /\ p.dispatched = Numbers(conn, session, g, received - g)
    BY <1>1, <2>1 DEF EndNumbered, GotNumbered
  <2>3. PICK k \in Nat : k = received - g
    BY <1>2, <2>2
  <2>4. /\ k > 0 /\ Head(p.dispatched) = Datum(conn, session, g + 1)
        /\ Tail(p.dispatched) = Numbers(conn, session, g + 1, k - 1)
    <3>1. p.dispatched = Numbers(conn, session, g, k)
      BY <2>2, <2>3
    <3>2. Starts(p.dispatched, conn, session, g, k)
      BY <2>2, <2>3, <3>1, NumbersHead
    <3> QED BY <3>2 DEF Starts
  <2>5. b.got = Numbers(conn, session, 0, g + 1)
    BY <1>6, <2>2, <2>4, NumbersAppend
  <2>6. g + 1 \in Nat /\ g + 1 <= received /\ received - (g + 1) = k - 1
    BY <1>2, <2>2, <2>3, <2>4
  <2>7. Len(b.got) = g + 1
    <3>1. Counts(b.got, conn, session, 0, g + 1)
      BY <2>5, <2>6, NumbersAre
    <3> QED BY <3>1 DEF Counts
  <2>8. Tail(p.dispatched) = Numbers(conn, session, g + 1, received - (g + 1))
    BY <2>4, <2>6
  <2> QED BY <1>5, <1>6, <2>2, <2>5, <2>6, <2>7, <2>8 DEF GotNumbered
<1> QED BY <1>3, <1>4, <1>5, <1>6, <1>7, <1>8, <1>9 DEF EndNumbered

-----------------------------------------------------------------------------
(***************************************************************************)
(* The kinds of steps.                                                     *)
(***************************************************************************)
LEMMA WireNumbered ==
  ASSUME NetNumbered, NEW e, NEW p, SendsNumbered(p), Transmit(Wire(e, p))
  PROVE  NetNumbered'
<1>1. ASSUME NEW m \in Wire(e, p), m.command.name = "SEND_RELIABLE"
      PROVE  IsPacket(m.command, m.conn, m.session)
  <2>1. PICK c \in p.unacked : m = [to |-> Other(e), conn |-> p.conn, session |-> p.session,
                                    name |-> "COMMAND", command |-> c]
    BY DEF Wire
  <2>2. m.conn = p.conn /\ m.session = p.session /\ m.command = c
    BY <2>1
  <2> QED BY <1>1, <2>2 DEF SendsNumbered
<1>2. net' \subseteq net \cup Wire(e, p)
  BY DEF Transmit
<1> QED BY <1>1, <1>2 DEF NetNumbered

LEMMA AckWireNumbered ==
  ASSUME NetNumbered, NEW e, NEW p, Transmit(AckWire(e, p))
  PROVE  NetNumbered'
<1>1. \A m \in AckWire(e, p) : m.name # "COMMAND"
  BY DEF AckWire
<1>2. net' \subseteq net \cup AckWire(e, p)
  BY DEF Transmit
<1> QED BY <1>1, <1>2 DEF NetNumbered

LEMMA BecomeNumbered ==
  ASSUME IInv, OrderInv, NEW e \in Ends, NEW p, Become(e, p), NEW a, EndNumbered(p, a),
         app'[e] = a, \A f \in Ends \ {e} : app'[f] = app[f]
  PROVE  OrderInv'
<1>1. /\ DOMAIN peer' = Ends /\ peer'[e] = p
      /\ \A f \in Ends \ {e} : peer'[f] = peer[f]
  BY MoveSets DEF IInv, Become, MovesTo
<1>2. NetNumbered'
  BY WireNumbered DEF Become, OrderInv, EndNumbered
<1>3. ASSUME NEW f \in Ends
      PROVE  EndNumbered(peer'[f], app'[f])
  <2>1. CASE f = e
    BY <1>1, <2>1
  <2>2. CASE f # e
    BY <1>1, <2>2 DEF OrderInv
  <2> QED BY <2>1, <2>2
<1> QED BY <1>2, <1>3 DEF OrderInv, EndNumbered, WholePeer, SendsNumbered, QueuesNumbered, GotNumbered

LEMMA QuietNumbered ==
  ASSUME IInv, OrderInv, NEW e \in Ends, NEW p, Become(e, p), Quietly, EndNumbered(p, app[e])
  PROVE  OrderInv'
<1>1. app' = app
  BY QuietSets
<1> QED BY <1>1, BecomeNumbered

\* An end whose application is told of the connection's end.
LEMMA ToldNumbered ==
  ASSUME IInv, OrderInv, NEW e \in Ends, NEW p, Become(e, p), NEW type, type # "CONNECT",
         Tell(e, type), EndNumbered(p, app[e])
  PROVE  OrderInv'
<1>1. app'[e] = NobodyThere /\ \A f \in Ends \ {e} : app'[f] = app[f]
  BY DEF Tell, IInv, Shape
<1>2. EndNumbered(p, NobodyThere)
  BY NotOpenNumbered DEF NobodyThere
<1> QED BY <1>1, <1>2, BecomeNumbered

\* An end whose application is told of the connection.
LEMMA OpenNumbered ==
  ASSUME IInv, OrderInv, NEW e \in Ends, NEW p, Become(e, p), Tell(e, "CONNECT"),
         WholePeer(p), SendsNumbered(p), QueuesNumbered(p), p.conn = peer[e].conn,
         p.received = 0, p.dispatched = << >>
  PROVE  OrderInv'
<1>1. PICK a : a = [status |-> "open", conn |-> peer[e].conn, got |-> << >>]
  OBVIOUS
<1>2. app'[e] = a /\ \A f \in Ends \ {e} : app'[f] = app[f]
  BY <1>1 DEF Tell, IInv, Shape
<1>3. /\ {"status", "conn", "got"} \subseteq DOMAIN a
      /\ a.conn = p.conn /\ a.got = << >> /\ Len(a.got) = 0
  BY <1>1
<1>4. << >> = Numbers(p.conn, p.session, 0, 0)
  BY NoNumbers
<1>5. 0 <= p.received /\ p.received - 0 = 0 /\ 0 \in Nat
  OBVIOUS
<1>6. GotNumbered(p, a)
  BY <1>3, <1>4, <1>5 DEF GotNumbered
<1>7. EndNumbered(p, a)
  BY <1>3, <1>6 DEF EndNumbered
<1> QED BY <1>2, <1>7, BecomeNumbered

LEMMA NotifiedNumbered ==
  ASSUME IInv, OrderInv, NEW e \in Ends, NEW type, type # "CONNECT", NotifyDisconnect(e, type)
  PROVE  OrderInv'
<1>1. EndNumbered(peer[e], app[e])
  BY DEF OrderInv
<1>2. CASE app[e].status = "closing"
  <2>1. PICK p : p = [peer[e] EXCEPT !.state = "ZOMBIE"]
    OBVIOUS
  <2>2. Kept(peer[e], p) /\ p.sent = peer[e].sent /\ p.unacked = peer[e].unacked
    BY <1>1, <2>1 DEF EndNumbered, WholePeer, Kept, Live
  <2>3. SendsNumbered(p)
    BY <1>1, <2>2 DEF EndNumbered, SendsNumbered, Kept
  <2>4. EndNumbered(p, app[e])
    BY <1>1, <2>2, <2>3, KeptNumbered
  <2>5. Become(e, p) /\ Quietly
    BY <1>2, <2>1 DEF NotifyDisconnect
  <2> QED BY <2>4, <2>5, QuietNumbered
<1>3. CASE app[e].status # "closing"
  <2>1. EndNumbered(Reset(peer[e]), app[e])
    BY <1>1, ResetNumbered
  <2>2. Become(e, Reset(peer[e])) /\ Tell(e, type)
    BY <1>3 DEF NotifyDisconnect
  <2> QED BY <2>1, <2>2, ToldNumbered
<1> QED BY <1>2, <1>3

-----------------------------------------------------------------------------
(***************************************************************************)
(* The steps.                                                              *)
(***************************************************************************)
LEMMA ConnectNumbered ==
  ASSUME IInv, OrderInv, NEW e \in Ends, NEW m, HandleConnect(e, m)
  PROVE  OrderInv'
<1>1. PICK p : p = NewPeer("ACKNOWLEDGING_CONNECT", m.conn, peer[e].session + 1,
                           {Command("VERIFY_CONNECT")})
  OBVIOUS
<1>2. Become(e, p) /\ Quietly /\ e = "server" /\ peer[e].state = "DISCONNECTED"
  BY <1>1 DEF HandleConnect
<1>3. app[e].status # "open"
  BY <1>2 DEF IInv, ServerKnows, Known
<1>4. /\ WholePeer(p) /\ p.received = 0 /\ p.incoming = {} /\ p.dispatched = << >>
      /\ p.sent = 0 /\ p.unacked = {Command("VERIFY_CONNECT")}
  BY <1>1 DEF NewPeer, WholePeer
<1>5. SendsNumbered(p)
  BY <1>4 DEF SendsNumbered, Command
<1>6. QueuesNumbered(p)
  BY <1>4, NothingEarly DEF QueuesNumbered
<1>7. EndNumbered(p, app[e])
  BY <1>3, <1>4, <1>5, <1>6 DEF EndNumbered, GotNumbered, OrderInv
<1> QED BY <1>2, <1>7, QuietNumbered

LEMMA VerifyConnectNumbered ==
  ASSUME IInv, OrderInv, NEW e \in Ends, NEW m, HandleVerifyConnect(e, m)
  PROVE  OrderInv'
<1>1. EndNumbered(peer[e], app[e])
  BY DEF OrderInv
<1>2. CASE peer[e].state = "CONNECTING"
  <2>1. PICK p : p = [peer[e] EXCEPT !.state = "CONNECTED", !.session = m.session,
                        !.unacked = {}, !.acknowledgements = {m.command}]
    OBVIOUS
  <2>2. Become(e, p) /\ Tell(e, "CONNECT")
    BY <1>2, <2>1 DEF HandleVerifyConnect
  <2>3. /\ peer[e].received = 0 /\ peer[e].incoming = {} /\ peer[e].dispatched = << >>
        /\ peer[e].sent \in Nat /\ WholePeer(peer[e])
    BY <1>1, <1>2 DEF EndNumbered, QueuesNumbered, SendsNumbered
  <2>4. /\ WholePeer(p) /\ p.conn = peer[e].conn /\ p.received = 0 /\ p.incoming = {}
        /\ p.dispatched = << >> /\ p.unacked = {} /\ p.sent \in Nat
    BY <2>1, <2>3 DEF WholePeer
  <2>5. SendsNumbered(p)
    BY <2>4 DEF SendsNumbered
  <2>6. QueuesNumbered(p)
    BY <2>4, NothingEarly DEF QueuesNumbered
  <2> QED BY <2>2, <2>4, <2>5, <2>6, OpenNumbered
<1>3. CASE peer[e].state # "CONNECTING"
  <2>1. Become(e, Acknowledging(peer[e], m.command)) /\ Quietly
    BY <1>3 DEF HandleVerifyConnect
  <2> QED BY <1>1, <2>1, PeersKept, QuietNumbered
<1> QED BY <1>2, <1>3

LEMMA DisconnectNumbered ==
  ASSUME IInv, OrderInv, NEW e \in Ends, NEW m, HandleDisconnect(e, m)
  PROVE  OrderInv'
<1>1. EndNumbered(peer[e], app[e])
  BY DEF OrderInv
<1>2. EndNumbered(Reset(ResetQueues(peer[e])), app[e])
  BY <1>1, ClearResetNumbered
<1>3. "ZOMBIE" \notin Live /\ "ACKNOWLEDGING_DISCONNECT" \notin Live
  BY DEF Live
<1>4. Quietly
  BY DEF HandleDisconnect
<1>5. CASE peer[e].state \in {"DISCONNECTING", "CONNECTING"}
  <2>1. Become(e, [ResetQueues(peer[e]) EXCEPT !.state = "ZOMBIE"])
    BY <1>5 DEF HandleDisconnect
  <2>2. EndNumbered([ResetQueues(peer[e]) EXCEPT !.state = "ZOMBIE"], app[e])
    BY <1>1, <1>3, ClearNumbered
  <2> QED BY <1>4, <2>1, <2>2, QuietNumbered
<1>6. CASE peer[e].state = "ACKNOWLEDGING_CONNECT"
  <2>1. Become(e, Reset(ResetQueues(peer[e])))
    BY <1>6 DEF HandleDisconnect
  <2> QED BY <1>2, <1>4, <2>1, QuietNumbered
<1>7. CASE peer[e].state \in {"CONNECTED", "DISCONNECT_LATER"}
  <2>1. PICK p : p = [ResetQueues(peer[e]) EXCEPT !.state = "ACKNOWLEDGING_DISCONNECT"]
    OBVIOUS
  <2>2. Become(e, Acknowledging(p, m.command))
    BY <1>7, <2>1 DEF HandleDisconnect
  <2>3. EndNumbered(p, app[e])
    BY <1>1, <1>3, <2>1, ClearNumbered
  <2> QED BY <1>4, <2>2, <2>3, PeersKept, QuietNumbered
<1>8. CASE peer[e].state \notin {"DISCONNECTING", "CONNECTING", "ACKNOWLEDGING_CONNECT",
                                "CONNECTED", "DISCONNECT_LATER"}
  <2>1. Become(e, Acknowledging(peer[e], m.command))
    BY <1>8 DEF HandleDisconnect
  <2> QED BY <1>1, <1>4, <2>1, PeersKept, QuietNumbered
<1> QED BY <1>5, <1>6, <1>7, <1>8

LEMMA SendReliableNumbered ==
  ASSUME IInv, StampInv, OrderInv, NEW e \in Ends, NEW m \in net, Accepts(e, m), m.name = "COMMAND",
         m.command.name = "SEND_RELIABLE", HandleSendReliable(e, m)
  PROVE  OrderInv'
<1>1. EndNumbered(peer[e], app[e])
  BY DEF OrderInv
<1>2. peer[e].state \in {"CONNECTED", "DISCONNECT_LATER"} /\ Quietly
  BY DEF HandleSendReliable
<1>3. IsPacket(m.command, peer[e].conn, peer[e].session)
  <2>1. m.conn = peer[e].conn /\ m.session = peer[e].session
    BY <1>2, AcceptedSession
  <2> QED BY <2>1 DEF OrderInv, NetNumbered
<1>4. CASE peer[e].state = "DISCONNECT_LATER" \/ m.command.seq <= peer[e].received
           \/ m.command \in peer[e].incoming
  <2>1. Become(e, Acknowledging(peer[e], m.command))
    BY <1>4 DEF HandleSendReliable
  <2> QED BY <1>1, <1>2, <2>1, PeersKept, QuietNumbered
<1>5. CASE ~(peer[e].state = "DISCONNECT_LATER" \/ m.command.seq <= peer[e].received
             \/ m.command \in peer[e].incoming)
  <2>1. PICK p : p = DispatchReliable([peer[e] EXCEPT !.incoming = @ \cup {m.command}])
    OBVIOUS
  <2>2. Become(e, Acknowledging(p, m.command))
    BY <1>5, <2>1 DEF HandleSendReliable
  <2>3. EndNumbered(p, app[e])
    BY <1>1, <1>2, <1>3, <1>5, <2>1, ArrivedNumbered
  <2> QED BY <1>2, <2>2, <2>3, PeersKept, QuietNumbered
<1> QED BY <1>4, <1>5

LEMMA AcknowledgeNumbered ==
  ASSUME IInv, OrderInv, NEW e \in Ends, NEW m, HandleAcknowledge(e, m)
  PROVE  OrderInv'
<1>1. EndNumbered(peer[e], app[e])
  BY DEF OrderInv
<1>2. PICK p : p = [peer[e] EXCEPT !.unacked = @ \ {m.command}]
  OBVIOUS
<1>3. /\ WholePeer(p) /\ p.conn = peer[e].conn /\ p.session = peer[e].session
      /\ p.received = peer[e].received /\ p.incoming = peer[e].incoming
      /\ p.dispatched = peer[e].dispatched /\ p.state = peer[e].state
      /\ p.sent = peer[e].sent /\ p.unacked = peer[e].unacked \ {m.command}
  BY <1>1, <1>2 DEF EndNumbered, WholePeer
<1>4. Kept(peer[e], p) /\ SendsNumbered(p)
  BY <1>1, <1>3 DEF EndNumbered, SendsNumbered, Kept
<1>5. EndNumbered(p, app[e])
  BY <1>1, <1>4, KeptNumbered
<1>6. CASE p.state = "ACKNOWLEDGING_CONNECT"
  <2>1. PICK q : q = [p EXCEPT !.state = "CONNECTED"]
    OBVIOUS
  <2>2. Become(e, q) /\ Tell(e, "CONNECT")
    BY <1>2, <1>6, <2>1 DEF HandleAcknowledge
  <2>3. p.received = 0 /\ p.incoming = {} /\ p.dispatched = << >>
    BY <1>5, <1>6 DEF EndNumbered, QueuesNumbered
  <2>4. /\ WholePeer(q) /\ q.conn = peer[e].conn /\ q.received = 0 /\ q.incoming = {}
        /\ q.dispatched = << >> /\ q.sent = p.sent /\ q.unacked = p.unacked
        /\ q.session = p.session
    BY <1>3, <2>1, <2>3 DEF WholePeer
  <2>5. SendsNumbered(q)
    BY <1>3, <1>4, <2>4 DEF SendsNumbered
  <2>6. QueuesNumbered(q)
    BY <2>4, NothingEarly DEF QueuesNumbered
  <2> QED BY <2>2, <2>4, <2>5, <2>6, OpenNumbered
<1>7. CASE p.state = "DISCONNECTING"
  <2>1. NotifyDisconnect(e, "DISCONNECT")
    BY <1>2, <1>7 DEF HandleAcknowledge
  <2> QED BY <2>1, NotifiedNumbered
<1>8. CASE p.state = "DISCONNECT_LATER"
  <2>1. PICK q \in {p, Disconnecting(p)} : Become(e, q) /\ Quietly
    BY <1>2, <1>8 DEF HandleAcknowledge
  <2>2. EndNumbered(q, app[e])
    BY <1>5, <2>1, DisconnectingNumbered
  <2> QED BY <2>1, <2>2, QuietNumbered
<1>9. CASE p.state \notin {"ACKNOWLEDGING_CONNECT", "DISCONNECTING", "DISCONNECT_LATER"}
  <2>1. Become(e, p) /\ Quietly
    BY <1>2, <1>9 DEF HandleAcknowledge
  <2> QED BY <1>5, <2>1, QuietNumbered
<1> QED BY <1>6, <1>7, <1>8, <1>9

LEMMA ReceiveNumbered ==
  ASSUME IInv, StampInv, OrderInv, NEW e \in Ends, NEW m \in net, Receive(e, m)
  PROVE  OrderInv'
<1>1. \/ HandleAcknowledge(e, m) \/ HandleConnect(e, m) \/ HandleVerifyConnect(e, m)
      \/ HandleDisconnect(e, m)
      \/ /\ Accepts(e, m) /\ m.name = "COMMAND" /\ m.command.name = "SEND_RELIABLE"
         /\ HandleSendReliable(e, m)
  BY DEF Receive
<1> QED BY <1>1, AcknowledgeNumbered, ConnectNumbered, VerifyConnectNumbered,
           DisconnectNumbered, SendReliableNumbered

LEMMA DispatchNumbered ==
  ASSUME IInv, OrderInv, NEW e \in Ends, Dispatch(e)
  PROVE  OrderInv'
<1>1. EndNumbered(peer[e], app[e])
  BY DEF OrderInv
<1>2. CASE peer[e].state = "ZOMBIE"
  <2>1. Become(e, Reset(peer[e])) /\ Tell(e, "DISCONNECT")
    BY <1>2 DEF Dispatch
  <2> QED BY <1>1, <2>1, ResetNumbered, ToldNumbered
<1>3. CASE peer[e].state = "CONNECTED"
  <2>1. PICK p : p = [peer[e] EXCEPT !.dispatched = Tail(@)]
    OBVIOUS
  <2>2. PICK a : a = [app[e] EXCEPT !.got = Append(@, Head(peer[e].dispatched))]
    OBVIOUS
  <2>3. Become(e, p) /\ peer[e].dispatched # << >>
    BY <1>3, <2>1 DEF Dispatch, NeedsDispatch
  <2>4. app'[e] = a /\ \A f \in Ends \ {e} : app'[f] = app[f]
    BY <1>3, <2>2 DEF Dispatch, IInv, Shape
  <2>5. EndNumbered(p, a)
    BY <1>1, <1>3, <2>1, <2>2, <2>3, ReceivedNumbered
  <2> QED BY <2>3, <2>4, <2>5, BecomeNumbered
<1> QED BY <1>2, <1>3 DEF Dispatch

LEMMA FlushNumbered ==
  ASSUME IInv, OrderInv, NEW e \in Ends, Flush(e)
  PROVE  OrderInv'
<1>1. EndNumbered(peer[e], app[e])
  BY DEF OrderInv
<1>2. PICK s : s = IF Command("DISCONNECT") \in peer[e].acknowledgements
                     THEN "ZOMBIE" ELSE peer[e].state
  OBVIOUS
<1>3. PICK p : p = [peer[e] EXCEPT !.acknowledgements = {}, !.state = s]
  OBVIOUS
<1>4. MovesTo(e, p) /\ Transmit(AckWire(e, peer[e])) /\ Quietly
  BY <1>2, <1>3 DEF Flush, MovesTo, IInv, Shape
<1>5. Kept(peer[e], p) /\ p.sent = peer[e].sent /\ p.unacked = peer[e].unacked
  BY <1>1, <1>2, <1>3 DEF EndNumbered, WholePeer, Kept, Live
<1>6. SendsNumbered(p)
  BY <1>1, <1>5 DEF EndNumbered, SendsNumbered, Kept
<1>7. EndNumbered(p, app[e])
  BY <1>1, <1>5, <1>6, KeptNumbered
<1>8. /\ DOMAIN peer' = Ends /\ peer'[e] = p
      /\ \A f \in Ends \ {e} : peer'[f] = peer[f]
  BY <1>4, MoveSets DEF IInv
<1>9. app' = app
  BY <1>4, QuietSets
<1>10. NetNumbered'
  BY <1>4, AckWireNumbered DEF OrderInv
<1>11. \A f \in Ends : EndNumbered(peer'[f], app'[f])
  BY <1>7, <1>8, <1>9 DEF OrderInv
<1> QED BY <1>10, <1>11
        DEF OrderInv, EndNumbered, WholePeer, SendsNumbered, QueuesNumbered, GotNumbered

LEMMA TimeoutNumbered ==
  ASSUME IInv, OrderInv, NEW e \in Ends, CheckTimeouts(e)
  PROVE  OrderInv'
<1>1. EndNumbered(peer[e], app[e])
  BY DEF OrderInv
<1>2. CASE Become(e, Reset(peer[e])) /\ Quietly
  BY <1>1, <1>2, ResetNumbered, QuietNumbered
<1>3. CASE NotifyDisconnect(e, "DISCONNECT_TIMEOUT")
  BY <1>3, NotifiedNumbered
<1> QED BY <1>2, <1>3 DEF CheckTimeouts

LEMMA SendNumbered ==
  ASSUME IInv, OrderInv, NEW e \in Ends, PeerSend(e)
  PROVE  OrderInv'
<1>1. EndNumbered(peer[e], app[e])
  BY DEF OrderInv
<1>2. PICK p : p = [peer[e] EXCEPT !.sent = @ + 1]
  OBVIOUS
<1>3. PICK q : q = [p EXCEPT !.unacked = @ \cup {Packet(p, p.sent)}]
  OBVIOUS
<1>4. Become(e, q) /\ Quietly
  BY <1>2, <1>3 DEF PeerSend
<1>5. /\ WholePeer(p) /\ p.conn = peer[e].conn /\ p.session = peer[e].session
      /\ p.received = peer[e].received /\ p.incoming = peer[e].incoming
      /\ p.dispatched = peer[e].dispatched /\ p.state = peer[e].state
      /\ p.sent = peer[e].sent + 1 /\ p.unacked = peer[e].unacked
  BY <1>1, <1>2 DEF EndNumbered, WholePeer
<1>6. /\ Kept(peer[e], q) /\ q.sent = p.sent
      /\ q.unacked = peer[e].unacked \cup {Packet(p, p.sent)}
  BY <1>3, <1>5 DEF WholePeer, Kept
<1>7. p.sent \in Nat \ {0}
  BY <1>1, <1>5 DEF EndNumbered, SendsNumbered
<1>8. IsPacket(Packet(p, p.sent), peer[e].conn, peer[e].session)
  BY <1>5, <1>7 DEF IsPacket, Packet, Numbered, Datum
<1>9. SendsNumbered(q)
  BY <1>1, <1>6, <1>7, <1>8 DEF EndNumbered, SendsNumbered, Kept
<1>10. EndNumbered(q, app[e])
  BY <1>1, <1>6, <1>9, KeptNumbered
<1> QED BY <1>4, <1>10, QuietNumbered

LEMMA DisconnectLaterNumbered ==
  ASSUME IInv, OrderInv, DisconnectLater
  PROVE  OrderInv'
<1>0. "server" \in Ends
  BY DEF Ends
<1>1. EndNumbered(peer["server"], app["server"])
  BY <1>0 DEF OrderInv
<1>2. PICK p : p = [peer["server"] EXCEPT !.state = "DISCONNECT_LATER"]
  OBVIOUS
<1>3. PICK q \in {p, Disconnecting(peer["server"])} : Become("server", q) /\ Quietly
  BY <1>2 DEF DisconnectLater
<1>4. Kept(peer["server"], p) /\ p.sent = peer["server"].sent
      /\ p.unacked = peer["server"].unacked
  BY <1>1, <1>2 DEF EndNumbered, WholePeer, Kept, Live
<1>5. SendsNumbered(p)
  BY <1>1, <1>4 DEF EndNumbered, SendsNumbered, Kept
<1>6. EndNumbered(p, app["server"])
  BY <1>1, <1>4, <1>5, KeptNumbered
<1>7. EndNumbered(q, app["server"])
  BY <1>1, <1>3, <1>6, DisconnectingNumbered
<1> QED BY <1>0, <1>3, <1>7, QuietNumbered

LEMMA HostConnectNumbered ==
  ASSUME IInv, OrderInv, HostConnect
  PROVE  OrderInv'
<1>0. "client" \in Ends
  BY DEF Ends
<1>1. EndNumbered(peer["client"], app["client"])
  BY <1>0 DEF OrderInv
<1>2. PICK p : p = NewPeer("CONNECTING", peer["client"].conn + 1, NoSession, {Command("CONNECT")})
  OBVIOUS
<1>3. PICK a : a = [app["client"] EXCEPT !.status = "connecting"]
  OBVIOUS
<1>4. Become("client", p)
  BY <1>2 DEF HostConnect
<1>5. app'["client"] = a /\ \A f \in Ends \ {"client"} : app'[f] = app[f]
  BY <1>0, <1>3 DEF HostConnect, IInv, Shape
<1>6. {"status", "conn", "got"} \subseteq DOMAIN a /\ a.status = "connecting"
  BY <1>1, <1>3 DEF EndNumbered
<1>7. /\ WholePeer(p) /\ p.received = 0 /\ p.incoming = {} /\ p.dispatched = << >>
      /\ p.sent = 0 /\ p.unacked = {Command("CONNECT")}
  BY <1>2 DEF NewPeer, WholePeer
<1>8. SendsNumbered(p)
  BY <1>7 DEF SendsNumbered, Command
<1>9. QueuesNumbered(p)
  BY <1>7, NothingEarly DEF QueuesNumbered
<1>10. EndNumbered(p, a)
  BY <1>6, <1>7, <1>8, <1>9 DEF EndNumbered, GotNumbered
<1> QED BY <1>0, <1>4, <1>5, <1>10, BecomeNumbered

LEMMA ClientLeavesNumbered ==
  ASSUME IInv, OrderInv, Disconnect \/ Destroy
  PROVE  OrderInv'
<1>0. "client" \in Ends
  BY DEF Ends
<1>1. EndNumbered(peer["client"], app["client"])
  BY <1>0 DEF OrderInv
<1>2. PICK p \in {peer["client"], Disconnecting(peer["client"]), Reset(peer["client"])} :
        Become("client", p)
  BY DEF Disconnect, Destroy
<1>3. EndNumbered(p, app["client"])
  BY <1>1, <1>2, DisconnectingNumbered, ResetNumbered
<1>4. PICK b : b = [app["client"] EXCEPT !.status = "closing"]
  OBVIOUS
<1>5. {"status", "conn", "got"} \subseteq DOMAIN b /\ b.status # "open"
  BY <1>1, <1>4 DEF EndNumbered
<1>6. {"status", "conn", "got"} \subseteq DOMAIN NobodyThere /\ NobodyThere.status # "open"
  BY DEF NobodyThere
<1>7. PICK a \in {b, NobodyThere} :
        app'["client"] = a /\ \A f \in Ends \ {"client"} : app'[f] = app[f]
  BY <1>0, <1>4 DEF Disconnect, Destroy, IInv, Shape
<1>8. EndNumbered(p, a)
  BY <1>3, <1>5, <1>6, <1>7, NotOpenNumbered
<1> QED BY <1>0, <1>2, <1>7, <1>8, BecomeNumbered

LEMMA NextKeepsOrder ==
  ASSUME IInv, StampInv, OrderInv, [Next]_vars
  PROVE  OrderInv'
<1>1. ASSUME NEW e \in Ends, SendOutgoing(e)
      PROVE  OrderInv'
  BY <1>1, FlushNumbered DEF SendOutgoing
<1>2. ASSUME HostFlush
      PROVE  OrderInv'
  BY <1>2, FlushNumbered DEF HostFlush, Ends
<1>3. ASSUME EventElsewhere \/ UNCHANGED vars
      PROVE  OrderInv'
  <2>1. peer' = peer /\ net' = net /\ app' = app
    BY <1>3 DEF EventElsewhere, Quietly, vars
  <2> QED BY <2>1 DEF OrderInv, NetNumbered, EndNumbered, WholePeer, SendsNumbered,
                      QueuesNumbered, GotNumbered
<1> QED BY <1>1, <1>2, <1>3, DispatchNumbered, ReceiveNumbered, TimeoutNumbered, SendNumbered,
           DisconnectLaterNumbered, HostConnectNumbered, ClientLeavesNumbered
        DEF Next, Service

LEMMA InitNumbered == Init => OrderInv
<1> SUFFICES ASSUME Init PROVE OrderInv
  OBVIOUS
<1>1. PICK p : p = NewPeer("DISCONNECTED", 0, NoSession, {})
  OBVIOUS
<1>2. \A e \in Ends : peer[e] = p /\ app[e] = NobodyThere
  BY <1>1 DEF Init
<1>3. /\ WholePeer(p) /\ p.received = 0 /\ p.incoming = {} /\ p.dispatched = << >>
      /\ p.sent = 0 /\ p.unacked = {}
  BY <1>1 DEF NewPeer, WholePeer
<1>4. SendsNumbered(p) /\ QueuesNumbered(p)
  BY <1>3, NothingEarly DEF SendsNumbered, QueuesNumbered
<1>5. EndNumbered(p, NobodyThere)
  BY <1>3, <1>4 DEF EndNumbered, NobodyThere, GotNumbered
<1> QED BY <1>2, <1>5 DEF OrderInv, NetNumbered, Init

LEMMA NumberedInOrder == OrderInv => InOrder
<1> SUFFICES ASSUME OrderInv, NEW e \in Ends, app[e].status = "open"
             PROVE  /\ app[e].conn = peer[e].conn
                    /\ app[e].got = [n \in 1..Len(app[e].got) |->
                                       <<peer[e].conn, peer[e].session, n>>]
  BY DEF InOrder
<1>1. GotNumbered(peer[e], app[e])
  BY DEF OrderInv, EndNumbered
<1>2. PICK g \in Nat : g = Len(app[e].got)
  BY <1>1 DEF GotNumbered
<1>3. \A n \in 1..g : 0 + n = n
  OBVIOUS
<1>4. Numbers(peer[e].conn, peer[e].session, 0, g)
        = [n \in 1..g |-> <<peer[e].conn, peer[e].session, n>>]
  BY <1>3 DEF Numbers, Datum
<1> QED BY <1>1, <1>2, <1>4 DEF GotNumbered

-----------------------------------------------------------------------------
(***************************************************************************)
(* The packets an application has got (RECEIVE events of enet_host_service *)
(* in run of ynetserver.cpp and of the clients) are the first ones the     *)
(* other end sent on this very connection, each once and in order, however *)
(* the network loses, repeats, delays and reorders, and whatever of older  *)
(* connections and sessions still arrives, if an address gets a session ID *)
(* again only when nothing of the earlier session is left (IdIsFree).      *)
(***************************************************************************)
THEOREM AlwaysInOrder == Spec => []InOrder
<1>1. Init => IInv /\ StampInv /\ OrderInv
  BY InitIInv, InitStamps, InitNumbered
<1>2. IInv /\ StampInv /\ OrderInv /\ [Next]_vars => (IInv /\ StampInv /\ OrderInv)'
  <2> SUFFICES ASSUME IInv, StampInv, OrderInv, [Next]_vars PROVE IInv' /\ StampInv' /\ OrderInv'
    OBVIOUS
  <2>1. CASE Next
    BY <2>1, NextPreserves, NextKeepsStamps, NextKeepsOrder
  <2>2. CASE UNCHANGED vars
    BY <2>2, NextKeepsStamps, NextKeepsOrder DEF vars, IInv, Shape, ServerKnows
  <2> QED BY <2>1, <2>2
<1>3. IInv /\ OrderInv => InOrder
  BY NumberedInOrder
<1> QED BY <1>1, <1>2, <1>3, PTL DEF Spec
=============================================================================
