# A TLA+ verification project for YNetServer

YNetServer is a room server for a Godot multiplayer module: clients connect
over ENet, create and join rooms, and the server relays messages between the
members of a room. This directory holds TLA+ models of the server, of what it
relays, of its test client, of the ENet connection between them and of the
messages on it, the TLC configurations that check them, and proofs that TLAPS
checks.

All references are to `src/`; line numbers without a file are in
`src/ynetserver.cpp`.

## 1. The system

### Components

| Component | State | Operations | Modules |
|---|---|---|---|
| Room server (`ynetserver.cpp`, `room.h`, `client.h`) | `clients`: ENetPeer* -> Client; `rooms`: code -> Room (host, list of clients, settings) | CONNECT, DISCONNECT, DISCONNECT_TIMEOUT; ROOM_CREATE, ROOM_JOIN, ROOM_LEAVE, CREATE_ROOM_WITH_PASSWORD, JOIN_ROOM_WITH_PASSWORD, JOIN_OR_CREATE_ROOM(_RANDOM), KICK_CLIENT, six SET_* | `YNetServer`, `Lobby` |
| Identifier pools (`generateClientId`, `generateRoomId`, releases) | `usedClientIds`, `nextClientId`, `usedRoomIds`, `nextRoomId` | allocate, release | `IdPool`, `IdScan` |
| Relay (MESSAGE, RPC_TO_*, PACKET_TO_*) | none | forward to room, host or one member | `YNetRelay` |
| Room list and information (GET_ROOM_LIST, GET_ROOM_INFO) | none | filter, paginate, describe | `RoomList`, `YNetRelay` |
| Test client (`ynetclient.cpp`) | `currentRoom`, `peer`, `running`, the ENet host, shared by two threads | connect, disconnect, requests, message loop | `YNetClient`, `YNetSystem` (in part) |
| Serialization (`message.cpp`, `message.h`, `thirdparty/serialize.h`) | bit writer and reader | encode, choose a struct, decode | `BitStream`, `Messages` |
| ENet connection (`thirdparty/enet.h`) | one peer at each end | connect, send, disconnect (later), service, timeouts | `ENetConnection` (in part) |
| Range coder, status page, JSON library, command line, build files | | | not modelled (section 5) |

### How they interact

The server is one thread. `YNetServer::run` (90-190) takes one ENet event at a
time, runs its handler to completion, and polls the web server when no event is
left. `dataMutex` is therefore never contended, and a handler is one atomic
step. The clients and the network are the concurrency: requests, lost
connections and evictions arrive in any order. The server keys everything by
`ENetPeer*`, and it keeps *two* records of who is where: `Client::currentRoom`
and `Room::clients`. Every handler has to keep them in step with each other,
with `Room::host` and with the identifier pools.

A client process has two threads: the main thread reads commands, the message
thread handles what arrives. Both use one ENet host, `peer` and `currentRoom`,
without a lock. The client keeps a *third* record of where it is, which it
updates before the server has answered.

Below them ENet turns datagrams that are lost, repeated and reordered into
events. The server relies on five things: it is told of a connection once, then
of its packets in order, then of its end once, and after that never again;
packets of one connection do not turn up on the next one that uses the peer;
what is sent before `enet_peer_disconnect_later` arrives before the
disconnection; a client that is gone is noticed; and a client is connected
before the server hears of it. `YNetServer`, `YNetRelay` and `YNetSystem` assume
them; `ENetConnection` shows them, in `EventsPaired`, `InOrder`,
`ToldBeforeDisconnect`, `GoneNoticed` and `ServerFollows`, given that the network
forgets a datagram before its session ID comes round again (section 2).

### What is hard here

- **Two records of membership.** `handleRoomCreation` (670) and
  `handleRoomJoin` (739-741, 826-828) overwrite `currentRoom` and leave the
  peer in the list of the room it was in. Everything that cleans up later
  (leave, kick, disconnection) follows `currentRoom` only.
- **Reused peer slots.** A peer left in a list by a client that has gone is
  the next client that gets the slot.
- **A leave with five outcomes** (871-951), three callers, and members that
  are evicted with a delay (`disconnect_later`).
- **Identifier pools at their limit.** One search loop is guarded, the other
  is not; the counters wrap to different values.
- **Four requests and two fallbacks into a room**, each with its own copy of
  the admission checks.
- **Two threads in the client**, an optimistic `currentRoom`, and answers that
  cross with commands (`ynetclient.cpp` 302, 327, 345).
- **Connections that end at any moment**, by a DISCONNECT, a timeout of one end
  or of both, a kick or a crash, with the peer used again at once.
- **Arrays at any position of a word** in the bit packer, with writers and
  readers that are separate copies of each layout.

The complete list, with lines and the properties that cover each, is under
"hazards" in `PROJECT.json`.

## 2. The modules

```
IdPool <- IdScan <- IdScan_proofs                    search loops
IdPool <- YNetServer -> Lobby (abstract)             the server
          YNetServer <- YNetServer_proofs <- YNetRooms_proofs
RoomList, YNetServer <- YNetRelay                    what it relays and reports
          YNetRelay, YNetRooms_proofs <- YNetRelay_proofs
YNetServer, YNetClient <- YNetSystem                 server and clients together
          YNetSystem, YNetRooms_proofs <- YNetSystem_proofs
ENetConnection <- ENetConnection_proofs              the channel under them
                  ENetConnection_proofs <- ENetHandshake_proofs
BitStream <- Messages <- Messages_proofs             what travels on it
```

An `MC` module beside each holds definitions for TLC only: symmetry, views, sets
of inputs.

**YNetServer** - the server. One action per event and handler:

| Action | Code |
|---|---|
| `Connect` | `createClientForPeer` 465-474 and the confirmation 135-140 |
| `Disconnect` | 155-173: release the identifier, leave the room, erase the client |
| `HandleRoomCreation` (`CreateRoom`) | 615-687 |
| `HandleRoomJoin` (`JoinRoom`, `JoinAnyRoom`, `EnterRoom`) | 689-869 |
| `HandleJoinOrCreateRoom(Random)` | 1643-1695 |
| `HandleRoomLeave` (`Closes`, `Migrates`, `Evicted`, `RoomsAfter`, ...) | 871-951 |
| `HandleKickClient` | 1591-1641 |
| `HandleSet...` | 1332-1430 |

`clients` and `rooms` are the maps of the code, as partial functions. `closing`
is the set of peers `enet_peer_disconnect_later` was called for: they still
have a Client until the DISCONNECT event. `out` holds what the last handler
sent, per peer, filtered by what ENet accepts; no action reads it. `hung`
records that `generateRoomId` is in its endless loop; then the server takes no
further step, so the runs that reach it switch the deadlock check off.
Choices the code leaves to chance or to the order of a hash map are
nondeterministic: the generated room code, the room of a random join, and the
heir of a migrating room (`begin()` of an unordered map).
Abstracted: room codes and passwords are model values; the texts of errors are
kept only to tell them apart. Left out: logging, debugging flags, the web page,
`roomsByID` (nothing fills it; the erasures at 884, 916 and 932 read the
identifier of a room just destroyed, and erase nothing whatever they read),
`hashed_password` (a function of `password`).

`LeaveFirst` is an assumption on the *clients*: when TRUE, a client asks to enter
a room only while the server has it in none. The server does not enforce it.
The shipped client does not enforce it either: two `create_room` commands in a row,
or a join that is refused and a leave after it, are sent as they are given
(`ynetclient.cpp` 306, 319, 652-677). What does is a user who waits for answers and
leaves before entering: where all users are *careful* in this sense, every behaviour
of the server is one of `YNetServer` with `LeaveFirst = TRUE` (`ClientsLeaveFirst` in
`YNetSystem`, proved), and among users of any kind a careful one keeps to it
(`LeavesRoomFirst`, checked and proved). With `LeaveFirst = FALSE` clients send anything; what that leads to is
in `ghost_members` and `room_ids_exhausted`.

**Lobby** - what the rooms promise, in two variables (`members`, `host`) and
five actions. `ImplementsLobby` says that `YNetServer` implements it, with the
members of a room taken from its list of clients.

**IdPool** - the arithmetic of the cyclic counters, and `IsNextFree`, the result
of an allocation as one step. **IdScan** - the two search loops one iteration
at a time, with releases in between.

**YNetRelay** - extends `YNetServer` by the handlers that only look and send:
`BroadcastMessage` (1150-1190), `HandleRPCTo...` (1213-1330), `HandlePacketTo...`
(1473-1589), `HandleGetRoomInfo` and `HandleGetRoomList` (1432-1471, 1082-1148).
`relayed` is the last request, its target and channel, and what was sent for it.
Numbers keep their width: the handler of a packet with a target looks for the target
modulo `IdRange` (`PacketTo`). Payloads are left out;
so is `handleRPC`, which nothing calls. **RoomList** - the filters with their
defaults and their partial reading when a value has the wrong type
(`RoomFilters::fromJson`), and the page. A request is a function from the fields
it has to their values. Page numbers count from 1 (`SoundFilters`): for smaller
ones the code indexes outside its vector. The `std::map` `rooms` is iterated in
the order of its keys, `SortedCodes`: a code has the place in a list that says how
many listed codes come before it (`Place`, `InMapOrder`).

**YNetClient** - the test client as a set of processes, one at a time for each
peer of the server: `main` and `loop` say where the two threads are. An action
is what happens between two accesses to shared state: `Command` checks `peer`,
`Transmit` uses it, `Finish` writes `currentRoom`; `Receive` is one event of the
message loop. `Quit` and `Close` are the two halves of `disconnect` with the join
between them. `up` and `down` are what travels. `Crash` kills a process, `Break`
cuts its network; of what was on its way a prefix arrives.
**YNetSystem** - composes it with `YNetServer`: `Serve` takes the first message or
event of a channel and runs the server's action for it; what the server sends is
appended to the clients' channels, followed by the disconnection of those it
closes. A peer that has been disconnected is not listened to.
When `generateRoomId` hangs, the server is silent for ever, and so is its channel.
`Command` has the checks of the client and no others. What a user does is `Allows`:
the users in `Careful` wait for the answer to a request to enter a room before the
next one, and ask for none while the client shows a room; the others give their
commands at any time. A careless user gets into two rooms at once, and after a
refused join the client shows a room it is not in (327 is not taken back at 104).
All users name a room with `join_room` and `join_or_create`.

**ENetConnection** - the server's peer and the clients that use it, one after the
other. `peer` is an ENetPeer (state, session, unacknowledged commands,
acknowledgements to send, channel, dispatch queue); one action per handler of
`enet_protocol_handle_incoming_commands` and per function an application calls.
A call of `enet_host_service` is a sequence of steps: dispatch, send, receive
and send. An event of another peer of the server may end a call early
(`EventElsewhere`), so that handlers run with acknowledgements still to be sent.
`net` never forgets a datagram to an address that exists, which is
loss, repetition, delay and reordering at once, since commands are sent until
they are acknowledged. A connection has an address of its own. `session` counts the
uses of the server's peer; a header carries the count modulo `SessionIds` (two bits in
the code), and that is all that `Accepts` sees of it. One thing is assumed,
`IdIsFree`: when an address gets a session ID again, nothing is left of the session that
had it, neither a datagram nor the client's end of it. The code relies on this (it has
four IDs and no other way to tell, `enet.h` 1902 and 2602); an address uses up the
four only if its CONNECT is taken four times more, each time after the connection before
was given up, which takes seconds. Bounded in the runs: the
number of connections, of sessions on the peer, and of packets.

**BitStream** - `BitWriter` and `BitReader` of `thirdparty/serialize.h`. Every field
is a whole number of bytes, so the unit is the byte; words of four bytes and the
scratch stay. What lies after a packet in memory is the constant `Junk`.
**Messages** - one message at a time from the sender's struct, field by field,
to the receiver's struct: `Begin`, `Write`, `Flush` (`sendMessage`), `Arrive`, `Read`
(`Message::Deserialize`), `Handle` (the dispatcher). A packet may be cut short at
any byte. `Format` is the table of structs, `StructOf` the choice by type, `Cast`
that of the dispatchers. The buffer of a writer is large enough: payloads are
at most the 65532 bytes of the server's largest buffer (480-509), which also
keeps lengths within the 32 bits they are written in.

Definitions marked as mutants in comments are wrong on purpose: each replaces
one definition to show that a property notices a plausible bug. Nothing else
uses them.

## 3. The runs

| Run | What it shows |
|---|---|
| `server` | For clients that do anything: types, every host is in its room, client and room identifiers in use are exactly those handed out, through reuse of slots, wrap-around, and up to exhaustion |
| `server_one_room` | For clients that do anything: nobody gets into a room that is full, private or of another protocol (`AdmissionControlled`); hosts change only by migration (`HostHandover`); departures are announced to everybody ENet can reach (`DepartureTold`) |
| `leave_first` | The server with what it relays, for clients that leave before they enter. The two records of membership agree, nobody's `currentRoom` dangles, every member can be reached and speaks the room's protocol, no room is abandoned, migration keeps the room, a kick removes, an identifier is always found, and the server refines `Lobby`. What a client sends stays in its room and protocol (`RelayStaysInRoom`), reaches exactly the others there, or the host, as its type says (`RelayReachesRoom`), or exactly the client that has the identifier it is addressed to, however identifiers were reused (`TargetReached`, for targets of 16 bits), and packets name their sender (`SenderNamed`). Pages cover the room list (`PagesCover`), and a client that pages through a changing list misses a room, or sees one twice, only when a room went or came (`PagingSound`) |
| `id_scan` | Both loops take the first free identifier at or after the counter, also when they pass the end of the range; the guarded loop throws only when nothing is free; the searches end (`SearchEnds`, under weak fairness) |
| `system` | Server and clients together, one user careful and one not. Once all has arrived, a client the server has in a room shows a room, whatever its user did (`NoStrandedClient`), and a careful user's client shows the server's room, or one it was refused (`NoHiddenRoom`). The server takes a careful client's request to enter a room only when it has that client in none (`LeavesRoomFirst`) |
| `system_progress` | With a careless user among them: requests are answered (`RequestAnswered`), clients that go are forgotten (`GoneForgotten`) |
| `enet_connection` | The five things the others assume of ENet (section 1) |
| `messages` | The writer's words are the bytes of the fields (`WriterExact`); what arrives whole is what was sent, is consumed whole, and can be cast (`RoundTrip`); what is cut short anywhere is refused (`ShortRefused`) |

Four runs show a disagreement between the code and what it or `src/README.md` says:

| Run | Statement | What the code does |
|---|---|---|
| `ghost_members` | README:184 "Automatic cleanup of disconnected clients" | a client that entered a second room stays in the list of the first one after it has gone |
| `room_ids_exhausted` | README:188 "Resource Exhaustion: Client ID and room ID management" | rooms that were left behind hold all identifiers; `generateRoomId` (560) then never returns |
| `null_peer` | `ynetclient.cpp:285`: with a null `peer`, "Not connected to server" | the message thread may set `peer` to null (158) after the check and before line 302 |
| `room_id_zero` | README:176 "Min Room ID: 1000" | `generateRoomId` starts at 1000 but wraps to 0 (561), which is also the value for no room (455, 949) |

Two more disagreements can be read off the handlers, and no run is spent on them.
README:131 promises "PLAYER_LEFT: Player left notification", but a migration (919-937)
tells the members that remain who their new host is and not that the old one left;
`DepartureTold` leaves migrations out. README:115 says "`PACKET_TO_CLIENT`: Send packet to
specific client", and the message has a "4-byte target client ID" (`message.h:217`), but the
handler takes the target in 16 bits (393, 1545): a packet for 65536 + n reaches client n.
`TargetReached` is about the targets that fit.

### Bounds

`server`, `server_one_room`. Peers: 2 where the question is about one peer's two rooms
(`server`: 3 codes and one room identifier, so that a peer asks for more rooms than
there are identifiers), 3 where a host, a leaver and a witness, or two possible heirs,
are needed. Client identifiers: as many as peers, the smallest number `EnoughClientIds`
allows, so that every reconnection reuses one and the counter wraps. Limits 0 (refused by
the handler) and 2 make a room of three full; 4, the default, never is. Two passwords and
two protocols give one match and one mismatch. `IdScan` has 5 client and 7 room
identifiers and may hold all of them.

`leave_first`. Three peers (a host, a leaver or sender, and a witness), two codes and two
protocols. There are as many room identifiers as codes, so a search fails as soon as
one identifier outlives its room; that as many identifiers as *peers* suffice, with any number of
codes, is proved (section 4). Targets of packets: no client's, two clients', and one (10,
modulo 8) that is a client's after truncation. Pages of 0, 1 and 2 rooms.

`system`, `system_progress`. Two clients. In `system` a careless user creates two rooms
with or without leaving, and a careful guest joins one, leaves, crashes and loses its
connection. One request may be on its way when the next command is given
(`MaxPending = 2` counts it with its answer), so that commands cross with answers. In
`system_progress` the careless host creates two rooms and quits, and the careful guest joins or
opens one and may crash; commands wait until nothing is on its way (`MaxPending = 1`),
for liveness takes TLC much longer.

`enet_connection`. Two connections on the one peer, so that datagrams of the first
meet the second; one packet from the client and two from the server, the fewest
that can arrive in the wrong order; two sessions of the four IDs. IDs that come round
are in the model and in the proofs, which are for any number of sessions, and not in
the run.

`messages`. Payloads begin one or three bytes into a word, the positions the structs
give them, and paddings anywhere; lengths 0 to 4, 7 and 8 give every head and tail, with
no, one or several whole words.

No state constraint is used: the bounds are in the guards, or the constants are
finite. Views leave out `out`, `relayed` and `event`, which no action reads after
the step that writes them; TLC evaluates action properties on every step it
generates, not only on those that lead to a new state. Deadlock is
checked except where the system may really stop: in `server` and
`room_ids_exhausted` when `generateRoomId` hangs, in `id_scan` when a search does.

### Fairness

`YNetServer`, `YNetRelay` and `Messages` have safety properties only and no
fairness: clients are free to do nothing.
`IdScan` assumes weak fairness of the loop body, which is a thread that is never
suspended for ever. `FairSystemSpec` assumes it of the server's loop for each
peer with something to deliver (ENet takes its peers in turn, and `run` handles an
event within one iteration), and of both threads of a client; users, crashes and
broken networks have none. That the other end's timeout comes at last is part of
`Break` and `Vanish`, and `ENetConnection` justifies it. `FairSpec` of `ENetConnection`
assumes weak fairness of the server's dispatching and sending, which is `run`
calling `enet_host_service` at least every 16 ms, and of the timeout of a client
that is gone: ENet pings, so something stays unacknowledged. Nothing is assumed
of clients or of the network.

## 4. Proofs

`YNetServer_proofs` proves, for every number of peers, codes, passwords and
identifiers, and both values of `LeaveFirst`:

| Theorem | Statement |
|---|---|
| `TypeCorrect` | `Spec => []TypeOK` |
| `HostAlwaysMember` | `Spec => []HostIsMember` |
| `ClientIdsAlwaysExact` | `Spec => []ClientIdsExact` |
| `RoomIdsAlwaysExact` | `Spec => []RoomIdsExact` |
| `AdmissionAlwaysControlled` | `Spec => AdmissionControlled` |
| `HostHandoverAlways` | `Spec => HostHandover` |
| `DepartureAlwaysTold` | `Spec => DepartureTold` |

The assumptions are those the module states: `ServerAssumption` (the kinds of
the constants) and `EnoughClientIds`, of which the proofs use that `Peers` is
finite, so that a room has a size. That the pool is large enough is not needed
for safety: without it a connection would be refused.

The inductive invariant is `IInv`, the conjunction of the first four. `TypeOK` is not
inductive alone: CONFIRM_ROOM_JOIN carries `inRoom[room.host]`, which is an
identifier only when the host is in the list (in the code, `operator[]` would
invent a player 0). `HostIsMember` needs in turn that the heir of a migration
is one of the members that remain (`HeirStays`). The identifier invariants
need the types, and that a step that moves a client or changes a room leaves
its identifier alone.

The argument goes through a normal form of the steps. `NextSteps` shows that
the requests, with their fallbacks into each other, come down to eight kinds:
a connection, a disconnection, a refusal, the creation of a room, an admission
to one (`Admissible`), a leave, a kick and a change of settings. A leave, a
kick and a disconnection share `Leaves` with `Stays` or `Goes` (`LeaveSteps`),
and `RoomsAfterLeave`, `RoomAfterLeave` and `ClientsAfterType` say what they do
room by room and client by client. Each invariant then has one lemma with a
step per kind. `AdmissionControlled` and `HostHandover` follow from `RoomSteps`: a room
that outlasts a step is untouched, loses one peer, or gains one admissible peer.
`DepartureTold` needs one more invariant, `IdCurrent`: the room a Client names lists
it by the identifier it has now (a room it was in before may not, since the next
client on the peer has another one).

`YNetRooms_proofs` proves, `ASSUME LeaveFirst`, that `Spec` implies each of
`[]MembershipAgrees`, `[]NoDanglingRoom`, `[]MembersReachable`, `[]ProtocolUniform`,
`[]NoAbandonedRoom`, `KickRemoves`, `MigrationKeepsRoom` and the refinement
`ImplementsLobby`; and `[]NeverHangs` when besides `EnoughRoomIds` holds, no more
peers than room identifiers (4000 and 65536 in the code). The invariant is
`PlacedInv`, `IInv` and `Placed`: the agreement of the two records, no dangling room,
one protocol per room, and that a client that is being disconnected is in no room
(`ClosingAreOut`), without which agreement says nothing of reachability.
`LeavePlaces` is the core: under agreement a closing room puts out exactly those
whose Clients name it, and the heir of a migration always has a Client.
`RoomIdFree` maps each identifier to the host of its room, which is never the
creator, and counts. In the refinement each kind of step is one step of
`Lobby` or none (`LeaveInLobby`, `CreateInLobby`, `EnterInLobby`).

`YNetSystem_proofs` proves what server and clients promise together, of `SystemSpec`
with any number of clients that come, go, crash and are cut off:

| Theorem | Statement |
|---|---|
| `ClientNeverStranded`, `RoomNeverHidden` | `[]NoStrandedClient`, `[]NoHiddenRoom`, with users of any kind |
| `AlwaysLeavesRoomFirst` | `[]LeavesRoomFirst`, with users of any kind |
| `SystemHasServer` | `SystemSpec => Spec` |
| `ClientsAlwaysLeaveFirst` (if `Careful = Peers`) | `ClientsLeaveFirst`: the server's part of every behaviour is one of a server whose clients leave before they enter |
| `SystemMembershipAgrees`, `SystemNeverDangling`, `SystemMembersReachable`, `SystemProtocolUniform`, `SystemNeverAbandoned`, `SystemNeverHangs`, `SystemImplementsLobby` (if `Careful = Peers`) | the theorems of `YNetRooms_proofs`, with the assumption on users in the place of `LeaveFirst` |

The last two rows come down from an assumption on what the server is sent, at any time
and in any order, to one on what a user does who sees a prompt: `LeaveFirst` is not a
property of `YNetClient`, whose `Command` sends what it is told. The
invariant `SystemInv` is `IInv` and, for each client, four parts: a process that has
ended leaves nothing behind at its end (`ProcessOK`); the server knows a client from its
CONNECT, which comes first, to the end of the connection, which comes last and is never
lost (`UpOK`); a client that is being disconnected is told so, and a timeout comes only
when the connection is lost (`DownOK`); and a client that the server has in a room, with
no request to leave under way, knows of a room or is being told of one (`StrandedOK`).
For the client of a careful user there are four more, which do not depend on what the
users of the others do: at most one request to enter is on its way, and behind a
ROOM_LEAVE if the server has the client in a room (`QueueOK`, which is what gives
`LeavesRoomFirst` and `ClientsLeaveFirst`); at most one answer is on its way, only when no request is, and
it names the room where the server has the client (`AnswerOK`); what `sendMessage`
found still holds when it sends (`SendingOK`); and `BeliefOK`, the heart: when the server
has served all that is on its way, it will have the client in the room that the client
shows, or is about to write, or in none. `NoHiddenRoom` is `BeliefOK` with empty
channels, `NoStrandedClient` is `StrandedOK` with empty channels.
The server's handlers enter through `ServeSteps`, which says of each
whom it told what, so that a step of a client's own request, of another client's,
and of a closing room are three cases (`EntererKept`, `LeaverKept`, `OthersKept`).

`YNetRelay_proofs` proves `RelayStaysInRoom`, `RelayReachesRoom`, `TargetReached` and
`SenderNamed` of `RelaySpec` under `LeaveFirst` and `RelayAssumption`; the second and the
third say exactly who receives, and the third is about targets below `IdRange`, since for
the others the code does not do it (section 3). The relay keeps
`PlacedInv` (`RelayInv`); every request comes down to serving one message to a set of
peers (`RelayCases`), and `RoommatesListed` says that the list a handler goes by is
the set of clients that name the room. It also proves, without `LeaveFirst`,
`PagesAlwaysCover` and `PagingAlwaysSound` for any number of rooms and pages of any
size. A list is its codes by place, and no two codes have the same place, so that the
places of n codes are exactly 0 to n - 1 (`PlacesTaken`, by counting: there is no
induction on the list). A page is then the codes whose places are its own
(`PageIs`), pages do not overlap and reach every place (`PageFound`). For a list that
changes between two pages, `NothingMissed` takes the first code that was not read yet:
had no code before it gone, none could now come earlier than it.

`IdScan_proofs` proves `TypeOK`, `SearchInv`, `ThrowsOnlyWhenExhausted` and
`TakesNextFree` for pools of any size, which is what lets `YNetServer` allocate in
one step. The three invariants are inductive together; `DistanceNext` is the
arithmetic: a step of the counter goes one further, or all the way round.

`Messages_proofs` proves `WriterAlwaysExact`, `Spec => []WriterExact`, for numbers
and payloads of any content and length and any `Junk`. Assumed: `MessagesAssumption`
and `JunkAssumption`, that they are bytes. The invariant `IInv` adds to `WriterExact`
the types and what makes it inductive: stored memory is a whole number of words,
and the scratch is shorter than a word, so that a position modulo four
says how much of the current word is pending. `WriteBitsExact` shows that a write
of at most one word appends its bytes; `WriteBytesExact` that an array does, in
four cases (all in the head; whole words and a tail, either of which may be
empty); `WriteVectorExact`, `WriteStringExact` and `WriteFieldExact` build on
them, and `FlushExact` says that the zeros of the last word come after the text.
For the reader it proves `RoundTripAlways` and `ShortAlwaysRefused`, by `LayoutInv`:
`text` is the fields of the message laid out one after the other, each from an offset
on that depends on those before it; the reader stands at the offset of the field
it is to read, and its scratch holds what lies between there and the end of
the last word it has fetched. From there a field that fits is read as it was written,
and one that does not is refused before anything is made of it, although the
word that holds its beginning may have been fetched with bytes of `Junk`.

`ENetConnection_proofs` proves `EventsAlwaysPaired`, `Spec => EventsPaired`, and
`AlwaysInOrder`, `Spec => []InOrder`;
`ENetHandshake_proofs` proves `ServerAlwaysFollows`, `Spec => []ServerFollows`, and
`AlwaysToldBeforeDisconnect`, `Spec => ToldBeforeDisconnect`: all of them for
any number of connections, sessions and packets over the whole fault model of the
network, and but for the first one they need `IdIsFree`, the assumption of section 2 on
session IDs that come round. Its use is `StampInv`: of the sessions about for an
address, on the wire and at the two ends, the latest is fewer than `SessionIds` ahead of
any other, so that equal IDs are equal sessions (`IdsTell`, by the arithmetic of
remainders, and `AcceptedSession`). A step that starts no session keeps it
(`ContinuesStamps`), and the one that does is `ConnectStamps`. `EventsPaired` needs `ServerKnows`: the application knows of a connection
exactly in the states from CONNECTED on, and a peer that is not there yet has
nothing to acknowledge (`SoundPeer`), or a flush could make it a zombie that
reports a disconnection of nobody. `InOrder` needs `OrderInv`: a packet in `net` is the
packet of its number, connection and session (`NetNumbered`); what has come early is
above the number received, and what the application got, followed by what is
dispatched for it, is the numbers 1 to that number (`GotNumbered`, `Waiting`). The one
hard step is `enet_peer_dispatch_incoming_reliable_commands`: the packets the channel
moves on are closed downward and all above the number received, so that their count
alone says which they are (`RunIsNext`). `ServerFollows` needs `Handshake`: every
acknowledgement of a VERIFY_CONNECT that is still on its way, however old, names a
session that the client has (`NetSound`, `Confirmed`), a client takes a session once,
and the server waits for nothing but that acknowledgement. Most steps are
`Ordinary`: no connection comes up and none starts anew; each of the other four
has a lemma of its own.

`ToldBeforeDisconnect` is about three parties: the server, which ends a connection when
all is acknowledged; the client's host, which acknowledges a packet when it comes, and
not when its application gets it; and the application. `ToldInv` follows the
number `N` of packets the server has sent on the client's connection. `Sends`: those and
no others are on the wire, and the server waits for each or its acknowledgement
is on its way. `Over`: once a DISCONNECT is on its way, all `N` are acknowledged, and the
server sends no more. `Reads`: what is acknowledged has come (`Had`), and the packet
after the last one moved on has not; so while the client receives, which it does only
with nothing waiting for its application, the next packet the application is to get is
not acknowledged. A DISCONNECT that is handled then finds all `N` got (`ClientEnds`), and
`Leaves` keeps that until the application is told. `Addressed` says that nothing on its way is
of a connection or a session to come, and `Agree`, which follows from `Handshake`, that the
server counts on the client's session. A step changes one end: the lemmas about what the
server or the client does take the parts of the state as parameters, and those named
`...Told` apply them to the actions.

Only model-checked: liveness (`SearchEnds`, `RequestAnswered`, `GoneForgotten`,
`GoneNoticed`), which stays with TLC, as liveness under fairness is beyond the proof
system. Every other property that a passing run checks is a theorem.

## 5. What is left out

- **Client:** the commands whose answer is only printed (the SET_* requests,
  lists, relayed messages), commands with a password (the same handling as those
  without), the number `currentRoomId`, and failed starts, which leave no trace.
  What two overlapping calls into one ENet host do, and two accesses to one
  `std::string`, is below the level of the model: each is one step.
- **Requests of the server in `YNetSystem`:** KICK_CLIENT and the SET_* requests are
  actions of `YNetServer` and not among the commands of the clients there.
- **Admission:** that the password of a request is the stored one is in the handlers of
  `YNetServer`, but no property says so.
- **ENet:** unreliable and unsequenced packets, fragments, bandwidth, throttling,
  pings as packets, checksums, peers beyond the one, and the 16 bits of sequence
  numbers with their windows, which matter only with thousands of packets on
  their way. What unreliable PACKET messages promise is not modelled.
- **Messages:** functions of `serialize.h` that no message uses (floats, ranges,
  relative integers); messages longer than their buffers. Lengths are numbers without
  a width: in the code the check of an array's length multiplies it by eight in an `int`
  (`serialize.h:1097`), which overflows for a forged length of 2^28 or more.
- **Range coder** (`compress.c`): a vendored codec on whole datagrams.
- **Status page** (mongoose, 25,000 vendored lines): reads the maps in the server's
  thread and formats them. **JSON** (`json.hpp`, 25,000 vendored lines): what the
  filters take from it is in `RoomList`. These two and the range coder are most of
  the lines under `src/`.
- **Command line, prompt, logging, build files:** pure I/O.

Worth doing next: fragments and unreliable packets in `ENetConnection`.
