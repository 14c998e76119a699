------------------------------ MODULE Messages ------------------------------
(***************************************************************************)
(* How a message travels: the sender serializes its struct field by field, *)
(* the receiver picks a struct by the first byte, deserializes it and      *)
(* hands it to the handler of its type.                                    *)
(***************************************************************************)
EXTENDS BitStream

CONSTANTS
  Numbers,    \* values of fields of fixed width, as bytes (little endian)
  Payloads    \* contents of strings and arrays

\* The buffers messages are written to have 65532 bytes at most.
ASSUME MessagesAssumption ==
  /\ Numbers \subseteq Seq(Byte) /\ Payloads \subseteq Seq(Byte)
  /\ \A s \in Payloads : Len(s) <= 65532

VARIABLES
  phase,      \* "idle", "write", "send" or "read"
  message,    \* what is sent: its type, its struct and the values of its fields
  at,         \* the field that is next
  writer,     \* the sender's WriteStream
  text,       \* history: the bytes it was given, one after the other
  packet,     \* what arrives
  reader,     \* the receiver's ReadStream
  decoded     \* the receiver's struct and fields

vars == <<phase, message, at, writer, text, packet, reader, decoded>>

-----------------------------------------------------------------------------
MessageType == [
  ERROR |-> 0, ROOM_CREATE |-> 1, ROOM_JOIN |-> 2, ROOM_LEAVE |-> 3,
  RPC_TO_SERVER |-> 4, RPC_TO_CLIENTS |-> 5, RPC_TO_CLIENT |-> 6, MESSAGE |-> 7,
  GET_ROOM_LIST |-> 8, CONFIRM_ROOM_CREATION |-> 9, CONFIRM_ROOM_JOIN |-> 10,
  PLAYER_JOINED |-> 11, SET_ROOM_PASSWORD |-> 14, SET_MAX_PLAYERS |-> 15,
  SET_ROOM_PRIVATE |-> 16, SET_HOST_MIGRATION |-> 17, SET_ROOM_NAME |-> 18,
  SET_EXTRA_INFO |-> 19, GET_ROOM_INFO |-> 20, PACKET_TO_SERVER |-> 21,
  PACKET_TO_CLIENTS |-> 22, PACKET_TO_CLIENT |-> 23, KICK_CLIENT |-> 24,
  JOIN_ROOM_WITH_PASSWORD |-> 25, JOIN_OR_CREATE_ROOM |-> 26,
  JOIN_OR_CREATE_ROOM_RANDOM |-> 27, PLAYER_LEFT |-> 28,
  CREATE_ROOM_WITH_PASSWORD |-> 29, HOST_LEFT |-> 30, CONFIRM_CONNECTION |-> 31]

\* The fields each struct serializes, after the type.
Format == [
  BaseMessage                   |-> << >>,
  ConfirmConnectionMessage      |-> <<"uint16">>,
  Message                       |-> <<"string">>,
  RoomSettingMessage            |-> <<"string">>,
  CreateRoomWithPasswordMessage |-> <<"string", "string">>,
  JoinRoomWithPasswordMessage   |-> <<"string", "string">>,
  ConfirmRoomJoinMessage        |-> <<"string", "string">>,
  RPCMessage                    |-> <<"uint16", "vector">>,
  PacketMessage                 |-> <<"uint8", "uint8", "uint32", "vector">>]

RPCs     == {"RPC_TO_SERVER", "RPC_TO_CLIENTS", "RPC_TO_CLIENT"}
Packets  == {"PACKET_TO_SERVER", "PACKET_TO_CLIENTS", "PACKET_TO_CLIENT"}
Settings == {"SET_ROOM_PASSWORD", "SET_MAX_PLAYERS", "SET_ROOM_PRIVATE",
             "SET_HOST_MIGRATION", "SET_ROOM_NAME", "SET_EXTRA_INFO"}
Requests == {"ROOM_CREATE", "ROOM_JOIN", "ROOM_LEAVE", "MESSAGE", "GET_ROOM_INFO",
             "GET_ROOM_LIST", "KICK_CLIENT"}
Notices  == {"ERROR", "MESSAGE", "GET_ROOM_INFO", "GET_ROOM_LIST", "PLAYER_JOINED",
             "PLAYER_LEFT"}

\* What YNetClient and YNetServer send.
Sent ==
  LET As(to, types, struct) == [to : {to}, type : types, struct : {struct}]
  IN As("server", (Requests \ {"ROOM_JOIN"}) \cup {"JOIN_OR_CREATE_ROOM_RANDOM"}, "Message")
     \cup As("server", Settings, "RoomSettingMessage")
     \cup As("server", {"CREATE_ROOM_WITH_PASSWORD"}, "CreateRoomWithPasswordMessage")
     \cup As("server", {"JOIN_ROOM_WITH_PASSWORD", "JOIN_OR_CREATE_ROOM"},
             "JoinRoomWithPasswordMessage")
     \cup As("server", RPCs, "RPCMessage")
     \cup As("server", Packets, "PacketMessage")
     \cup As("client", {"CONFIRM_CONNECTION"}, "ConfirmConnectionMessage")
     \cup As("client", {"CONFIRM_ROOM_JOIN"}, "ConfirmRoomJoinMessage")
     \cup As("client", Notices \cup {"CONFIRM_ROOM_CREATION", "HOST_LEFT"}, "Message")
     \cup As("client", {"RPC_TO_CLIENTS"}, "RPCMessage")
     \cup As("client", Packets, "PacketMessage")

\* Message::Deserialize
StructOf(type) ==
  CASE type = "CONFIRM_CONNECTION" -> "ConfirmConnectionMessage"
    [] type = "CONFIRM_ROOM_JOIN" -> "ConfirmRoomJoinMessage"
    [] type = "CREATE_ROOM_WITH_PASSWORD" -> "CreateRoomWithPasswordMessage"
    [] type \in {"JOIN_ROOM_WITH_PASSWORD", "JOIN_OR_CREATE_ROOM"} ->
         "JoinRoomWithPasswordMessage"
    [] type \in Settings -> "RoomSettingMessage"
    [] type \in RPCs     -> "RPCMessage"
    [] type \in Packets  -> "PacketMessage"
    [] type \in Requests \cup Notices
               \cup {"CONFIRM_ROOM_CREATION", "JOIN_OR_CREATE_ROOM_RANDOM", "HOST_LEFT"} ->
         "Message"

\* The structs a dispatcher casts to, by type; it has no other case.  What it
\* cannot cast it drops.
Cast(to, type) ==
  IF to = "server"
    THEN CASE type \in Requests \cup {"ERROR", "JOIN_OR_CREATE_ROOM_RANDOM"} -> "Message"
           [] type \in {"JOIN_ROOM_WITH_PASSWORD", "JOIN_OR_CREATE_ROOM"} ->
                "JoinRoomWithPasswordMessage"
           [] type = "CREATE_ROOM_WITH_PASSWORD" -> "CreateRoomWithPasswordMessage"
           [] type \in Settings -> "RoomSettingMessage"
           [] type \in RPCs     -> "RPCMessage"
           [] type \in Packets  -> "PacketMessage"
           [] OTHER -> "none"
    ELSE CASE type \in Notices \cup {"CONFIRM_ROOM_CREATION"} -> "Message"
           [] type = "CONFIRM_CONNECTION" -> "ConfirmConnectionMessage"
           [] type = "CREATE_ROOM_WITH_PASSWORD" -> "CreateRoomWithPasswordMessage"
           [] type = "CONFIRM_ROOM_JOIN" -> "ConfirmRoomJoinMessage"
           [] type = "RPC_TO_CLIENTS" -> "RPCMessage"
           [] type = "PACKET_TO_CLIENTS" -> "PacketMessage"
           [] OTHER -> "none"

-----------------------------------------------------------------------------
Width == [uint8 |-> 1, uint16 |-> 2, uint32 |-> 4]

Bytes32(n) == <<n % 256, (n \div 256) % 256, (n \div 65536) % 256, (n \div 16777216) % 256>>
Value32(b) == b[1] + 256 * b[2] + 65536 * b[3] + 16777216 * b[4]

Zeros(n) == [i \in 1..n |-> 0]
Padding(n) == (4 - (n % 4)) % 4

\* serialize_uint32 of the size, serialize_bytes unless there is nothing
WriteVector(w, data) ==
  LET sized == WriteBits(w, Bytes32(Len(data)))
  IN IF data = << >> THEN sized ELSE WriteBytes(sized, data)

\* serialize_godot_string_internal, writing
WriteString(w, string) ==
  LET filled  == WriteVector(WriteBits(w, Bytes32(4)), string)
      padding == Padding(Len(string))
  IN IF padding = 0 THEN filled ELSE WriteBytes(filled, Zeros(padding))

WriteField(w, kind, value) ==
  CASE kind = "string" -> WriteString(w, value)
    [] kind = "vector" -> WriteVector(w, value)
    [] OTHER           -> WriteBits(w, value)

\* The bytes of a field as such.
FieldText(kind, value) ==
  CASE kind = "string" -> Bytes32(4) \o Bytes32(Len(value)) \o value
                            \o Zeros(Padding(Len(value)))
    [] kind = "vector" -> Bytes32(Len(value)) \o value
    [] OTHER           -> value

\* A read from the packet p: a value and a reader, or Refused.
Refused == [value |-> << >>, reader |-> NewReader, ok |-> FALSE]

Accept(read) == [value |-> read.value, reader |-> read.reader, ok |-> TRUE]

SerializeBits(p, r, count) ==
  IF Fits(p, r, count) THEN Accept(ReadBits(p, r, count)) ELSE Refused

SerializeBytes(p, r, count) ==
  IF Fits(p, r, count) THEN Accept(ReadBytes(p, r, count)) ELSE Refused

ReadVector(p, r) ==
  LET size == SerializeBits(p, r, 4)
      n    == Value32(size.value)
  IN CASE ~size.ok -> Refused
       [] size.ok /\ n = 0 -> [size EXCEPT !.value = << >>]
       [] size.ok /\ n > 0 -> SerializeBytes(p, size.reader, n)

\* Mutant: the reader stops where the string ends.
ReadStringUnpadded(p, r) ==
  LET header == SerializeBits(p, r, 4)
  IN IF ~header.ok \/ Value32(header.value) # 4 THEN Refused ELSE ReadVector(p, header.reader)

\* serialize_godot_string_internal, reading
ReadString(p, r) ==
  LET header  == SerializeBits(p, r, 4)
      string  == ReadVector(p, header.reader)
      padding == SerializeBytes(p, string.reader, Padding(Len(string.value)))
  IN CASE ~header.ok \/ Value32(header.value) # 4 \/ ~string.ok -> Refused
       [] OTHER -> IF Padding(Len(string.value)) = 0 THEN string
                   ELSE IF padding.ok THEN [padding EXCEPT !.value = string.value] ELSE Refused

ReadField(p, r, kind) ==
  CASE kind = "string" -> ReadString(p, r)
    [] kind = "vector" -> ReadVector(p, r)
    [] OTHER           -> SerializeBits(p, r, Width[kind])

-----------------------------------------------------------------------------
Contents(kind) ==
  IF kind \in DOMAIN Width THEN {n \in Numbers : Len(n) = Width[kind]} ELSE Payloads

\* What Deserialize returns of what it cannot read, and holds at first.
Nothing == [struct |-> "BaseMessage", fields |-> << >>]

NoMessage == [to |-> "nobody", type |-> "ERROR", struct |-> "BaseMessage", fields |-> << >>]

Init ==
  /\ phase = "idle"
  /\ message = NoMessage
  /\ at = 0
  /\ writer = NewWriter
  /\ text = << >> /\ packet = << >>
  /\ reader = NewReader
  /\ decoded = Nothing

\* sendMessage, with a buffer of its own: the type is the first field.
Begin ==
  /\ phase = "idle"
  /\ \E m \in Sent :
       \E fields \in [DOMAIN Format[m.struct] -> Numbers \cup Payloads] :
         /\ \A i \in DOMAIN fields : fields[i] \in Contents(Format[m.struct][i])
         /\ message' = [to |-> m.to, type |-> m.type, struct |-> m.struct, fields |-> fields]
         /\ writer' = WriteBits(NewWriter, <<MessageType[m.type]>>)
         /\ text' = <<MessageType[m.type]>>
  /\ phase' = "write" /\ at' = 1
  /\ UNCHANGED <<packet, reader, decoded>>

Write ==
  LET kind == Format[message.struct][at]
  IN /\ phase = "write" /\ at \in DOMAIN message.fields
     /\ writer' = WriteField(writer, kind, message.fields[at])
     /\ text' = text \o FieldText(kind, message.fields[at])
     /\ at' = at + 1
     /\ UNCHANGED <<phase, message, packet, reader, decoded>>

Flush ==
  /\ phase = "write" /\ at \notin DOMAIN message.fields
  /\ writer' = FlushBits(writer)
  /\ phase' = "send"
  /\ UNCHANGED <<message, at, text, packet, reader, decoded>>

\* The packet arrives whole, or is the beginning of a message only: that of a
\* client with an older idea of the struct.  The type is read again as the
\* first field.
Arrive ==
  /\ phase = "send"
  /\ \E length \in 1..writer.written : packet' = SubSeq(writer.memory, 1, length)
  /\ decoded' = [struct |-> StructOf(message.type), fields |-> << >>]
  /\ reader' = ReadBits(packet', NewReader, 1).reader
  /\ phase' = "read" /\ at' = 1
  /\ UNCHANGED <<message, writer, text>>

Read ==
  LET read == ReadField(packet, reader, Format[decoded.struct][at])
  IN /\ phase = "read" /\ at \in DOMAIN Format[decoded.struct]
     /\ reader' = read.reader
     /\ decoded' = IF read.ok THEN [decoded EXCEPT !.fields = Append(@, read.value)]
                   ELSE Nothing
     /\ at' = at + 1
     /\ UNCHANGED <<phase, message, writer, text, packet>>

\* The dispatcher runs; the streams were local, and the packet is destroyed.
Handle ==
  /\ phase = "read" /\ at \notin DOMAIN Format[decoded.struct]
  /\ phase' = "idle" /\ message' = NoMessage /\ at' = 0
  /\ writer' = NewWriter /\ text' = << >> /\ packet' = << >>
  /\ reader' = NewReader /\ decoded' = Nothing

Next == Begin \/ Write \/ Flush \/ Arrive \/ Read \/ Handle

Spec == Init /\ [][Next]_vars

-----------------------------------------------------------------------------
\* The writer of words is a string of bytes: what it has stored and what waits
\* in its scratch are the fields it was given, in their order, whichever words
\* they straddle; once flushed, it is all stored.
WriterExact ==
  /\ writer.written = Len(text)
  /\ IF phase = "write" THEN writer.memory \o writer.scratch = text
     ELSE SubSeq(writer.memory, 1, writer.written) = text

Received == phase = "read" /\ at \notin DOMAIN Format[decoded.struct]

\* A message that arrives whole is the message that was sent, all of it is read,
\* and the handler that a dispatcher has for its type can cast it.
RoundTrip ==
  Received /\ Len(packet) = Len(text) =>
    /\ decoded = [struct |-> message.struct, fields |-> message.fields]
    /\ reader.read = Len(packet)
    /\ Cast(message.to, message.type) \in {"none", decoded.struct}

\* A message that ends too early is refused: no field is made of what follows
\* the packet in memory.
ShortRefused == Received /\ Len(packet) < Len(text) => decoded = Nothing
=============================================================================
