---------------------------- MODULE MCYNetSystem ----------------------------
(***************************************************************************)
(* Instances of YNetSystem for TLC.                                        *)
(***************************************************************************)
EXTENDS YNetSystem, TLC

\* No action reads out after the step that writes it.
State == <<clients, closing, rooms, usedClientIds, nextClientId,
           usedRoomIds, nextRoomId, hung, clientVars>>

CONSTANTS c1, c2, p1, p2

Join(c)   == [type |-> "JOIN_ROOM_WITH_PASSWORD", code |-> c]
Open(c)   == [type |-> "JOIN_OR_CREATE_ROOM", code |-> c]
Create(c) == [type |-> "ROOM_CREATE", code |-> c]
Leave     == [type |-> "ROOM_LEAVE", code |-> NoCode]

\* One opens two rooms and leaves, the other one visits the first.
TwoRoomsAndGuest ==
  [p \in Peers |-> IF p = p1 THEN {Create(c1), Create(c2), Leave} ELSE {Join(c1), Leave}]

\* One opens two rooms, the other one opens the first or joins it.
TwoRoomsAndJoiner ==
  [p \in Peers |-> IF p = p1 THEN {Create(c1), Create(c2)} ELSE {Open(c1)}]

NoTexts == {""}
=============================================================================
