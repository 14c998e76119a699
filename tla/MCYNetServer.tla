---------------------------- MODULE MCYNetServer ----------------------------
(***************************************************************************)
(* Instances of YNetServer for TLC.  Peers and room codes are               *)
(* interchangeable: no definition tells one from another.                  *)
(***************************************************************************)
EXTENDS YNetServer, TLC

Symmetry == Permutations(Peers) \cup Permutations(Codes)

\* No action reads out, and TLC checks the action properties that do on every
\* step it generates: states that differ in out only count as one.
State == <<clients, closing, rooms, usedClientIds, nextClientId,
           usedRoomIds, nextRoomId, hung>>

NoTexts == {""}
TwoTexts == {"", "text"}
NoSettings == {}
MigrationOnly == {"SET_HOST_MIGRATION"}
AllSettings == {"SET_ROOM_PASSWORD", "SET_MAX_PLAYERS", "SET_ROOM_PRIVATE",
                "SET_HOST_MIGRATION", "SET_ROOM_NAME", "SET_EXTRA_INFO"}
=============================================================================
