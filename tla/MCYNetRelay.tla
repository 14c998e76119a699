---------------------------- MODULE MCYNetRelay ----------------------------
(***************************************************************************)
(* Instances of YNetRelay for TLC.                                         *)
(***************************************************************************)
EXTENDS YNetRelay, TLC

CONSTANTS c1, c2

Symmetry == Permutations(Peers)

\* No action reads out or relayed.
State == <<clients, closing, rooms, usedClientIds, nextClientId,
           usedRoomIds, nextRoomId, hung>>

Sorted == <<c1, c2>>
NoTexts == {""}
MigrationOnly == {"SET_HOST_MIGRATION"}

\* Everything; pages of one and of two rooms; rooms with at least two players;
\* a bad value that hides the fields after it; an empty page.
Requests ==
  {[f \in {} |-> 0],
   [f \in {"pageSize", "pageNumber"} |-> 1],
   [f \in {"pageSize", "pageNumber"} |-> 2],
   [f \in {"minPlayers", "pageSize"} |-> IF f = "minPlayers" THEN 2 ELSE 1],
   [f \in {"maxPlayers", "pageSize"} |-> IF f = "maxPlayers" THEN Bad ELSE 1],
   [f \in {"pageSize"} |-> 0]}
=============================================================================
