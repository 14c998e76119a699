------------------------------- MODULE IdScan -------------------------------
(***************************************************************************)
(* generateClientId and generateRoomId one iteration of their search loop  *)
(* at a time.  YNetServer takes an allocation as one step that yields the  *)
(* next free identifier (IsNextFree); this module shows that the loops     *)
(* find it, when they end, and what happens when there is nothing to find. *)
(*                                                                         *)
(* The loops differ in two things.  The one for clients wraps to           *)
(* MIN_CLIENT_ID, remembers where it started, and throws when it comes     *)
(* back there; the one for rooms wraps to 0 and goes round for ever when   *)
(* every identifier is in use.                                             *)
(***************************************************************************)
EXTENDS Integers, FiniteSets, IdPool

CONSTANTS
  First, Last,   \* 1000, where both counters start, and 65535
  MaxHeld        \* an allocation begins only while fewer identifiers are held

ASSUME IdScanAssumption ==
  /\ First \in Nat /\ Last \in Nat /\ First <= Last
  /\ MaxHeld \in Nat

VARIABLES
  pool,       \* "client" or "room": which of the two functions this is
  used,       \* usedClientIds or usedRoomIds
  next,       \* nextClientId or nextRoomId
  start,      \* startId: the counter when the search began
  pc          \* "idle", "search", or "threw" when the exception ended run()

vars == <<pool, used, next, start, pc>>

Lowest == IF pool = "client" THEN First ELSE 0
Ids == Lowest..Last

Init ==
  /\ pool \in {"client", "room"}
  /\ used = {} /\ next = First /\ start = First /\ pc = "idle"

\* The call.  nextClientId is never below MIN_CLIENT_ID, so it is not reset.
Generate ==
  /\ pc = "idle"
  /\ Cardinality(used) < MaxHeld
  /\ pc' = "search" /\ start' = next
  /\ UNCHANGED <<pool, used, next>>

\* Mutants: two identifiers at a time; no guard; a guard that takes the end of
\* the range for the end of the search.
SkipTwo ==
  /\ pc = "search" /\ next \in used
  /\ next' = NextId(NextId(next, Lowest, Last), Lowest, Last)
  /\ pc' = IF pool = "client" /\ next' = start THEN "threw" ELSE "search"
  /\ UNCHANGED <<pool, used, start>>

SkipUnguarded ==
  /\ pc = "search" /\ next \in used
  /\ next' = NextId(next, Lowest, Last)
  /\ UNCHANGED <<pool, used, start, pc>>

SkipToTheEnd ==
  /\ pc = "search" /\ next \in used
  /\ next' = NextId(next, Lowest, Last)
  /\ pc' = IF pool = "client" /\ next' = Lowest THEN "threw" ELSE "search"
  /\ UNCHANGED <<pool, used, start>>

\* One iteration of the while loop.
Skip ==
  /\ pc = "search"
  /\ next \in used
  /\ next' = NextId(next, Lowest, Last)
  /\ pc' = IF pool = "client" /\ next' = start THEN "threw" ELSE "search"
  /\ UNCHANGED <<pool, used, start>>

\* The loop ends: the identifier is taken and the counter moves on.
Take ==
  /\ pc = "search"
  /\ next \notin used
  /\ used' = used \cup {next}
  /\ next' = NextId(next, Lowest, Last)
  /\ pc' = "idle"
  /\ UNCHANGED <<pool, start>>

\* releaseClientId and releaseRoomId.  There is one thread: never in a search.
Release(id) ==
  /\ pc = "idle"
  /\ id \in used
  /\ used' = used \ {id}
  /\ UNCHANGED <<pool, next, start, pc>>

Next == Generate \/ Skip \/ Take \/ \E id \in Ids : Release(id)

\* The thread that runs the loop is not suspended for ever.
Spec == Init /\ [][Next]_vars /\ WF_vars(Skip \/ Take)

-----------------------------------------------------------------------------
\* The counter and the identifiers in use stay in the range of the pool, which
\* for rooms begins at 0 (see RoomIdsFromMinimum of YNetServer).
TypeOK ==
  /\ pool \in {"client", "room"}
  /\ used \subseteq Ids /\ next \in Ids /\ start \in Ids
  /\ pc \in {"idle", "search", "threw"}

\* The identifiers from start up to next, going round past the end.
Passed ==
  {j \in Ids : Distance(start, j, Lowest, Last) < Distance(start, next, Lowest, Last)}

\* A search has passed only identifiers that are in use, wherever in the range
\* it started and however often it went past the end.
SearchInv == pc = "search" => Passed \subseteq used

\* What is taken is what the atomic allocation of YNetServer takes: the first
\* free identifier at or after the one the search started at.
TakesNextFree == [][Take => IsNextFree(next, start, used, Lowest, Last)]_vars

\* The exception is thrown only when every identifier is in use.
ThrowsOnlyWhenExhausted == pc = "threw" => used = Ids

\* A search comes to an end: for a client always, for a room as long as an
\* identifier is free when it begins.
SearchEnds ==
  pc = "search" /\ (pool = "client" \/ used # Ids) ~> pc # "search"
=============================================================================
