------------------------------- MODULE IdPool -------------------------------
(***************************************************************************)
(* The arithmetic of the two identifier pools of ynetserver.cpp: client    *)
(* identifiers and room identifiers are 16-bit numbers handed out in       *)
(* cyclic order, starting where the previous allocation stopped and        *)
(* skipping the numbers still in use.  The pools differ in the value they  *)
(* wrap to: client identifiers wrap to MIN_CLIENT_ID, room identifiers to  *)
(* 0.  Here lo is that value and hi is the largest identifier.             *)
(***************************************************************************)
EXTENDS Integers

\* Mutants: the counter does not wrap; it wraps to the second identifier.
NextIdUnbounded(i, lo, hi) == i + 1

NextIdSkipsLowest(i, lo, hi) == IF i = hi THEN lo + 1 ELSE i + 1

\* nextClientId = (nextClientId + 1 - MIN) % (MAX - MIN + 1) + MIN, and
\* nextRoomId = (nextRoomId + 1) % (MAX_ROOM_ID + 1), which has MIN = 0.
\* The operands are promoted to int, so i + 1 does not overflow.
NextId(i, lo, hi) == ((i + 1 - lo) % (hi - lo + 1)) + lo

\* How many times the loop advances the counter to come from a to b.
Distance(a, b, lo, hi) == IF a <= b THEN b - a ELSE b - a + hi - lo + 1

\* id is where the search loop stops when it starts at next: the loops are
\* modelled step by step in IdScan, which shows that this is what they find.
IsNextFree(id, next, used, lo, hi) ==
  /\ id \in (lo..hi) \ used
  /\ \A j \in lo..hi :
        Distance(next, j, lo, hi) < Distance(next, id, lo, hi) => j \in used
=============================================================================
