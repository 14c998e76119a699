--------------------------- MODULE IdScan_proofs ---------------------------
(***************************************************************************)
(* Proofs about IdScan: the search loops find the next free identifier,    *)
(* for ranges of any size and any set of identifiers in use.               *)
(***************************************************************************)
EXTENDS IdScan, TLAPS

-----------------------------------------------------------------------------
(***************************************************************************)
(* Going round a range.                                                    *)
(***************************************************************************)
LEMMA NextIdIs ==
  ASSUME NEW lo \in Nat, NEW hi \in Nat, NEW i \in lo..hi
  PROVE  /\ NextId(i, lo, hi) = IF i = hi THEN lo ELSE i + 1
         /\ NextId(i, lo, hi) \in lo..hi
<1>1. NextId(i, lo, hi) = IF i = hi THEN lo ELSE i + 1
  BY DEF NextId
<1> QED BY <1>1

LEMMA DistanceIs ==
  ASSUME NEW lo \in Nat, NEW hi \in Nat, NEW a \in lo..hi, NEW b \in lo..hi,
         NEW c \in lo..hi
  PROVE  /\ Distance(a, b, lo, hi) \in 0..(hi - lo)
         /\ Distance(a, b, lo, hi) = Distance(a, c, lo, hi) => b = c
BY DEF Distance

LEMMA DistanceNext ==
  ASSUME NEW lo \in Nat, NEW hi \in Nat, NEW a \in lo..hi, NEW b \in lo..hi
  PROVE  /\ NextId(b, lo, hi) # a =>
              Distance(a, NextId(b, lo, hi), lo, hi) = Distance(a, b, lo, hi) + 1
         /\ NextId(b, lo, hi) = a => Distance(a, b, lo, hi) = hi - lo
<1>1. NextId(b, lo, hi) = IF b = hi THEN lo ELSE b + 1
  BY NextIdIs
<1> QED BY <1>1 DEF Distance

LEMMA ScanRange ==
  ASSUME TypeOK
  PROVE  /\ Lowest \in Nat /\ Last \in Nat
         /\ next \in Lowest..Last /\ start \in Lowest..Last
         /\ Ids = Lowest..Last
BY IdScanAssumption DEF TypeOK, Lowest, Ids

-----------------------------------------------------------------------------
(***************************************************************************)
(* The invariant.                                                          *)
(***************************************************************************)
IInv == TypeOK /\ SearchInv /\ ThrowsOnlyWhenExhausted

LEMMA ScanInit ==
  Init => IInv
BY IdScanAssumption DEF Init, IInv, TypeOK, Lowest, Ids, SearchInv, ThrowsOnlyWhenExhausted

\* After a step from next on, next is the only identifier passed as well; when
\* the search is back at its start, it has passed all of them.
LEMMA SkipPasses ==
  ASSUME TypeOK, SearchInv, Skip
  PROVE  SearchInv' /\ ThrowsOnlyWhenExhausted'
<1> DEFINE d(j) == Distance(start, j, Lowest, Last)
<1>0. /\ Lowest \in Nat /\ Last \in Nat /\ Ids = Lowest..Last
      /\ next \in Lowest..Last /\ start \in Lowest..Last
  BY ScanRange
<1>1. /\ next' = NextId(next, Lowest, Last) /\ next \in used
      /\ UNCHANGED <<Lowest, Ids, used, start>>
      /\ pc' = "threw" => next' = start
      /\ pc' \in {"threw", "search"}
  BY DEF Skip, Lowest, Ids
<1>2. \A j \in Ids : d(j) < d(next) => j \in used
  BY DEF SearchInv, Passed, Skip
<1>3. ASSUME NEW j \in Ids
      PROVE  d(j) \in 0..(Last - Lowest) /\ (d(j) = d(next) => j = next)
  <2>1. j \in Lowest..Last
    BY <1>0
  <2> QED BY <1>0, <2>1, DistanceIs
<1>4. /\ next' # start => d(next') = d(next) + 1
      /\ next' = start => d(next) = Last - Lowest
  BY <1>0, <1>1, DistanceNext
<1>5. Passed' \subseteq used'
  <2>1. Passed' = {j \in Ids : d(j) < d(next')}
    BY <1>1 DEF Passed
  <2>2. CASE next' # start
    <3>1. \A j \in Ids : d(j) < d(next') => d(j) < d(next) \/ d(j) = d(next)
      BY <1>0, <1>3, <1>4, <2>2
    <3> QED BY <1>1, <1>2, <1>3, <2>1, <3>1
  <2>3. CASE next' = start
    <3>1. d(next') = 0
      BY <1>0, <2>3 DEF Distance
    <3>2. \A j \in Ids : ~(d(j) < d(next'))
      BY <1>3, <3>1
    <3> QED BY <2>1, <3>2
  <2> QED BY <2>2, <2>3
<1>6. next' = start => Ids \subseteq used
  <2> SUFFICES ASSUME next' = start, NEW j \in Ids PROVE j \in used
    OBVIOUS
  <2>1. d(j) < d(next) \/ d(j) = d(next)
    BY <1>0, <1>3, <1>4
  <2> QED BY <1>1, <1>2, <1>3, <2>1
<1>7. used' \subseteq Ids'
  BY <1>1 DEF TypeOK
<1> QED BY <1>1, <1>5, <1>6, <1>7 DEF SearchInv, ThrowsOnlyWhenExhausted

LEMMA ScanNext ==
  IInv /\ [Next]_vars => IInv'
<1> SUFFICES ASSUME IInv, [Next]_vars PROVE IInv'
  OBVIOUS
<1>0. /\ TypeOK /\ Lowest \in Nat /\ Last \in Nat /\ Ids = Lowest..Last
      /\ next \in Lowest..Last /\ start \in Lowest..Last
      /\ NextId(next, Lowest, Last) \in Lowest..Last
  BY ScanRange, NextIdIs DEF IInv
<1>1. CASE Generate
  <2>1. TypeOK' /\ ThrowsOnlyWhenExhausted'
    BY <1>1 DEF Generate, IInv, TypeOK, Lowest, Ids, ThrowsOnlyWhenExhausted
  <2>2. \A j \in Ids : ~(Distance(next, j, Lowest, Last) < Distance(next, next, Lowest, Last))
    BY <1>0, DistanceIs DEF Distance
  <2>3. Passed' = {}
    BY <1>1, <2>2 DEF Generate, Passed, Lowest, Ids
  <2> QED BY <2>1, <2>3 DEF IInv, SearchInv
<1>2. CASE Skip
  <2>1. TypeOK'
    BY <1>0, <1>2 DEF Skip, TypeOK, Lowest, Ids
  <2> QED BY <1>0, <1>2, <2>1, SkipPasses DEF IInv
<1>3. CASE Take
  <2>1. TypeOK'
    BY <1>0, <1>3 DEF Take, TypeOK, Lowest, Ids
  <2> QED BY <1>3, <2>1 DEF Take, IInv, SearchInv, ThrowsOnlyWhenExhausted
<1>4. ASSUME NEW id \in Ids, Release(id)
      PROVE  IInv'
  BY <1>4 DEF Release, IInv, TypeOK, Lowest, Ids, SearchInv, ThrowsOnlyWhenExhausted
<1>5. CASE UNCHANGED vars
  BY <1>5 DEF vars, IInv, TypeOK, Lowest, Ids, SearchInv, Passed, ThrowsOnlyWhenExhausted
<1> QED BY <1>1, <1>2, <1>3, <1>4, <1>5 DEF Next

\* The counters stay in their range and the identifiers in use too.
THEOREM ScanTypeCorrect == Spec => []TypeOK
<1>1. IInv => TypeOK
  BY DEF IInv
<1> QED BY <1>1, ScanInit, ScanNext, PTL DEF Spec

\* A search passes over no free identifier, for a range of any size.
THEOREM SearchSkipsNone == Spec => []SearchInv
<1>1. IInv => SearchInv
  BY DEF IInv
<1> QED BY <1>1, ScanInit, ScanNext, PTL DEF Spec

\* generateClientId throws only when every identifier is in use.
THEOREM ThrowsRightly == Spec => []ThrowsOnlyWhenExhausted
<1>1. IInv => ThrowsOnlyWhenExhausted
  BY DEF IInv
<1> QED BY <1>1, ScanInit, ScanNext, PTL DEF Spec

\* What a loop takes is the identifier YNetServer allocates in one step.
THEOREM LoopsTakeNextFree == Spec => TakesNextFree
<1>1. IInv /\ [Next]_vars => [Take => IsNextFree(next, start, used, Lowest, Last)]_vars
  <2> SUFFICES ASSUME IInv, Take PROVE IsNextFree(next, start, used, Lowest, Last)
    OBVIOUS
  <2>1. Passed \subseteq used /\ next \notin used
    BY DEF IInv, SearchInv, Take
  <2> QED BY <2>1, ScanRange DEF IInv, IsNextFree, Passed
<1> QED BY <1>1, ScanInit, ScanNext, PTL DEF Spec, TakesNextFree
=============================================================================
