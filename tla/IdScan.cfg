SPECIFICATION Spec
CONSTANTS
  First = 2
  Last = 6
  MaxHeld = 8
INVARIANTS
  TypeOK
  SearchInv
  ThrowsOnlyWhenExhausted
PROPERTIES
  TakesNextFree
  SearchEnds
CHECK_DEADLOCK FALSE
