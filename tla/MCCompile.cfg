SPECIFICATION Spec
CONSTANTS
  Programs <- Every
  MaxTests = 3
INVARIANTS
  MemoryIsFlagged
  SemanticsKept
  UsesAreInputs
  NothingRemovedIsKept
  EachNodeIsHeld
  EndsWithoutDeadStores
  AssertionsHold
PROPERTIES
  KeysStay
  Terminates
CHECK_DEADLOCK FALSE
