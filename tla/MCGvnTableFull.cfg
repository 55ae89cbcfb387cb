SPECIFICATION Spec
CONSTANTS
  Node = {n1, n2}
  Content <- SpreadContents
  Hash <- Spread
  NoNode = NoNode
  InitialCapacity = 8
  MaxCapacity = 8
  NULL = NULL
  TOMBSTONE = TOMBSTONE
INVARIANT GetFindsSlot
CHECK_DEADLOCK FALSE
