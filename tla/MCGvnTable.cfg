SPECIFICATION Spec
CONSTANTS
  Node = {n1, n2, n3}
  Content <- Contents
  Hash <- Colliding
  NoNode = NoNode
  InitialCapacity = 2
  MaxCapacity = 8
  NULL = NULL
  TOMBSTONE = TOMBSTONE
SYMMETRY Symmetric
INVARIANTS
  EntriesAreReachable
  NoTwoIdentical
PROPERTIES
  GetReturnsIdentical
  ImplementsValueTable
CHECK_DEADLOCK FALSE
