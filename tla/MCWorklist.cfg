SPECIFICATION Spec
CONSTANTS
  Node <- NodeIds
  NoNode = NoNode
INVARIANT
  SparseIsExact
PROPERTY
  ImplementsNodeSet
