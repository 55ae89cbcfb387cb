SPECIFICATION ScratchSpec
CONSTANTS
  PageSize = 8
  PageCount = 3
  Amounts = {3, 10}
  MaxFrames = 4
INVARIANT MemoryIsCommitted
PROPERTY ImplementsRegions
