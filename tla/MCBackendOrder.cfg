SPECIFICATION BackendSpec
CONSTANTS
  Programs <- CopyLoop
  MaxTests = 3
INVARIANT
  InputsComeFirst
CHECK_DEADLOCK FALSE
