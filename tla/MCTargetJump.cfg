SPECIFICATION TargetSpec
CONSTANTS
  Programs <- SharedSum
  MaxTests = 2
  WordBits = 64
  MaxTries = 10
INVARIANT DefsComeBeforeUses
CHECK_DEADLOCK FALSE
