SPECIFICATION TargetSpec
CONSTANTS
  Programs <- Compiled
  MaxTests = 3
  WordBits = 64
  MaxTries = 10
INVARIANTS
  SelectionKeepsMeaning
  GeneratedKeepsMeaning
  LiveOutIsExact
  ColouringIsProper
  AllocationKeepsMeaning
  SlotsAreApart
PROPERTY CodeIsProduced
CHECK_DEADLOCK FALSE
