SPECIFICATION LexSpec
CONSTANTS
  Letters = {"d", "o", "i", "f"}
  Digits = {"0"}
  Others = {"plus"}
  Keywords <- MCKeywords
  Slot <- MCSlot
  Multipliers = {1, 2, 3}
  MaxLength = 5
INVARIANTS TokensAreWhole OnlyBlanksAreSkipped LinesAreCounted
CHECK_DEADLOCK FALSE
