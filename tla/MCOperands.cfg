SPECIFICATION Spec
CONSTANTS
  Identifiers = {"a", "b", "f"}
  Literals = {"1"}
  Symbols <- Signs
  Texts <- Expressions
  MaxTests = 1
INVARIANT NothingPoppedFromEmpty
CHECK_DEADLOCK FALSE
