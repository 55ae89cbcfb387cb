SPECIFICATION Spec
CONSTANTS
  Identifiers = {"a", "b", "f"}
  Literals = {"1"}
  Symbols <- Signs
  Texts <- AllTexts
  MaxTests = 3
INVARIANTS
  MeaningKept
  RefusesUnreachable
  BlocksEndOnce
  AnalyzedIsClosed
  DefinersPointBack
  ScopesAreOpenBlocks
  TypesAgree
CHECK_DEADLOCK FALSE
