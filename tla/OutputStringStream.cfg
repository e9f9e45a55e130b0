SPECIFICATION Spec
CONSTANTS
  Keys = {"k", "m"}
  ItemsMayBeEmpty = FALSE
  MaxTokens = 13
  MaxDepth = 6
INVARIANTS
  TypeOK
  LastCommandTellsContext
  NeverThrows
PROPERTY ImplementsJsonText
CHECK_DEADLOCK FALSE
