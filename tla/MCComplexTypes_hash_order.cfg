CONSTANTS
  Schemas <- OnlyCurrentDemandRes
  Orders <- InHashOrder
  MaxItems = 2
SPECIFICATION Spec
PROPERTY ImplementsTransfer
CHECK_DEADLOCK FALSE
