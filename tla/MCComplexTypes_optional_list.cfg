CONSTANTS
  Schemas <- OnlySalesTariffEntryType
  Orders <- InIndexOrder
  MaxItems = 2
SPECIFICATION Spec
PROPERTY ImplementsTransfer
CHECK_DEADLOCK FALSE
