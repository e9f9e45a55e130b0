CONSTANTS
  Schemas <- AllTypes
  Orders <- InIndexOrder
  MaxItems = 4
SPECIFICATION Spec
INVARIANTS TypeOK EventCodesFit EverythingIsRead
PROPERTY ImplementsTransfer
