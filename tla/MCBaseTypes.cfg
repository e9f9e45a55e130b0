SPECIFICATION Spec
CONSTANTS
  Documents <- SomeDocuments
  Pad = 64
  Heap = {0, 165}
INVARIANTS
  TypeOK
  FieldsFit
  EverythingIsRead
PROPERTY ImplementsTransfer
