SPECIFICATION Spec
CONSTANTS
  Lexicographic <- InOrder
  BodyElements <- SchemaElements
  FieldsOf <- SomeFields
  Requests <- SomeRequests
  Received <- SomeBytes
  Junk <- SomeJunk
  MaxBits = 1000
INVARIANTS
  TypeOK
  StopsAtTheEnd
  RefusesOtherNamespaces
PROPERTY ImplementsTransfer
