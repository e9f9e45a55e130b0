SPECIFICATION Spec
CONSTANT Inputs <- SomeInputs
INVARIANT TypeOK
PROPERTIES
  ItemsEndWithTheirBracket
  ImplementsTransfer
