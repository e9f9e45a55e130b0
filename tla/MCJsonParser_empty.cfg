SPECIFICATION Spec
CONSTANT Inputs <- InputsWithEmpty
PROPERTY ImplementsTransfer
