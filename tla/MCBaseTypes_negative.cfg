SPECIFICATION Spec
CONSTANTS
  Documents <- NegativeNumbers
  Pad = 64
  Heap = {0, 165}
PROPERTY ImplementsTransfer
