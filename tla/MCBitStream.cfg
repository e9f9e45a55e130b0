SPECIFICATION FairSpec
CONSTANTS
  Calls <- FittingCalls
  Payloads <- SomeBytes
  Messages <- SomeMessages
  Requests = {1, 7, 8, 13, 24, 32}
  Fetches = {0, 6, 8, 13, 16, 24, 32, 40, 48, 64, 72}
  Junk <- SomeJunk
  MaxWritten = 17
  MaxRead = 80
INVARIANTS
  TypeOK
  BytesMatchBits
  PaddingIsZero
PROPERTIES
  WrittenBitsStay
  ImplementsBitSequence
  RequestsReturn
