SPECIFICATION FairSpec
CONSTANTS
  Calls <- NoEffect
  Payloads = {}
  Messages <- NineBytes
  Requests = {8}
  Fetches = {8, 24, 32, 56, 64}
  Junk <- SomeJunk
  MaxWritten = 0
  MaxRead = 72
INVARIANT FetchedBytesAreMessageBytes
