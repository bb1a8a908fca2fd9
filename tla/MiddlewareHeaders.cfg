SPECIFICATION Safety
CONSTANTS
  Sizes <- MCSizes
  SyncNexts = 2
  AsyncNexts = 2
INVARIANT HeadersKept
