SPECIFICATION Spec
CONSTANTS
  Call = {c1, c2}
  Loop = {l1, l2}
  Authority = {a1, a2}
  BadAuthority = {a2}
  RetryCount <- MCRetryCount
  MaxInt = 3
INVARIANTS
  TypeOK
  CompletesOnce
  AttemptsWithinCount
  LostOnlyByRetry
  OneSchemePerClient
PROPERTY ImplementsOperation
