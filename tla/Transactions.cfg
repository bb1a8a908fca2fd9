SPECIFICATION MCSpec
CONSTANTS
  Request = {r1, r2}
  Loop = {l1, l2}
  Connections = 1
  MaxCalls = 2
INVARIANTS
  TypeOK
  CommittedOnlyIfAsked
  StatementsInTurn
  KeptOnlyByDeparture
  NeverStuck
PROPERTIES CallsAreOperations PoolRecovers
CHECK_DEADLOCK FALSE
