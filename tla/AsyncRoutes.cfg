SPECIFICATION Spec
CONSTANTS
  Request = {r1, r2}
  Loop = {l1, l2}
  Idle = Idle
  MaxYields = 3
INVARIANTS
  TypeOK
  OneWaker
  AnsweredAtMostOnce
  LeftBehindOnlyByDeparture
PROPERTIES
  ResumedOnlyWhenFed
  SuspendsOnOperations
  ConnectedIsServed
  KeepsContract
