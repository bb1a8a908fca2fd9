SPECIFICATION Spec
CONSTANTS
  Sizes <- MCSizes
  SyncNexts = 2
  AsyncNexts = 2
INVARIANTS
  TypeOK
  HandlerInnermost
  DanglesOnlyAsync
PROPERTY ImplementsChain
