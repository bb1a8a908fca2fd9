SPECIFICATION MCSpec
CONSTANTS
  Request = {r1, r2}
  Loop = {l1, l2}
  Connections = 1
  MaxCalls = 2
PROPERTY AutomaticRollback
CHECK_DEADLOCK FALSE
