SPECIFICATION Safety
CONSTANTS
  Request = {r1, r2}
  Loop = {l1}
  Idle = Idle
  MaxYields = 1
INVARIANT ErrorsAreAnswered
