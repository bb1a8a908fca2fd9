CONSTANTS
  m1 = m1
  m2 = m2
  Mw = {m1, m2}
  Request = {r1}
  Nil = Nil
  Bad = Bad
  None = None
  NotTable = NotTable
  MaxCalls = 3
  Keys <- MCKeys
  Lists <- MCLists
SPECIFICATION Spec
INVARIANTS TypeOK PathsWellFormed ChainIsGivenList WalksCurrentChains RouteKeepsGuards
CHECK_DEADLOCK FALSE
