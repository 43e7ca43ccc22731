\* A plan with a limit.
SPECIFICATION Spec
CONSTANTS
  Null = Null
  NoLimit = NoLimit
  m1 = m1
  m2 = m2
  m3 = m3
  Morsel = {m1, m2}
  Worker = {w1, w2}
  Size <- MCSize
  Limit = 1
  SortQuery = {}
  Resets = TRUE
  MaxQuery = 1
  MaxCall = 2
INVARIANTS LimitHolds
CHECK_DEADLOCK FALSE
