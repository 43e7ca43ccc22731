\* The client does not reset callee_.
SPECIFICATION Spec
CONSTANTS
  Null = Null
  NoLimit = NoLimit
  m1 = m1
  m2 = m2
  m3 = m3
  Morsel = {m1, m2}
  Worker = {w1, w2}
  Size <- MCSize
  Limit = NoLimit
  SortQuery = {}
  Resets = FALSE
  MaxQuery = 2
  MaxCall = 3
INVARIANTS InitiallyInterpreted
CHECK_DEADLOCK FALSE
