\* Two queries, three calls, three morsels, three workers; the second query's
\* plan has a Sort; the client resets callee_.
SPECIFICATION Spec
CONSTANTS
  Null = Null
  NoLimit = NoLimit
  m1 = m1
  m2 = m2
  m3 = m3
  Morsel = {m1, m2, m3}
  Worker = {w1, w2, w3}
  Size <- MCSize
  Limit = NoLimit
  SortQuery = {2}
  Resets = TRUE
  MaxQuery = 2
  MaxCall = 3
INVARIANTS TypeOK ExactlyOnce OnlyPublishedCode SortedIfCompiled CodeInv
PROPERTIES Returns ImplementsScan
CHECK_DEADLOCK FALSE
