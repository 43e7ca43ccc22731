\* Up to three chunks; zero to three threads; a call after another.
SPECIFICATION Spec
CONSTANTS
  Null = Null
  MaxChunks = 3
  ChunkSize = 1
  Lhs <- MCLhs
  Rhs <- MCRhs
  Word = 16
  ThreadNum = {0, 1, 2, 3}
  MaxCall = 2
INVARIANTS TypeOK RangesPartition JoinedAtMostOnce JoinsOwnRange JoinInv
PROPERTIES Returns
CHECK_DEADLOCK FALSE
