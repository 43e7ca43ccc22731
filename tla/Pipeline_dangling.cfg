\* A left outer join whose left-hand node matches a later right-hand node.
SPECIFICATION InterpreterSpec
CONSTANTS
  Null = Null
  Keep = Keep
  Plans <- MCPlans
  Graphs <- MCGraphs
  Updates <- MCUpdates
  ChunkSize = 3
  MaxCall = 1
INVARIANTS DanglingMeansNoMatch
CHECK_DEADLOCK FALSE
