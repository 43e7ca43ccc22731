\* Every plan on every graph, called twice.
SPECIFICATION InterpreterSpec
CONSTANTS
  Null = Null
  Keep = Keep
  Plans <- MCPlans
  Graphs <- MCGraphs
  Updates <- MCUpdates
  ChunkSize = 3
  MaxCall = 2
INVARIANTS TypeOK JoinReadsOwnRhs RhsExecutesFirst BindsLabels DeliversResult CreatesOnce ProbesWholeRhs NeverCrashes FlagStaysDown LeavesListEmpty InterpretsPlan CodegenInv
PROPERTIES Returns
CHECK_DEADLOCK FALSE
