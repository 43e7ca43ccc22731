\* Two compilations of a plan with 32 labels.
SPECIFICATION Spec
CONSTANTS
  Null = Null
  p1 = p1
  p2 = p2
  pc1 = pc1
  Engine = {e1}
  Plan = {p1}
  SortPlan = {}
  CreatePlan = {}
  Qid <- MCQid
  Labels <- ManyLabels
  Slots = 64
  CleanupArg = {TRUE}
  MaxGenerate = 2
INVARIANTS ArgsInBounds
CHECK_DEADLOCK FALSE
