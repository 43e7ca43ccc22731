\* Two plans with a Sort.
SPECIFICATION Spec
CONSTANTS
  Null = Null
  p1 = p1
  p2 = p2
  pc1 = pc1
  Engine = {e1}
  Plan = {p1, p2}
  SortPlan = {p1, p2}
  CreatePlan = {}
  Qid <- MCQid
  Labels <- MCLabels
  Slots = 64
  CleanupArg = {TRUE, FALSE}
  MaxGenerate = 1
INVARIANTS SortsByGivenPredicate
CHECK_DEADLOCK FALSE
