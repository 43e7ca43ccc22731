\* Two engines sharing the statics, a scan plan and a create plan.
SPECIFICATION Spec
CONSTANTS
  Null = Null
  p1 = p1
  p2 = p2
  pc1 = pc1
  Engine = {e1, e2}
  Plan = {p1, pc1}
  SortPlan = {}
  CreatePlan = {pc1}
  Qid <- MCQid
  Labels <- OneLabel
  Slots = 64
  CleanupArg = {TRUE}
  MaxGenerate = 1
INVARIANTS OwnQueryInv NoCompileAfterDestroy
CHECK_DEADLOCK FALSE
