\* One engine, two plans, three compilations, every client call.
SPECIFICATION Spec
CONSTANTS
  Null = Null
  p1 = p1
  p2 = p2
  pc1 = pc1
  Engine = {e1}
  Plan = {p1, p2}
  SortPlan = {p2}
  CreatePlan = {}
  Qid <- MCQid
  Labels <- MCLabels
  Slots = 6
  CleanupArg = {TRUE, FALSE}
  MaxGenerate = 3
INVARIANTS TypeOK RunsOwnQuery FinishesOwnQuery IdentifiersUnique PassesOwnLabels OneEngineInv LabelInv
PROPERTIES CallsReturn
CHECK_DEADLOCK FALSE
