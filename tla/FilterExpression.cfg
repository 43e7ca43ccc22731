SPECIFICATION Spec
CONSTANTS
  Exprs <- MCExprs
  Chains <- MCChains
  Null = Null
INVARIANTS TypeOK FilterCompiles FilterExact FilterInv
CHECK_DEADLOCK FALSE
