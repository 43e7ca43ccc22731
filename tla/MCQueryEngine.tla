--------------------------- MODULE MCQueryEngine ---------------------------
(* Small instances of QueryEngine: two plans of the same shape (equal Qid), *)
(* one of which may be sorted, and one plan that starts with a create_op.   *)
EXTENDS QueryEngine

CONSTANTS p1, p2, pc1

MCQid == [p \in Plan |-> IF p = pc1 THEN "AC" ELSE "S4C"]
MCLabels == [p \in Plan |-> IF p = pc1 THEN 0 ELSE 2]
ManyLabels == [p \in Plan |-> 32]
OneLabel == [p \in Plan |-> IF p = pc1 THEN 0 ELSE 1]
=============================================================================
