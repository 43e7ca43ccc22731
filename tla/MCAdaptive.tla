----------------------------- MODULE MCAdaptive -----------------------------
(* Small instances of Adaptive: three morsels, one of them without tuples.  *)
EXTENDS Adaptive

CONSTANTS m1, m2, m3
MCSize == [m \in Morsel |-> CASE m = m1 -> 2 [] m = m2 -> 1 [] OTHER -> 0]
=============================================================================
