--------------------------- MODULE MCParallelJoin ---------------------------
(* Small instances of ParallelJoin: a node may have the label of both scans. *)
EXTENDS ParallelJoin

MCLhs == {0, 2}
MCRhs == {1, 2}
=============================================================================
