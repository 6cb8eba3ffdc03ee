-------------------------- MODULE MCReorderBuffer --------------------------
(* The reorder buffer with small limits.                                   *)
EXTENDS ReorderBuffer

CONSTANTS p1, p2
=============================================================================
