-------------------------- MODULE MCMessageIntake --------------------------
(* Two routers that share one Redis, with three connections.               *)
EXTENDS MessageIntake, TLC

CONSTANTS r1, r2, c1, c2, c3, k1, k2

MCRouterOf == [c \in Connections |-> IF c = c3 THEN r2 ELSE r1]
Symmetry   == Permutations({k1, k2})
=============================================================================
