------------------------------- MODULE MCPbft -------------------------------
(* Four replicas of PBFT, two kinds of requests.                           *)
EXTENDS Pbft, TLC

CONSTANTS a, b

Symmetry == Permutations({a, b})
=============================================================================
