------------------------------- MODULE MCPush -------------------------------
(* The push to subscribers on a small instance.                            *)
EXTENDS Push

CONSTANTS c1, s1, w1, p1
=============================================================================
