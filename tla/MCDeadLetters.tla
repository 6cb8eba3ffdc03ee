---------------------------- MODULE MCDeadLetters ----------------------------
(* One agent that has two connections to the router, or one to each process *)
(* that knows the table.                                                    *)
EXTENDS DeadLetters

CONSTANTS a1, x, s1, s2, q1
=============================================================================
