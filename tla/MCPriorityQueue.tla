-------------------------- MODULE MCPriorityQueue --------------------------
(* The priority queue with a few messages.  A history variable is added,   *)
(* as two properties hold only as long as there is room.                   *)
EXTENDS PriorityQueue

CONSTANTS m1, m2, m3, w1

VARIABLE waited     \* history: some put has had to wait for room

MCInit == Init /\ waited = FALSE
MCNext == Next /\ waited' = (waited \/ putters' # {} \/ aging'.waits)
MCSpec == MCInit /\ [][MCNext]_<<vars, waited>> /\ Fairness

\* In a queue no message is behind a younger one, which is what makes get take
\* the oldest: the aging loop keeps it so when it empties and refills a queue.
\* A put that has waited for room may break it.
OldestFirstWithRoom == waited \/ OldestFirst

\* Every message in a queue is taken by a worker, however many of higher
\* priority keep coming: the aging loop brings it up to CRITICAL.  Where a put
\* has to wait, others may take the room for which the loop waits.
NoStarvationWithRoom ==
    \A m \in Messages :
      (\E p \in Priority : \E i \in DOMAIN queues[p] : queues[p][i].m = m)
        ~> \/ waited
           \/ m \notin accepted
           \/ \E w \in Workers, p \in Priority : <<m, p>> \in worker[w].got
=============================================================================
