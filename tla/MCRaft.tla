------------------------------- MODULE MCRaft -------------------------------
(* The RAFT engine on the three nodes of the self-test of snin_raft.py.    *)
EXTENDS Raft, TLC

CONSTANTS n1, n2, n3

MCNode == {n1, n2, n3}
MCPeerSeq == (n1 :> <<n2, n3>>) @@ (n2 :> <<n1, n3>>) @@ (n3 :> <<n1, n2>>)

\* Elections with late requests for votes and a restart while nothing is proposed,
\* and the replication of two commands by a leader that was the only candidate,
\* two of whose tasks wait for replies at a time.
Elections == proposed = {} /\ \A x \in LateRequests : x[1] = "vote"
OneProposer ==
    /\ restarts = 0 /\ {g[3] : g \in grants} = {n1} /\ \A g \in grants : g[2] = 1
    /\ Cardinality({t \in Task : call[n1][t].stage \in {"sent", "answered"}}) <= 2
    /\ LateRequests = {}
ElectionsOrProposals == Elections \/ OneProposer
=============================================================================
