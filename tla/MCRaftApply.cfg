SPECIFICATION FairSpec
CONSTANTS
    n1 = n1
    n2 = n2
    n3 = n3
    Node <- MCNode
    PeerSeq <- MCPeerSeq
    Command = {"x"}
    Plain = {"x"}
    Nil = Nil
    MaxTerm = 1
    Candidates = {n1}
    MaxElections = 1
    MaxLate = 0
    MaxRestarts = 0
PROPERTY CommittedIsApplied
CHECK_DEADLOCK FALSE
