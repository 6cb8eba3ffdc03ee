SPECIFICATION Spec
CONSTANTS
    n1 = n1
    n2 = n2
    n3 = n3
    Node <- MCNode
    PeerSeq <- MCPeerSeq
    Command = {"x", "y"}
    Plain = {"x"}
    Nil = Nil
    MaxTerm = 2
    Candidates = {n1, n2}
    MaxElections = 2
    MaxLate = 1
    MaxRestarts = 1
CONSTRAINT ElectionsOrProposals
INVARIANT OneWinnerPerTerm
INVARIANT WinnerHasMajority
INVARIANT LogsFollowLeader
INVARIANT CommittedOnMajority
INVARIANT AppliedInOrder
PROPERTY TermsAndVotes
PROPERTY SavedVoteHonoured
CHECK_DEADLOCK FALSE
