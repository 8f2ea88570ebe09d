SPECIFICATION MCSpec
CONSTANTS
    Bits = 3
    Pow <- MCPow
    SuccessorCap = 3
    NoDid = NoDid
    Node <- MCNode
    Seed <- MCSeed
    MaxFaults = 2
    MaxRounds = 3
INVARIANTS JoinLookupsAdvance OneStraySuccessor LinksAgree
PROPERTIES PredecessorOnlyGetsNearer Settles
CHECK_DEADLOCK FALSE
