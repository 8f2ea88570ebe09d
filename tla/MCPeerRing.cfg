SPECIFICATION Spec
CONSTANTS
    Bits = 4
    Pow <- MCPow
    SuccessorCap = 2
    NoDid = NoDid
    Self = 5
    Peers <- MCPeers
INVARIANTS TypeOK SuccessorsSound LookupProgress LookupAnswerIsNearest
PROPERTIES RemovedIsGone SuccessorsOnlyGetNearer
