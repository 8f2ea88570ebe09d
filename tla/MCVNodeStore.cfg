SPECIFICATION Spec
CONSTANTS
    Bits = 3
    Pow <- MCPow
    SuccessorCap = 3
    NoDid = NoDid
    MaxLen = 2
    NoVNode = NoVNode
    Node <- MCNode
    Browser = {0}
    Member <- MCNode
    Key <- MCKey
    Op <- MCOp
    Topic = 2
    Subscriber = {4}
    MaxFetches = 2
INVARIANTS TypeOK ReadsOwnWrites FeedInOrder
PROPERTIES OneMap FetchesAnswered
CHECK_DEADLOCK FALSE
