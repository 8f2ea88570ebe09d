SPECIFICATION GrowSpec
CONSTANTS
    Bits = 3
    Pow <- MCPow
    SuccessorCap = 3
    NoDid = NoDid
    MaxLen = 2
    NoVNode = NoVNode
    Node <- MCNode
    Browser = {}
    Member <- MCFirst
    Key <- MCKey
    Op <- MCGrowOp
    Topic = 2
    Subscriber = {}
    MaxFetches = 0
INVARIANT HandoverKeeps
CHECK_DEADLOCK FALSE
