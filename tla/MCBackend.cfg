SPECIFICATION BackendSpec
CONSTANTS
    get = get
    put = put
    other = other
    Msg <- MCMsg
    Mixes <- MCMixes
    Chunks = 2
    Poller = {p1, p2}
    Capacity = 1
    MaxFaults = 1
INVARIANT MissedOnlyByLag
PROPERTIES Answered PollsReturn
CHECK_DEADLOCK FALSE
