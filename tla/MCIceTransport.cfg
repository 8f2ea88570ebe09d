SPECIFICATION IceSpec
CONSTANTS
    Builds <- MCBuilds
    Candidate <- MCCandidate
    t1 = t1
    t2 = t2
    Task <- MCTask
    Dialler <- MCDialler
    EndOf <- MCEndOf
    Chunks = 2
    MaxBreaks = 1
    NoTask = NoTask
CHECK_DEADLOCK FALSE
INVARIANTS InfoComplete SentArrives
PROPERTY NewestWaiterReturns
