SPECIFICATION Spec
CONSTANTS
    long = long
    short = short
    early = early
    stale = stale
    Id <- MCId
    Total <- MCTotal
    Created <- MCCreated
    Ttl <- MCTtl
    Copies <- MCCopies
    MaxTtl = 3
    Tolerance = 1
    LastTick = 2
INVARIANTS WithdrawnWhole DeliveredInTime
PROPERTY DeliveredFresh
CHECK_DEADLOCK FALSE
