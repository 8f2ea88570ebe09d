SPECIFICATION PayloadSpec
CONSTANTS
    Path <- MCPath Signer <- MCSigner Skews <- MCSkews
    DefaultTtl = 1 MaxTtl = 10 SessionTtl = 3 OffsetTolerance = 1
    MaxNow = 5 MaxSent = 1 MaxRenewed = 2
INVARIANTS HonestVerifies OriginKept StaleDropped SessionOutlivesMessage
CHECK_DEADLOCK FALSE
