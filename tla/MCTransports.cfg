SPECIFICATION Spec
CONSTANTS
    t1 = t1
    t2 = t2
    Transport <- MCTransport
    NoTransport = NoTransport
    MaxByHand = 1
    MaxLocked = 1
SYMMETRY Symmetry
INVARIANTS MembersHaveTransports   NoneLeaks
CHECK_DEADLOCK FALSE
