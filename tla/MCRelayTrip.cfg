SPECIFICATION Spec
CONSTANTS
    a = a
    b = b
    c = c
    d = d
    Node <- MCNode
    NoHop = NoHop
    MaxChanges = 1
    MaxPath = 26
INVARIANTS ReportsComeHome ReportsRetrace LoopsAreCut
PROPERTY TripsEnd
CHECK_DEADLOCK FALSE
