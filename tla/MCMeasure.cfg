SPECIFICATION Spec
CONSTANTS
    sent1 = sent1 sent2 = sent2 received1 = received1
    task1 = task1 task2 = task2 none = none
    Key <- MCKey Writer <- MCWriter NoKey = none
    Cap = 1 Period = 2 MaxNow = 3 MaxCalls = 2
SYMMETRY MCSymmetry
INVARIANTS CountsEveryCall NeverOverstates RowsKept
