SPECIFICATION Spec
CONSTANTS
    Keys = {k1, k2}
    Limit = 2
    Per = 5
    Second = 1
    MaxTime = 7
    MaxBack = 1
SYMMETRY Symmetry
INVARIANT AtMostTheLimit
INVARIANT WaitSuffices
\* The clock stops at MaxTime.
CHECK_DEADLOCK FALSE
