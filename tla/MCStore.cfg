SPECIFICATION Spec
CONSTANTS
    Callers = {g1, g2}
    MaxCalls = 3
    Absent = Absent
    Torn = Torn
    NoCaller = NoCaller
INVARIANT NeverTorn
INVARIANT AckedDurable
PROPERTY EveryCallReturns
PROPERTY ImplementsRegister
\* The callers have made all their calls.
CHECK_DEADLOCK FALSE
