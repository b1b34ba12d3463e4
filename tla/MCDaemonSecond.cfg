SPECIFICATION DaemonSpec
CONSTANTS
    Runs = {r1, r2, r3}
    Absent = Absent
    Torn = Torn
    Free = Free
SYMMETRY Symmetry
\* Every run has ended or serves.
CHECK_DEADLOCK FALSE
INVARIANT AdminReachable
