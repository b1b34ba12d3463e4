SPECIFICATION DaemonSpec
CONSTANTS
    Runs = {r1, r2, r3}
    Absent = Absent
    Torn = Torn
    Free = Free
SYMMETRY Symmetry
INVARIANT ServesWhatItHolds
INVARIANT OneIdentity
INVARIANT FailsOnlyAfterMishap
INVARIANT SocketKept
INVARIANT RestartListens
\* Every run has ended or serves.
CHECK_DEADLOCK FALSE
