SPECIFICATION Spec
CONSTANTS
    Conns = {c1, c2}
    Buffer = 1
    Unreadable = {3}
    MaxRow = 4
    MaxUpdates = 1
    MaxBreaks = 1
    MaxCrashes = 1
INVARIANT InOrder
INVARIANT NoneSkipped
INVARIANT RepeatsOnlyUnsaved
INVARIANT StreamFaithful
PROPERTY CursorMonotone
PROPERTY EventuallyPublished
