SPECIFICATION Spec
CONSTANTS
    Requests = {r1, r2}
    Files = {r1}
    Gets = {g1}
    MaxSize = 2
    EndLimit = 1
INVARIANTS
    FileWholeForImsg
    StrayOnlyOfInterrupted
    CompleteIsWhole
PROPERTIES
    SettledByAnswer
    NothingForNobody
\* Every request and download is over.
CHECK_DEADLOCK FALSE
