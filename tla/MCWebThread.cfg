SPECIFICATION ThreadSpec
CONSTANTS
    Chats = {a, b}
    NoChat = NoChat
    Limit = 1
    Page = 1
    MaxMessage = 2
    MaxLoads = 2
    MaxOlder = 1
SYMMETRY Symmetry
INVARIANT MixedOnlyByOverlap
INVARIANT DeliveredShown
\* The bounds end the run, and one mount ends with its last reply.
CHECK_DEADLOCK FALSE
