SPECIFICATION Spec
CONSTANTS
    None = None
    a = a
    b = b
    a1 = a1
    a2 = a2
    Handlers = {h1, h2}
    Chats = {a, b}
    Keys = {a1, a2}
    ChatOf <- MCChatOf
    Buffer = 1
    TTL = 1
    MaxTime = 2
    MaxChanges = 2
SYMMETRY Symmetry
INVARIANT HandledEventReloads
\* The bounds end the run: a hit changes nothing.
CHECK_DEADLOCK FALSE
