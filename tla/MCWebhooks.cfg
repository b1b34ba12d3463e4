SPECIFICATION WebhooksSpec
CONSTANTS
    Hooks = {h1, h2}
    Blank = Blank
    a = a
    A = A
    b = b
    message = message
    reaction = reaction
    Types <- MCTypes
    Names <- MCNames
    Type <- MCType
    Lists <- MCLists
    MaxEvents = 2
SYMMETRY Symmetry
INVARIANT OnlyWhatWasAsked
INVARIANT NoneForgotten
\* Every hook is used and every event dispatched.
CHECK_DEADLOCK FALSE
