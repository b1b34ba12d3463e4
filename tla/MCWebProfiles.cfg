SPECIFICATION Spec
CONSTANTS
    Tabs = {t1, t2}
    Ops = {o1, o2, o3}
    Sessions = {s1}
    None = None
SYMMETRY Symmetry
INVARIANTS
    TokensReadable
    ActiveIsThere
    ShowsWhatIsStored
    OncePerSession
    NothingLeft
\* Every operation is used.
CHECK_DEADLOCK FALSE
