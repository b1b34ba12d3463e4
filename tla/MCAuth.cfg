SPECIFICATION Spec
CONSTANTS
    Codes = {k1, k2}
    SessionIDs = {s1}
    ClientIDs = {c1, c2, c3}
    JTIs = {j1, j2, j3}
    Scopes <- MCScopes
    ScopeRequests <- MCScopeRequests
    TTLs <- MCTTLs
    PairingTTL = 1
    SessionTTL = 2
    DelegatedTTL = 1
    DefaultTTL = 2
    MaxTime = 2
    NoToken = NoToken
    NoRequest = NoRequest
SYMMETRY Symmetry
INVARIANT CodeSingleUse
INVARIANT ScopesAttenuate
INVARIANT TokensBound
INVARIANT SessionTokenLive
PROPERTY NoLateRedemption
PROPERTY RevokedStaysOut
PROPERTY ImplementsGrants
\* The bounded clock and identifiers run out.
CHECK_DEADLOCK FALSE
