SPECIFICATION PoolSpec
CONSTANTS
    User = {alice, bob}
    Call = {c1, c2, c3}
    BrowserId = {b1, b2}
    Null = Null
    MaxSessions = 2
    MaxSessionsPerUser = 1
    IdleTimeout = 1
    HardLifetime = 2
    LoadTimeout = 1
SYMMETRY Symmetry
INVARIANT
    CapsRespected
