SPECIFICATION FairPoolSpec
CONSTANTS
    User = {alice}
    Call = {c1, c2}
    BrowserId = {b1, b2}
    Null = Null
    MaxSessions = 2
    MaxSessionsPerUser = 2
    IdleTimeout = 1
    HardLifetime = 2
    LoadTimeout = 1
PROPERTIES
    SessionsReclaimed
