SPECIFICATION OutboundSpec
CONSTANTS
    MaxBodyBytes = 2
    MaxChunk = 2
    RedirectBound = 2
    FetchTimeout = 1
    SoftCap = 26
    HardCap = 34
    FirstPause = 3
    MaxPause = 12
    MinPause = 2
    SingleTimeouts <- MCSingleTimeouts
    m1 = m1
    m2 = m2
    Markdown = {m1, m2}
    NoContent = NoContent
    MaxHits = 3
    Budgets = {1, 2}
    ResearchTimeout = 3
    CimdTimeout = 3
    MaxResponseBytes = 2
    MaxRedirects = 3
    MaxPositiveTtl = 4
    HeaderBound = 5
    Lookup = {q1, q2}
    BootstrapTtl = 1
    PositiveTtl = 2
    NegativeTtl = 1
CHECK_DEADLOCK FALSE
INVARIANTS
    PayloadFollowsMethod
    TruncationTold
    
    ResumableUnlessSlow
    ResearchSound
    FreshnessBounded
PROPERTIES
    CallAnswered
    RegistriesServed
