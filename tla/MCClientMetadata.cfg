SPECIFICATION MetadataSpec
CONSTANTS
    ClientId = {x, y, z}
    Caller = {q1, q2, q3}
    Null = Null
    MaxInFlight = 2
    MaxEntries = 2
    PositiveTTL = {1, 2}
    NegativeTTL = 1
    Source = {s1, s2, s3}
    MaxPerWindow = 2
    MaxBuckets = 2
    PruneInterval = 3
    Window = 3
INVARIANTS
    FlightsExact
    CacheHonest
    LimiterExact
PROPERTIES
    CallersAnswered
