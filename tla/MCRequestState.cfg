SPECIFICATION StateSpec
CONSTANTS
    u1 = u1
    u2 = u2
    j1 = j1
    j2 = j2
    j3 = j3
    t1 = t1
    Ip = {ip1}
    Owner = {u1, u2}
    Token = {t1}
    Jwt = {j1, j2, j3}
    Claims <- MCClaims
    Revocations <- MCRevocations
    Forged = {j3}
    Pending = {r1, r2}
    UnauthMax = 2
    UserMax = 1
    GateWindow = 2
    PageId = {p1, p2, p3, p4}
    Opener = {o1, o2}
    BufferId = {h1, h2}
    Null = Null
    MaxTabs = 3
    OutputLimit = 0
    MaxCaptures = 1
    alice = alice
    bob = bob
    i1 = i1
    i2 = i2
    User = {alice, bob}
    Active = {alice}
    Id = {i1, i2}
    Key <- MCKey
    Call = {c1, c2}
    None = None
    Position <- MCPosition
    PageSize = 1
    MaxTime = 1
SYMMETRY Symmetry
INVARIANTS
    ServedToOwner
    QuotasExact
    AnswersTrue
    WalkComplete
PROPERTIES
    FocusSound
    CreatedAtPreserved
