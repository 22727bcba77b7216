SPECIFICATION Spec
CONSTANTS
    alice = alice
    a1 = a1
    User = {alice}
    Credential = {a1}
    Owner <- MCOwner
    Client = {web, cli}
    Binding = {good}
    SessionId = {s1}
    CodeId = {k1, k2}
    RefreshId = {t1, t2, t3}
    KeyId = {key1}
    Null = Null
    CodeTTL = 1
    RefreshTTL = 2
    SessionTTL = 3
    AccessTTL = 1
    RenewalThreshold = 1
    MaxTime = 4
SYMMETRY Symmetry
INVARIANTS
    OneLiveTokenPerGrant
    ReplayedGrantStaysDead
    RotationChainsSound
PROPERTIES
    NoPartialRevocation
    ImplementsLifecycle
