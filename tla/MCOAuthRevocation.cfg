SPECIFICATION FairSpec
CONSTANTS
    alice = alice
    bob = bob
    a1 = a1
    a2 = a2
    b1 = b1
    User = {alice, bob}
    Credential = {a1, a2, b1}
    Owner <- MCOwner
    Client = {web}
    Binding = {good}
    SessionId = {s1}
    CodeId = {k1}
    RefreshId = {t1, t2}
    KeyId = {key1, key2}
    Null = Null
    CodeTTL = 1
    RefreshTTL = 2
    SessionTTL = 2
    AccessTTL = 1
    RenewalThreshold = 1
    MaxTime = 3
INVARIANTS
    GrantsBackedByCredential
    AccessOutlivesCredentialByTtl
    AccessSurvivesRestart
PROPERTIES
    ExpiredRowsSwept
