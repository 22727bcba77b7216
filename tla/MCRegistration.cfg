SPECIFICATION RegistrationSpec
CONSTANTS
    Client = {d1, d2, d3, d4}
    Cimd = {u1}
    Address = {ip1}
    Uri = {cb1, cb2, http}
    PolicyUri = {cb1, cb2}
    Null = Null
    MaxPerHour = 2
    Hour = 2
    MaxTime = 3
SYMMETRY Symmetry
INVARIANTS
    NewClientsStrict
    RelyingClientsServed
    RegistrationsBounded
