SPECIFICATION ProcessesSpec
CONSTANTS
    Request = {r1, r2}
    Grace = 2
    Points = 3
    Text = {"a", "b"}
    BatchSizes = {0, 1, 2, 1001}
INVARIANTS
    StorageOutlivesHandlers
    CleanExitIsClean
    GoneWithinGrace
    SuccessIsExact
    RerunCompletes
PROPERTIES
    ProcessesEnd
    DryRunHonest
