SPECIFICATION TabsSpec
CONSTANTS
    PageId = {p1, p2, p3, p4}
    Opener = {o1, o2}
    BufferId = {h1}
    Null = Null
    MaxTabs = 3
    OutputLimit = 1
    MaxCaptures = 2
INVARIANT
    RecorderIsActive
