SPECIFICATION MCSpec
CONSTANTS
    Threads = {t1, t2}
    Capacity = 2
    FactPages <- MCFactPages
    Growth <- MCGrowth
    MaxTries = 3
    MaxFaults = 2
    None = None
    ProjRows <- MCProjRows
    MaxProjRows = 3
    MaxReplaced = 1
    ProjFloor = 2
    PageCells = 4
    PredictorSlots = 2
    ScanCache = 2
    ScanInstants = {5}
    NoImage = NoImage
    Roles = {"native", "browser", "scan"}
    FactEnd = 2
    Base = 6
    Batch = 2
    Limit = 7
    MaxWrites = 2
    Reads <- MCReads
INVARIANTS CacheCoherent ImageReachable ScanIsExact
PROPERTIES PagedReadEnds
CHECK_DEADLOCK FALSE
