CONSTANTS
    MaxTx = 3
    MaxSaves = 5
    BatchSize = 2
    PageCapacity = 2
    None = None
    Failed = Failed
    Roles = {"export", "view", "poll", "walk"}
SPECIFICATION Spec
INVARIANTS ScanSeesLog PollerFollowsLog CompleteWalkIsSnapshot
CHECK_DEADLOCK FALSE
