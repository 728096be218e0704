SPECIFICATION PSpec
CONSTANTS
    PAGE_SIZE = 150
    FillPercent = 75
    PREFIX_RESTART_INTERVAL = 2
    FieldBytes = 4
    RefBytes = 4
    MaxEntity = 3
    Batches <- MCBatches
    FirstLogs <- MCFirstLogs
    Attrs = {10}
    Entities = {1, 2}
    Instants = {1, 4}
    StepSizes = {1, 3}
    Limits = {1, 2}
    MaxSource = 4
    MaxTx = 3
    MaxPublish = 4
    MaxTail = 2
    MaxImages = 2
INVARIANTS
    LayersHoldLog
    ReadsExact
    PagesExact
    ProjectedReadExact
