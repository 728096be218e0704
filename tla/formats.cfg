SPECIFICATION BootSpec
CONSTANTS
    MaxPage = 17
    PerPage = 2
    Images <- MCImages
    Stored <- MCStored
    Others <- MCOthers
    MaxFaults = 1
    MaxLosses = 1
    MaxManifest = 2
    ExportBatch = 4
INVARIANTS
    
    MigrationSurvives
    ProjectionMatchesLedger
    ExportOpens
PROPERTY
    SparseOpenAgrees
