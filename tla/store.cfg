CONSTANTS
    MaxTx = 3
    MaxPage = 11
    MaxCrashes = 2
    MaxFailures = 1
    MaxRetries = 1
    None = None
SPECIFICATION Spec
INVARIANTS ReopenAgrees AckedHeldOnce
PROPERTIES NamedPagesKept ImplementsAtomicImage
CHECK_DEADLOCK FALSE
