CONSTANTS
    a = a
    b = b
    Handles = {a, b}
    Readers = {a}
    OpenModes <- MCOpenModes
    MaxImages = 5
    MaxFaults = 1
    Batches = 2
    None = None
SPECIFICATION FairSpec
INVARIANTS LiveIsDurable PublishedLedgersSound ReadsOnePublishedImage
PROPERTIES NoLostUpdate MutationSettles
