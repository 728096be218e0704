SPECIFICATION Spec
CONSTANTS
    Procs = {p, q}
    NoOne = NoOne
    Plans <- MCPlans
    Texts <- MCTexts
    WriteTexts <- MCWriteTexts
    Scripts <- MCScripts
    Templates <- MCTemplates
    Bindings <- MCBindings
    Dests = {d}
    MaxTx = 2
    MaxFaults = 1
    MaxStaged = 2
    MaxRules = 1
    Threshold = 2
    MaxResults = 3
    Racing = 2
    Noon = 4
INVARIANT OneWriter
SYMMETRY Swaps
CHECK_DEADLOCK FALSE
