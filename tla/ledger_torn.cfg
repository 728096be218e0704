CONSTANTS
    MaxWrites = 2
    Threshold = 2
    Torn = Torn
    NoWrite = NoWrite
SPECIFICATION Spec
INVARIANT AckedRecovered
