CONSTANTS
    MaxWrites = 3
    Threshold = 2
    Torn = Torn
    NoWrite = NoWrite
SPECIFICATION Spec
INVARIANTS AckedDurable NoDoubleReplay UniqueTxCounts
PROPERTIES RejectedStaysHidden ImageIsAtomic
