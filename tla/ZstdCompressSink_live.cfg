\* The loop of compress() ends: a smaller instance, because fairness is checked.
SPECIFICATION WriterFairSpec
CONSTANTS
    SegmentSize = 2
    MaxBurst = 3
    MaxGarbage = 3
    MaxBytes = 4
    MaxFaults = 1
PROPERTIES OperationsTerminate
