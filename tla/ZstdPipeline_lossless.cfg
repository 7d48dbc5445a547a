\* No failures: three bytes written cross a segment boundary of either side.
SPECIFICATION Spec
CONSTANTS
    SegmentSize = 2
    MaxBurst = 2
    MaxBytes = 3
    MaxRead = 2
    MaxFaults = 0
    Streams <- NothingYet
    MaxGarbage = 0
PROPERTIES ImplementsLosslessStream
