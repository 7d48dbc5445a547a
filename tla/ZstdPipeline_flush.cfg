\* Fairness is checked.  Twice as much is flushed as a segment of the reader holds.
SPECIFICATION FairSpec
CONSTANTS
    SegmentSize = 2
    MaxBurst = 1
    MaxBytes = 4
    MaxRead = 1
    MaxFaults = 0
    Streams <- NothingYet
    MaxGarbage = 0
PROPERTIES FlushArrives
