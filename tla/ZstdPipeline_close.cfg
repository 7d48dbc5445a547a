\* Fairness is checked: three bytes are more than a segment of the reader holds, and a burst
\* of two can be more than there is room for downstream of the writer.
SPECIFICATION FairSpec
CONSTANTS
    SegmentSize = 2
    MaxBurst = 2
    MaxBytes = 3
    MaxRead = 1
    MaxFaults = 0
    Streams <- NothingYet
    MaxGarbage = 0
PROPERTIES EverythingArrives
