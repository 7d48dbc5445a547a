\* Failures on either side: segments of two bytes, two bytes written, two failures, which is
\* one to leave a segment behind and one to cut the stream.
SPECIFICATION Spec
CONSTANTS
    SegmentSize = 2
    MaxBurst = 2
    MaxBytes = 2
    MaxRead = 2
    MaxFaults = 2
    Streams <- NothingYet
    MaxGarbage = 1
INVARIANTS ReadWasWritten BothSidesAgree NoSilentTruncation
