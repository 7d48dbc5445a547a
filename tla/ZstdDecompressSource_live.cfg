\* Every read ends when upstream goes on to its end: a smaller instance, because fairness
\* is checked.
SPECIFICATION ReaderFairUpstreamSpec
CONSTANTS
    SegmentSize = 2
    MaxGarbage = 1
    MaxLength = 3
    Marks = {0, 5}
    Streams <- AllStreams
    MaxRead = 1
    MaxFaults = 0
PROPERTIES ReadsTerminate
