\* Upstream may stop giving bytes without ending, as a connection does between messages.
SPECIFICATION ReaderFairSpec
CONSTANTS
    SegmentSize = 2
    MaxGarbage = 1
    MaxLength = 2
    Marks = {0, 5}
    Streams <- AllStreams
    MaxRead = 2
    MaxFaults = 0
PROPERTIES FlushedDataIsReadable
