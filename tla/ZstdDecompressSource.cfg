\* Output segments of two bytes, blocks of up to five decoded bytes, every stream of up
\* to three compressed bytes.
SPECIFICATION ReaderSpec
CONSTANTS
    SegmentSize = 2
    MaxGarbage = 1
    MaxLength = 3
    Marks = {0, 1, 5}
    Streams <- AllStreams
    MaxRead = 2
    MaxFaults = 1
INVARIANTS ReaderTypeOK ReaderNothingLost CleanEnd TruncationIsReal ServedIsDecodable ReaderResourcesReleased
PROPERTIES ReaderNoUseAfterClose
