\* Segments of three bytes: five written bytes cross a segment boundary, and four bytes of
\* one burst overflow an output segment.
SPECIFICATION WriterSpec
CONSTANTS
    SegmentSize = 3
    MaxBurst = 4
    MaxGarbage = 3
    MaxBytes = 5
    MaxFaults = 2
INVARIANTS WriterTypeOK WriterNothingLost FlushDelivers CloseDelivers WriterResourcesReleased BoundedBuffers FrameIsWhole
PROPERTIES WriterNoUseAfterClose EndDirectiveFinal
