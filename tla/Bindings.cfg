\* A 64-bit platform, where size_t is as wide as Long: both bindings.
SPECIFICATION Spec
CONSTANTS
    Codecs = {c1, c2}
    Addresses = {a1, a2}
    NULL = NULL
    Spans <- FewSpans
    MaxLength = 2
    MaxPosition = 1
    IntModulus = 16
    LongModulus = 64
    SizeModulus = 64
    MaxCode = 2
SYMMETRY Symmetry
INVARIANTS TypeOK ContextsOwned ErrorIsSeen OutputArrives
PROPERTIES ImplementsCodec
