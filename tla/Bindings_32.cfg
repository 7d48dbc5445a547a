\* A 32-bit platform, where size_t is narrower than Long: only JNI.
SPECIFICATION Spec
CONSTANTS
    Codecs = {c1, c2}
    Addresses = {a1, a2}
    NULL = NULL
    Spans <- FewSpans
    MaxLength = 2
    MaxPosition = 1
    IntModulus = 16
    LongModulus = 256
    SizeModulus = 16
    MaxCode = 3
SYMMETRY Symmetry
INVARIANTS ErrorIsSeen
