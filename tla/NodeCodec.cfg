\* Node codec on an unsigned-char build with 32-bit longs.
CONSTANTS
    Order = 4
    CharSigned = FALSE
    LongBytes = 4
    OffsetBytes = 4
    KeyStrings <- MCKeyStrings
    Offsets <- MCOffsets
    ListOffsets <- MCListOffsets
    MaxList = 3
SPECIFICATION Spec
INVARIANTS
    CodecTypeOK
    NodeRoundTrip
    EncodedSizeExact
    ListRoundTrip
