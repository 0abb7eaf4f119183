\* Node codec on an signed-char build (x86) with 32-bit longs.
CONSTANTS
    Order = 4
    CharSigned = TRUE
    LongBytes = 4
    OffsetBytes = 4
    KeyStrings <- MCKeyStrings
    Offsets <- MCOffsets
    ListOffsets <- MCListOffsets
    MaxList = 3
SPECIFICATION Spec
INVARIANTS
    NodeRoundTrip
