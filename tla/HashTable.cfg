\* A package entry's table: strings, longs and offsets under two tags that
\* share a bucket, written, dropped and read back in any order.
CONSTANTS
    s1 = s1
    s2 = s2
    Keys <- MCKeys
    Strings <- MCStrings
    StrLens <- MCStrLens
    Longs <- MCLongs
    Offsets <- MCOffsets
    LongSize = 8
SPECIFICATION RefSpec
INVARIANTS
    HTTypeOK
    TableReadBack
PROPERTIES
    RefinesTagStore
