\* A package entry whose strings (a description and an install script,
\* say) add up to more than 64 KiB: __getDataSize sums them in an
\* unsigned short.
CONSTANTS
    s1 = s1
    s2 = s2
    Keys <- MCKeys
    Strings <- MCStrings
    StrLens <- MCBigLens
    Longs <- MCLongs
    Offsets <- MCOffsets
    LongSize = 8
SPECIFICATION RefSpec
INVARIANT
    TableReadBack
