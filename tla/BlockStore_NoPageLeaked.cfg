\* Erasing a node of several pages: are all its pages given back?
CONSTANTS
    b1 = b1
    b2 = b2

    Blocks <- MCBlocks
    Types <- MCTypes
    Multiple <- MCMultiple
    DataSizes <- MCDataSizes
    Base <- MCBase
    MaxEof = 2608
    DbType = 0
    MaxCrashes = 1
    ForeignHeaders <- MCForeignHeaders
SPECIFICATION DbSpec
SYMMETRY BlockSymmetry
VIEW DbView
INVARIANT NoPageLeaked
