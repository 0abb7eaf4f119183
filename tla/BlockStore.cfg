\* Page chains and the free list: two blocks, nodes and tree headers, one crash inside a write.
CONSTANTS
    b1 = b1
    b2 = b2

    Blocks <- MCBlocks
    Types <- MCTypes
    Multiple <- MCMultiple
    DataSizes <- MCDataSizes
    Base <- MCBase
    MaxEof = 2608
    DbType = 0
    MaxCrashes = 1
    ForeignHeaders <- MCForeignHeaders
SPECIFICATION DbSpec
SYMMETRY BlockSymmetry
VIEW DbView
INVARIANTS
    BSTypeOK
    NoDoubleAllocation
    ChainReadBack
    ChainFitsData
    DurableAllocation
PROPERTIES
    OpenChecksHeader
