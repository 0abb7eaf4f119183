\* Every call of the B+Tree API, and dbFindByRequires traversals opened
\* only on a non-empty tree, read to their end or abandoned, between any
\* sequences of calls: the tree's shape, leaf chain and page accounting,
\* the traversal, and the refinement of KVMap are checked on the way.
\* One payload keeps five keys (the first height-2 trees) within reach.
CONSTANTS
    Keys <- MCKeys5
    Vals <- MCVals
    Order = 3
    LongSize = 4
    MaxPage = 8
SPECIFICATION ApiSpec
VIEW TravView
INVARIANTS
    TypeOK
    
    TravTypeOK
    TraversalComplete
    TraversalInBounds
    BTreeShape
    LeafChainSound
    PagesAccounted
PROPERTIES
    RefinesKVMap
