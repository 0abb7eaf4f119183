\* dbGetAllPackages: a traversal opened whatever the tree's size.  Once the
\* last key has been deleted, btreeGetFirstOffset reads the erased leaf the
\* header's leftLeaf still names and returns its children[0] = 0.
CONSTANTS
    Keys <- MCKeys4
    Vals <- MCVals
    Order = 3
    LongSize = 4
    MaxPage = 8
SPECIFICATION AllSpec
VIEW TravView
INVARIANT TraversalComplete
