\* Three holders, two pages, three block structures: enough for a page to
\* be held by two holders, erased, reserved again and rewritten.
CONSTANTS
    h1 = h1
    h2 = h2
    h3 = h3
    Holders <- MCHolders
    NPages = 2
    MaxInst = 3
    MaxRef = 3
VIEW LiveView
SYMMETRY HolderSymmetry
SPECIFICATION Spec
INVARIANTS
    BCTypeOK
    RefCountCoversHolders
    NoUseAfterFree
