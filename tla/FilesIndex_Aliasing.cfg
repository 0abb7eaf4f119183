\* dbFindByFile after dbAddPackage: a package offset read as a list block.
CONSTANTS
    p1 = p1
    p2 = p2
    p3 = p3
    fa = fa
    fb = fb
    Packages <- MCPackages
    Files <- MCFiles
    Base <- MCBase
    TreeHeader <- MCTreeHeader
    Extra <- MCExtra
    SplitPages <- MCSplitPages
SPECIFICATION Spec
SYMMETRY PackageSymmetry
INVARIANT FindByFileCorrect
\* The workload ends once every package has been added.
CHECK_DEADLOCK FALSE
