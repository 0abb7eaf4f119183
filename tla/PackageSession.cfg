\* The package database: dbOpen, dbCreate, dbClose, dbAddPackage, dbRemovePackage and the searches.
CONSTANTS
    p1 = p1
    p2 = p2
    p3 = p3
    fa = fa
    fb = fb
    na = na
    nb = nb
    d1 = d1
    d2 = d2
    g1 = g1
    Packages <- MCPackages
    Files <- MCFiles
    Base <- MCBase
    TreeHeader <- MCTreeHeader
    Extra <- MCExtra
    SplitPages <- MCSplitPages
    Names <- MCNames
    Deps <- MCDeps
    Groups <- MCGroups
    NameOf <- MCNameOf
    GroupOf <- MCGroupOf
    ReqsOf <- MCReqsOf
    ProvsOf <- MCProvsOf
SPECIFICATION SessSpec
CONSTRAINT StopAtTornDb
INVARIANTS
    WholeDbFITypeOK
    WholeDbListsHoldPackages
    WholeDbFindByFile
    WholeDbNameIndex
    DependentsListed
    EntryReadsBack
    HandlesMatchSession
