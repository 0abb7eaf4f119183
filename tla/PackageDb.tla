------------------------------ MODULE PackageDb ------------------------------
(***************************************************************************)
(* The indexes of the package database beside files.idx: names.idx,      *)
(* reqdeps.idx, provdeps.idx and groups.idx, as dbAddPackage fills them   *)
(* (addpackage.c, with gdbAddTree and gdbAddIndexEntry of db.c),          *)
(* dbRemovePackage empties them (removepackage.c) and the searches read   *)
(* them (search_by_name.c, search_by_requires.c, get_all_packages.c).     *)
(*                                                                         *)
(* names.idx's main tree maps a package name to the offset of its entry   *)
(* in packages.db.  The main tree of each of the other three maps a       *)
(* requirement, a provide or a group to the offset of a tree of its own,  *)
(* which maps the names of the packages under it to their entries.  Every *)
(* tree is abstracted to the map it implements (BTree refines KVMap): an  *)
(* index is a function to offsets, 0 where a key is absent, and a missing *)
(* second-level tree is the empty one, which no search tells apart.       *)
(*                                                                         *)
(* The files steps of dbAddPackage are FilesIndex's; the rest of the call *)
(* runs once the package's files are done, as in the code.                *)
(***************************************************************************)
EXTENDS FilesIndex

CONSTANTS
    Names,     \* package names
    Deps,      \* names of requirements and provides
    Groups,    \* group names
    NameOf,    \* NameOf[p]: pmGetPackageName(p)
    GroupOf,   \* GroupOf[p]: pmGetPackageGroup(p)
    ReqsOf,    \* ReqsOf[p]: the names on p's requirement list
    ProvsOf    \* ProvsOf[p]: the names on p's provide list

VARIABLES
    names,     \* names[n]: names.idx main tree
    reqDeps,   \* reqDeps[d][n]: reqdeps.idx, the tree of requirement d
    provDeps,  \* provDeps[d][n]: provdeps.idx, the tree of provide d
    groups,    \* groups[g][n]: groups.idx, the tree of group g
    tbl,       \* tbl[t]: the child hashtable t of packages.db: [item, next]
    head,      \* head[p]: the first child table under p's entry, per list
    loop,      \* prevTable and firstOffset of the __addPackageFiles in progress
    removed,   \* ghost: the packages whose entry a dbRemovePackage found
    cut        \* ghost: cut[n], the end of packages.db when n was last removed

pdVars  == <<names, reqDeps, provDeps, groups, tbl, head, loop, removed, cut>>
allVars == <<vars, pdVars>>

(* An empty tree, as btreeCreate leaves it.                                *)
NoTree == [n \in Names |-> 0]

(* A child table of packages.db is named by the package whose entry it   *)
(* hangs under and its rank among that package's child tables; NoTable   *)
(* is the offset 0 that ends a list and that htGetOffset returns for a   *)
(* missing tag.                                                            *)
NoTable == <<>>
NoTables == [t \in {} |-> [item |-> NoTable, next |-> NoTable]]
NoHead == [files |-> NoTable, reqs |-> NoTable, provs |-> NoTable]
NoLoop == [prev |-> NoTable, first |-> NoTable]

(* The table htCreate and the first gdbWriteBlock give p next: a block at *)
(* the end of packages.db, where nothing is ever freed.                   *)
NewTableId(T, p) == <<p, Cardinality({t \in DOMAIN T : t[1] = p}) + 1>>

(* A list held in the package's order: pmFirstFile/pmNextFile and the     *)
(* dependency lists hold each name once, in an order of their own.        *)
ListOf(S) == CHOOSE l \in [1..Cardinality(S) -> S] : ToSet(l) = S

Linked_noHeader(T, p, x, prev) ==
    LET t == NewTableId(T, p)
    IN [u \in DOMAIN T \cup {t} |-> IF u = t THEN [item |-> x, next |-> NoTable] ELSE T[u]]

(* One pass of the loops of __addPackageFiles, __addRequiredDeps and      *)
(* __addProvidedDeps: htCreate (listNext 0), htAddString(GDBTAG_NAME, x)  *)
(* and the other tags, gdbWriteBlock; then, if prevTable != NULL,         *)
(* prevTable->block->listNext = the new offset, GDB_SET_DIRTY and         *)
(* gdbWriteBlockHeader(prevTable), and prevTable is destroyed.            *)
Linked(T, p, x, prev) ==
    LET t == NewTableId(T, p)
    IN [u \in DOMAIN T \cup {t} |->
          IF u = t THEN [item |-> x, next |-> NoTable]
          ELSE IF u = prev THEN [T[u] EXCEPT !.next = t]
          ELSE T[u]]

(* The whole loop of __addRequiredDeps or __addProvidedDeps over list l, *)
(* prevTable starting at NULL.                                             *)
RECURSIVE DepChain(_, _, _, _)
DepChain(T, p, l, prev) ==
    IF l = <<>> THEN T
    ELSE DepChain(Linked(T, p, Head(l), prev), p, Tail(l), NewTableId(T, p))

(* The firstOffset the loop returns: the first table it creates, 0 for an *)
(* empty list (the caller then adds no tag).                              *)
FirstOf(T, p, l) == IF l = <<>> THEN NoTable ELSE NewTableId(T, p)

(* gdbAddIndexEntry(db, tree, key, o) -> btreeInsert(tree, key, o, 0): a  *)
(* key already present keeps its offset (GDB_DUPLICATE), a new one is    *)
(* added.  o is never 0 here.                                              *)
AddIndexEntry(t, k, o) == IF t[k] # 0 THEN t ELSE [t EXCEPT ![k] = o]

AddTree_fresh(ix, key, n, o) == [ix EXCEPT ![key] = AddIndexEntry(NoTree, n, o)]

(* gdbAddTree(db, mainTree, key, &tree) then gdbAddIndexEntry(db, tree,  *)
(* n, o): btreeCreate a tree and insert its offset under key; on          *)
(* GDB_DUPLICATE close it, free its block and btreeOpen the one key       *)
(* already names.  The entry goes into that tree.                          *)
AddTree(ix, key, n, o) == [ix EXCEPT ![key] = AddIndexEntry(@, n, o)]

(* The loop of __addRequiredDeps / __addProvidedDeps over a list of       *)
(* dependency names, for package name n at entry o: each name is its own  *)
(* key of the main tree, so the order of the list does not matter.        *)
AddUnder(ix, ds, n, o) ==
    [d \in DOMAIN ix |-> IF d \in ds THEN AddTree(ix, d, n, o)[d] ELSE ix[d]]

(* __addRequiredDeps and __addProvidedDeps: per dependency a hashtable   *)
(* in packages.db (its pages are part of the package's Extra), then       *)
(* gdbAddTree(index, depName) and gdbAddIndexEntry(pkgName, pkgOffset).   *)
AddRequiredDeps(ix, p) == AddUnder(ix, ReqsOf[p], NameOf[p], off[p])
AddProvidedDeps(ix, p) == AddUnder(ix, ProvsOf[p], NameOf[p], off[p])

(* __writeNameIndexFile: gdbAddIndexEntry(namesIndex, mainTree, name, o); *)
(* its status is dropped and PM_SUCCESS returned.                          *)
WriteNameIndexFile_replace(ix, p) == [ix EXCEPT ![NameOf[p]] = off[p]]

WriteNameIndexFile(ix, p) == AddIndexEntry(ix, NameOf[p], off[p])

(* __writeGroupIndexFile: gdbAddTree(groupsIndex, group) and             *)
(* gdbAddIndexEntry(pkgName, o).                                           *)
WriteGroupIndexFile(ix, p) == AddTree(ix, GroupOf[p], NameOf[p], off[p])

-----------------------------------------------------------------------------
(* The pass of __addPackageFiles' loop for file f: its table is created   *)
(* and linked before the files index is updated (FileStepOf(f)).          *)
WriteFileTable(f) ==
    LET p == cur.pkg
        t == NewTableId(tbl, p)
    IN /\ tbl' = Linked(tbl, p, f, loop.prev)
       /\ loop' = [prev |-> t, first |-> IF loop.first = NoTable THEN t ELSE loop.first]

(* dbAddPackage(p), once __addPackageFiles has returned: the rest of      *)
(* __writePackageEntry (htAddOffset(GDBTAG_FILES, firstOffset),           *)
(* __addRequiredDeps and __addProvidedDeps with their tags, the second   *)
(* gdbWriteBlock of the entry, which replaces the dud offsets 1234 on     *)
(* disk, and the timestamp insert into packages.db), then                  *)
(* __writeNameIndexFile and __writeGroupIndexFile; the call returns.      *)
FinishPackage ==
    LET p  == cur.pkg
        rl == ListOf(ReqsOf[p])
        pl == ListOf(ProvsOf[p])
        T1 == DepChain(tbl, p, rl, NoTable)
    IN /\ EndPackage
       /\ reqDeps'  = AddRequiredDeps(reqDeps, p)
       /\ provDeps' = AddProvidedDeps(provDeps, p)
       /\ names'    = WriteNameIndexFile(names, p)
       /\ groups'   = WriteGroupIndexFile(groups, p)
       /\ tbl'      = DepChain(T1, p, pl, NoTable)
       /\ head'     = [head EXCEPT ![p] = [files |-> loop.first,
                                           reqs  |-> FirstOf(tbl, p, rl),
                                           provs |-> FirstOf(T1, p, pl)]]
       /\ loop'     = NoLoop
       /\ UNCHANGED <<removed, cut>>

(* dbRemovePackage(p): btreeSearch the names index for p's name; not      *)
(* found is PM_FAILED.  Found: __removeFromNames btreeDeletes the name    *)
(* and returns PM_FAILED, so dbRemovePackage returns there: the other     *)
(* __removeFrom* steps, stubs as well, are never reached.  The ghosts     *)
(* record the package at the offset found, the one the TODO of the call   *)
(* says is to be taken out of every index, and when the name went.        *)
RemovePackage(p) ==
    /\ cur = Idle
    /\ names[NameOf[p]] # 0
    /\ names' = [names EXCEPT ![NameOf[p]] = 0]
    /\ removed' = removed \cup {q \in Added : off[q] = names[NameOf[p]]}
    /\ cut' = [cut EXCEPT ![NameOf[p]] = pkEof]
    /\ UNCHANGED <<vars, reqDeps, provDeps, groups, tbl, head, loop>>

(* A pass of __addPackageFiles' loop: the file's table, then the index.  *)
FileLoopStep ==
    /\ \E f \in Files : FileStepOf(f) /\ WriteFileTable(f)
    /\ UNCHANGED <<names, reqDeps, provDeps, groups, head, removed, cut>>

(* The start of a call and the files steps, the other indexes untouched.  *)
FilesPart ==
    \/ /\ \E p \in Packages, fs \in SUBSET Files, x \in Extra : BeginPackage(p, fs, x)
       /\ UNCHANGED pdVars
    \/ FileLoopStep

PdInit ==
    /\ Init
    /\ names = NoTree
    /\ reqDeps = [d \in Deps |-> NoTree]
    /\ provDeps = [d \in Deps |-> NoTree]
    /\ groups = [g \in Groups |-> NoTree]
    /\ tbl = NoTables
    /\ head = [p \in Packages |-> NoHead]
    /\ loop = NoLoop
    /\ removed = {}
    /\ cut = [n \in Names |-> 0]

PdNext ==
    \/ FilesPart
    \/ FinishPackage
    \/ \E p \in Packages : RemovePackage(p)

PdSpec == PdInit /\ [][PdNext]_allVars

-----------------------------------------------------------------------------
(* The loop of dbGetFiles, dbGetRequiredDeps and dbGetProvidedDeps: from  *)
(* the offset under the entry's tag, htOpen each table (abort() if it is  *)
(* none), take its listNext, read its tags and destroy it, until offset  *)
(* 0.  The tables visited, in order; fuel only cuts a cycle short.        *)
RECURSIVE ListWalk(_, _, _)
ListWalk(T, t, fuel) ==
    IF t = NoTable \/ fuel = 0 THEN <<>>
    ELSE IF t \notin DOMAIN T THEN <<t>>
    ELSE <<t>> \o ListWalk(T, T[t].next, fuel - 1)

(* dbGetFiles(db, pkg), dbGetRequiredDeps, dbGetProvidedDeps on the entry *)
(* dbReadPackage(off[p]) opened: the tables each adds to the package.     *)
GetList(t) == ListWalk(tbl, t, Cardinality(DOMAIN tbl) + 1)
GetFiles(p) == GetList(head[p].files)
GetRequiredDeps(p) == GetList(head[p].reqs)
GetProvidedDeps(p) == GetList(head[p].provs)

-----------------------------------------------------------------------------
(* The searches.  dbFindByName(n): the offset names.idx holds.             *)
FindByName(n) == {names[n]} \ {0}

(* dbFindByRequires(d): not found, or an empty tree, is PM_FAILED; else a *)
(* traversal of d's tree yields the offsets under it.                      *)
FindByRequires(d) == {reqDeps[d][n] : n \in Names} \ {0}

(* spec.md 5 (a search reflects the inserts that were not rejected as   *)
(* duplicates): names.idx keeps one entry per name, gdbAddIndexEntry     *)
(* refuses a second (GDB_DUPLICATE, its status dropped by                 *)
(* __writeNameIndexFile), and dbRemovePackage deletes the name.  So after *)
(* any adds and removes, dbFindByName(n) yields the entry of the first    *)
(* package named n added since n was last removed, and nothing when none *)
(* was: packages.db grows at its end, so the first added is the lowest.  *)
NameIndexKeepsFirst ==
    \A n \in Names :
        LET since == {off[p] : p \in {q \in Added : NameOf[q] = n /\ off[q] >= cut[n]}}
        IN FindByName(n) = {o \in since : \A o2 \in since : o <= o2}

(* Once dbAddPackage(p) has returned, and until a dbRemovePackage finds   *)
(* p's entry, a package of p's name stays under each of p's requirements, *)
(* provides and its group, and a search for them finds one, however many  *)
(* packages share those keys and in whichever order they were added: the  *)
(* tree gdbAddTree hands back for a key already present is the one stored *)
(* (db.c, the GDB_DUPLICATE branch), never the fresh one it just made.     *)
DependentsListed ==
    \A p \in Added \ removed :
        /\ \A d \in ReqsOf[p] : reqDeps[d][NameOf[p]] # 0
        /\ \A d \in ProvsOf[p] : provDeps[d][NameOf[p]] # 0
        /\ groups[GroupOf[p]][NameOf[p]] # 0


(* Once dbAddPackage(p) has returned, dbGetFiles, dbGetRequiredDeps and   *)
(* dbGetProvidedDeps on p's entry give back p's files, requirements and   *)
(* provides, each once, and run into no other list, nor off the tables:   *)
(* the listNext links __addPackageFiles, __addRequiredDeps and            *)
(* __addProvidedDeps write one pass after the table they point to, and   *)
(* the firstOffset each returns, reach every table of that list and stop  *)
(* at its last, whatever other packages were added in between.           *)
ReadsBack(s, S) ==
    /\ ToSet(s) \subseteq DOMAIN tbl
    /\ Len(s) = Cardinality(S)
    /\ {tbl[t].item : t \in ToSet(s)} = S

EntryReadsBack ==
    \A p \in Added :
        /\ ReadsBack(GetFiles(p), owns[p])
        /\ ReadsBack(GetRequiredDeps(p), ReqsOf[p])
        /\ ReadsBack(GetProvidedDeps(p), ProvsOf[p])

====
