----------------------------- MODULE FilesIndex -----------------------------
(***************************************************************************)
(* The files index of the package database (files.idx) as dbAddPackage   *)
(* fills it (__addPackageFiles, addpackage.c) and dbFindByFile reads it   *)
(* (search_by_file.c), with the offset-list blocks it stores (offsetlist.c)*)
(* and gdbBlockTypeAt (db_blocks.c).                                        *)
(*                                                                         *)
(* The main tree of files.idx maps a file name to one offset: the offset  *)
(* of the entry of the only package owning it, which lives in another     *)
(* file (packages.db), or the offset of an offset-list block in files.idx *)
(* listing several package offsets.  Which of the two it is, both the     *)
(* adding and the searching code decide by reading the block type byte at *)
(* that offset in files.idx.                                               *)
(*                                                                         *)
(* The B+Tree is abstracted to the map it implements (BTree refines       *)
(* KVMap); of its pages only where they lie in files.idx is kept.  A      *)
(* package's entry in packages.db is its hashtable, written at the end of *)
(* that file (nothing in packages.db is freed while packages are added),  *)
(* followed by its file tables and the timestamp index's pages.           *)
(***************************************************************************)
EXTENDS Integers, Sequences, SequencesExt, FiniteSets

CONSTANTS
    Packages,    \* the packages dbAddPackage is called with
    Files,       \* file names
    Base,        \* end of a database file once created (gdbCreate)
    TreeHeader,  \* offset of the main tree's header block (DB_MAIN_TREE_OFFSET)
    Extra,       \* pages of packages.db a package takes beyond one per table
    SplitPages   \* node pages of files.idx an insert of a new key may reserve

NodeMultiple  == 128   \* blockTypeInfo: B+Tree node pages
ListMultiple  == 32    \* blockTypeInfo: offset-list pages
TableMultiple == 64    \* blockTypeInfo: hashtable pages (packages.db)

VARIABLES
    idx,      \* idx[f]: what the files.idx main tree holds for f, 0 if absent
    pages,    \* pages[o]: the block type written at offset o of files.idx
    lists,    \* lists[o]: the offsets the offset-list block at o holds
    fiEof,    \* end of files.idx
    pkEof,    \* end of packages.db
    off,      \* off[p]: offset of p's entry in packages.db, 0 before it is added
    owns,     \* owns[p]: the files p lists
    cur       \* the dbAddPackage in progress: [pkg, todo], pkg "none" between calls

vars == <<idx, pages, lists, fiEof, pkEof, off, owns, cur>>

Idle == [pkg |-> "none", todo |-> {}]

TypeAt_headerOnly(o) ==
    IF o < 16 \/ o >= fiEof THEN "any"
    ELSE IF o = TreeHeader THEN "header"
    ELSE "payload"

(* gdbBlockTypeAt(filesIndex, o): GDB_BLOCK_ANY for an offset before the  *)
(* free-list region; else the first byte at o: the type of the block that *)
(* starts there, a payload byte inside a page (never the offset-list type *)
(* in the model), and GDB_BLOCK_ANY when fread fails past the end.        *)
TypeAt(o) ==
    IF o < 16 \/ o >= fiEof THEN "any"
    ELSE IF o = TreeHeader THEN "header"
    ELSE IF o \in DOMAIN pages THEN pages[o]
    ELSE "payload"

(* olCreate: an empty list (olCreateBlock).                                *)
OLCreate == <<>>

(* olAddOffset: offset 0 is ignored; else appended (the array doubles     *)
(* when full, which only makes room).                                      *)
OLAdd(l, o) == IF o = 0 THEN l ELSE Append(l, o)

(* The match iterator over a list (__firstListPackage, __nextListPackage): *)
(* olGetOffset(list, index++) until it returns 0 past the count.           *)
ListMatches(l) == {l[i] : i \in 1..Len(l)}

(* Reserve n pages of size m at the end of files.idx for blocks of type t. *)
Grow(P, e, n, m, t) == [o \in DOMAIN P \cup {e + k * m : k \in 0..(n - 1)} |->
                          IF o \in DOMAIN P THEN P[o] ELSE t]

(* btreeInsert of a new key into the files.idx main tree: the first one   *)
(* creates the root node; later ones may split nodes.                      *)
InsertPages(s) == IF \A f \in Files : idx[f] = 0 THEN 1 ELSE s

-----------------------------------------------------------------------------
(* dbAddPackage(p): __writePackageEntry writes p's hashtable at the end of *)
(* packages.db, then __addPackageFiles handles p's files one by one.       *)

BeginPackage(p, fs, x) ==
    /\ cur = Idle
    /\ off[p] = 0
    /\ off' = [off EXCEPT ![p] = pkEof]
    /\ pkEof' = pkEof + TableMultiple * (1 + Cardinality(fs) + x)
    /\ owns' = [owns EXCEPT ![p] = fs]
    /\ cur' = [pkg |-> p, todo |-> fs]
    /\ UNCHANGED <<idx, pages, lists, fiEof>>

(* A file not in the index: btreeInsert(fileName, pkgOffset, 0).           *)
AddNewFile(f, s) ==
    LET n == InsertPages(s)
    IN /\ f \in cur.todo
       /\ idx[f] = 0
       /\ idx' = [idx EXCEPT ![f] = off[cur.pkg]]
       /\ pages' = Grow(pages, fiEof, n, NodeMultiple, "node")
       /\ fiEof' = fiEof + n * NodeMultiple
       /\ cur' = [cur EXCEPT !.todo = @ \ {f}]
       /\ UNCHANGED <<lists, pkEof, off, owns>>

(* The type at the file's offset is GDB_BLOCK_OFFSET_LIST: olOpen,        *)
(* olAddOffset(pkgOffset), gdbWriteBlock, gdbDestroyBlock.  The list has  *)
(* at most three offsets here, which fit its one page.                     *)
AddToList(f) ==
    LET lo == idx[f]
    IN /\ f \in cur.todo
       /\ lo # 0
       /\ TypeAt(lo) = "list"
       /\ lists' = [lists EXCEPT ![lo] = OLAdd(@, off[cur.pkg])]
       /\ cur' = [cur EXCEPT !.todo = @ \ {f}]
       /\ UNCHANGED <<idx, pages, fiEof, pkEof, off, owns>>

ConvertToList_dropOld(f) ==
    LET lo == idx[f]
    IN /\ f \in cur.todo
       /\ lo # 0
       /\ TypeAt(lo) # "list"
       /\ lists' = lists @@ (fiEof :> OLAdd(OLCreate, off[cur.pkg]))
       /\ pages' = Grow(pages, fiEof, 1, ListMultiple, "list")
       /\ fiEof' = fiEof + ListMultiple
       /\ idx' = [idx EXCEPT ![f] = fiEof]
       /\ cur' = [cur EXCEPT !.todo = @ \ {f}]
       /\ UNCHANGED <<pkEof, off, owns>>

ConvertToList_eofAfter(f) ==
    LET lo == idx[f]
    IN /\ f \in cur.todo
       /\ lo # 0
       /\ TypeAt(lo) # "list"
       /\ lists' = lists @@ (fiEof :> OLAdd(OLAdd(OLCreate, lo), off[cur.pkg]))
       /\ pages' = Grow(pages, fiEof, 1, ListMultiple, "list")
       /\ fiEof' = fiEof + ListMultiple
       /\ idx' = [idx EXCEPT ![f] = fiEof + ListMultiple]
       /\ cur' = [cur EXCEPT !.todo = @ \ {f}]
       /\ UNCHANGED <<pkEof, off, owns>>

(* Any other type: the offset is taken for a package's.  olCreate, add    *)
(* that offset and pkgOffset, gdbWriteBlock (one page at the end of the   *)
(* file), then btreeInsert(fileName, list offset, 1) replaces the value.  *)
ConvertToList(f) ==
    LET lo == idx[f]
    IN /\ f \in cur.todo
       /\ lo # 0
       /\ TypeAt(lo) # "list"
       /\ lists' = lists @@ (fiEof :> OLAdd(OLAdd(OLCreate, lo), off[cur.pkg]))
       /\ pages' = Grow(pages, fiEof, 1, ListMultiple, "list")
       /\ fiEof' = fiEof + ListMultiple
       /\ idx' = [idx EXCEPT ![f] = fiEof]
       /\ cur' = [cur EXCEPT !.todo = @ \ {f}]
       /\ UNCHANGED <<pkEof, off, owns>>

(* The files are done; the names and groups indexes are other files.       *)
EndPackage ==
    /\ cur # Idle
    /\ cur.todo = {}
    /\ cur' = Idle
    /\ UNCHANGED <<idx, pages, lists, fiEof, pkEof, off, owns>>

(* One pass of __addPackageFiles' loop, for file f.                       *)
FileStepOf(f) ==
    \/ \E s \in SplitPages : AddNewFile(f, s)
    \/ AddToList(f)
    \/ ConvertToList(f)

FileStep == \E f \in Files : FileStepOf(f)

Init ==
    /\ idx = [f \in Files |-> 0]
    /\ pages = <<>>
    /\ lists = <<>>
    /\ fiEof = Base
    /\ pkEof = Base
    /\ off = [p \in Packages |-> 0]
    /\ owns = [p \in Packages |-> {}]
    /\ cur = Idle

Next ==
    \/ \E p \in Packages, fs \in SUBSET Files, x \in Extra : BeginPackage(p, fs, x)
    \/ FileStep
    \/ EndPackage

Spec == Init /\ [][Next]_vars


-----------------------------------------------------------------------------
(* dbFindByFile(f): the package offsets its matches yield.  Not found, or *)
(* a list with no offsets, is PM_FAILED; a list yields its offsets in     *)
(* order; anything else is read as one package offset.                     *)
Found(f) ==
    LET o == idx[f]
    IN IF o = 0 THEN {}
       ELSE IF TypeAt(o) = "list" THEN ListMatches(lists[o])
       ELSE {o}

Added == {p \in Packages : off[p] # 0 /\ p # cur.pkg}

FITypeOK ==
    /\ \A f \in Files : idx[f] \in {0} \cup DOMAIN lists \cup {off[p] : p \in Packages}
    /\ \A o \in DOMAIN pages : pages[o] \in {"node", "list"}
    /\ DOMAIN lists = {o \in DOMAIN pages : pages[o] = "list"}
    /\ off \in [Packages -> Nat]
    /\ cur.pkg \in Packages \cup {"none"}

(* dbFindByFile is the search for the packages that own a file; the     *)
(* matches it builds are read as packages by dbReadPackage.  After any   *)
(* sequence of dbAddPackage calls, dbFindByFile(f) yields exactly the    *)
(* entries of the packages listing f, whichever owned it first and       *)
(* however the index was converted.  It is stated between calls.         *)
Owners(f) == {off[p] : p \in {q \in Added : f \in owns[q]}}

FindByFileCorrect ==
    cur = Idle => \A f \in Files : Found(f) = Owners(f)

(* The conversion itself is right: as long as no package's entry in       *)
(* packages.db starts at the offset of an offset-list block of files.idx, *)
(* dbFindByFile(f) yields exactly the owners of f, through every insert,  *)
(* conversion to a list and append __addPackageFiles makes.               *)
FindByFileUnaliased ==
    cur = Idle /\ {off[p] : p \in Packages} \cap DOMAIN lists = {} =>
        \A f \in Files : Found(f) = Owners(f)

(* An offset list only ever holds offsets of package entries: the offset *)
(* __addPackageFiles converts into a list is a package's, never a list's. *)
ListsHoldPackages ==
    \A o \in DOMAIN lists : ToSet(lists[o]) \subseteq {off[p] : p \in Packages} \ {0}

=============================================================================
