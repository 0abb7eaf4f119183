---------------------------- MODULE PackageSession ----------------------------
(***************************************************************************)
(* The package database's six files and its open/create/close calls      *)
(* (gnupdate.c: dbOpen, dbCreate, dbClose with __loadDatabase and         *)
(* __createDatabase), around the calls of PackageDb.                      *)
(*                                                                         *)
(* dbOpen opens the six files one after the other with gdbOpen; dbCreate *)
(* creates them one after the other with gdbCreate, which truncates the  *)
(* file.  Either call stops at the first file it cannot get and closes   *)
(* the GDatabases it already has, by a list of gdbClose calls written out *)
(* by hand in each of its six failure branches.  dbAddPackage and         *)
(* dbRemovePackage run on an open database only.  Each call is one step:  *)
(* the process is single-threaded and nothing else touches the files.    *)
(*                                                                         *)
(* A file is abstracted to whether it exists and to the part of PackageDb *)
(* it stores; a truncated file is the empty state PdInit gives that part. *)
(* Why a gdbOpen or gdbCreate fails (no such file, a foreign or older     *)
(* header, fopen refused) is not told apart: any file may fail to open or *)
(* to be created, a missing one always fails to open.                      *)
(***************************************************************************)
EXTENDS PackageDb

(* The files in the order both calls take them (DbData, gnupdate.h).      *)
DbFiles == <<"packages.db", "names.idx", "files.idx",
             "groups.idx", "reqdeps.idx", "provdeps.idx">>
NFiles == Len(DbFiles)

VARIABLES
    session,  \* "open" once dbOpen or dbCreate returned PM_SUCCESS, until dbClose
    handles,  \* the files the process holds a GDatabase of
    fexists,  \* the files that exist under GNUPDATE_DB_PATH
    torn      \* the last dbCreate that truncated packages.db did not create all six

sessVars == <<session, handles, fexists, torn>>
sysVars  == <<allVars, sessVars>>

(* The files taken before failure branch k (1..NFiles) is reached; k =    *)
(* NFiles + 1 is success.                                                  *)
Taken(k) == {DbFiles[i] : i \in 1..(k - 1)}

(* __loadDatabase(name): stat the file (missing: NULL, nothing created),  *)
(* then gdbOpen, which may still fail on the header or the fopen.        *)
LoadDatabase(i) == DbFiles[i] \in fexists

CreateFailCloses_dropReqDeps ==
    <<{}, {1}, {1, 2}, {1, 2, 3}, {1, 2, 3, 4}, {1, 2, 3, 4}>>

(* The gdbClose calls of dbOpen's failure branch for file k, by index.    *)
OpenFailCloses ==
    <<{}, {1}, {1, 2}, {1, 2, 3}, {1, 2, 3, 4}, {1, 2, 3, 4, 5}>>

(* The gdbClose calls of dbCreate's failure branch for file k, by index.  *)
CreateFailCloses ==
    <<{}, {1}, {1, 2}, {1, 2, 3}, {1, 2, 3, 4}, {1, 2, 3, 4, 5}>>

(* The handles after failure branch k ran the closes in cl.               *)
AfterFailure(k, cl) == handles \cup (Taken(k) \ {DbFiles[i] : i \in cl[k]})

(* __createDatabase of files 1..k-1: gdbCreate truncates each, leaving    *)
(* the empty part of PackageDb it stores.                                  *)
Truncated(k) ==
    LET gone(name) == name \in Taken(k)
    IN /\ off'      = IF gone("packages.db") THEN [p \in Packages |-> 0] ELSE off
       /\ owns'     = IF gone("packages.db") THEN [p \in Packages |-> {}] ELSE owns
       /\ pkEof'    = IF gone("packages.db") THEN Base ELSE pkEof
       /\ tbl'      = IF gone("packages.db") THEN NoTables ELSE tbl
       /\ head'     = IF gone("packages.db") THEN [p \in Packages |-> NoHead] ELSE head
       /\ names'    = IF gone("names.idx") THEN NoTree ELSE names
       /\ idx'      = IF gone("files.idx") THEN [f \in Files |-> 0] ELSE idx
       /\ pages'    = IF gone("files.idx") THEN <<>> ELSE pages
       /\ lists'    = IF gone("files.idx") THEN <<>> ELSE lists
       /\ fiEof'    = IF gone("files.idx") THEN Base ELSE fiEof
       /\ groups'   = IF gone("groups.idx") THEN [g \in Groups |-> NoTree] ELSE groups
       /\ reqDeps'  = IF gone("reqdeps.idx") THEN [d \in Deps |-> NoTree] ELSE reqDeps
       /\ provDeps' = IF gone("provdeps.idx") THEN [d \in Deps |-> NoTree] ELSE provDeps
       /\ cur'      = cur
       /\ loop'     = loop
       /\ removed'  = IF gone("packages.db") THEN {} ELSE removed
       /\ cut'      = IF gone("packages.db") THEN [n \in Names |-> 0] ELSE cut

-----------------------------------------------------------------------------
(* dbOpen: a missing GNUPDATE_DB_PATH fails before any file (branch 1);   *)
(* files 1..k-1 load and file k does not, or all six load.                 *)
DbOpen ==
    /\ session = "closed"
    /\ \E k \in 1..(NFiles + 1) :
          /\ \A i \in 1..(k - 1) : LoadDatabase(i)
          /\ IF k = NFiles + 1
                THEN session' = "open" /\ handles' = handles \cup Taken(k)
                ELSE session' = "closed" /\ handles' = AfterFailure(k, OpenFailCloses)
    /\ UNCHANGED <<allVars, fexists, torn>>

(* dbCreate: mkdir the directory if missing; files 1..k-1 are created     *)
(* (and so exist, truncated) and the gdbCreate of file k fails, or all    *)
(* six are created.                                                        *)
DbCreate ==
    /\ session = "closed"
    /\ \E k \in 1..(NFiles + 1) :
          /\ Truncated(k)
          /\ fexists' = fexists \cup Taken(k)
          /\ torn' = IF k = 1 THEN torn ELSE k # NFiles + 1
          /\ IF k = NFiles + 1
                THEN session' = "open" /\ handles' = handles \cup Taken(k)
                ELSE session' = "closed" /\ handles' = AfterFailure(k, CreateFailCloses)

(* dbClose: gdbClose of the six files; only between package calls.         *)
DbClose ==
    /\ session = "open"
    /\ cur = Idle
    /\ session' = "closed"
    /\ handles' = handles \ Taken(NFiles + 1)
    /\ UNCHANGED <<allVars, fexists, torn>>

(* A call of PackageDb on the open database.                               *)
PackageCall ==
    /\ session = "open"
    /\ PdNext
    /\ UNCHANGED sessVars

SessInit ==
    /\ PdInit
    /\ session = "closed"
    /\ handles = {}
    /\ fexists \in {{}, Taken(NFiles + 1)}
    /\ torn = FALSE

SessNext == DbOpen \/ DbCreate \/ DbClose \/ PackageCall

SessSpec == SessInit /\ [][SessNext]_sysVars

-----------------------------------------------------------------------------
(* Whichever file dbOpen or dbCreate fails at, and however often they    *)
(* fail, succeed and are closed, the process holds a GDatabase of all six *)
(* files while the database is open and of none while it is closed: each  *)
(* of the twelve hand-written failure branches closes exactly the files   *)
(* its call had opened before, and dbClose closes them all.                *)
HandlesMatchSession ==
    handles = IF session = "open" THEN Taken(NFiles + 1) ELSE {}

(* The properties of FilesIndex and PackageDb, on a database whose six    *)
(* files were created together: a dbCreate that truncated packages.db and *)
(* then failed on an index leaves that index naming entries that are gone. *)
WholeDbNameIndex == ~torn => NameIndexKeepsFirst

WholeDbFITypeOK == ~torn => FITypeOK

WholeDbFindByFile == ~torn => FindByFileUnaliased

WholeDbListsHoldPackages == ~torn => ListsHoldPackages

====
