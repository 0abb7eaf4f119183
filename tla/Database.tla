------------------------------ MODULE Database ------------------------------
(***************************************************************************)
(* The database container (db.c, db_header.c): one file holding the      *)
(* 16-byte file header, the free-list region and the main tree's header,  *)
(* followed by the pages of BlockStore.  gdbCreate writes a fresh file,   *)
(* gdbOpen checks the header of an existing one (or creates a missing one *)
(* when opened read-write), gdbClose ends the session.  Between an open   *)
(* and a close the block calls of BlockStore run: all of them read-write, *)
(* only reads and destroys read-only.                                     *)
(*                                                                         *)
(* Before the program runs, the file may be missing or hold anything: a   *)
(* database of the other kind, an older version, a short file, a foreign  *)
(* one.  The program opens it as one GdbType, DbType.                     *)
(***************************************************************************)
EXTENDS BlockStore

CONSTANTS
    DbType,          \* the GdbType the program opens the file as
    ForeignHeaders,  \* the first bytes of files the program finds on disk
    MaxCrashes       \* bound: how often the process may stop in a write

(* GdbType (db.h) and the constants of db_header.h and db_blocklist.h.     *)
GDB_INDEX_FILE == 0
GDB_DATA_FILE  == 1
DB_HEADER_DATA_SIZE     == 11
DB_HEADER_BLOCK_SIZE    == 16
DB_FREE_BLOCK_LIST_SIZE == 2048
DB_MAIN_TREE_OFFSET     == DB_HEADER_BLOCK_SIZE + DB_FREE_BLOCK_LIST_SIZE
DB_MAGIC     == <<1, 71, 68, 66, 68, 66, 70, 2>>   \* "\1GDBDBF\2"
DB_MAJOR_VER == 0
DB_MINOR_VER == 2

ASSUME DbType \in {GDB_INDEX_FILE, GDB_DATA_FILE}
ASSUME "header" \in Types /\ Base = DB_MAIN_TREE_OFFSET + Multiple["header"]

VARIABLES
    exists,  \* the file is there
    fhdr,    \* its first bytes: the file header
    conn,    \* the GDatabase of the process: "closed", "read" or "rw"
    crashes  \* how often the process has stopped

dbVars == <<exists, fhdr, conn, crashes>>
allVars == <<vars, dbVars>>

Absent == <<>>

(* gdbWriteHeader: fputs(DB_MAGIC), the two version bytes, the type byte, *)
(* zeros up to DB_HEADER_BLOCK_SIZE.                                       *)
WriteHeader(t) ==
    DB_MAGIC \o <<DB_MAJOR_VER, DB_MINOR_VER, t>>
    \o [i \in 1..(DB_HEADER_BLOCK_SIZE - DB_HEADER_DATA_SIZE) |-> 0]

ReadHeader_noVersion(h) ==
    /\ Len(h) >= DB_HEADER_DATA_SIZE
    /\ SubSeq(h, 1, 8) = DB_MAGIC
    /\ h[11] \in {GDB_INDEX_FILE, GDB_DATA_FILE}

(* gdbReadHeader: the fread of DB_HEADER_DATA_SIZE bytes succeeds, the    *)
(* magic string (strncmp over its 8 bytes, none of them NUL), the version *)
(* and the type are the ones gdbWriteHeader writes.                        *)
ReadHeader(h) ==
    /\ Len(h) >= DB_HEADER_DATA_SIZE
    /\ SubSeq(h, 1, 8) = DB_MAGIC
    /\ h[9] = DB_MAJOR_VER /\ h[10] = DB_MINOR_VER
    /\ h[11] \in {GDB_INDEX_FILE, GDB_DATA_FILE}

NoBlockOpen == \A b \in Blocks : blk[b].state \in {"none", "closed"}

(* gdbCreate: fopen "w+" truncates the file; the header, 2048 zero bytes  *)
(* of free-list region (count 0), then btreeCreate: the main tree's       *)
(* header block takes the first page at the end, DB_MAIN_TREE_OFFSET, so  *)
(* the file ends at Base.  Every block of the old file is gone.           *)
Created ==
    /\ exists' = TRUE
    /\ fhdr' = WriteHeader(DbType)
    /\ region' = EncodeList(<<>>)
    /\ disk' = <<>>
    /\ eof' = Base
    /\ blk' = [b \in Blocks |-> NoBlock]
    /\ issued' = {}
    /\ pending' = NoPending
    /\ conn' = "rw"
    /\ crashes' = crashes

(* gdbCreate called directly (dbCreate, through __createDatabase).        *)
Create ==
    /\ conn = "closed"
    /\ Created

(* gdbOpen(filename, DbType, m): fopen "r+" or "r"; a missing file is     *)
(* created when the mode is read-write and is NULL otherwise; an existing *)
(* one is a database only if gdbReadHeader accepts it and its type is     *)
(* DbType, else the file is closed and NULL returned.  btreeOpen of the   *)
(* main tree only reads its header block.  A NULL return changes nothing. *)
Open(m) ==
    /\ conn = "closed"
    /\ \/ /\ ~exists /\ m = "rw"
          /\ Created
       \/ /\ ~exists /\ m = "read"
          /\ UNCHANGED <<vars, exists, fhdr, conn, crashes>>
       \/ /\ exists
          /\ conn' = IF ReadHeader(fhdr) /\ fhdr[11] = DbType THEN m ELSE "closed"
          /\ UNCHANGED <<vars, exists, fhdr, crashes>>

(* gdbClose: fclose, btreeClose of the main tree, the GDatabase freed.     *)
(* The callers destroy every block they opened before they close.         *)
Close ==
    /\ conn # "closed"
    /\ NoBlockOpen
    /\ conn' = "closed"
    /\ UNCHANGED <<vars, exists, fhdr, crashes>>

(* The process stops (killed, a fatal pmError, a power cut after the     *)
(* writes reached the file) while it has the database open: what is in   *)
(* memory is lost and the file keeps every write made so far, the pages  *)
(* a reservation took from the end of the file included only once they   *)
(* are written.  A block it had written is found again on disk by its    *)
(* first page; one erased, or never written, is gone.  The next gdbOpen  *)
(* reads this file.                                                      *)
Crash ==
    /\ pending.kind # "none"
    /\ crashes < MaxCrashes
    /\ blk' = [b \in Blocks |-> IF OnDisk(b) = <<>> THEN NoBlock
                                ELSE [blk[b] EXCEPT !.chain = OnDisk(b), !.state = "closed",
                                                    !.size = disk[OnDisk(b)[1]].size]]
    /\ eof' = IF pending.kind = "pages" THEN pending.eof0 ELSE eof
    /\ issued' = issued \ pending.fresh
    /\ pending' = NoPending
    /\ conn' = "closed"
    /\ crashes' = crashes + 1
    /\ UNCHANGED <<region, disk, exists, fhdr>>

(* The calls of BlockStore on an open database; a read-only one only     *)
(* reads blocks and destroys the structures it read.                      *)
BlockCall ==
    /\ \/ conn = "rw" /\ Next
       \/ conn = "read" /\ \E b \in Blocks : ReadBlock(b) \/ DestroyBlock(b)
    /\ UNCHANGED dbVars

DbInit ==
    /\ Init
    /\ exists \in BOOLEAN
    /\ fhdr \in IF exists THEN ForeignHeaders ELSE {Absent}
    /\ conn = "closed"
    /\ crashes = 0

DbNext ==
    \/ Create
    \/ \E m \in {"read", "rw"} : Open(m)
    \/ Close
    \/ Crash
    \/ BlockCall

DbSpec == DbInit /\ [][DbNext]_allVars

DbView == <<ListView, dbVars>>

-----------------------------------------------------------------------------
(* spec.md 3 (container): opening with a mismatched magic, version or     *)
(* kind is a hard open failure.  Whatever file is on disk and however     *)
(* often it has been created, closed and reopened, a step that gives the  *)
(* process a database without writing a new file header (gdbOpen of an    *)
(* existing file) found the 11 header bytes gdbWriteHeader writes for     *)
(* DbType: no other kind, version or foreign file is ever used as one.     *)
OurHeader(h) ==
    /\ Len(h) >= DB_HEADER_DATA_SIZE
    /\ SubSeq(h, 1, DB_HEADER_DATA_SIZE) = SubSeq(WriteHeader(DbType), 1, DB_HEADER_DATA_SIZE)

OpenChecksHeader ==
    [][conn = "closed" /\ conn' # "closed" /\ exists' = exists /\ fhdr' = fhdr
         => exists /\ OurHeader(fhdr)]_allVars

=============================================================================
