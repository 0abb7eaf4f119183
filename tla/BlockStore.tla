----------------------------- MODULE BlockStore -----------------------------
(***************************************************************************)
(* Page chains of the block store (db_blocks.c) and the free-block list    *)
(* they are allocated from (gdbReserveBlockChain, gdbFreeBlockChain and    *)
(* the list's encoding in db_blocklist.c).                                 *)
(*                                                                         *)
(* A block of type t is a chain of pages of Multiple[t] bytes: the first   *)
(* page starts with the 15-byte block header (dataSize, next), each        *)
(* overflow page with the 4-byte offset of the next.  Offsets are real     *)
(* byte offsets in the file.  A block is written, read back, erased        *)
(* (btreeEraseNode, gdbFreeBlock) and destroyed by one holder at a time;   *)
(* the payload bytes are left out: a page records only what the chain      *)
(* walk reads from it.                                                     *)
(***************************************************************************)
EXTENDS Integers, Sequences, SequencesExt, FiniteSets, TLC

CONSTANTS
    Blocks,     \* the blocks the program may have
    Types,      \* block types
    Multiple,   \* Multiple[t]: the page size of type t (blockTypeInfo)
    DataSizes,  \* DataSizes[t]: payload sizes the type's write hook produces
    Base,       \* the end of the file once created (main tree header included)
    MaxEof      \* bound: the file may grow to this offset

HeaderSize  == 15   \* GDB_BLOCK_HEADER_SIZE
OffsetBytes == 4    \* sizeof(offset_t) on the build the file format is for

VARIABLES
    blk,     \* blk[b]: [type, chain, size, state]; state "none", "open",
             \* "erased" (open, its page freed) or "closed" (only on disk)
    region,  \* the bytes gdbWriteFreeBlockList has written at the start
             \* of the free-list region, over what was there before
    eof,     \* the offset fseek(SEEK_END) gives
    disk,    \* disk[o]: what the page at o holds of its chain: [kind, next, size]
    issued,  \* ghost: every page offset a reservation has taken from the end
    pending  \* the part of a gdbWriteBlock call still to run

vars == <<blk, region, eof, disk, issued, pending>>

(* The free-list region (db_blocklist.c) at DB_FREE_BLOCK_LIST_OFFSET:    *)
(* gdbPut32(count), then per entry gdbPut16(size), gdbPut32(offset), all   *)
(* big-endian; gdbWriteFreeBlockList writes 4 + 6 * count bytes and leaves *)
(* the rest of the region as it was.  sizeof(long) is 4 on the build the  *)
(* format is for.                                                          *)
BE16(v) == <<(v \div 256) % 256, v % 256>>
BE32(v) == BE16(v \div 65536) \o BE16(v % 65536)
Get16(r, o) == r[o + 1] * 256 + r[o + 2]
Get32(r, o) == Get16(r, o) * 65536 + Get16(r, o + 2)

EncodeList(L) ==
    BE32(Len(L)) \o FlattenSeq([i \in 1..Len(L) |-> BE16(L[i].size) \o BE32(L[i].off)])

(* gdbGetFreeBlockList: the count, then count entries of 6 bytes.          *)
DecodeList(r) ==
    [i \in 1..Get32(r, 0) |-> [size |-> Get16(r, 4 + 6 * (i - 1)),
                                off  |-> Get32(r, 6 + 6 * (i - 1))]]

(* fwrite of the encoded list at the start of the region.                   *)
WriteFreeBlockList(r, L) ==
    LET bs == EncodeList(L)
    IN bs \o SubSeq(r, Len(bs) + 1, Len(r))

(* What every call that looks at the free list reads from the region.       *)
list == DecodeList(region)

NoBlock == [type |-> CHOOSE t \in Types : TRUE, chain |-> <<>>, size |-> 0, state |-> "none"]

(* gdbGetNeededBlockCount: the first page holds multiple - 15 bytes, each *)
(* overflow page multiple - sizeof(offset_t); the loop counts pages.       *)
Needed_offByOne(d, m) ==
    IF d = 0 THEN 0
    ELSE IF d + HeaderSize = m THEN 1
    ELSE 1 + Cardinality({k \in 0..(d + HeaderSize) :
                            m + k * (m - OffsetBytes) <= d + HeaderSize})

Needed(d, m) ==
    IF d = 0 THEN 0
    ELSE IF d + HeaderSize = m THEN 1
    ELSE 1 + Cardinality({k \in 0..(d + HeaderSize) :
                            m + k * (m - OffsetBytes) < d + HeaderSize})

(* __blockCompare: by size, then by offset.                                *)
BlockLess(a, b) == a.size < b.size \/ (a.size = b.size /\ a.off < b.off)

ReserveChain_keepList(count, t, L, e) ==
    LET m    == Multiple[t]
        fits == {i \in 1..Len(L) : L[i].size = m}
        take == {i \in fits : Cardinality({j \in fits : j < i}) < count}
        idx  == SelectSeq([i \in 1..Len(L) |-> i], LAMBDA i : i \in take)
        new  == [k \in 1..(count - Len(idx)) |-> e + (k - 1) * m]
    IN [chain |-> IF L = <<>> THEN new
                  ELSE SortSeq([k \in 1..Len(idx) |-> L[idx[k]].off] \o new, <),
        list  |-> L,
        wrote |-> take # {},
        eof   |-> e + Len(new) * m,
        fresh |-> ToSet(new)]

(* gdbReserveBlockChain(db, count, type): an empty list extends the file; *)
(* otherwise the first count entries of the type's size are taken in list *)
(* order, the rest are kept (the list is rewritten, wrote, only when      *)
(* something was taken), the file is extended for what is missing, and    *)
(* the chain sorted.                                                       *)
ReserveChain(count, t, L, e) ==
    LET m    == Multiple[t]
        fits == {i \in 1..Len(L) : L[i].size = m}
        take == {i \in fits : Cardinality({j \in fits : j < i}) < count}
        idx  == SelectSeq([i \in 1..Len(L) |-> i], LAMBDA i : i \in take)
        rest == SelectSeq([i \in 1..Len(L) |-> i], LAMBDA i : i \notin take)
        new  == [k \in 1..(count - Len(idx)) |-> e + (k - 1) * m]
    IN [chain |-> IF L = <<>> THEN new
                  ELSE SortSeq([k \in 1..Len(idx) |-> L[idx[k]].off] \o new, <),
        list  |-> [k \in 1..Len(rest) |-> L[rest[k]]],
        wrote |-> take # {},
        eof   |-> e + Len(new) * m,
        fresh |-> ToSet(new)]

FreeChain_unsized(ch, t, L) ==
    LET add == [k \in 1..Len(ch) |-> [size |-> 0, off |-> ch[k]]]
    IN IF L = <<>> THEN add ELSE SortSeq(L \o add, BlockLess)

(* gdbFreeBlockChain: the pages tagged with the type's size; into an      *)
(* empty list as given, else appended and the whole list sorted.           *)
FreeChain(ch, t, L) ==
    LET add == [k \in 1..Len(ch) |-> [size |-> Multiple[t], off |-> ch[k]]]
    IN IF L = <<>> THEN add ELSE SortSeq(L \o add, BlockLess)

WritePages_keepLastNext(D, ch, d) ==
    LET pos(o) == CHOOSE i \in 1..Len(ch) : ch[i] = o
        nxt(o) == IF pos(o) < Len(ch) THEN ch[pos(o) + 1]
                  ELSE IF o \in DOMAIN D THEN D[o].next ELSE 0
    IN [o \in DOMAIN D \cup ToSet(ch) |->
          IF o \notin ToSet(ch) THEN D[o]
          ELSE [kind |-> IF pos(o) = 1 THEN "head" ELSE "over",
                next |-> nxt(o), size |-> IF pos(o) = 1 THEN d ELSE 0]]

(* The writes of gdbWriteBlock: the header of the first page (next =      *)
(* chain[1] or 0, dataSize), then each overflow page with the offset of   *)
(* the one after it, 0 for the last.                                       *)
WritePages(D, ch, d) ==
    LET pos(o) == CHOOSE i \in 1..Len(ch) : ch[i] = o
        nxt(o) == IF pos(o) < Len(ch) THEN ch[pos(o) + 1] ELSE 0
    IN [o \in DOMAIN D \cup ToSet(ch) |->
          IF o \notin ToSet(ch) THEN D[o]
          ELSE [kind |-> IF pos(o) = 1 THEN "head" ELSE "over",
                next |-> nxt(o), size |-> IF pos(o) = 1 THEN d ELSE 0]]

(* gdbReadBlock's walk from the header at o: chainCount from dataSize,    *)
(* chain[1] = next, then every overflow page's next until 0.  Only the    *)
(* first chainCount offsets are kept; every page walked is read into the  *)
(* buffer (overrun when more pages are walked than chainCount).  A page   *)
(* naming itself aborts; a longer cycle never ends (walk bounded here).   *)
RECURSIVE Walk(_, _, _)
Walk(D, p, fuel) ==
    IF p = 0 \/ fuel = 0 THEN <<>>
    ELSE IF p \notin DOMAIN D \/ D[p].next = p THEN <<p, -1>>
    ELSE <<p>> \o Walk(D, D[p].next, fuel - 1)

ReadChain(D, o, t) ==
    LET n  == Needed(D[o].size, Multiple[t])
        w  == Walk(D, o, Cardinality(DOMAIN D) + 1)
    IN [chain   |-> SubSeq(w, 1, IF n < Len(w) THEN n ELSE Len(w)),
        overrun |-> Len(w) > n]

-----------------------------------------------------------------------------
(* The calls, each by the one holder of block b.                           *)

(* gdbNewBlock (btreeNewNode, btreeCreate): dirty, offset 0, no chain.     *)
NewBlock(b, t) ==
    /\ pending.kind = "none"
    /\ blk[b].state = "none"
    /\ blk' = [blk EXCEPT ![b] = [type |-> t, chain |-> <<>>, size |-> 0, state |-> "open"]]
    /\ UNCHANGED <<region, eof, disk, issued, pending>>

(* gdbWriteBlock is two runs of fwrite with a point between them where   *)
(* the process may stop: a chain that grows first has its pages reserved  *)
(* (the free list rewritten, the file not yet extended) and then writes  *)
(* every page; a chain that shrinks first writes its pages and then puts *)
(* the pages it dropped on the list.  pending is the rest of the call.    *)
NoPending == [kind |-> "none", b |-> "none", old |-> <<>>,
              pages |-> <<>>, eof0 |-> 0, fresh |-> {}]

(* Lines 418-452: the reservation is written, the pages are still to do. *)
GrowBegin(b, old, res) ==
    /\ region' = IF res.wrote THEN WriteFreeBlockList(region, res.list) ELSE region
    /\ disk' = disk
    /\ pending' = [NoPending EXCEPT !.kind = "pages", !.b = b, !.old = old,
                                    !.eof0 = eof, !.fresh = res.fresh]

ShrinkBegin_freeFirst(b, old, n, d) ==
    /\ region' = WriteFreeBlockList(region,
                     FreeChain(SubSeq(old, n + 1, Len(old)), blk[b].type, list))
    /\ disk' = disk
    /\ pending' = [NoPending EXCEPT !.kind = "pages", !.b = b, !.old = old, !.eof0 = eof]

(* Lines 455-520: every page of the kept prefix is rewritten, the last   *)
(* with next 0; the dropped pages are still to be freed (lines 522-532). *)
ShrinkBegin(b, old, n, d) ==
    /\ region' = region
    /\ disk' = WritePages(disk, SubSeq(old, 1, n), d)
    /\ pending' = [NoPending EXCEPT !.kind = "free", !.b = b, !.old = old,
                                    !.pages = SubSeq(old, n + 1, Len(old))]

(* The payload changes (GDB_SET_DIRTY) and gdbWriteBlock runs: the write  *)
(* hook gives the new dataSize d; a block never written reserves its      *)
(* whole chain, a longer one reserves the difference and appends it, a    *)
(* shorter one keeps its first pages.  block->chain is set at once; the   *)
(* disk changes in the two runs above, one of the same length is written *)
(* in one.                                                                 *)
WriteBlock(b, d) ==
    LET r   == blk[b]
        old == r.chain
        n   == Needed(d, Multiple[r.type])
        g   == ReserveChain(IF old = <<>> THEN n ELSE n - Len(old), r.type, list, eof)
        res == IF old = <<>> THEN g
               ELSE IF n > Len(old) THEN [g EXCEPT !.chain = old \o @]
               ELSE [chain |-> SubSeq(old, 1, n), list |-> list, wrote |-> FALSE,
                     eof |-> eof, fresh |-> {}]
    IN /\ pending.kind = "none"
       /\ r.state = "open"
       /\ d \in DataSizes[r.type]
       /\ res.eof <= MaxEof
       /\ blk' = [blk EXCEPT ![b].chain = res.chain, ![b].size = d]
       /\ eof' = res.eof
       /\ issued' = issued \cup res.fresh
       /\ IF n > Len(old) THEN GrowBegin(b, old, res)
          ELSE IF n < Len(old) THEN ShrinkBegin(b, old, n, d)
          ELSE /\ disk' = WritePages(disk, res.chain, d)
               /\ UNCHANGED <<region, pending>>

(* The rest of gdbWriteBlock: the pages of a grown chain, or the dropped *)
(* pages of a shrunk one on the list (gdbFreeBlockChain), then fflush.    *)
FinishWrite ==
    LET b == pending.b
    IN /\ pending.kind # "none"
       /\ IF pending.kind = "pages"
          THEN /\ disk' = WritePages(disk, blk[b].chain, blk[b].size)
               /\ region' = region
          ELSE /\ region' = WriteFreeBlockList(region, FreeChain(pending.pages, blk[b].type, list))
               /\ disk' = disk
       /\ pending' = NoPending
       /\ UNCHANGED <<blk, eof, issued>>

(* gdbReadBlock of a block that is not open: the chain walked from disk.  *)
ReadBlock(b) ==
    /\ pending.kind = "none"
    /\ blk[b].state = "closed"
    /\ blk' = [blk EXCEPT ![b].chain = ReadChain(disk, blk[b].chain[1], blk[b].type).chain,
                          ![b].state = "open"]
    /\ UNCHANGED <<region, eof, disk, issued, pending>>

(* btreeEraseNode: nothing for a block never written; else gdbFreeBlock   *)
(* (gdbFreeBlockChain of the one offset) puts its first page on the list. *)
EraseBlock(b) ==
    /\ pending.kind = "none"
    /\ blk[b].state = "open"
    /\ blk[b].chain # <<>>
    /\ region' = WriteFreeBlockList(region, FreeChain(<<blk[b].chain[1]>>, blk[b].type, list))
    /\ blk' = [blk EXCEPT ![b].state = "erased"]
    /\ UNCHANGED <<eof, disk, issued, pending>>

(* gdbDestroyBlock: the structure goes; an erased or never written block  *)
(* is gone, a written one stays on disk.                                   *)
DestroyBlock(b) ==
    /\ pending.kind = "none"
    /\ blk[b].state \in {"open", "erased"}
    /\ blk' = [blk EXCEPT ![b] = IF @.state = "open" /\ @.chain # <<>>
                                 THEN [@ EXCEPT !.state = "closed"] ELSE NoBlock]
    /\ UNCHANGED <<region, eof, disk, issued, pending>>

Init ==
    /\ blk = [b \in Blocks |-> NoBlock]
    /\ region = EncodeList(<<>>)
    /\ eof = Base
    /\ disk = <<>>
    /\ issued = {}
    /\ pending = NoPending

Next ==
    \E b \in Blocks :
        \/ \E t \in Types : NewBlock(b, t)
        \/ \E d \in UNION {DataSizes[t] : t \in Types} : WriteBlock(b, d)
        \/ ReadBlock(b)
        \/ EraseBlock(b)
        \/ DestroyBlock(b)
    \/ FinishWrite

Spec == Init /\ [][Next]_vars


-----------------------------------------------------------------------------
(* Properties.                                                             *)

(* The chain that is on disk for block b at this instant, the one a      *)
(* process that stops now finds when it reads b again: none for a block  *)
(* never written or erased, the old chain while a grown chain's pages    *)
(* are still to be written, else the chain the block holds.              *)
OnDisk(b) ==
    IF blk[b].state \notin {"open", "closed"} THEN <<>>
    ELSE IF pending.kind = "pages" /\ pending.b = b THEN pending.old
    ELSE blk[b].chain

DiskPages(b) ==
    IF OnDisk(b) = <<>> THEN {}
    ELSE ToSet(Walk(disk, OnDisk(b)[1], Cardinality(DOMAIN disk) + 1))

(* No call reads the region past the 4 + 6 * count bytes of the list it   *)
(* decodes, nor a page that is in no block's chain (a write overwrites    *)
(* every page of its chain before any is read), so two states that differ *)
(* only in stale bytes behave alike; TLC tells states apart by the list   *)
(* they hold and the pages of the chains.                                 *)
LivePages == UNION {DiskPages(b) \cup ToSet(blk[b].chain) : b \in Blocks} \cap DOMAIN disk

ListView == <<blk, list, eof, [o \in LivePages |-> disk[o]], issued, pending>>

Held(b) == IF blk[b].state \in {"open", "closed"} THEN ToSet(blk[b].chain) ELSE {}
FreeOffs == {list[i].off : i \in 1..Len(list)}

BSTypeOK ==
    /\ \A b \in Blocks : blk[b].state \in {"none", "open", "erased", "closed"}
    /\ \A i \in 1..Len(list) : list[i].size \in {Multiple[t] : t \in Types}
                               /\ list[i].off \in issued
    /\ eof \in Base..MaxEof

(* spec.md 4.2/4.3: a reserved page belongs to one block until it is      *)
(* freed.  No page is in the chains of two blocks, none of a block's      *)
(* pages is on the free list, and the list never names a page twice, over *)
(* any sequence of writes that grow and shrink chains, erases and reads.  *)
NoDoubleAllocation ==
    /\ \A b1, b2 \in Blocks : b1 # b2 => Held(b1) \cap Held(b2) = {}
    /\ \A b \in Blocks : Held(b) \cap FreeOffs = {}
    /\ \A i, j \in 1..Len(list) : i # j => list[i].off # list[j].off

(* spec.md 4.3 (read): gdbReadBlock rebuilds from disk the chain          *)
(* gdbWriteBlock wrote: walking the next pointers from the first page      *)
(* gives exactly the block's chain on disk, ends there, and never reads   *)
(* more pages into the buffer than dataSize needs; also in the middle of *)
(* a write, where a crash leaves the file for the next read.             *)
ChainReadBack ==
    \A b \in Blocks :
        OnDisk(b) # <<>> =>
            LET r == ReadChain(disk, OnDisk(b)[1], blk[b].type)
            IN r.chain = OnDisk(b) /\ ~r.overrun

(* A written block has exactly the pages its dataSize needs: the first    *)
(* holds multiple - 15 bytes and each overflow page multiple - 4, and one *)
(* page fewer would not hold it.                                           *)
Capacity(c, m) == IF c = 0 THEN 0 ELSE (m - HeaderSize) + (c - 1) * (m - OffsetBytes)

ChainFitsData ==
    \A b \in Blocks :
        blk[b].chain # <<>> =>
            LET c == Len(blk[b].chain)
                m == Multiple[blk[b].type]
            IN Capacity(c - 1, m) < blk[b].size /\ blk[b].size <= Capacity(c, m)

(* spec.md 4.5 (merge "deletes the consumed sibling node's physical      *)
(* storage"): every page ever reserved from the end of the file is held   *)
(* by a block or is on the free list; erasing a block gives back all of   *)
(* its pages.                                                              *)
NoPageLeaked ==
    \A o \in issued :
        o \in FreeOffs \/ \E b \in Blocks : blk[b].state # "none" /\ o \in ToSet(blk[b].chain)


(* A crash of the process at any point, also between the two runs of     *)
(* writes of gdbWriteBlock, leaves a file whose pages are allocated once: *)
(* no page reachable on disk from a block's first page is on the free     *)
(* list written to the region, and no page is reachable from two blocks.  *)
(* It needs the list rewritten after a shrunk chain's pages, and before  *)
(* a grown chain's.                                                      *)
DurableAllocation ==
    \A b \in Blocks :
        /\ DiskPages(b) \cap FreeOffs = {}
        /\ \A c \in Blocks \ {b} : DiskPages(b) \cap DiskPages(c) = {}

=============================================================================
