----------------------------- MODULE BlockCache -----------------------------
(***************************************************************************)
(* The open-block cache of the block store (db_cache.c) and the block     *)
(* lifecycle calls that go through it (db_blocks.c): gdbNewBlock,         *)
(* gdbReadBlock / gdbReadBlockHeader, gdbWriteBlock / gdbWriteBlockHeader, *)
(* gdbDestroyBlock, and gdbFreeBlock as btreeEraseNode calls it.          *)
(*                                                                         *)
(* Holders are the places that keep a block pointer across other calls:  *)
(* the levels of a B+Tree recursion, a traversal cursor.  Each holds at   *)
(* most one block.  Blocks are one page; their bytes are left out: the    *)
(* properties are about which in-memory instance stands for which page.   *)
(* The process is single-threaded; holders act one call at a time.        *)
(***************************************************************************)
EXTENDS Integers, FiniteSets, FiniteSetsExt, TLC

CONSTANTS
    Holders,   \* block pointers kept across calls
    NPages,    \* bound: pages the file may grow to
    MaxInst,   \* bound: GdbBlock structures alive at once
    MaxRef     \* bound: refCount a call may raise a block's count to

ASSUME NPages \in Nat \ {0} /\ MaxInst \in Nat \ {0} /\ MaxRef \in Nat

VARIABLES
    inst,      \* inst[i]: the GdbBlock structure i (malloc'd when used)
    cache,     \* the instances in db->openBlocks
    hold,      \* hold[h]: the instance holder h points to, 0 for none
    free,      \* pages on the free-block list
    eof        \* the page the next reservation takes when none is free

vars == <<inst, cache, hold, free, eof>>

Pages == 1..NPages
Ids   == 1..MaxInst

(* A GdbBlock: offset 0 until first written, refCount, inList, the dirty  *)
(* flag; life is "unused" before malloc and "freed" after free(block).    *)
Unused == [offset |-> 0, ref |-> 0, inList |-> FALSE, dirty |-> FALSE,
           life |-> "unused"]

(* Structures malloc may hand out: never used, or freed (malloc reuses    *)
(* freed memory; a pointer still held to one is a NoUseAfterFree error).  *)
Fresh == {i \in Ids : inst[i].life # "live"}

(* The cache as the block functions pass it: instances and open list.     *)
Now == [inst |-> inst, cache |-> cache]

(* The linear scan of gdbCacheGetBlock: the open block at offset off, 0   *)
(* for none (gdbCacheAddBlock never lists two blocks at one offset).      *)
Entry(C, off) ==
    IF \E e \in C.cache : C.inst[e].offset = off
    THEN CHOOSE e \in C.cache : C.inst[e].offset = off
    ELSE 0

CacheGetBlock_noBump(C, off) == [c |-> C, b |-> Entry(C, off)]

(* gdbCacheGetBlock: the open block at off, its refCount bumped.          *)
CacheGetBlock(C, off) ==
    LET e == Entry(C, off)
    IN [c |-> IF e = 0 THEN C ELSE [C EXCEPT !.inst[e].ref = @ + 1], b |-> e]

(* gdbCacheAddBlock: nothing for a listed block; when another block is    *)
(* open at the same offset, only that one's refCount is bumped (through   *)
(* gdbCacheGetBlock) and b stays out of the list; else list b, ref + 1.   *)
CacheAddBlock(C, b) ==
    LET g == CacheGetBlock(C, C.inst[b].offset)
    IN IF C.inst[b].inList THEN C
       ELSE IF g.b # 0 THEN g.c
       ELSE [C EXCEPT !.cache = @ \cup {b},
                      !.inst[b].ref = @ + 1,
                      !.inst[b].inList = TRUE]

CacheRemoveBlock_evictAlways(C, b) ==
    LET e == Entry(C, C.inst[b].offset)
    IN IF C.cache = {} \/ e = 0 THEN [c |-> C, n |-> 0]
       ELSE [c |-> [C EXCEPT !.inst[e].ref = @ - 1, !.cache = @ \ {e},
                             !.inst[b].inList = FALSE], n |-> 0]

CacheRemoveBlock_belowZero(C, b) ==
    LET e == Entry(C, C.inst[b].offset)
    IN IF C.cache = {} \/ e = 0 THEN [c |-> C, n |-> 0]
       ELSE IF C.inst[e].ref < 0
       THEN [c |-> [C EXCEPT !.inst[e].ref = @ - 1, !.cache = @ \ {e},
                             !.inst[b].inList = FALSE], n |-> 0]
       ELSE [c |-> [C EXCEPT !.inst[e].ref = @ - 1], n |-> C.inst[e].ref - 1]

(* gdbCacheRemoveBlock: with nothing open, or no open block at b's        *)
(* offset, return 0; else decrement that block's refCount and, at zero,   *)
(* unlist it (clearing inList of b, the block passed) and return 0, else  *)
(* return the count left.  Offset 0 aborts: callers never pass one.       *)
CacheRemoveBlock(C, b) ==
    LET e == Entry(C, C.inst[b].offset)
    IN IF C.cache = {} \/ e = 0 THEN [c |-> C, n |-> 0]
       ELSE IF C.inst[e].ref <= 1
       THEN [c |-> [C EXCEPT !.inst[e].ref = @ - 1, !.cache = @ \ {e},
                             !.inst[b].inList = FALSE], n |-> 0]
       ELSE [c |-> [C EXCEPT !.inst[e].ref = @ - 1], n |-> C.inst[e].ref - 1]

(* gdbReserveBlockChain(db, 1, type): lowest free page, else the end.     *)
ReservePage == IF free = {} THEN eof ELSE Min(free)

(* Bound: new blocks are made only while each can get a page of the      *)
(* NPages when it is written.                                             *)
RoomForNew ==
    Cardinality({i \in Ids : inst[i].life = "live" /\ inst[i].offset = 0})
        < Cardinality(free) + (NPages + 1 - eof)

(* Apply a cache result to the state; the refCount bound is here.         *)
SetCache(C) ==
    /\ \A i \in Ids : C.inst[i].ref <= MaxRef
    /\ inst' = C.inst
    /\ cache' = C.cache

-----------------------------------------------------------------------------
(* The block calls, each made by holder h.                                 *)

(* gdbReadBlock(db, p): an open block at p is returned with refCount + 1; *)
(* otherwise gdbReadBlockHeader builds a clean block from disk and lists  *)
(* it through gdbCacheAddBlock.                                            *)
ReadBlock(h, p) ==
    LET g == CacheGetBlock(Now, p)
        i == Min(Fresh)
        C == [Now EXCEPT !.inst[i] = [Unused EXCEPT !.offset = p,
                                                    !.life = "live"]]
    IN /\ hold[h] = 0
       /\ p \in 1..(eof - 1)
       /\ IF g.b # 0
          THEN SetCache(g.c) /\ hold' = [hold EXCEPT ![h] = g.b]
          ELSE /\ Fresh # {}
               /\ SetCache(CacheAddBlock(C, i))
               /\ hold' = [hold EXCEPT ![h] = i]
       /\ UNCHANGED <<free, eof>>

(* gdbNewBlock (btreeNewNode): a dirty block at offset 0, not listed.     *)
NewBlock(h) ==
    /\ hold[h] = 0
    /\ Fresh # {}
    /\ RoomForNew
    /\ inst' = [inst EXCEPT ![Min(Fresh)] = [Unused EXCEPT !.dirty = TRUE,
                                                           !.life = "live"]]
    /\ hold' = [hold EXCEPT ![h] = Min(Fresh)]
    /\ UNCHANGED <<cache, free, eof>>

(* A node accessor changes the block and sets it dirty (GDB_SET_DIRTY).   *)
Modify(h) ==
    /\ hold[h] # 0
    /\ ~inst[hold[h]].dirty
    /\ inst' = [inst EXCEPT ![hold[h]].dirty = TRUE]
    /\ UNCHANGED <<cache, hold, free, eof>>

(* gdbWriteBlock of a dirty block: a block never written reserves its     *)
(* page; gdbWriteBlockHeader then writes, clears dirty and, for a block   *)
(* not listed, calls gdbCacheAddBlock.                                   *)
WriteBlock(h) ==
    LET b == hold[h]
        p == IF inst[b].offset = 0 THEN ReservePage ELSE inst[b].offset
        C == [Now EXCEPT !.inst[b].offset = p, !.inst[b].dirty = FALSE]
    IN /\ b # 0
       /\ inst[b].dirty
       /\ p <= NPages
       /\ SetCache(CacheAddBlock(C, b))
       /\ free' = free \ {p}
       /\ eof' = IF p = eof THEN eof + 1 ELSE eof
       /\ UNCHANGED hold

(* btreeEraseNode -> gdbFreeBlock: a written block's page goes on the     *)
(* free list; the block itself stays open.  A page is erased once: the    *)
(* B+Tree erases a node only as it drops it from the tree.                *)
EraseBlock(h) ==
    LET b == hold[h]
    IN /\ b # 0
       /\ inst[b].offset # 0
       /\ inst[b].offset \notin free
       /\ free' = free \cup {inst[b].offset}
       /\ UNCHANGED <<inst, cache, hold, eof>>

(* gdbDestroyBlock: if gdbCacheRemoveBlock leaves references the block    *)
(* stays; otherwise free(block).  The holder drops its pointer either way. *)
(* The B+Tree writes a new block before it destroys it (offset # 0).      *)
DestroyBlock(h) ==
    LET b == hold[h]
        r == CacheRemoveBlock(Now, b)
    IN /\ b # 0
       /\ inst[b].offset # 0
       /\ IF r.n > 0 THEN SetCache(r.c)
          ELSE SetCache([r.c EXCEPT !.inst[b].life = "freed"])
       /\ hold' = [hold EXCEPT ![h] = 0]
       /\ UNCHANGED <<free, eof>>

Init ==
    /\ inst = [i \in Ids |-> Unused]
    /\ cache = {}
    /\ hold = [h \in Holders |-> 0]
    /\ free = {}
    /\ eof = 1

Next ==
    \E h \in Holders :
        \/ \E p \in Pages : ReadBlock(h, p)
        \/ NewBlock(h)
        \/ Modify(h)
        \/ WriteBlock(h)
        \/ EraseBlock(h)
        \/ DestroyBlock(h)

Spec == Init /\ [][Next]_vars

-----------------------------------------------------------------------------
(* Properties.                                                             *)

Holding(i) == {h \in Holders : hold[h] = i}

BCTypeOK ==
    /\ inst \in [Ids -> [offset : 0..NPages, ref : 0..MaxRef, inList : BOOLEAN,
                         dirty : BOOLEAN, life : {"unused", "live", "freed"}]]
    /\ cache \subseteq Ids
    /\ hold \in [Holders -> 0..MaxInst]
    /\ free \subseteq Pages
    /\ eof \in 1..(NPages + 1)

(* spec.md (block cache): it never evicts a block some caller still       *)
(* holds.  Every listed block's refCount is at least the number of        *)
(* holders pointing at it, so no gdbDestroyBlock of one holder can drive  *)
(* it to zero under another.                                               *)
RefCountCoversHolders ==
    \A e \in cache : inst[e].ref >= Cardinality(Holding(e))

(* spec.md: destruction frees a block only when its reference count       *)
(* reaches zero, which is what keeps a holder's pointer valid:            *)
(* gdbDestroyBlock never frees a block another holder points at.          *)
NoUseAfterFree ==
    \A h \in Holders : hold[h] # 0 => inst[hold[h]].life = "live"

=============================================================================
