------------------------------- MODULE BTree -------------------------------
(***************************************************************************)
(* The B+Tree engine of the GNUpdate database (btree_insert.c,            *)
(* btree_delete.c, btree_search.c) over its on-disk node pages, its       *)
(* header (btree_header.c) and the node allocator of the block store      *)
(* (gdbReserveBlockChain / gdbFreeBlockChain in db_blocks.c).             *)
(*                                                                         *)
(* State is what is on disk: node[p] is the node last written at page p,  *)
(* hdr the bytes of the tree's header block (its order, size, root and    *)
(* left-most leaf), freeList the persisted free-block list, eof the first *)
(* page past the end of file.                                              *)
(* Every API call runs to completion before the next one starts (the      *)
(* library is single-threaded, its locks are stubs), so each call is one  *)
(* atomic action computed by recursive operators that follow the C        *)
(* recursion.  The block cache hands every level of that recursion the    *)
(* same instance of a node, so a single store threaded through the        *)
(* recursion is what the code sees.                                       *)
(*                                                                         *)
(* Data abstraction: a key is a number (strcmp order is a total order on  *)
(* keys); a node is one page (a node fits its first 128-byte page unless  *)
(* its keys are long; chains are the BlockStore module's concern).        *)
(***************************************************************************)
EXTENDS Naturals, Sequences, SequencesExt, FiniteSets, TLC

CONSTANTS
    Keys,      \* the keys callers use, ordered as strcmp orders them
    Vals,      \* payload offsets callers store (never 0)
    Order,     \* tree->order: children per node, read from the header
    MaxPage,   \* bound: node pages 1..MaxPage the file may grow to
    LongSize   \* sizeof(unsigned long) on a little-endian build

ASSUME Keys \subseteq Nat \ {0} /\ Keys /= {}
ASSUME Vals \subseteq Nat \ {0}
ASSUME Order \in Nat /\ Order >= 3
ASSUME MaxPage \in Nat \ {0}
ASSUME LongSize \in {4, 8}

VARIABLES
    node,      \* node[p]: [leaf, keys, ch] last written at page p
    hdr,       \* the BTREE_HEADER_DATA_SIZE bytes of the header block
    freeList,  \* the free-block list, sorted as gdbFreeBlockChain sorts it
    eof,       \* the page a reservation takes when the free list has none
    ret,       \* value returned by the last call that returned
    uaf,       \* ghost: a freed key string was read or freed again
    crashed    \* ghost: a call dereferenced NULL and killed the process

vars == <<node, hdr, freeList, eof, ret, uaf, crashed>>

Pages == 1..MaxPage

-----------------------------------------------------------------------------
(* The header block (btree_header.c).  Offsets in its data: the order at  *)
(* 0, the size at 1, the root at 5, the left-most leaf at 9 (btree_header.h).*)
(* Numbers are stored big-endian (htonl); offset_t is 4 bytes.  An        *)
(* unsigned long is LongSize bytes: htonl leaves its low 4 bytes, which a *)
(* little-endian build stores first, followed by LongSize - 4 zero bytes. *)
BTREE_SIZE_OFFSET      == 1
BTREE_ROOT_OFFSET      == 5
BTREE_LEFT_LEAF_OFFSET == 9
BTREE_HEADER_DATA_SIZE == 13

BE32(v) == <<(v \div 16777216) % 256, (v \div 65536) % 256, (v \div 256) % 256, v % 256>>
ULong(v) == BE32(v) \o [i \in 1..(LongSize - 4) |-> 0]
FromBE(h, o) == ((h[o + 1] * 256 + h[o + 2]) * 256 + h[o + 3]) * 256 + h[o + 4]

(* fwrite of bs at offset o of the header data.                            *)
WriteAt(h, o, bs) ==
    [i \in 1..BTREE_HEADER_DATA_SIZE |->
        IF o < i /\ i <= o + Len(bs) THEN bs[i - o] ELSE h[i]]

(* btreeCreateHeader (order, size, root and leftLeaf 0) as btreeWriteHeader *)
(* serialises it with gdbPut8 / gdbPut32 into its 13-byte buffer (what    *)
(* gdbPut32 puts past the buffer is not part of the block).  The code     *)
(* writes order 5 whatever btreeCreate was passed; the model writes the   *)
(* smaller Order its node algorithms are checked at.                      *)
NewHeader ==
    SubSeq(<<Order>> \o ULong(0) \o ULong(0) \o ULong(0), 1, BTREE_HEADER_DATA_SIZE)

(* btreeGetRootNode, btreeGetLeftLeaf: sizeof(offset_t) bytes, ntohl.      *)
(* btreeGetTreeSize: sizeof(unsigned long) bytes, ntohl, which keeps the  *)
(* low 4 bytes: on a little-endian build the 4 at BTREE_SIZE_OFFSET.       *)
root     == FromBE(hdr, BTREE_ROOT_OFFSET)
leftLeaf == FromBE(hdr, BTREE_LEFT_LEAF_OFFSET)
size     == FromBE(hdr, BTREE_SIZE_OFFSET)

(* btreeSetRootNode, btreeSetLeftLeaf: htonl(offset), sizeof(offset_t)     *)
(* bytes.  btreeSetTreeSize: htonl(size) in an unsigned long, written     *)
(* whole.                                                                  *)
SetRootNode(h, o)  == WriteAt(h, BTREE_ROOT_OFFSET, BE32(o))
SetLeftLeaf(h, o)  == WriteAt(h, BTREE_LEFT_LEAF_OFFSET, BE32(o))
SetTreeSize(h, n)  == WriteAt(h, BTREE_SIZE_OFFSET, ULong(n))

(* tree->minLeaf and tree->minInt as btreeReadHeader computes them.       *)
minLeaf == Order \div 2
minInt  == ((Order + 1) \div 2) - 1

(* A node: keys are its keyCount keys, ch its keyCount + 1 children.  In  *)
(* a leaf ch[i] is the payload of keys[i] and Last(ch) the right sibling. *)
Node == [leaf : BOOLEAN, keys : Seq(Keys), ch : Seq(Pages \cup Vals \cup {0})]
Blank == [leaf |-> FALSE, keys |-> <<>>, ch |-> <<>>]

(* Return codes of the gdbStatus enum (db.h): GDB_SUCCESS = 0,            *)
(* GDB_DUPLICATE = 1.  A result records the call as its caller sees it:   *)
(* <<call, key, payload passed, value returned>>; insert returns a code,  *)
(* delete and search a payload or 0.  NoCall: before the first call.      *)
GDB_SUCCESS   == 0
GDB_DUPLICATE == 1
NoCall        == <<"none", 0, 0, 0>>

Results ==
    ({"insert"} \X Keys \X Vals \X {GDB_SUCCESS, GDB_DUPLICATE})
    \cup ({"delete", "search"} \X Keys \X {0} \X (Vals \cup {0}))
    \cup {NoCall}

-----------------------------------------------------------------------------
(* Helpers shared by the three algorithms.                                 *)

(* Index of the first key >= k, Len(ks) + 1 when there is none: the       *)
(* strcmp scan that opens every node visit.                               *)
KeyPos(ks, k) ==
    LET i == SelectInSeq(ks, LAMBDA x : k <= x)
    IN IF i = 0 THEN Len(ks) + 1 ELSE i

IsDup(n, i, k) == i <= Len(n.keys) /\ n.keys[i] = k

(* __removeKey / __removeKey2: drop keys[i] and ch[i], shift the rest.    *)
RemoveEntry(n, i) ==
    [n EXCEPT !.keys = RemoveAt(@, i), !.ch = RemoveAt(@, i)]

(* The store threaded through a call: pages, free list, file end, ghost. *)
Store == [node : [Pages -> Node], free : Seq(Pages), eof : Nat, uaf : BOOLEAN]

(* gdbReserveBlockChain(db, 1, GDB_BLOCK_BTREE_NODE): the first free-list *)
(* entry of the node page size (every entry here is one), else extend     *)
(* the file by one page.                                                  *)
Reserve(st) ==
    IF st.free = <<>>
    THEN [pg |-> st.eof, st |-> [st EXCEPT !.eof = @ + 1]]
    ELSE [pg |-> Head(st.free), st |-> [st EXCEPT !.free = Tail(@)]]

Erase_dropped(st, p) == st

(* btreeEraseNode -> gdbFreeBlock -> gdbFreeBlockChain: append the page   *)
(* and re-sort the list by offset.                                        *)
Erase(st, p) == [st EXCEPT !.free = SortSeq(Append(@, p), <)]

-----------------------------------------------------------------------------
(* Insertion (btree_insert.c).  A step returns the store and the values  *)
(* the C code passes back by pointer: success, *split, *key, *filePos.    *)

(* Put key k with child/payload p at position i: a leaf keeps payloads    *)
(* aligned with keys, an internal node puts the new child right of k.     *)
AddKey(n, i, k, p) ==
    [n EXCEPT !.keys = InsertAt(@, i, k),
              !.ch   = InsertAt(@, IF n.leaf THEN i ELSE i + 1, p)]

(* The duplicate branch of __addKey and __splitNode.                       *)
DupStep(st, off, i, k, p, rep) ==
    LET n == st.node[off]
    IN [st |-> IF rep /\ n.leaf
               THEN [st EXCEPT !.node[off] = [n EXCEPT !.ch[i] = p]]
               ELSE st,
        success |-> FALSE, split |-> FALSE, key |-> k, pos |-> p]

AddKeyStep(st, off, k, p, rep) ==
    LET n == st.node[off]
        i == KeyPos(n.keys, k)
    IN IF IsDup(n, i, k) THEN DupStep(st, off, i, k, p, rep)
       ELSE [st |-> [st EXCEPT !.node[off] = AddKey(n, i, k, p)],
             success |-> TRUE, split |-> FALSE, key |-> k, pos |-> p]

(* The index of the key a full node is cut at (0-based, as in the C):    *)
(* a leaf keeps it, an internal node passes it up.                        *)
SplitPoint_internalLow(n) ==
    IF n.leaf THEN ((Order + 1) \div 2) - 1 ELSE (Order \div 2) - 1
SplitPoint(n) ==
    IF n.leaf THEN ((Order + 1) \div 2) - 1 ELSE Order \div 2

(* __splitNode: the node is full.  The Order keys are cut after div; a    *)
(* leaf keeps keys[div] as its last key and passes a copy up, an internal *)
(* node passes keys[div] up and drops it.  The right half is written to a *)
(* newly reserved page first, then the left half is rewritten in place.   *)
SplitStep(st, off, k, p, rep) ==
    LET n    == st.node[off]
        i    == KeyPos(n.keys, k)
        full == AddKey(n, i, k, p)
        div  == SplitPoint(n)
        a    == Reserve(st)
        right == [leaf |-> n.leaf,
                  keys |-> SubSeq(full.keys, div + 2, Order),
                  ch   |-> SubSeq(full.ch, div + 2, Order + 1)]
        left == IF n.leaf
                THEN [n EXCEPT !.keys = SubSeq(full.keys, 1, div + 1),
                               !.ch   = SubSeq(full.ch, 1, div + 1) \o <<a.pg>>]
                ELSE [n EXCEPT !.keys = SubSeq(full.keys, 1, div),
                               !.ch   = SubSeq(full.ch, 1, div + 1)]
    IN IF IsDup(n, i, k) THEN DupStep(st, off, i, k, p, rep)
       ELSE [st |-> [a.st EXCEPT !.node = [@ EXCEPT ![a.pg] = right,
                                                    ![off]  = left]],
             success |-> TRUE, split |-> TRUE,
             key |-> full.keys[div + 1], pos |-> a.pg]

(* Add to the node at off, splitting it when it is full.                   *)
PlaceKey(st, off, k, p, rep) ==
    IF Len(st.node[off].keys) < Order - 1
    THEN AddKeyStep(st, off, k, p, rep)
    ELSE SplitStep(st, off, k, p, rep)

(* __insertKey: descend to the leaf, then on the way back up add the      *)
(* separator of a child that split.  The result of that add is ignored    *)
(* except for the *split, *key and *filePos it leaves behind.             *)
RECURSIVE InsertKey(_, _, _, _, _)
InsertKey(st, off, k, p, rep) ==
    LET n == st.node[off]
    IN IF n.leaf THEN PlaceKey(st, off, k, p, rep)
       ELSE LET r  == InsertKey(st, n.ch[KeyPos(n.keys, k)], k, p, rep)
                up == PlaceKey(r.st, off, r.key, r.pos, rep)
            IN IF r.success /\ r.split
               THEN [up EXCEPT !.success = TRUE]
               ELSE r

-----------------------------------------------------------------------------
(* Deletion (btree_delete.c).  off is the node visited, pv its parent and *)
(* div its 0-based index among the parent's children.                     *)

(* __borrowRight.  The stray free(rootNode->keys[div]) (it should free    *)
(* prevNode->keys[div]) releases a key the node still holds, or the one   *)
(* just borrowed, whenever div <= keyCount: uaf records it.               *)
BorrowRight(st, off, pv, div) ==
    LET R  == st.node[off]
        P  == st.node[pv]
        s  == P.ch[div + 2]
        N  == st.node[s]
        kc == Len(R.keys)
        lend(R2, sep) ==
            [ok |-> TRUE,
             st |-> [st EXCEPT !.node = [@ EXCEPT ![off] = R2,
                                   ![pv] = [P EXCEPT !.keys[div + 1] = sep],
                                   ![s]  = RemoveEntry(N, 1)],
                               !.uaf = @ \/ div <= kc]]
    IN IF div >= Len(P.keys) THEN [ok |-> FALSE, st |-> st]
       ELSE IF N.leaf /\ Len(N.keys) > minLeaf
       THEN lend([R EXCEPT !.keys = Append(@, N.keys[1]),
                           !.ch   = Front(@) \o <<N.ch[1], Last(@)>>],
                 N.keys[1])
       ELSE IF ~N.leaf /\ Len(N.keys) > minInt
       THEN lend([R EXCEPT !.keys = Append(@, P.keys[div + 1]),
                           !.ch   = Append(@, N.ch[1])],
                 N.keys[1])
       ELSE [ok |-> FALSE, st |-> st]

(* __borrowLeft: take the left sibling's last key (a leaf), or rotate it  *)
(* through the parent's separator (an internal node).                     *)
BorrowLeft(st, off, pv, div) ==
    LET R == st.node[off]
        P == st.node[pv]
        s == P.ch[div]
        N == st.node[s]
        m == Len(N.keys)
        lend(R2, sep, N2) ==
            [ok |-> TRUE,
             st |-> [st EXCEPT !.node = [@ EXCEPT ![off] = R2,
                                   ![pv] = [P EXCEPT !.keys[div] = sep],
                                   ![s]  = N2]]]
    IN IF div = 0 THEN [ok |-> FALSE, st |-> st]
       ELSE IF N.leaf /\ m > minLeaf
       THEN lend([R EXCEPT !.keys = <<N.keys[m]>> \o @,
                           !.ch   = <<N.ch[m]>> \o @],
                 N.keys[m - 1],
                 [N EXCEPT !.keys = Front(@), !.ch = RemoveAt(@, m)])
       ELSE IF ~N.leaf /\ m > minInt
       THEN lend([R EXCEPT !.keys = <<P.keys[div]>> \o @,
                           !.ch   = <<N.ch[m + 1]>> \o @],
                 N.keys[m],
                 [N EXCEPT !.keys = Front(@), !.ch = Front(@)])
       ELSE [ok |-> FALSE, st |-> st]

(* Concatenate right node B onto left node A; an internal merge pulls the *)
(* parent's separator sep down between them.                              *)
Concat_keepNext(A, B, sep) ==
    IF A.leaf
    THEN [A EXCEPT !.keys = @ \o B.keys, !.ch = Front(@) \o Front(B.ch) \o <<Last(@)>>]
    ELSE [A EXCEPT !.keys = Append(@, sep) \o B.keys, !.ch = @ \o B.ch]
Concat(A, B, sep) ==
    IF A.leaf
    THEN [A EXCEPT !.keys = @ \o B.keys, !.ch = Front(@) \o B.ch]
    ELSE [A EXCEPT !.keys = Append(@, sep) \o B.keys, !.ch = @ \o B.ch]

(* __mergeNode: merge into the left sibling when there is one and erase   *)
(* this node, else absorb the right sibling and erase it; then drop the   *)
(* separator from the parent.  Merging with the right sibling frees       *)
(* node->keys[i] where it means rootNode->keys[i], so every key of the    *)
(* sibling from index keyCount on is freed before it is copied.           *)
MergeNode(st, off, pv, div) ==
    LET R == st.node[off]
        P == st.node[pv]
    IN IF div > 0
       THEN LET s == P.ch[div]
            IN Erase([st EXCEPT !.node = [@ EXCEPT
                          ![s]  = Concat(st.node[s], R, P.keys[div]),
                          ![pv] = RemoveEntry([P EXCEPT !.ch[div + 1] = s], div)]],
                     off)
       ELSE LET s == P.ch[2]
                N == st.node[s]
            IN Erase([st EXCEPT !.node = [@ EXCEPT
                          ![off] = Concat(R, N, P.keys[1]),
                          ![pv]  = RemoveEntry([P EXCEPT !.ch[2] = off], 1)],
                                !.uaf = @ \/ Len(R.keys) < Len(N.keys)],
                     s)

(* Does the node at off hold fewer keys than a non-root node may?          *)
Underflow(n) ==
    IF n.leaf THEN Len(n.keys) < minLeaf ELSE Len(n.keys) < minInt

(* __delete: descend, remove the key from its leaf, then repair underflow *)
(* on the way back up: borrow right, else borrow left, else merge.        *)
(* merged is the *merged flag: only a level that repairs writes it.       *)
(* __removeKey: remove k from the leaf at off, returning its payload.     *)
RemoveKey_wrongPayload(st, off, k) ==
    LET n == st.node[off]
        i == KeyPos(n.keys, k)
    IN IF IsDup(n, i, k)
       THEN [st |-> [st EXCEPT !.node[off] = RemoveEntry(n, i)],
             ok |-> TRUE, pos |-> n.ch[i + 1], merged |-> FALSE]
       ELSE [st |-> st, ok |-> FALSE, pos |-> 0, merged |-> FALSE]
RemoveKey(st, off, k) ==
    LET n == st.node[off]
        i == KeyPos(n.keys, k)
    IN IF IsDup(n, i, k)
       THEN [st |-> [st EXCEPT !.node[off] = RemoveEntry(n, i)],
             ok |-> TRUE, pos |-> n.ch[i], merged |-> FALSE]
       ELSE [st |-> st, ok |-> FALSE, pos |-> 0, merged |-> FALSE]

RECURSIVE Del(_, _, _, _, _, _)
Del(st, off, pv, div, k, top) ==
    LET n == st.node[off]
        i == KeyPos(n.keys, k)
        r == IF n.leaf THEN RemoveKey(st, off, k)
             ELSE Del(st, n.ch[i], off, i - 1, k, top)
        br == BorrowRight(r.st, off, pv, div)
        bl == BorrowLeft(r.st, off, pv, div)
    IN IF ~r.ok \/ off = top \/ ~Underflow(r.st.node[off]) THEN r
       ELSE IF br.ok THEN [r EXCEPT !.st = br.st, !.merged = FALSE]
       ELSE IF bl.ok THEN [r EXCEPT !.st = bl.st, !.merged = FALSE]
       ELSE [r EXCEPT !.st = MergeNode(r.st, off, pv, div), !.merged = TRUE]

-----------------------------------------------------------------------------
(* Search (btree_search.c): __search.                                      *)
RECURSIVE SearchFrom(_, _)
SearchFrom_noDupCheck(p, k) ==
    LET n == node[p]
        i == KeyPos(n.keys, k)
    IN IF n.leaf THEN n.ch[i] ELSE SearchFrom(n.ch[i], k)

SearchFrom(p, k) ==
    LET n == node[p]
        i == KeyPos(n.keys, k)
    IN IF n.leaf THEN (IF IsDup(n, i, k) THEN n.ch[i] ELSE 0)
       ELSE SearchFrom(n.ch[i], k)

-----------------------------------------------------------------------------
(* The API calls.                                                          *)

StoreNow == [node |-> node, free |-> freeList, eof |-> eof, uaf |-> uaf]

(* Write a store back to the state; the bound on the file size is here.  *)
Commit(st) ==
    /\ st.eof <= MaxPage + 1
    /\ node' = st.node
    /\ freeList' = st.free
    /\ eof' = st.eof
    /\ uaf' = st.uaf

(* btreeInsert(tree, k, v, rep) in read-write mode.                        *)
Insert(k, v, rep) ==
    LET r == InsertKey(StoreNow, root, k, v, rep)
        st == IF root /= 0 THEN r.st ELSE StoreNow
        a  == Reserve(st)
        newRoot ==
            IF root = 0
            THEN [leaf |-> TRUE, keys |-> <<k>>, ch |-> <<v, 0>>]
            ELSE [leaf |-> FALSE, keys |-> <<r.key>>, ch |-> <<root, r.pos>>]
        sized == SetTreeSize(hdr, size + 1)
    IN /\ UNCHANGED crashed
       /\ IF root /= 0 /\ ~r.success
          THEN /\ Commit(st)
               /\ ret' = <<"insert", k, v, IF rep THEN GDB_SUCCESS ELSE GDB_DUPLICATE>>
               /\ UNCHANGED hdr
          ELSE /\ ret' = <<"insert", k, v, GDB_SUCCESS>>
               /\ IF root = 0
                  THEN /\ Commit([a.st EXCEPT !.node[a.pg] = newRoot])
                       /\ hdr' = SetRootNode(SetLeftLeaf(sized, a.pg), a.pg)
                  ELSE IF r.split
                  THEN /\ Commit([a.st EXCEPT !.node[a.pg] = newRoot])
                       /\ hdr' = SetRootNode(sized, a.pg)
                  ELSE /\ Commit(st)
                       /\ hdr' = sized

(* btreeDelete(tree, k) on a non-empty tree.                               *)
Delete(k) ==
    LET r  == Del(StoreNow, root, 0, 0, k, root)
        R  == r.st.node[root]
        sized == SetTreeSize(hdr, size - 1)
    IN /\ root /= 0
       /\ UNCHANGED crashed
       /\ ret' = <<"delete", k, 0, r.pos>>
       /\ IF ~r.ok
          THEN UNCHANGED <<node, hdr, freeList, eof, uaf>>
          ELSE IF R.leaf /\ R.keys = <<>>
          THEN /\ hdr' = SetRootNode(sized, 0)
               /\ Commit(Erase(r.st, root))
          ELSE IF r.merged /\ R.keys = <<>>
          THEN /\ hdr' = SetRootNode(sized, R.ch[1])
               /\ Commit(Erase(r.st, root))
          ELSE /\ hdr' = sized
               /\ Commit(r.st)

(* btreeDelete on an empty tree: btreeReadNode(tree, 0) returns NULL and  *)
(* the loop over rootNode->keyCount dereferences it.  Nothing has been    *)
(* written; the process dies and the call never returns.                  *)
DeleteEmpty(k) ==
    /\ root = 0
    /\ crashed' = TRUE
    /\ UNCHANGED <<node, hdr, freeList, eof, ret, uaf>>

(* btreeSearch(tree, k).                                                   *)
Search(k) ==
    /\ ret' = <<"search", k, 0, IF size = 0 THEN 0 ELSE SearchFrom(root, k)>>
    /\ UNCHANGED <<node, hdr, freeList, eof, uaf, crashed>>

Init ==
    /\ node = [p \in Pages |-> Blank]
    /\ hdr = NewHeader
    /\ freeList = <<>>
    /\ eof = 1
    /\ ret = NoCall
    /\ uaf = FALSE
    /\ crashed = FALSE

Next ==
    \E k \in Keys :
        \/ \E v \in Vals, rep \in BOOLEAN : Insert(k, v, rep)
        \/ Delete(k)
        \/ DeleteEmpty(k)
        \/ Search(k)

Spec == Init /\ [][Next]_vars

-----------------------------------------------------------------------------
(* The tree as the properties see it.                                      *)

(* Pages of the subtree at p, fuel bounding the descent.                   *)
RECURSIVE Subtree(_, _)
Subtree(p, fuel) ==
    IF fuel = 0 \/ node[p].leaf THEN {p}
    ELSE {p} \cup UNION {Subtree(node[p].ch[j], fuel - 1) : j \in DOMAIN node[p].ch}

Reachable == IF root = 0 THEN {} ELSE Subtree(root, MaxPage)

(* Number of node visits of a full descent: equals Cardinality(Reachable) *)
(* exactly when no page hangs below two parents.                           *)
RECURSIVE Visits(_, _)
Visits(p, fuel) ==
    IF fuel = 0 \/ node[p].leaf THEN 1
    ELSE 1 + FoldSeq(LAMBDA c, acc : acc + Visits(c, fuel - 1), 0, node[p].ch)

(* The leaves from left to right, and the leaf chain from leftLeaf up to  *)
(* and including the value that ends it (0 when the chain is sound).      *)
RECURSIVE LeafSeq(_, _)
LeafSeq(p, fuel) ==
    IF fuel = 0 \/ node[p].leaf THEN <<p>>
    ELSE FoldSeq(LAMBDA c, acc : LeafSeq(c, fuel - 1) \o acc, <<>>, node[p].ch)

RECURSIVE Chain(_, _)
Chain(p, fuel) ==
    IF fuel = 0 THEN <<>>
    ELSE IF p \notin Pages THEN <<p>>
    ELSE <<p>> \o Chain(Last(node[p].ch), fuel - 1)

(* The (key, payload) pairs held by the leaves under root.                 *)
Entries ==
    UNION {{<<node[p].keys[i], node[p].ch[i]>> : i \in DOMAIN node[p].keys} :
           p \in {q \in Reachable : node[q].leaf}}

(* The map the tree stores: the refinement mapping onto KVMap.            *)
Contents ==
    LET E == Entries
    IN [k \in Keys |-> LET m == {e \in E : e[1] = k}
                       IN IF m = {} THEN 0 ELSE (CHOOSE e \in m : TRUE)[2]]

(* The keys held by the leaves of the subtree at p.                        *)
RECURSIVE KeysUnder(_, _)
KeysUnder(p, fuel) ==
    IF fuel = 0 \/ node[p].leaf THEN ToSet(node[p].keys)
    ELSE UNION {KeysUnder(c, fuel - 1) : c \in ToSet(node[p].ch)}

(* Height of the subtree at p along its left-most path.                    *)
RECURSIVE Height(_, _)
Height(p, fuel) ==
    IF fuel = 0 \/ node[p].leaf THEN 0 ELSE 1 + Height(node[p].ch[1], fuel - 1)

(* The subtree at p is a B+Tree whose keys lie in (lo, hi] and whose      *)
(* leaves are all h levels down; a non-root node holds at least the       *)
(* minimum number of keys.                                                 *)
RECURSIVE Valid(_, _, _, _, _)
Valid(p, lo, hi, h, isRoot) ==
    LET n == node[p]
    IN /\ Len(n.ch) = Len(n.keys) + 1
       /\ Len(n.keys) <= Order - 1
       /\ IsSorted(n.keys, <)
       /\ \A i \in DOMAIN n.keys : lo < n.keys[i] /\ n.keys[i] <= hi
       /\ n.leaf <=> h = 0
       /\ IF isRoot THEN Len(n.keys) >= 1 ELSE ~Underflow(n)
       /\ ~n.leaf =>
            \A j \in DOMAIN n.ch :
                /\ n.ch[j] \in Pages
                /\ Valid(n.ch[j],
                         IF j = 1 THEN lo ELSE n.keys[j - 1],
                         IF j = Len(n.ch) THEN hi ELSE n.keys[j],
                         h - 1, FALSE)

-----------------------------------------------------------------------------
(* Properties.                                                             *)

TypeOK ==
    /\ node \in [Pages -> Node]
    /\ hdr \in [1..BTREE_HEADER_DATA_SIZE -> 0..255]
    /\ root \in Pages \cup {0}
    /\ leftLeaf \in Pages \cup {0}
    /\ freeList \in Seq(Pages)
    /\ eof \in 1..(MaxPage + 1)
    /\ ret \in Results
    /\ uaf \in BOOLEAN
    /\ crashed \in BOOLEAN

(* After any sequence of inserts and deletes, the nodes under root form a *)
(* B+Tree: keys sorted, every key of child j between separators j-1 and j *)
(* (the separators a borrow or a merge rewrites included), all leaves at  *)
(* one depth, every non-root node at least half full (__delete's repair   *)
(* by borrowRight / borrowLeft / mergeNode), no node over Order - 1 keys  *)
(* (__splitNode), and no page below two parents.                          *)
BTreeShape ==
    root /= 0 =>
        /\ Valid(root, 0, Max(Keys) + 1, Height(root, MaxPage), TRUE)
        /\ Visits(root, MaxPage) = Cardinality(Reachable)

(* Following leftLeaf and each leaf's last child slot visits exactly the  *)
(* leaves left to right and ends at 0: what btreeGetFirstOffset and       *)
(* btreeGetNextOffset rely on after splits, borrows and merges relink     *)
(* the leaves.                                                             *)
LeafChainSound ==
    root /= 0 => Chain(leftLeaf, MaxPage + 1) = LeafSeq(root, MaxPage) \o <<0>>

(* Every page below the end of file is either in the tree or on the free  *)
(* list, never both, and never twice on the list: a page erased by        *)
(* mergeNode or a root collapse is neither leaked nor handed out by       *)
(* gdbReserveBlockChain while a node still lives there.                   *)
PagesAccounted ==
    /\ Reachable \cap ToSet(freeList) = {}
    /\ Len(freeList) = Cardinality(ToSet(freeList))
    /\ Reachable \cup ToSet(freeList) = 1..(eof - 1)

NoUseAfterFree == ~uaf

=============================================================================
