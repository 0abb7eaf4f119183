---------------------------- MODULE MC_Traversal ----------------------------
(***************************************************************************)
(* Instances of Traversal for TLC.                                        *)
(***************************************************************************)
EXTENDS Traversal

MCVals  == {100}
MCKeys4 == 1..4         \* order 3: a root over up to three leaves
MCKeys5 == 1..5         \* order 3: first height-2 trees

(* As MC_BTree's views: the bytes of a free page are never read again,    *)
(* except the page a stale leftLeaf still names, which                     *)
(* btreeGetFirstOffset reads.  No step reads ret.                          *)
TravView ==
    <<[p \in (Reachable \cup {leftLeaf}) \cap Pages |-> node[p]],
      root, leftLeaf, size, freeList, eof, uaf, crashed,
      cursor, phase, yielded, oob>>
=============================================================================
