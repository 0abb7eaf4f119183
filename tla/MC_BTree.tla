------------------------------ MODULE MC_BTree ------------------------------
(***************************************************************************)
(* Instances of BTree for TLC.  Keys are small naturals (their order is   *)
(* strcmp's order on the key strings), payloads are file offsets.         *)
(***************************************************************************)
EXTENDS BTree

MCVals  == {100}
MCVals2 == {100, 200}   \* two payloads: a replaceDup insert is observable

MCKeys4  == 1..4        \* order 3: a root over up to three leaves
MCKeys5  == 1..5        \* order 3: first height-2 trees
MCKeys6  == 1..6        \* order 3: internal nodes that lend to a sibling
MCKeys10 == 1..10       \* order 5: a root over up to four leaves

(* The calls that change the tree.  Search changes nothing but ret, so    *)
(* runs about the tree's shape leave it out.                               *)
UpdateNext ==
    \E k \in Keys :
        \/ \E v \in Vals, rep \in BOOLEAN : Insert(k, v, rep)
        \/ Delete(k)
        \/ DeleteEmpty(k)

UpdateSpec == Init /\ [][UpdateNext]_vars

(* The bytes of a page on the free list are never read before the page is *)
(* reserved again and overwritten (btreeNewNode builds a fresh node), so   *)
(* two states that differ only there behave alike: TLC compares states    *)
(* by this view.                                                          *)
LiveView ==
    <<[p \in Reachable |-> node[p]], root, leftLeaf, size, freeList, eof,
      ret, uaf, crashed>>

(* No step reads ret, the value the last call returned: runs whose        *)
(* properties do not mention it also merge states that differ only there. *)
ShapeView ==
    <<[p \in Reachable |-> node[p]], root, leftLeaf, size, freeList, eof,
      uaf, crashed>>

=============================================================================
