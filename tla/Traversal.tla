------------------------------ MODULE Traversal ------------------------------
(***************************************************************************)
(* Ordered traversal of a B+Tree (btree_traverse.c) composed with the      *)
(* tree it walks (BTree), and the match iterators of the package database *)
(* that open one: dbGetAllPackages (get_all_packages.c) and               *)
(* dbFindByRequires (search_by_requires.c).                               *)
(*                                                                         *)
(* A traversal keeps a cursor between the caller's calls: the leaf it     *)
(* holds open (trav->node, through the block cache) and the next slot of  *)
(* that leaf's children array (trav->pos).  The caller's iteration is     *)
(* dbFirstPackage once, then dbNextPackage until it returns NULL, then    *)
(* dbDestroyMatches; the tree is updated only while no traversal is open. *)
(***************************************************************************)
EXTENDS BTree, Integers

VARIABLES
    cursor,   \* the BTreeTraversal: [node |-> page or 0 for NULL, pos]
    phase,    \* the caller's matches: "closed", "open", or "done" once a
              \* call returned -1 (NULL to the caller)
    yielded,  \* what the offset calls returned, each with the key of the
              \* slot read (ghost: the code returns only the offset)
    oob       \* ghost: a call read children[pos] with pos >= order

travVars == <<cursor, phase, yielded, oob>>
allVars  == <<vars, travVars>>

(* The value btreeGet*Offset returns at the end of a traversal.            *)
END == -1

(* children[pos] and keys[pos] of a node (0-based pos): ch holds the      *)
(* keyCount + 1 slots in use; btreeCreateNodeBlock zeroes all order slots *)
(* and every shift zeroes the one it vacates, so the rest read 0.         *)
Slot(n, pos) == IF pos + 1 <= Len(n.ch) THEN n.ch[pos + 1] ELSE 0
KeyAt(n, pos) == IF pos + 1 <= Len(n.keys) THEN n.keys[pos + 1] ELSE 0

(* Return children[pos] of the leaf at page p and advance: one result     *)
(* record [cur, off, key, oob] as the tail of both offset calls builds it. *)
ReadSlot(p, pos) ==
    [cur |-> [node |-> p, pos |-> pos + 1],
     off |-> Slot(node[p], pos), key |-> KeyAt(node[p], pos),
     oob |-> pos >= Order]

(* btreeGetNextOffset on a cursor holding a node: at pos = keyCount move  *)
(* to the leaf children[keyCount] names, ending the traversal at 0;       *)
(* then read children[pos] and advance.                                    *)
NextStep_skipFirst(c) ==
    LET n == node[c.node]
        nxt == Slot(n, c.pos)
    IN IF c.pos # Len(n.keys) THEN ReadSlot(c.node, c.pos)
       ELSE IF nxt = 0
       THEN [cur |-> [c EXCEPT !.node = 0], off |-> END, key |-> 0, oob |-> FALSE]
       ELSE ReadSlot(nxt, 1)

NextStep(c) ==
    LET n == node[c.node]
        nxt == Slot(n, c.pos)
    IN IF c.pos # Len(n.keys) THEN ReadSlot(c.node, c.pos)
       ELSE IF nxt = 0
       THEN [cur |-> [c EXCEPT !.node = 0], off |-> END, key |-> 0, oob |-> FALSE]
       ELSE ReadSlot(nxt, 0)

Yield_noEndCheck(r) ==
    /\ cursor' = r.cur
    /\ oob' = r.oob
    /\ phase' = "open"
    /\ yielded' = Append(yielded, <<r.key, r.off>>)

(* Record what a call returned: -1 ends the caller's iteration.           *)
Yield(r) ==
    /\ cursor' = r.cur
    /\ oob' = r.oob
    /\ IF r.off = END
       THEN phase' = "done" /\ UNCHANGED yielded
       ELSE phase' = "open" /\ yielded' = Append(yielded, <<r.key, r.off>>)

-----------------------------------------------------------------------------
(* The caller's steps.                                                     *)

(* The tree changes only between traversals: btreeInsert, btreeDelete.    *)
Update ==
    /\ phase = "closed"
    /\ \E k \in Keys :
          \/ \E v \in Vals, rep \in BOOLEAN : Insert(k, v, rep)
          \/ Delete(k)
    /\ UNCHANGED travVars

(* btreeInitTraversal: a cursor holding no node.                           *)
Open ==
    /\ phase = "closed"
    /\ phase' = "open"
    /\ cursor' = [node |-> 0, pos |-> 0]
    /\ yielded' = <<>>
    /\ UNCHANGED <<oob, vars>>

(* dbGetAllPackages: opens a traversal of the names index whatever its    *)
(* size.                                                                  *)
OpenAll == Open

OpenRequires_noSizeCheck == Open

(* dbFindByRequires: gives up with PM_FAILED when btreeGetSize is 0, and  *)
(* opens the traversal otherwise.                                          *)
OpenRequires ==
    /\ size # 0
    /\ Open

(* dbFirstPackage -> btreeGetFirstOffset: a cursor already holding a node *)
(* continues as btreeGetNextOffset; otherwise read the leaf the header's  *)
(* leftLeaf names (btreeReadNode gives NULL for offset 0: return -1) and  *)
(* return its children[0].                                                 *)
GetFirst ==
    /\ phase = "open" /\ yielded = <<>> /\ ~oob
    /\ IF cursor.node # 0 THEN Yield(NextStep(cursor))
       ELSE IF leftLeaf = 0
       THEN Yield([cur |-> cursor, off |-> END, key |-> 0, oob |-> FALSE])
       ELSE Yield(ReadSlot(leftLeaf, 0))
    /\ UNCHANGED vars

(* dbNextPackage -> btreeGetNextOffset, after the first call returned an  *)
(* offset.  The cursor then holds a node: the NULL branch, which recurses *)
(* without end, is only reached by a call after -1, which the caller      *)
(* never makes.                                                           *)
GetNext ==
    /\ phase = "open" /\ yielded # <<>> /\ ~oob
    /\ cursor.node # 0
    /\ Yield(NextStep(cursor))
    /\ UNCHANGED vars

(* dbDestroyMatches -> btreeDestroyTraversal: drop the cursor, at any     *)
(* point of the iteration.                                                 *)
Destroy ==
    /\ phase # "closed"
    /\ phase' = "closed"
    /\ cursor' = [node |-> 0, pos |-> 0]
    /\ UNCHANGED <<yielded, oob, vars>>

TravInit ==
    /\ Init
    /\ cursor = [node |-> 0, pos |-> 0]
    /\ phase = "closed"
    /\ yielded = <<>>
    /\ oob = FALSE

(* Iterating the packages that have a requirement (dbFindByRequires).     *)
RequiresNext == Update \/ OpenRequires \/ GetFirst \/ GetNext \/ Destroy
RequiresSpec == TravInit /\ [][RequiresNext]_allVars

(* Iterating all packages (dbGetAllPackages).                              *)
AllNext == Update \/ OpenAll \/ GetFirst \/ GetNext \/ Destroy
AllSpec == TravInit /\ [][AllNext]_allVars

-----------------------------------------------------------------------------
(* Properties.                                                             *)

(* The tree's entries in ascending key order: what a full traversal owes. *)
Expected ==
    LET c == Contents
        present == {k \in Keys : c[k] # 0}
        rank(k) == Cardinality({j \in present : j < k})
    IN [i \in 1..Cardinality(present) |->
          LET k == CHOOSE x \in present : rank(x) = i - 1 IN <<k, c[k]>>]

TravTypeOK ==
    /\ cursor \in [node : Pages \cup {0}, pos : Nat]
    /\ phase \in {"closed", "open", "done"}
    /\ yielded \in Seq((Keys \cup {0}) \X (Vals \cup Pages \cup {0}))
    /\ oob \in BOOLEAN

(* spec.md, traversal completeness and order: a traversal after any       *)
(* sequence of inserts and deletes returns exactly the present keys'      *)
(* payloads in ascending key order.  What btreeGetFirstOffset and         *)
(* btreeGetNextOffset have returned is always a prefix of that, and all   *)
(* of it once they return -1.                                              *)
TraversalComplete ==
    phase # "closed" =>
        /\ IsPrefix(yielded, Expected)
        /\ phase = "done" => yielded = Expected

(* btreeGetNextOffset never reads children[pos] past the order slots that *)
(* btreeCreateNodeBlock allocates: the pos = keyCount test must stop it.  *)
TraversalInBounds == ~oob

=============================================================================
