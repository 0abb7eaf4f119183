--------------------------- MODULE MC_TraversalApi ---------------------------
(***************************************************************************)
(* The traversal instance of MC_Traversal with every call of the B+Tree   *)
(* API, checked against KVMap.                                             *)
(***************************************************************************)
EXTENDS MC_Traversal

(* Every call of the B+Tree API (insert, delete, search, and a delete on *)
(* an empty tree) while no traversal is open, and the traversal's steps,  *)
(* as dbFindByRequires makes them: RequiresNext with the reading calls.   *)
ApiNext ==
    \/ phase = "closed" /\ Next /\ UNCHANGED travVars
    \/ OpenRequires \/ GetFirst \/ GetNext \/ Destroy

(* absMap is an auxiliary variable: after every step it is Contents, the  *)
(* map the tree stores, computed once per step so that the refinement     *)
(* check does not redo the tree walk for every disjunct of KVMap's next-  *)
(* state relation.  Contents depends on node and hdr only, so a step that *)
(* leaves both alone keeps it.  It never influences a step and is a       *)
(* function of the tree, so TravView still tells states apart.            *)
VARIABLE absMap

ApiInit == TravInit /\ absMap = Contents

ApiStep == ApiNext /\ absMap' = IF UNCHANGED <<node, hdr>> THEN absMap ELSE Contents'

ApiSpec == ApiInit /\ [][ApiStep]_<<allVars, absMap>>

(* The tree implements the key-value map of KVMap: every insert, delete   *)
(* and search stores and returns what the map says, whatever splits,      *)
(* borrows, merges and root collapses the B+Tree code performs on the     *)
(* way, and whatever traversals run between the calls.  A call that       *)
(* crashes writes and returns nothing, a stuttering step of the map.      *)
KV == INSTANCE KVMap WITH kv <- absMap, res <- ret
RefinesKVMap == KV!Spec
=============================================================================
