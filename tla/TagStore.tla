------------------------------ MODULE TagStore ------------------------------
(***************************************************************************)
(* What a GdbHashTable promises the package database (hashtable.h): a     *)
(* table of tagged values kept in one block of a database file.  While    *)
(* the table is open, adding a value under a tag replaces the one stored  *)
(* there and a lookup returns the value last added; writing the block     *)
(* saves the table; opening it again yields the table last saved.         *)
(* Closing an open table without saving it drops what was not saved.      *)
(***************************************************************************)
CONSTANTS
    Keys,      \* tags
    Vals,      \* the values a tag may hold
    None,      \* what a lookup of an absent tag returns
    NoTable    \* saved before the first save

ASSUME None \notin Vals

VARIABLES
    tags,    \* tags[k]: the value a lookup of k returns while open, else None
    saved,   \* the table last saved, NoTable before the first save
    open     \* a handle on the table is open

Empty == [k \in Keys |-> None]

Init ==
    /\ tags = Empty
    /\ saved = NoTable
    /\ open = FALSE

(* A new table, empty, in a block not yet written.                        *)
Create ==
    /\ ~open
    /\ open' = TRUE
    /\ tags' = Empty
    /\ saved' = NoTable

Put(k, v) ==
    /\ open
    /\ tags' = [tags EXCEPT ![k] = v]
    /\ UNCHANGED <<saved, open>>

Save ==
    /\ open
    /\ saved' = tags
    /\ UNCHANGED <<tags, open>>

Close ==
    /\ open
    /\ open' = FALSE
    /\ tags' = Empty
    /\ UNCHANGED saved

Reopen ==
    /\ ~open
    /\ saved # NoTable
    /\ open' = TRUE
    /\ tags' = saved
    /\ UNCHANGED saved

Next ==
    \/ Create
    \/ \E k \in Keys, v \in Vals : Put(k, v)
    \/ Save
    \/ Close
    \/ Reopen

Spec == Init /\ [][Next]_<<tags, saved, open>>

=============================================================================
