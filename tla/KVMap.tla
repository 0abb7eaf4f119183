------------------------------- MODULE KVMap -------------------------------
(***************************************************************************)
(* What a B+Tree handle promises its callers (btree.h): a finite map from *)
(* byte-string keys to non-zero 4-byte payload offsets.                   *)
(*                                                                         *)
(*   insert(k, v, replaceDup)  -> SUCCESS, or DUPLICATE when k is present *)
(*                                and replaceDup is false (map unchanged) *)
(*   delete(k)                 -> the payload stored for k, 0 if absent   *)
(*   search(k)                 -> the payload stored for k, 0 if absent   *)
(*                                                                         *)
(* res is the value returned by the last completed call.                  *)
(***************************************************************************)
EXTENDS Naturals

CONSTANTS Keys, Vals

ASSUME Vals \subseteq Nat \ {0}

VARIABLES kv, res

(* Return codes of the gdbStatus enum (db.h): GDB_SUCCESS = 0,            *)
(* GDB_DUPLICATE = 1.  A result records the call as its caller sees it:   *)
(* <<call, key, payload passed, value returned>>; insert returns a code,  *)
(* delete and search a payload or 0.  NoCall: before the first call.      *)
GDB_SUCCESS   == 0
GDB_DUPLICATE == 1
NoCall        == <<"none", 0, 0, 0>>

Results ==
    ({"insert"} \X Keys \X Vals \X {GDB_SUCCESS, GDB_DUPLICATE})
    \cup ({"delete", "search"} \X Keys \X {0} \X (Vals \cup {0}))
    \cup {NoCall}

TypeOK ==
    /\ kv \in [Keys -> Vals \cup {0}]
    /\ res \in Results

Init ==
    /\ kv = [k \in Keys |-> 0]
    /\ res = NoCall

Put(k, v, replace) ==
    IF kv[k] = 0 \/ replace
    THEN /\ kv' = [kv EXCEPT ![k] = v]
         /\ res' = <<"insert", k, v, GDB_SUCCESS>>
    ELSE /\ res' = <<"insert", k, v, GDB_DUPLICATE>>
         /\ UNCHANGED kv

Remove(k) ==
    /\ kv' = [kv EXCEPT ![k] = 0]
    /\ res' = <<"delete", k, 0, kv[k]>>

Get(k) ==
    /\ res' = <<"search", k, 0, kv[k]>>
    /\ UNCHANGED kv

Next ==
    \E k \in Keys :
        \/ \E v \in Vals, r \in BOOLEAN : Put(k, v, r)
        \/ Remove(k)
        \/ Get(k)

Spec == Init /\ [][Next]_<<kv, res>>

=============================================================================
