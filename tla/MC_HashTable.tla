---------------------------- MODULE MC_HashTable ----------------------------
(***************************************************************************)
(* Instances of HashTable for TLC.  GDBTAG_NAME (100) and                  *)
(* GDBTAG_INSTALLED_SIZE (111) both hash to bucket 1 of 11: one chain     *)
(* holds both, in either order.                                           *)
(***************************************************************************)
EXTENDS HashTable

CONSTANTS s1, s2

MCKeys == {100, 111, 105}   \* 105: bucket 6
MCStrings == {s1, s2}
MCStrLens == {3, 65536}   \* a short string, and one whose size wraps to 0
MCBigLens == {40000}      \* two of these overflow an unsigned short
MCLongs == {7}
MCOffsets == {0, 1234}    \* 1234: __writePackageEntry's placeholder

(* Refinement.  savedView is an auxiliary variable: the table the block's *)
(* bytes read back as, LookupAll(Decode(disk)).  The bytes change only    *)
(* when htCreate starts a new block (none yet) and when WriteBlock stores *)
(* WrittenBytes, so the next value is computed from the current state:    *)
(* TLC then decodes once per step instead of once per disjunct of         *)
(* TagStore's next-state relation.  It never influences a step.           *)
VARIABLE savedView

NextSavedView ==
    IF disk' = disk THEN savedView
    ELSE IF disk' = NoDisk THEN NoTableMark
    ELSE LookupAll(Decode(WrittenBytes))

RefInit == Init /\ savedView = NoTableMark

RefNext == Next /\ savedView' = NextSavedView

RefSpec == RefInit /\ [][RefNext]_<<vars, savedView>>

TS == INSTANCE TagStore WITH
        tags    <- IF phase = "open" THEN LookupAll(mem) ELSE [k \in Keys |-> NoItem],
        saved   <- savedView,
        open    <- phase = "open",
        Vals    <- HtVals,
        None    <- NoItem,
        NoTable <- NoTableMark

(* Through any sequence of htCreate, htAdd*, gdbWriteBlock,               *)
(* gdbDestroyBlock and htOpen, every lookup returns the value last added  *)
(* under its tag, whichever bucket and chain position it sits at, and an  *)
(* opened table holds what was last written: the table is the tag store  *)
(* the package database takes it for.                                     *)
RefinesTagStore == TS!Spec

====
