---------------------------- MODULE MC_BlockCache ----------------------------
(***************************************************************************)
(* Instances of BlockCache for TLC.                                       *)
(***************************************************************************)
EXTENDS BlockCache

CONSTANTS h1, h2, h3

MCHolders == {h1, h2, h3}

(* Holders are interchangeable.                                           *)
HolderSymmetry == Permutations(MCHolders)

(* A structure that is not alive is never read through the cache (it is   *)
(* unlisted when freed) and is reinitialised by malloc's next use: only    *)
(* its being free matters.                                                 *)
LiveView ==
    <<[i \in Ids |-> IF inst[i].life = "live" THEN inst[i] ELSE Unused],
      cache, hold, free, eof>>

=============================================================================
