---------------------------- MODULE MC_BlockStore ----------------------------
(***************************************************************************)
(* Instances of Database and BlockStore for TLC: B+Tree nodes (128-byte   *)
(* pages) and B+Tree headers (32-byte pages) in one file that starts      *)
(* after the file header, the free-list region and the main tree's header *)
(* (16 + 2048 + 32 bytes).                                                  *)
(***************************************************************************)
EXTENDS Database

CONSTANTS b1, b2

MCBlocks == {b1, b2}
MCTypes  == {"node", "header"}
MCMultiple == [t \in MCTypes |-> IF t = "node" THEN 128 ELSE 32]

(* Node payloads of one, two (exactly full: 113 + 124 bytes) and three     *)
(* pages; a tree header's payload is 13 bytes.                              *)
MCDataSizes == [t \in MCTypes |-> IF t = "node" THEN {50, 237, 300} ELSE {13}]

MCBase == 2096

(* Files found on disk when the program opens an index file: a data file, *)
(* a database of version 0.1, a file with a broken magic string, one with *)
(* a type byte of neither kind, and a file shorter than the header.       *)
MCForeignHeaders ==
    { WriteHeader(GDB_DATA_FILE),
      DB_MAGIC \o <<0, 1, GDB_INDEX_FILE>>,
      <<1, 71, 68, 66, 68, 66, 70, 3, 0, 2, GDB_INDEX_FILE>>,
      DB_MAGIC \o <<0, 2, 7>>,
      <<1, 71, 68, 66>> }

BlockSymmetry == Permutations(MCBlocks)

=============================================================================
