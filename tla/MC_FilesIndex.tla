---------------------------- MODULE MC_FilesIndex ----------------------------
(* Three packages and two file names in freshly created databases.        *)
EXTENDS FilesIndex

CONSTANTS p1, p2, p3, fa, fb

MCPackages == {p1, p2, p3}
MCFiles == {fa, fb}

(* gdbCreate: 16-byte file header, 2048-byte free-list region, the main   *)
(* tree's 32-byte header page at 2064.                                     *)
MCTreeHeader == 2064
MCBase == 2096

(* A package's hashtable takes one or more pages and the first package    *)
(* creates the 128-byte root of the timestamp index: two or four pages    *)
(* beyond one per table.                                                   *)
MCExtra == {2, 4}

MCSplitPages == {0, 1}

PackageSymmetry == Permutations(MCPackages)
====
