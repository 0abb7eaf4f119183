--------------------------- MODULE MC_PackageSession ---------------------------
(* MC_PackageDb's packages, files and metadata, in database files that    *)
(* are either all missing or all there and empty when the program starts. *)
EXTENDS MC_PackageDb, PackageSession

(* A dbCreate that truncated packages.db and failed on an index leaves a  *)
(* database whose indexes name entries that are gone; the properties are *)
(* checked in that state, and what the caller does with such a database  *)
(* afterwards is not explored.                                             *)
StopAtTornDb == ~torn
====
