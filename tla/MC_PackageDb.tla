---------------------------- MODULE MC_PackageDb ----------------------------
(* MC_FilesIndex's packages, files and databases, with the rest of their  *)
(* metadata.  p1 and p2 share a name, as two versions of one package do;  *)
(* p1 and p2 both require d1, which p3 provides; p2 provides d2; all      *)
(* three are in one group.                                                 *)
EXTENDS MC_FilesIndex, PackageDb

CONSTANTS na, nb, d1, d2, g1

MCNames  == {na, nb}
MCDeps   == {d1, d2}
MCGroups == {g1}

MCNameOf  == (p1 :> na) @@ (p2 :> na) @@ (p3 :> nb)
MCGroupOf == [p \in MCPackages |-> g1]
MCReqsOf  == (p1 :> {d1}) @@ (p2 :> {d1}) @@ (p3 :> {})
MCProvsOf == (p1 :> {}) @@ (p2 :> {d2}) @@ (p3 :> {d1})
====
