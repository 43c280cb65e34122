--------------------------- MODULE MCMemoryStore ---------------------------
(* An instance of the store for TLC: two files, two identifiers, and two    *)
(* results of parsing that share an occurrence and differ in the rest.      *)
EXTENDS MemoryStoreRefinement

CONSTANTS a, b, f1, f2

Occ(n, r) == [name |-> n, row |-> r]
MCPaths == {1, 2}
MCUsagesOf == f1 :> <<Occ(a, 1), Occ(b, 2)>> @@ f2 :> <<Occ(a, 1), Occ(a, 3)>>
MCDeclsOf == f1 :> (a :> 1 @@ b :> 1) @@ f2 :> (a :> 0 @@ b :> 2)
MCComplexityOf == f1 :> 1 @@ f2 :> 2
MCMemoryOf == f1 :> 1 @@ f2 :> 2
=============================================================================
