------------------------ MODULE MCPrincipalHierarchy ------------------------
(***************************************************************************)
(* Small instances of PrincipalHierarchy.                                  *)
(***************************************************************************)
EXTENDS PrincipalHierarchy, TLC

Interchangeable == Permutations(Principal)
=============================================================================
