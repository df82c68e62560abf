----------------------------- MODULE MCDataStore -----------------------------
(***************************************************************************)
(* Small instances of DataStore; operations and records are                *)
(* interchangeable.                                                        *)
(***************************************************************************)
EXTENDS DataStore, TLC

Interchangeable == Permutations(Key) \cup Permutations(Op)
=============================================================================
