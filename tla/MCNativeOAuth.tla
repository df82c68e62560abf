---------------------------- MODULE MCNativeOAuth ----------------------------
(***************************************************************************)
(* Small instances of NativeOAuth.                                         *)
(***************************************************************************)
EXTENDS NativeOAuth, TLC

Interchangeable == Permutations(Claim) \cup Permutations(User)
=============================================================================
