------------------------- MODULE MCPasswordRecovery -------------------------
(***************************************************************************)
(* A small instance of PasswordRecovery.  Links, users and calls that have *)
(* not been told apart are interchangeable.                                *)
(***************************************************************************)
EXTENDS PasswordRecovery, TLC
Interchangeable ==
  Permutations(Token) \cup Permutations(User) \cup Permutations(Request) \cup Permutations(Call)
=============================================================================
