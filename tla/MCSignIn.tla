------------------------------ MODULE MCSignIn -------------------------------
(***************************************************************************)
(* A small instance of SignIn.                                             *)
(***************************************************************************)
EXTENDS SignIn, TLC
CONSTANTS known, stranger
MCKey == {known, stranger, IpKey, RegisterKey}
MCLimit == [k \in MCKey |-> 2]
MCWindow == [k \in MCKey |-> CASE k = IpKey -> 2 [] k = RegisterKey -> 4 [] OTHER -> 3]
MCUser(e, v, r) == [enabled |-> e, emailVerified |-> v, role |-> r]
MCUsers ==
  {MCUser(TRUE, TRUE, "User"), MCUser(TRUE, TRUE, "Admin"),
   MCUser(FALSE, TRUE, "User"), MCUser(TRUE, FALSE, "User")}
Interchangeable == Permutations(Request)
=============================================================================
