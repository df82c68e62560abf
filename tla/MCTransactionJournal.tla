------------------------ MODULE MCTransactionJournal ------------------------
(***************************************************************************)
(* Small instances of TransactionJournal.  Sessions, requests and          *)
(* transactions are interchangeable where no liveness is checked.          *)
(***************************************************************************)
EXTENDS TransactionJournal

Interchangeable == Permutations(Tx) \cup Permutations(Owner) \cup Permutations(Req)
=============================================================================
