----------------------------- MODULE AtomicStore -----------------------------
(***************************************************************************)
(* The storage contract `writes.atomic`: "A logical mutation completes as  *)
(* a unit or persisted state remains unchanged"                            *)
(* (docs/storage/Data-and-Storage-Architecture.md), with the exception the *)
(* code admits: of a save that failed "the exact on-disk outcome may be    *)
(* uncertain".  Both states give for each record the operation that wrote  *)
(* it last.                                                                *)
(***************************************************************************)
CONSTANTS Key, Op, Base

VARIABLES
  db,      \* the persisted state
  seen,    \* the state that clients are answered from
  status

atomicVars == <<db, seen, status>>

Init ==
  /\ db = [k \in Key |-> Base]
  /\ seen = [k \in Key |-> Base]
  /\ status = [op \in Op |-> "none"]

\* The whole write set of the operation becomes persistent at once, on top of
\* what clients see: an uncertain write that is not seen is written over.
Apply(op, S) ==
  /\ status[op] = "none"
  /\ db' = [k \in Key |-> IF k \in S THEN op ELSE seen[k]]
  /\ status' = [status EXCEPT ![op] = "applied"]
  /\ UNCHANGED seen

Succeed(op) ==
  /\ status[op] = "applied"
  /\ status' = [status EXCEPT ![op] = "ok"]
  /\ seen' = db
  /\ UNCHANGED db

Fail(op) ==
  /\ status[op] = "none"
  /\ status' = [status EXCEPT ![op] = "failed"]
  /\ UNCHANGED <<db, seen>>

\* The write is persistent and is not acknowledged: nobody sees it.
Doubt(op) ==
  /\ status[op] = "applied"
  /\ status' = [status EXCEPT ![op] = "uncertain"]
  /\ UNCHANGED <<db, seen>>

\* A crash takes away the answers that were due, never a write or its half:
\* clients then see what is persistent.
Crash ==
  /\ \E lost \in SUBSET {op \in Op : status[op] \in {"none", "applied"}} :
       status' = [op \in Op |-> IF op \in lost THEN "lost" ELSE status[op]]
  /\ seen' = db
  /\ UNCHANGED db

Next ==
  \/ \E op \in Op :
       (\E S \in SUBSET Key : Apply(op, S)) \/ Succeed(op) \/ Fail(op) \/ Doubt(op)
  \/ Crash

Spec == Init /\ [][Next]_atomicVars
=============================================================================
