------------------------- MODULE TransactionOutcome -------------------------
(***************************************************************************)
(* What an explicit storage transaction promises its API session: once it  *)
(* is opened it is decided once, as a commit or as a rollback, and nobody  *)
(* but the session that opened it is ever told a result, which is the one  *)
(* that was decided.  TransactionJournal implements this specification.    *)
(***************************************************************************)
CONSTANTS Tx, Owner, NoOwner

VARIABLES outcome, owner, told

Phase == {"commit", "rollback"}

outcomeVars == <<outcome, owner, told>>

Init ==
  /\ outcome = [t \in Tx |-> "unborn"]
  /\ owner = [t \in Tx |-> NoOwner]
  /\ told = [t \in Tx |-> {}]

Open(t, o) ==
  /\ outcome[t] = "unborn"
  /\ outcome' = [outcome EXCEPT ![t] = "open"]
  /\ owner' = [owner EXCEPT ![t] = o]
  /\ UNCHANGED told

\* The decision may be reported in the step that takes it, when nothing is
\* left to run, or in any later step.
Decide(t, p) ==
  /\ outcome[t] = "open"
  /\ outcome' = [outcome EXCEPT ![t] = p]
  /\ \/ UNCHANGED told
     \/ told' = [told EXCEPT ![t] = @ \cup {<<owner[t], p>>}]
  /\ UNCHANGED owner

Tell(t) ==
  /\ outcome[t] \in Phase
  /\ told' = [told EXCEPT ![t] = @ \cup {<<owner[t], outcome[t]>>}]
  /\ UNCHANGED <<outcome, owner>>

Next ==
  \E t \in Tx :
    \/ \E o \in Owner : Open(t, o)
    \/ \E p \in Phase : Decide(t, p)
    \/ Tell(t)

Spec == Init /\ [][Next]_outcomeVars
=============================================================================
