------------------------ MODULE MCProviderCredentials ------------------------
(* Two secrets of one client, of which the provider accepts the second.    *)
EXTENDS ProviderCredentials, TLC

CONSTANTS google, old, new

MCPair == {[client |-> "app", secret |-> s] : s \in {old, new}}
MCRight == {<<google, [client |-> "app", secret |-> new]>>}
Symmetry == Permutations(Slot)

\* Bounds.  Sign-ins and the verifier meet the tests of a page only through the
\* record: their steps are not interleaved.  Requests of a page that was left
\* are not followed, and a second test leaves room for one change of records.
Bound ==
  /\ tests # <<>> =>
       /\ verifier = None
       /\ \A r \in Slot :
            request[r] = None \/ request[r].kind \notin {"signin", "delete"}
  /\ \A r \in Slot :
       request[r] # None /\ request[r].kind \in {"start", "poll", "cancel"} =>
         request[r].tab # None
  /\ Len(tests) + writes <= 3
  /\ Len(tests) = 2 =>
       \A r \in Slot : request[r] = None \/ request[r].kind # "other"
=============================================================================
