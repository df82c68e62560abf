----------------------------- MODULE DeviceGrant -----------------------------
(***************************************************************************)
(* What a native sign-in attempt promises: the user's approval names one   *)
(* account, and turns into one session of that account at most, given to   *)
(* one claim; an attempt that ended without a session never has one.       *)
(***************************************************************************)
CONSTANTS Attempt, Claim, User, NoUser

VARIABLES phase, account, sessions

grantVars == <<phase, account, sessions>>

Init ==
  /\ phase = [a \in Attempt |-> "open"]
  /\ account = [a \in Attempt |-> NoUser]
  /\ sessions = {}

\* Attempts end without a session: expired, cancelled or failed.  A sweep may
\* find several expired in the step of another one.
Ends(ended) == \A a \in ended : phase[a] \in {"open", "approved"}
Ended(p, ended) == [a \in Attempt |-> IF a \in ended THEN "ended" ELSE p[a]]

End(ended) ==
  /\ Ends(ended)
  /\ phase' = Ended(phase, ended)
  /\ UNCHANGED <<account, sessions>>

Approve(a, u, ended) ==
  /\ Ends(ended) /\ a \notin ended
  /\ phase[a] = "open"
  /\ phase' = Ended([phase EXCEPT ![a] = "approved"], ended)
  /\ account' = [account EXCEPT ![a] = u]
  /\ UNCHANGED sessions

\* One of the claims that poll the attempt takes the session.
Redeem(c, a, ended) ==
  /\ Ends(ended) /\ a \notin ended
  /\ phase[a] = "approved"
  /\ phase' = Ended([phase EXCEPT ![a] = "redeemed"], ended)
  /\ sessions' = sessions \cup {<<c, a, account[a]>>}
  /\ UNCHANGED account

Step(ended) ==
  \/ End(ended)
  \/ \E a \in Attempt, u \in User : Approve(a, u, ended)
  \/ \E c \in Claim, a \in Attempt : Redeem(c, a, ended)

Next == \E ended \in SUBSET Attempt : Step(ended)

Spec == Init /\ [][Next]_grantVars
=============================================================================
