-------------------------- MODULE NativeOAuthProofs --------------------------
(***************************************************************************)
(* What TLAPS proves of NativeOAuth for any number of attempts, claims and *)
(* users, any policy and an unbounded clock: its types, that an attempt    *)
(* gives one confirmed session at most, for the user linked at that        *)
(* moment, that ended attempts stay ended and are given back, and that the *)
(* service implements DeviceGrant.                                         *)
(***************************************************************************)
EXTENDS NativeOAuth, TLAPS

-----------------------------------------------------------------------------
\* What one step does to the statuses.

\* The sweep's part of a public operation.
LEMMA SettledStatus ==
  ASSUME TypeOK, NEW a \in Attempt, NEW st \in Status, Settled({a}, st)
  PROVE  /\ status' = [b \in Attempt |-> IF b = a THEN st
                                  ELSE IF b \in Expired THEN "expired" ELSE status[b]]
         /\ status' \in [Attempt -> Status]
         /\ status'[a] = st
         /\ \A b \in Attempt \ {a} : status'[b] \in {status[b], "expired"}
         /\ \A b \in Attempt \ {a} : status[b] \in Terminal => status'[b] = status[b]
         /\ completedAt' \in [Attempt -> Nat \cup {-1}]
         /\ records' \in SUBSET Attempt
BY DEF Settled, Expired, TypeOK, Status, Terminal, Waiting

LEMMA SweptStatus ==
  ASSUME TypeOK, Settled({}, "expired")
  PROVE  /\ status' = [a \in Attempt |-> IF a \in Expired THEN "expired" ELSE status[a]]
         /\ status' \in [Attempt -> Status]
         /\ \A a \in Attempt : status'[a] \in {status[a], "expired"}
         /\ \A a \in Attempt : status[a] \in Terminal => status'[a] = status[a]
         /\ completedAt' \in [Attempt -> Nat \cup {-1}]
         /\ records' \in SUBSET Attempt
BY DEF Settled, Expired, TypeOK, Status, Terminal, Waiting

LEMMA BecomesStatus ==
  ASSUME TypeOK, NEW a \in Attempt, NEW st \in Status, Becomes(a, st)
  PROVE  /\ status' = [status EXCEPT ![a] = st]
         /\ status' \in [Attempt -> Status]
         /\ completedAt' \in [Attempt -> Nat \cup {-1}]
         /\ records' = records /\ pendingStates' = pendingStates
BY DEF Becomes, TypeOK

\* The outcome of approve().
LEMMA ApproveStatus ==
  ASSUME TypeOK, NEW a \in Attempt, NEW right \in BOOLEAN, Approve(a, right)
  PROVE  \E st \in {"failed", "completed", "awaitingApproval"} :
           /\ Settled({a}, st)
           /\ st = "completed" => confirmed' = confirmed \cup {a}
           /\ st # "completed" => confirmed' = confirmed
           /\ st = "failed" => approvalFailures[a] + 1 > ConfirmationAttempts
           /\ st # "failed" => approvalFailures[a] + 1 <= ConfirmationAttempts
<1> DEFINE tries == approvalFailures[a] + 1
<1>0. tries \in Nat /\ ConfirmationAttempts \in Nat
  BY PolicyAssumption DEF TypeOK
<1>1. CASE ~WithinTries(tries)
  BY <1>0, <1>1 DEF Approve, WithinTries
<1>2. CASE WithinTries(tries) /\ right
  BY <1>0, <1>2 DEF Approve, WithinTries
<1>3. CASE WithinTries(tries) /\ ~right
  BY <1>0, <1>3 DEF Approve, WithinTries
<1> QED
  BY <1>1, <1>2, <1>3

LEMMA FailClaimStatus ==
  ASSUME TypeOK, NEW a \in Attempt, FailClaim(a)
  PROVE  \/ status[a] # "completed" /\ UNCHANGED attemptVars
         \/ \E st \in {"expired", "failed"} : status[a] = "completed" /\ Becomes(a, st)
BY DEF FailClaim

\* Every variable keeps its type.
LEMMA InitTyped == Init => TypeOK
BY PolicyAssumption, AttemptAssumption DEF Init, TypeOK, Status, WithUser

LEMMA NextTyped ==
  ASSUME TypeOK, [Next]_vars
  PROVE  TypeOK'
<1> USE DEF WithUser, envVars, attemptVars, fieldVars, claimVars, historyVars
<1>1. CASE Sweep
  BY <1>1, SweptStatus DEF Sweep, TypeOK
<1>2. ASSUME NEW a \in Attempt, StartAttempt(a) PROVE TypeOK'
  BY <1>2, SweptStatus DEF StartAttempt, TypeOK
<1>3. ASSUME NEW a \in Attempt, RecordAttempt(a) PROVE TypeOK'
  BY <1>3, PolicyAssumption DEF RecordAttempt, TypeOK, Status, Waiting
<1>4. ASSUME NEW a \in Attempt, NEW ok \in BOOLEAN, ReceiveCallback(a, ok) PROVE TypeOK'
  <2>1. PICK st \in {"processing", "failed"} : Settled({a}, st)
    BY <1>4 DEF ReceiveCallback
  <2>2. st \in Status /\ st \notin WithUser
    BY DEF Status, Waiting, Terminal
  <2>3. /\ status' \in [Attempt -> Status]
        /\ status'[a] = st /\ \A b \in Attempt \ {a} : status'[b] \in {status[b], "expired"}
        /\ completedAt' \in [Attempt -> Nat \cup {-1}] /\ records' \in SUBSET Attempt
    BY <2>1, <2>2, SettledStatus
  <2> QED
    BY <1>4, <2>2, <2>3 DEF ReceiveCallback, TypeOK
<1>5. ASSUME NEW a \in Attempt, ReadLink(a) PROVE TypeOK'
  BY <1>5 DEF ReadLink, TypeOK
<1>6. ASSUME NEW a \in Attempt, AwaitApproval(a) PROVE TypeOK'
  <2>1. CASE StillProcessing(a)
    BY <1>6, <2>1, BecomesStatus DEF AwaitApproval, LinkedUser, TypeOK, Status, Waiting
  <2>2. CASE ~StillProcessing(a)
    BY <1>6, <2>2 DEF AwaitApproval, TypeOK
  <2> QED
    BY <2>1, <2>2
<1>7. ASSUME NEW a \in Attempt, FailCallback(a) PROVE TypeOK'
  <2>1. CASE status[a] = "processing"
    BY <1>7, <2>1, BecomesStatus DEF FailCallback, TypeOK, Status, Terminal
  <2>2. CASE status[a] # "processing"
    BY <1>7, <2>2 DEF FailCallback, TypeOK
  <2> QED
    BY <2>1, <2>2
<1>8. ASSUME NEW a \in Attempt, NEW right \in BOOLEAN, Approve(a, right) PROVE TypeOK'
  <2>1. PICK st \in {"failed", "completed", "awaitingApproval"} :
          Settled({a}, st) /\ confirmed' \subseteq confirmed \cup {a}
    BY <1>8, ApproveStatus
  <2>2. approvalFailures' \in [Attempt -> Nat]
    BY <1>8 DEF Approve, TypeOK
  <2>3. st \in Status
    BY DEF Status, Waiting, Terminal
  <2>4. /\ status' \in [Attempt -> Status]
        /\ status'[a] = st /\ \A b \in Attempt \ {a} : status'[b] \in {status[b], "expired"}
        /\ completedAt' \in [Attempt -> Nat \cup {-1}] /\ records' \in SUBSET Attempt
    BY <2>1, <2>3, SettledStatus
  <2> QED
    BY <1>8, <2>1, <2>2, <2>4 DEF Approve, TypeOK
<1>9. ASSUME NEW a \in Attempt, Cancel(a) PROVE TypeOK'
  <2>1. /\ status' \in [Attempt -> Status]
        /\ status'[a] = "cancelled"
        /\ \A b \in Attempt \ {a} : status'[b] \in {status[b], "expired"}
        /\ completedAt' \in [Attempt -> Nat \cup {-1}] /\ records' \in SUBSET Attempt
    <3>1. "cancelled" \in Status
      BY DEF Status, Terminal
    <3> QED
      BY <1>9, <3>1, SettledStatus DEF Cancel
  <2> QED
    BY <1>9, <2>1 DEF Cancel, StateDropped, TypeOK
<1>10. ASSUME NEW c \in Claim, NEW a \in Attempt, StartClaim(c, a) PROVE TypeOK'
  BY <1>10, SweptStatus DEF StartClaim, TypeOK
<1>11. ASSUME NEW c \in Claim, NEW eligible \in BOOLEAN, ReadUser(c, eligible) PROVE TypeOK'
  <2> DEFINE a == claimOf[c]
  <2>1. a \in Attempt
    BY DEF TypeOK
  <2>2. UNCHANGED attemptVars \/ \E st \in {"expired", "failed"} : Becomes(a, st)
    BY <1>11, <2>1, FailClaimStatus DEF ReadUser
  <2> QED
    BY <1>11, <2>1, <2>2, BecomesStatus DEF ReadUser, ClaimGoes, TypeOK, Status, Terminal
<1>12. ASSUME NEW c \in Claim, NEW configured \in BOOLEAN, ReadProvider(c, configured)
       PROVE TypeOK'
  <2>1. CASE ~configured /\ status[claimOf[c]] = "completed"
    BY <1>12, <2>1, BecomesStatus DEF ReadProvider, ClaimGoes, TypeOK, Status, Terminal
  <2>2. CASE ~(~configured /\ status[claimOf[c]] = "completed")
    BY <1>12, <2>2 DEF ReadProvider, ClaimGoes, TypeOK
  <2> QED
    BY <2>1, <2>2
<1>13. ASSUME NEW c \in Claim, Redeem(c) PROVE TypeOK'
  BY <1>13, BecomesStatus DEF Redeem, ClaimGoes, StillLinked, TypeOK, Status, Terminal
<1>14. ASSUME NEW c \in Claim, RefuseClaim(c) PROVE TypeOK'
  <2> DEFINE a == claimOf[c]
  <2>1. a \in Attempt
    BY DEF TypeOK
  <2>2. UNCHANGED attemptVars \/ \E st \in {"expired", "failed"} : Becomes(a, st)
    BY <1>14, <2>1, FailClaimStatus DEF RefuseClaim
  <2> QED
    BY <1>14, <2>1, <2>2, BecomesStatus DEF RefuseClaim, ClaimGoes, TypeOK, Status, Terminal
<1>15. CASE Tick
  BY <1>15 DEF Tick, TypeOK
<1>16. ASSUME NEW u \in User \cup {NoUser}, Relink(u) PROVE TypeOK'
  BY <1>16 DEF Relink, TypeOK
<1>17. CASE UNCHANGED vars
  BY <1>17 DEF vars, TypeOK
<1> QED
  BY <1>1, <1>2, <1>3, <1>4, <1>5, <1>6, <1>7, <1>8, <1>9, <1>10, <1>11, <1>12, <1>13,
     <1>14, <1>15, <1>16, <1>17 DEF Next, AttemptNext, ClaimNext

THEOREM TypeCorrect == Spec => []TypeOK
BY InitTyped, NextTyped, PTL DEF Spec

-----------------------------------------------------------------------------
\* The inductive invariant.  A session is only given by the step that makes a
\* completed attempt redeemed, which is final; an attempt is only completed by
\* the step that confirms it, after which its user and its count of codes do
\* not change, because both are written while it waits.
NewAttempts ==
  /\ \A a \in starting : status[a] = "none"
  /\ \A a \in records : status[a] # "none"

ConfirmedAttempts ==
  /\ \A a \in Attempt : status[a] \in {"completed", "redeemed"} => a \in confirmed
  /\ \A a \in confirmed : /\ status[a] \notin Waiting \cup {"none"}
                          /\ userId[a] \in User
                          /\ approvalFailures[a] <= ConfirmationAttempts

RedeemedSessions ==
  /\ \A x \in sessions : status[x[2]] = "redeemed"
  /\ \A x, y \in sessions : x[2] = y[2] => x = y

NInv == TypeOK /\ NewAttempts /\ ConfirmedAttempts /\ RedeemedSessions

\* How an attempt's status moves without a confirmation or a redemption.
Moves(s, t) ==
  \/ t = s
  \/ s \in Waiting \cup {"none"} /\ t \in Waiting
  \/ s \notin Terminal \ {"failed"} /\ t \in {"failed", "cancelled", "expired"}

FieldsKept ==
  \A b \in Attempt : status[b] \notin Waiting \cup {"none"} =>
                      userId'[b] = userId[b] /\ approvalFailures'[b] = approvalFailures[b]

Quiet ==
  /\ \A b \in Attempt : Moves(status[b], status'[b])
  /\ FieldsKept
  /\ NewAttempts'
  /\ UNCHANGED historyVars

Confirms(a) ==
  /\ status[a] = "awaitingApproval" /\ status'[a] = "completed"
  /\ \A b \in Attempt \ {a} : Moves(status[b], status'[b])
  /\ FieldsKept /\ userId' = userId
  /\ approvalFailures'[a] <= ConfirmationAttempts
  /\ NewAttempts'
  /\ confirmed' = confirmed \cup {a} /\ sessions' = sessions

Redeems(c, a) ==
  /\ status[a] = "completed" /\ status' = [status EXCEPT ![a] = "redeemed"]
  /\ userId' = userId /\ approvalFailures' = approvalFailures
  /\ NewAttempts'
  /\ confirmed' = confirmed /\ sessions' = sessions \cup {<<c, a, userId[a]>>}

\* A public operation moves the statuses of the others only by expiring them.
LEMMA SettledMoves ==
  ASSUME TypeOK, NewAttempts, NEW a \in Attempt, NEW st \in Status, Settled({a}, st)
  PROVE  /\ \A b \in Attempt \ {a} : Moves(status[b], status'[b])
         /\ status'[a] = st
         /\ \A b \in Attempt : status[b] = "none" /\ b # a => status'[b] = "none"
         /\ \A b \in Attempt : status[b] # "none" /\ b # a => status'[b] # "none"
         /\ records' \subseteq records
<1>1. \A b \in Expired : b \in records /\ status[b] \notin Terminal
  BY DEF Expired
<1>2. records' \subseteq records
  BY DEF Settled
<1>3. /\ status' = [b \in Attempt |-> IF b = a THEN st
                                  ELSE IF b \in Expired THEN "expired" ELSE status[b]]
  BY SettledStatus
<1> QED
  BY <1>1, <1>2, <1>3 DEF Moves, NewAttempts, Terminal

LEMMA SweptMoves ==
  ASSUME TypeOK, NewAttempts, Settled({}, "expired")
  PROVE  /\ \A b \in Attempt : Moves(status[b], status'[b])
         /\ \A b \in Attempt : status[b] = "none" <=> status'[b] = "none"
         /\ records' \subseteq records
<1>1. \A b \in Expired : b \in records /\ status[b] \notin Terminal
  BY DEF Expired
<1>2. records' \subseteq records
  BY DEF Settled
<1>3. status' = [b \in Attempt |-> IF b \in Expired THEN "expired" ELSE status[b]]
  BY SweptStatus
<1> QED
  BY <1>1, <1>2, <1>3 DEF Moves, NewAttempts, Terminal

\* An attempt that is not new moves outside a public operation.
LEMMA BecomesMoves ==
  ASSUME TypeOK, NewAttempts, NEW a \in Attempt, NEW st \in Status, Becomes(a, st),
         status[a] # "none", st # "none", Moves(status[a], st), UNCHANGED starting
  PROVE  /\ \A b \in Attempt : Moves(status[b], status'[b])
         /\ NewAttempts'
<1>1. status' = [status EXCEPT ![a] = st] /\ records' = records
  BY BecomesStatus
<1>2. \A b \in Attempt : status'[b] = IF b = a THEN st ELSE status[b]
  BY <1>1 DEF TypeOK
<1> QED
  BY <1>1, <1>2 DEF Moves, NewAttempts, TypeOK

\* Every step moves statuses only, confirms one attempt or redeems one.
LEMMA StepKinds ==
  ASSUME NInv, [Next]_vars
  PROVE  \/ Quiet
         \/ \E a \in Attempt : Confirms(a)
         \/ \E c \in Claim, a \in Attempt : Redeems(c, a)
<1> USE DEF envVars, attemptVars, fieldVars, claimVars, historyVars
<1> TypeOK /\ NewAttempts
  BY DEF NInv
<1>0. \A b \in Attempt : Moves(status[b], status[b])
  BY DEF Moves
<1>1. CASE Sweep
  BY <1>1, SweptMoves DEF Sweep, Quiet, FieldsKept, NewAttempts, TypeOK
<1>2. ASSUME NEW a \in Attempt, StartAttempt(a) PROVE Quiet
  <2>1. status[a] = "none" /\ starting' = starting \cup {a} /\ Settled({}, "expired")
    BY <1>2 DEF StartAttempt
  <2>2. NewAttempts'
    BY <2>1, SweptMoves DEF NewAttempts, TypeOK
  <2> QED
    BY <1>2, <2>1, <2>2, SweptMoves DEF StartAttempt, Quiet, FieldsKept
<1>3. ASSUME NEW a \in Attempt, RecordAttempt(a) PROVE Quiet
  <2>1. status[a] = "none" /\ status' = [status EXCEPT ![a] = "pending"]
    BY <1>3 DEF RecordAttempt, NewAttempts
  <2>2. \A b \in Attempt : status'[b] = IF b = a THEN "pending" ELSE status[b]
    BY <2>1 DEF TypeOK
  <2>3. \A b \in Attempt : Moves(status[b], status'[b])
    BY <2>1, <2>2 DEF Moves, Waiting
  <2>4. NewAttempts'
    BY <1>3, <2>2 DEF RecordAttempt, NewAttempts, TypeOK
  <2> QED
    BY <1>3, <2>3, <2>4 DEF RecordAttempt, Quiet, FieldsKept
<1>4. ASSUME NEW a \in Attempt, NEW ok \in BOOLEAN, ReceiveCallback(a, ok) PROVE Quiet
  <2>1. PICK st \in {"processing", "failed"} : Settled({a}, st)
    BY <1>4 DEF ReceiveCallback
  <2>2. st \in Status /\ status[a] = "pending" /\ Moves(status[a], st)
    BY <1>4 DEF ReceiveCallback, Status, Waiting, Terminal, Moves
  <2>3. /\ \A b \in Attempt : Moves(status[b], status'[b])
        /\ \A b \in Attempt : status[b] = "none" <=> status'[b] = "none"
        /\ records' \subseteq records
    BY <2>1, <2>2, SettledMoves
  <2> QED
    BY <1>4, <2>3 DEF ReceiveCallback, Quiet, FieldsKept, NewAttempts, TypeOK
<1>5. ASSUME NEW a \in Attempt, ReadLink(a) PROVE Quiet
  BY <1>0, <1>5 DEF ReadLink, Quiet, FieldsKept, NewAttempts
<1>6. ASSUME NEW a \in Attempt, AwaitApproval(a) PROVE Quiet
  <2>1. CASE StillProcessing(a)
    <3>1. /\ status[a] = "processing" /\ Becomes(a, "awaitingApproval")
          /\ userId' = [userId EXCEPT ![a] = LinkedUser(a)]
      BY <1>6, <2>1 DEF AwaitApproval, StillProcessing
    <3>2. "awaitingApproval" \in Status /\ Moves("processing", "awaitingApproval")
      BY DEF Status, Waiting, Moves
    <3>3. (\A b \in Attempt : Moves(status[b], status'[b])) /\ NewAttempts'
      BY <1>6, <3>1, <3>2, BecomesMoves DEF AwaitApproval
    <3>4. FieldsKept
      BY <1>6, <3>1 DEF AwaitApproval, FieldsKept, Waiting, TypeOK
    <3> QED
      BY <1>6, <3>3, <3>4 DEF AwaitApproval, Quiet
  <2>2. CASE ~StillProcessing(a)
    BY <1>0, <1>6, <2>2 DEF AwaitApproval, Quiet, FieldsKept, NewAttempts
  <2> QED
    BY <2>1, <2>2
<1>7. ASSUME NEW a \in Attempt, FailCallback(a) PROVE Quiet
  <2>1. CASE status[a] = "processing"
    <3>1. "failed" \in Status /\ Moves("processing", "failed")
      BY DEF Status, Terminal, Moves
    <3>2. (\A b \in Attempt : Moves(status[b], status'[b])) /\ NewAttempts'
      BY <1>7, <2>1, <3>1, BecomesMoves DEF FailCallback
    <3> QED
      BY <1>7, <3>2 DEF FailCallback, Quiet, FieldsKept
  <2>2. CASE status[a] # "processing"
    BY <1>0, <1>7, <2>2 DEF FailCallback, Quiet, FieldsKept, NewAttempts
  <2> QED
    BY <2>1, <2>2
<1>8. ASSUME NEW a \in Attempt, NEW right \in BOOLEAN, Approve(a, right)
      PROVE  Quiet \/ Confirms(a)
  <2>1. PICK st \in {"failed", "completed", "awaitingApproval"} :
          /\ Settled({a}, st)
          /\ st = "completed" => confirmed' = confirmed \cup {a}
          /\ st # "completed" => confirmed' = confirmed
          /\ st # "failed" => approvalFailures[a] + 1 <= ConfirmationAttempts
    BY <1>8, ApproveStatus
  <2>2. st \in Status /\ status[a] = "awaitingApproval"
    BY <1>8 DEF Approve, Status, Waiting, Terminal
  <2>3. /\ \A b \in Attempt \ {a} : Moves(status[b], status'[b])
        /\ status'[a] = st
        /\ \A b \in Attempt : status[b] = "none" <=> status'[b] = "none"
        /\ records' \subseteq records
    BY <2>1, <2>2, SettledMoves
  <2>4. NewAttempts'
    BY <1>8, <2>3 DEF Approve, NewAttempts, TypeOK
  <2>5. /\ userId' = userId /\ sessions' = sessions
        /\ approvalFailures' = [approvalFailures EXCEPT ![a] = approvalFailures[a] + 1]
    BY <1>8 DEF Approve
  <2>6. FieldsKept
    BY <2>2, <2>5 DEF FieldsKept, Waiting, TypeOK
  <2>7. CASE st = "completed"
    BY <2>1, <2>2, <2>3, <2>4, <2>5, <2>6, <2>7 DEF Confirms, TypeOK
  <2>8. CASE st # "completed"
    <3>1. Moves(status[a], status'[a])
      BY <2>2, <2>3, <2>8 DEF Moves, Waiting, Terminal
    <3> QED
      BY <2>1, <2>3, <2>4, <2>5, <2>6, <2>8, <3>1 DEF Quiet
  <2> QED
    BY <2>7, <2>8
<1>9. ASSUME NEW a \in Attempt, Cancel(a) PROVE Quiet
  <2>1. "cancelled" \in Status /\ Moves(status[a], "cancelled") /\ status[a] # "none"
    BY <1>9 DEF Cancel, Live, NewAttempts, Status, Terminal, Moves
  <2>2. /\ \A b \in Attempt : Moves(status[b], status'[b])
        /\ \A b \in Attempt : status[b] = "none" <=> status'[b] = "none"
        /\ records' \subseteq records
    BY <1>9, <2>1, SettledMoves DEF Cancel
  <2> QED
    BY <1>9, <2>2 DEF Cancel, Quiet, FieldsKept, NewAttempts, TypeOK
<1>10. ASSUME NEW c \in Claim, NEW a \in Attempt, StartClaim(c, a) PROVE Quiet
  BY <1>10, SweptMoves DEF StartClaim, Quiet, FieldsKept, NewAttempts, TypeOK
\* A claim that ends without a session.
<1>11. ASSUME NEW a \in Attempt, UNCHANGED <<starting, fieldVars, historyVars>>,
              \/ UNCHANGED attemptVars
              \/ \E st \in {"expired", "failed"} : status[a] = "completed" /\ Becomes(a, st)
       PROVE  Quiet
  <2>1. CASE UNCHANGED attemptVars
    BY <1>0, <1>11, <2>1 DEF Quiet, FieldsKept, NewAttempts
  <2>2. ASSUME NEW st \in {"expired", "failed"}, status[a] = "completed", Becomes(a, st)
        PROVE  Quiet
    <3>1. st \in Status /\ Moves("completed", st)
      BY DEF Status, Terminal, Moves
    <3>2. (\A b \in Attempt : Moves(status[b], status'[b])) /\ NewAttempts'
      BY <1>11, <2>2, <3>1, BecomesMoves
    <3> QED
      BY <1>11, <3>2 DEF Quiet, FieldsKept
  <2> QED
    BY <1>11, <2>1, <2>2
<1>12. ASSUME NEW c \in Claim, NEW eligible \in BOOLEAN, ReadUser(c, eligible) PROVE Quiet
  <2>1. claimOf[c] \in Attempt
    BY DEF TypeOK
  <2>2. UNCHANGED attemptVars \/ FailClaim(claimOf[c])
    BY <1>12 DEF ReadUser
  <2> QED
    BY <1>11, <1>12, <2>1, <2>2, FailClaimStatus DEF ReadUser, ClaimGoes
<1>13. ASSUME NEW c \in Claim, NEW configured \in BOOLEAN, ReadProvider(c, configured)
       PROVE  Quiet
  <2>1. claimOf[c] \in Attempt
    BY DEF TypeOK
  <2> QED
    BY <1>11, <1>13, <2>1 DEF ReadProvider, ClaimGoes
<1>14. ASSUME NEW c \in Claim, Redeem(c) PROVE Redeems(c, claimOf[c])
  <2>1. claimOf[c] \in Attempt /\ "redeemed" \in Status
    BY DEF TypeOK, Status, Terminal
  <2>2. Becomes(claimOf[c], "redeemed") /\ status[claimOf[c]] = "completed"
    BY <1>14 DEF Redeem, Redeemable
  <2>3. status' = [status EXCEPT ![claimOf[c]] = "redeemed"] /\ records' = records
    BY <2>1, <2>2, BecomesStatus
  <2>4. NewAttempts'
    BY <1>14, <2>2, <2>3 DEF Redeem, ClaimGoes, NewAttempts, TypeOK
  <2> QED
    BY <1>14, <2>2, <2>3, <2>4 DEF Redeem, ClaimGoes, Redeems
<1>15. ASSUME NEW c \in Claim, RefuseClaim(c) PROVE Quiet
  <2>1. claimOf[c] \in Attempt
    BY DEF TypeOK
  <2>2. \/ status[claimOf[c]] = "completed" /\ Becomes(claimOf[c], "expired")
        \/ FailClaim(claimOf[c])
    BY <1>15 DEF RefuseClaim
  <2> QED
    BY <1>11, <1>15, <2>1, <2>2, FailClaimStatus DEF RefuseClaim, ClaimGoes
<1>16. CASE Tick
  BY <1>0, <1>16 DEF Tick, Quiet, FieldsKept, NewAttempts
<1>17. ASSUME NEW u \in User \cup {NoUser}, Relink(u) PROVE Quiet
  BY <1>0, <1>17 DEF Relink, Quiet, FieldsKept, NewAttempts
<1>18. CASE UNCHANGED vars
  BY <1>0, <1>18 DEF vars, Quiet, FieldsKept, NewAttempts
<1>19. ASSUME NEW c \in Claim, Redeem(c)
       PROVE  \E a \in Attempt : Redeems(c, a)
  BY <1>14, <1>19 DEF TypeOK
<1>20. ASSUME NEW a \in Attempt, AttemptNext(a) PROVE Quiet \/ Confirms(a)
  BY <1>2, <1>3, <1>4, <1>5, <1>6, <1>7, <1>8, <1>9, <1>20 DEF AttemptNext
<1>21. ASSUME NEW c \in Claim, ClaimNext(c)
       PROVE  Quiet \/ \E a \in Attempt : Redeems(c, a)
  BY <1>10, <1>12, <1>13, <1>15, <1>19, <1>21 DEF ClaimNext
<1> QED
  BY <1>1, <1>16, <1>17, <1>18, <1>20, <1>21 DEF Next

-----------------------------------------------------------------------------
\* The invariant is inductive.
LEMMA InitNInv == Init => NInv
<1> SUFFICES ASSUME Init PROVE NInv
  OBVIOUS
<1> QED
  BY InitTyped DEF Init, NInv, NewAttempts, ConfirmedAttempts, RedeemedSessions

LEMMA NextNInv ==
  ASSUME NInv, [Next]_vars
  PROVE  NInv'
<1>0. TypeOK /\ TypeOK' /\ confirmed \subseteq Attempt
  BY NextTyped DEF NInv, TypeOK
<1>1. \A x \in sessions : x[2] \in Attempt
  BY <1>0 DEF TypeOK
<1>2. CASE Quiet
  <2>1. \A b \in Attempt : status'[b] \in {"completed", "redeemed"} => status[b] = status'[b]
    BY <1>2 DEF Quiet, Moves, Waiting
  <2>2. \A b \in Attempt : status[b] \notin Waiting \cup {"none"}
                          => status'[b] \notin Waiting \cup {"none"}
    BY <1>2 DEF Quiet, Moves, Waiting
  <2>3. \A b \in Attempt : status[b] = "redeemed" => status'[b] = "redeemed"
    BY <1>2 DEF Quiet, Moves, Waiting, Terminal
  <2>4. ConfirmedAttempts'
    BY <1>0, <1>2, <2>1, <2>2 DEF NInv, Quiet, FieldsKept, ConfirmedAttempts, historyVars
  <2>5. RedeemedSessions'
    BY <1>1, <1>2, <2>3 DEF NInv, Quiet, RedeemedSessions, historyVars
  <2> QED
    BY <1>0, <1>2, <2>4, <2>5 DEF NInv, Quiet
<1>3. ASSUME NEW a \in Attempt, Confirms(a) PROVE NInv'
  <2>1. \A b \in Attempt \ {a} :
          status'[b] \in {"completed", "redeemed"} => status[b] = status'[b]
    BY <1>3 DEF Confirms, Moves, Waiting
  <2>2. \A b \in Attempt : status[b] \notin Waiting \cup {"none"}
                          => status'[b] \notin Waiting \cup {"none"}
    BY <1>3 DEF Confirms, Moves, Waiting
  <2>3. \A b \in Attempt : status[b] = "redeemed" => status'[b] = "redeemed"
    BY <1>3 DEF Confirms, Moves, Waiting, Terminal
  <2>4. userId'[a] \in User /\ status'[a] \notin Waiting \cup {"none"}
    BY <1>0, <1>3 DEF Confirms, TypeOK, WithUser, Waiting
  <2>5. \A b \in confirmed' : /\ status'[b] \notin Waiting \cup {"none"}
                              /\ userId'[b] \in User
                              /\ approvalFailures'[b] <= ConfirmationAttempts
    BY <1>0, <1>3, <2>2, <2>4 DEF NInv, Confirms, FieldsKept, ConfirmedAttempts
  <2>6. ConfirmedAttempts'
    BY <1>0, <1>3, <2>1, <2>5 DEF NInv, Confirms, ConfirmedAttempts
  <2>7. RedeemedSessions'
    BY <1>1, <1>3, <2>3 DEF NInv, Confirms, RedeemedSessions
  <2> QED
    BY <1>0, <1>3, <2>6, <2>7 DEF NInv, Confirms
<1>4. ASSUME NEW c \in Claim, NEW a \in Attempt, Redeems(c, a) PROVE NInv'
  <2>1. \A b \in Attempt : status'[b] = IF b = a THEN "redeemed" ELSE status[b]
    BY <1>0, <1>4 DEF Redeems, TypeOK
  <2>2. ConfirmedAttempts'
    BY <1>0, <1>4, <2>1 DEF NInv, Redeems, ConfirmedAttempts, Waiting
  <2>3. \A x \in sessions : x[2] # a
    BY <1>4 DEF NInv, Redeems, RedeemedSessions
  <2>4. RedeemedSessions'
    BY <1>1, <1>4, <2>1, <2>3 DEF NInv, Redeems, RedeemedSessions
  <2> QED
    BY <1>0, <1>4, <2>2, <2>4 DEF NInv, Redeems
<1> QED
  BY <1>2, <1>3, <1>4, StepKinds

THEOREM NInvHolds == Spec => []NInv
BY InitNInv, NextNInv, PTL DEF Spec

-----------------------------------------------------------------------------
\* However claims, callbacks, approvals, cancellations and sweeps interleave,
\* an attempt gives one session at most, and a confirmed one.
THEOREM OneConfirmedSessionHolds == Spec => []OneConfirmedSession
<1>1. NInv => OneConfirmedSession
  BY DEF NInv, TypeOK, ConfirmedAttempts, RedeemedSessions, OneConfirmedSession
<1> QED
  BY <1>1, NInvHolds, PTL

\* No attempt is confirmed after more codes than the policy allows.
THEOREM CodesAreLimitedHolds == Spec => []CodesAreLimited
<1>1. NInv => CodesAreLimited
  BY DEF NInv, ConfirmedAttempts, CodesAreLimited
<1> QED
  BY <1>1, NInvHolds, PTL

\* An attempt that has ended stays ended, and only a failed one can change its
\* ending.
THEOREM EndedStaysEndedHolds == Spec => EndedStaysEnded
<1> DEFINE Kept == \A a \in Attempt :
      /\ status[a] \in Terminal => status'[a] \in Terminal
      /\ status[a] \in Terminal \ {"failed"} => status'[a] = status[a]
<1>1. ASSUME NInv, [Next]_vars PROVE Kept
  <2>0. TypeOK
    BY <1>1 DEF NInv
  <2>1. CASE Quiet
    BY <2>1 DEF Quiet, Moves, Waiting, Terminal
  <2>2. ASSUME NEW a \in Attempt, Confirms(a) PROVE Kept
    BY <2>2 DEF Confirms, Moves, Waiting, Terminal
  <2>3. ASSUME NEW c \in Claim, NEW a \in Attempt, Redeems(c, a) PROVE Kept
    BY <2>0, <2>3 DEF Redeems, Terminal, TypeOK
  <2> QED
    BY <1>1, <2>1, <2>2, <2>3, StepKinds
<1>2. NInv /\ [Next]_vars => [Kept]_vars
  BY <1>1
<1> QED
  BY <1>2, NInvHolds, PTL DEF Spec, EndedStaysEnded

-----------------------------------------------------------------------------
\* The two maps.  What the property says of records, said of every attempt: a
\* forgotten one has ended, and one that has not started has no date.
Exact(a) ==
  /\ a \in pendingStates <=> status[a] = "pending"
  /\ status[a] \in Terminal <=> completedAt[a] # -1
  /\ status[a] \notin Terminal \cup {"none"} => a \in records

AllExact == \A a \in Attempt : Exact(a)

\* A public operation that sweeps and settles the attempts in S.
LEMMA SettledExact ==
  ASSUME TypeOK, AllExact, NEW S \in SUBSET Live, NEW st \in Status \ {"none", "pending"},
         \A a \in S : st \in Terminal \/ status[a] \notin Terminal,
         Settled(S, st),
         \A b \in Attempt : b \in pendingStates' <=>
                             b \in pendingStates \ (S \cup Expired \cup Forgotten)
  PROVE  AllExact'
<1> SUFFICES ASSUME NEW b \in Attempt PROVE Exact(b)'
  BY DEF AllExact
<1>1. /\ status'[b] = IF b \in S THEN st ELSE IF b \in Expired THEN "expired" ELSE status[b]
      /\ completedAt'[b] = IF b \in Expired \cup S /\ status'[b] \in Terminal
                           THEN now ELSE completedAt[b]
      /\ records' = records \ Forgotten
  BY DEF Settled
<1>2. Exact(b) /\ now # -1 /\ now \in Nat
  BY DEF AllExact, TypeOK
<1>3. CASE b \in S
  <2>1. b \in records \ Forgotten
    BY <1>3 DEF Live
  <2> QED
    BY <1>1, <1>2, <1>3, <2>1 DEF Exact
<1>4. CASE b \in Expired \ S
  <2>1. b \in records /\ "expired" \in Terminal
    BY <1>4 DEF Expired, Terminal
  <2> QED
    BY <1>1, <1>2, <1>4, <2>1 DEF Exact, Terminal
<1>5. CASE b \notin S \cup Expired
  <2>1. b \in Forgotten => status[b] \in Terminal
    BY <1>2 DEF Forgotten, Exact
  <2> QED
    BY <1>1, <1>2, <1>5, <2>1 DEF Exact, Terminal
<1> QED
  BY <1>3, <1>4, <1>5

\* An answer that comes after an await.
LEMMA BecomesExact ==
  ASSUME TypeOK, AllExact, NEW a \in Attempt, NEW st \in Status \ {"none", "pending"},
         status[a] \notin Terminal \cup {"none", "pending"}, Becomes(a, st)
  PROVE  AllExact'
<1> SUFFICES ASSUME NEW b \in Attempt PROVE Exact(b)'
  BY DEF AllExact
<1>1. /\ status'[b] = IF b = a THEN st ELSE status[b]
      /\ completedAt'[b] = IF b = a /\ st \in Terminal THEN now ELSE completedAt[b]
      /\ records' = records /\ pendingStates' = pendingStates
  BY DEF Becomes, TypeOK
<1>2. Exact(a) /\ Exact(b) /\ now # -1
  BY DEF AllExact, TypeOK
<1> QED
  BY <1>1, <1>2 DEF Exact

LEMMA NextExact ==
  ASSUME NInv, AllExact, [Next]_vars
  PROVE  AllExact'
<1> USE DEF envVars, attemptVars, fieldVars, claimVars, historyVars
<1> TypeOK /\ NewAttempts
  BY DEF NInv
<1>0. ASSUME UNCHANGED attemptVars PROVE AllExact'
  BY <1>0 DEF AllExact, Exact
<1>1. ASSUME Settled({}, "expired"), pendingStates' = pendingStates \ (Expired \cup Forgotten)
      PROVE  AllExact'
  <2>1. "expired" \in Status \ {"none", "pending"} /\ {} \in SUBSET Live
    BY DEF Status, Terminal
  <2> QED
    BY <1>1, <2>1, SettledExact
<1>2. ASSUME NEW a \in Attempt, RecordAttempt(a) PROVE AllExact'
  <2>1. status[a] = "none" /\ Exact(a)
    BY <1>2 DEF RecordAttempt, NewAttempts, AllExact
  <2>2. ASSUME NEW b \in Attempt PROVE Exact(b)'
    BY <1>2, <2>1, <2>2 DEF RecordAttempt, AllExact, Exact, TypeOK, Terminal
  <2> QED
    BY <2>2 DEF AllExact
<1>3. ASSUME NEW a \in Attempt, NEW ok \in BOOLEAN, ReceiveCallback(a, ok) PROVE AllExact'
  <2>1. PICK st \in {"processing", "failed"} : Settled({a}, st)
    BY <1>3 DEF ReceiveCallback
  <2>2. st \in Status \ {"none", "pending"} /\ {a} \in SUBSET Live
    BY <1>3 DEF ReceiveCallback, Status, Waiting, Terminal
  <2>3. status[a] \notin Terminal
        /\ pendingStates' = pendingStates \ ({a} \cup Expired \cup Forgotten)
    BY <1>3 DEF ReceiveCallback, Terminal
  <2> QED
    BY <2>1, <2>2, <2>3, SettledExact
<1>4. ASSUME NEW a \in Attempt, AwaitApproval(a) PROVE AllExact'
  <2>1. "awaitingApproval" \in Status \ {"none", "pending"}
    BY DEF Status, Waiting
  <2>2. CASE StillProcessing(a)
    BY <1>4, <2>1, <2>2, BecomesExact DEF AwaitApproval, StillProcessing, Terminal
  <2>3. CASE ~StillProcessing(a)
    BY <1>0, <1>4, <2>3 DEF AwaitApproval
  <2> QED
    BY <2>2, <2>3
<1>5. ASSUME NEW a \in Attempt, FailCallback(a) PROVE AllExact'
  <2>1. "failed" \in Status \ {"none", "pending"}
    BY DEF Status, Terminal
  <2>2. CASE status[a] = "processing"
    BY <1>5, <2>1, <2>2, BecomesExact DEF FailCallback, Terminal
  <2>3. CASE status[a] # "processing"
    BY <1>0, <1>5, <2>3 DEF FailCallback
  <2> QED
    BY <2>2, <2>3
<1>6. ASSUME NEW a \in Attempt, NEW right \in BOOLEAN, Approve(a, right) PROVE AllExact'
  <2>1. PICK st \in {"failed", "completed", "awaitingApproval"} : Settled({a}, st)
    BY <1>6, ApproveStatus
  <2>2. st \in Status \ {"none", "pending"} /\ {a} \in SUBSET Live
    BY <1>6 DEF Approve, Status, Waiting, Terminal
  <2>3. status[a] = "awaitingApproval"
        /\ pendingStates' = pendingStates \ (Expired \cup Forgotten)
    BY <1>6 DEF Approve
  <2>4. a \notin pendingStates /\ status[a] \notin Terminal
    BY <2>3 DEF AllExact, Exact, Terminal
  <2> QED
    BY <2>1, <2>2, <2>3, <2>4, SettledExact
<1>7. ASSUME NEW a \in Attempt, Cancel(a) PROVE AllExact'
  <2>1. "cancelled" \in Terminal /\ "cancelled" \in Status \ {"none", "pending"}
    BY DEF Status, Terminal
  <2>2. {a} \in SUBSET Live /\ Settled({a}, "cancelled")
        /\ pendingStates' = pendingStates \ ({a} \cup Expired \cup Forgotten)
    BY <1>7 DEF Cancel, StateDropped
  <2> QED
    BY <2>1, <2>2, SettledExact
\* A claim that ends its attempt, or leaves it.
<1>8. ASSUME NEW a \in Attempt,
             \/ UNCHANGED attemptVars
             \/ \E st \in {"expired", "failed", "redeemed"} :
                  status[a] = "completed" /\ Becomes(a, st)
      PROVE  AllExact'
  <2>1. \A st \in {"expired", "failed", "redeemed"} : st \in Status \ {"none", "pending"}
    BY DEF Status, Terminal
  <2> QED
    BY <1>0, <1>8, <2>1, BecomesExact DEF Terminal
<1>9. \A c \in Claim : claimOf[c] \in Attempt
  BY DEF TypeOK
<1>10. ASSUME NEW c \in Claim, NEW eligible \in BOOLEAN, ReadUser(c, eligible) PROVE AllExact'
  <2>1. UNCHANGED attemptVars \/ FailClaim(claimOf[c])
    BY <1>10 DEF ReadUser
  <2> QED
    BY <1>8, <1>9, <2>1, FailClaimStatus
<1>11. ASSUME NEW c \in Claim, NEW configured \in BOOLEAN, ReadProvider(c, configured)
       PROVE  AllExact'
  BY <1>8, <1>9, <1>11 DEF ReadProvider
<1>12. ASSUME NEW c \in Claim, Redeem(c) PROVE AllExact'
  BY <1>8, <1>9, <1>12 DEF Redeem, Redeemable
<1>13. ASSUME NEW c \in Claim, RefuseClaim(c) PROVE AllExact'
  <2>1. \/ status[claimOf[c]] = "completed" /\ Becomes(claimOf[c], "expired")
        \/ FailClaim(claimOf[c])
    BY <1>13 DEF RefuseClaim
  <2> QED
    BY <1>8, <1>9, <2>1, FailClaimStatus
<1>14. ASSUME NEW a \in Attempt, AttemptNext(a) PROVE AllExact'
  BY <1>0, <1>1, <1>2, <1>3, <1>4, <1>5, <1>6, <1>7, <1>14
  DEF AttemptNext, StartAttempt, ReadLink
<1>15. ASSUME NEW c \in Claim, ClaimNext(c) PROVE AllExact'
  BY <1>1, <1>10, <1>11, <1>12, <1>13, <1>15 DEF ClaimNext, StartClaim
<1> QED
  BY <1>0, <1>1, <1>14, <1>15 DEF Next, Sweep, Tick, Relink, vars

\* Memory is given back, whatever the order of cancellations, expiries and late
\* answers: only an attempt that waits for its browser has a live provider
\* state, and whatever ended has the date from which it is forgotten.
THEOREM StateMapsAreExactHolds == Spec => []StateMapsAreExact
<1>1. Init => AllExact
  BY DEF Init, AllExact, Exact, Terminal
<1>2. NInv /\ AllExact => StateMapsAreExact
  BY DEF NInv, TypeOK, AllExact, Exact, StateMapsAreExact, Terminal
<1> QED
  BY <1>1, <1>2, NInvHolds, NextExact, PTL DEF Spec

\* A session is for the user the identity is linked to when it is issued, and
\* for an attempt that has not run out of time.
THEOREM SessionsAreLinkedHold == Spec => SessionsAreLinked
<1> DEFINE Linked == \A x \in sessions' \ sessions : x[3] = link /\ now < expiresAt[x[2]]
<1>1. ASSUME NInv, [Next]_vars PROVE Linked
  <2> USE DEF envVars, attemptVars, fieldVars, claimVars, historyVars
  <2>0. TypeOK
    BY <1>1 DEF NInv
  <2>1. ASSUME NEW c \in Claim, Redeem(c) PROVE Linked
    <3>1. /\ sessions' = sessions \cup {<<c, claimOf[c], userId[claimOf[c]]>>}
          /\ link = userId[claimOf[c]] /\ expiresAt[claimOf[c]] > now
      BY <2>1 DEF Redeem, StillLinked, Redeemable
    <3>2. now \in Nat /\ expiresAt[claimOf[c]] \in Nat
      BY <2>0 DEF TypeOK
    <3> QED
      BY <3>1, <3>2
  <2>2. ASSUME sessions' = sessions PROVE Linked
    BY <2>2
  <2>3. ASSUME NEW a \in Attempt, AttemptNext(a) PROVE sessions' = sessions
    BY <2>3 DEF AttemptNext, StartAttempt, RecordAttempt, ReceiveCallback, ReadLink,
                AwaitApproval, FailCallback, Approve, Cancel
  <2>4. ASSUME NEW c \in Claim, ClaimNext(c) PROVE Linked
    BY <2>1, <2>2, <2>4 DEF ClaimNext, StartClaim, ReadUser, ReadProvider, RefuseClaim
  <2> QED
    BY <1>1, <2>2, <2>3, <2>4 DEF Next, Sweep, Tick, Relink, vars
<1>2. NInv /\ [Next]_vars => [Linked]_vars
  BY <1>1
<1> QED
  BY <1>2, NInvHolds, PTL DEF Spec, SessionsAreLinked

-----------------------------------------------------------------------------
\* The refinement of DeviceGrant.
phaseMap == [a \in Attempt |-> Phase(a)]
accountMap == [a \in Attempt |-> IF a \in confirmed THEN userId[a] ELSE NoUser]

\* A status that only moves takes its phase to "ended", or keeps it.
LEMMA MovesPhase ==
  ASSUME NEW a \in Attempt, Moves(status[a], status'[a]), status[a] \in Status
  PROVE  \/ Phase(a)' = Phase(a)
         \/ Phase(a) \in {"open", "approved"} /\ Phase(a)' = "ended"
BY DEF Moves, Phase, Status, Waiting, Terminal

LEMMA QuietGrant ==
  ASSUME NInv, Quiet
  PROVE  Grant!Next
<1> DEFINE S == {a \in Attempt : phaseMap'[a] # phaseMap[a]}
<1>1. \A a \in Attempt :
        \/ Phase(a)' = Phase(a)
        \/ Phase(a) \in {"open", "approved"} /\ Phase(a)' = "ended"
  <2>1. \A a \in Attempt : Moves(status[a], status'[a]) /\ status[a] \in Status
    BY DEF NInv, TypeOK, Quiet
  <2> QED
    BY <2>1, MovesPhase
<1>2. S \in SUBSET Attempt
  OBVIOUS
<1>3. \A a \in S : phaseMap[a] \in {"open", "approved"}
  BY <1>1 DEF phaseMap
<1>4. phaseMap' = [a \in Attempt |-> IF a \in S THEN "ended" ELSE phaseMap[a]]
  BY <1>1 DEF phaseMap
<1>5. accountMap' = accountMap
  <2>1. \A a \in confirmed : userId'[a] = userId[a]
    BY DEF NInv, TypeOK, Quiet, FieldsKept, ConfirmedAttempts
  <2> QED
    BY <2>1 DEF accountMap, Quiet, historyVars
<1>6. sessions' = sessions
  BY DEF Quiet, historyVars
<1> HIDE DEF S
<1>7. Grant!End(S)
  BY <1>3, <1>4, <1>5, <1>6
  DEF Grant!End, Grant!Ends, Grant!Ended, phaseMap, accountMap
<1> QED
  BY <1>2, <1>7 DEF Grant!Next, Grant!Step

LEMMA ConfirmsGrant ==
  ASSUME NInv, NEW a \in Attempt, Confirms(a)
  PROVE  Grant!Next
<1>0. PICK S \in SUBSET Attempt : S = {b \in Attempt \ {a} : phaseMap'[b] # phaseMap[b]}
  OBVIOUS
<1>1. \A b \in Attempt \ {a} :
        \/ Phase(b)' = Phase(b)
        \/ Phase(b) \in {"open", "approved"} /\ Phase(b)' = "ended"
  <2>1. \A b \in Attempt \ {a} : Moves(status[b], status'[b]) /\ status[b] \in Status
    BY DEF NInv, TypeOK, Confirms
  <2> QED
    BY <2>1, MovesPhase
<1>2. a \notin S
  BY <1>0
<1>3. \A b \in S : phaseMap[b] \in {"open", "approved"}
  BY <1>0, <1>1 DEF phaseMap
<1>4. phaseMap[a] = "open" /\ phaseMap'[a] = "approved"
  BY DEF Confirms, phaseMap, Phase, Waiting
<1>5. phaseMap' = [b \in Attempt |->
        IF b \in S THEN "ended" ELSE [phaseMap EXCEPT ![a] = "approved"][b]]
  BY <1>0, <1>1, <1>4 DEF phaseMap
<1>6. PICK u \in User : u = userId[a]
  BY DEF NInv, TypeOK, Confirms, WithUser
<1>7. accountMap' = [accountMap EXCEPT ![a] = u]
  BY <1>6 DEF accountMap, Confirms
<1>8. sessions' = sessions
  BY DEF Confirms
<1>9. Grant!Approve(a, u, S)
  BY <1>2, <1>3, <1>4, <1>5, <1>7, <1>8
  DEF Grant!Approve, Grant!Ends, Grant!Ended, phaseMap, accountMap
<1>10. Grant!Step(S)
  BY <1>9 DEF Grant!Step
<1> QED
  BY <1>10 DEF Grant!Next

LEMMA RedeemsGrant ==
  ASSUME NInv, NEW c \in Claim, NEW a \in Attempt, Redeems(c, a)
  PROVE  Grant!Next
<1> DEFINE S == {b \in Attempt : FALSE}
<1>1. \A b \in Attempt : status'[b] = IF b = a THEN "redeemed" ELSE status[b]
  BY DEF NInv, TypeOK, Redeems
<1>2. phaseMap[a] = "approved" /\ phaseMap'[a] = "redeemed"
  BY <1>1 DEF Redeems, phaseMap, Phase, Waiting
<1>3. \A b \in Attempt \ {a} : phaseMap'[b] = phaseMap[b]
  BY <1>1 DEF phaseMap, Phase
<1>4. S \in SUBSET Attempt /\ \A b \in Attempt : b \notin S
  OBVIOUS
<1>5. S \subseteq Attempt /\ \A b \in S : b \in Attempt
  OBVIOUS
<1> HIDE DEF S
<1>6. phaseMap' = [b \in Attempt |->
        IF b \in S THEN "ended" ELSE [phaseMap EXCEPT ![a] = "redeemed"][b]]
  BY <1>2, <1>3, <1>4 DEF phaseMap
<1>7. accountMap' = accountMap
  BY DEF accountMap, Redeems
<1>8. accountMap[a] = userId[a]
  BY DEF NInv, ConfirmedAttempts, Redeems, accountMap
<1>9. sessions' = sessions \cup {<<c, a, userId[a]>>}
  BY DEF Redeems
<1>10. Grant!Redeem(c, a, S)
  BY <1>2, <1>4, <1>5, <1>6, <1>7, <1>8, <1>9
  DEF Grant!Redeem, Grant!Ends, Grant!Ended, phaseMap, accountMap
<1> QED
  BY <1>4, <1>10 DEF Grant!Next, Grant!Step

\* The service implements DeviceGrant: the approval names one account, and is
\* redeemed once, by one claim and for that account: a second redemption of
\* the attempt would be a step of no action of DeviceGrant.
THEOREM NativeImplementsGrant == Spec => GrantSpec
<1>1. Init => Grant!Init
  BY DEF Init, Grant!Init, Phase
<1>2. ASSUME NInv, [Next]_vars PROVE [Grant!Next]_(Grant!grantVars)
  BY <1>2, StepKinds, QuietGrant, ConfirmsGrant, RedeemsGrant
<1> QED
  BY <1>1, <1>2, NInvHolds, PTL DEF Spec, GrantSpec, Grant!Spec
=============================================================================
