----------------------------- MODULE NativeOAuth -----------------------------
(***************************************************************************)
(* NativeOAuthService (api/src/auth/native-oauth-service.ts): a native     *)
(* client starts an attempt and polls it with claim, the browser brings it *)
(* through the provider's callback and the user's approval.  An action is  *)
(* the code between two awaits; the clock moves between actions.           *)
(***************************************************************************)
EXTENDS Integers, FiniteSets

CONSTANTS
  Attempt,          \* attempt ids (randomUUID)
  Claim,            \* claim requests
  User, NoUser,
  AttemptTtl, Retention, ConfirmationAttempts, MaximumAttempts,
  MaxTime           \* bound on the clock

ASSUME AttemptAssumption == Attempt # {}
ASSUME NoUserAssumption == NoUser \notin User
ASSUME PolicyAssumption ==
  {AttemptTtl, Retention, ConfirmationAttempts, MaximumAttempts} \subseteq Nat \ {0}
ASSUME MaxTimeAssumption == MaxTime \in Nat

VARIABLES
  now,              \* Date.now()
  starting,         \* attempts whose start() awaits the provider configuration
  records,          \* ids in the records map
  pendingStates,    \* attempts whose state digest is in the pendingStates map
  status,           \* attempt.status, "none" before it exists
  expiresAt,
  completedAt,      \* -1: undefined
  approvalFailures,
  userId,           \* attempt.userId
  subject,          \* attempt: user whose link its callback has read
  callback,         \* callbackResult: "none", "exchange", "linked", "done"
  claimPc,          \* claim: "idle", "user", "provider", "link", "done"
  claimOf,          \* claim: its attempt
  link,             \* the external identity's user, or NoUser
  confirmed,        \* history: attempts approved with the right code
  sessions          \* history: sessions issued, <<claim, attempt, user>>

envVars == <<now, link>>
attemptVars == <<records, pendingStates, status, completedAt>>
fieldVars == <<expiresAt, approvalFailures, userId, subject, callback>>
claimVars == <<claimPc, claimOf>>
historyVars == <<confirmed, sessions>>
vars == <<envVars, starting, attemptVars, fieldVars, claimVars, historyVars>>

Terminal == {"failed", "cancelled", "expired", "redeemed"}
Waiting == {"pending", "processing", "awaitingApproval"}
WithUser == {"awaitingApproval", "completed", "redeemed"}
Status == {"none", "completed"} \cup Waiting \cup Terminal

Init ==
  /\ now = 0
  /\ starting = {}
  /\ records = {}
  /\ pendingStates = {}
  /\ status = [a \in Attempt |-> "none"]
  /\ expiresAt = [a \in Attempt |-> 0]
  /\ completedAt = [a \in Attempt |-> -1]
  /\ approvalFailures = [a \in Attempt |-> 0]
  /\ userId = [a \in Attempt |-> NoUser]
  /\ subject = [a \in Attempt |-> NoUser]
  /\ callback = [a \in Attempt |-> "none"]
  /\ claimPc = [c \in Claim |-> "idle"]
  /\ claimOf = [c \in Claim |-> CHOOSE a \in Attempt : TRUE]
  /\ link \in User
  /\ confirmed = {}
  /\ sessions = {}

-----------------------------------------------------------------------------
\* sweep(), which every public operation begins with: what has run out of
\* time is expired, what ended Retention ago is forgotten.
Expired == {a \in records : expiresAt[a] <= now /\ status[a] \notin Terminal}
Forgotten ==
  {a \in records \ Expired : completedAt[a] # -1 /\ now - completedAt[a] >= Retention}
Live == records \ (Expired \cup Forgotten)

\* A public operation leaves the swept attempts as they are due, and gives
\* those in S the status st.  A status in Terminal sets completedAt.
Settled(S, st) ==
  LET next == [a \in Attempt |-> IF a \in S THEN st
                                 ELSE IF a \in Expired THEN "expired" ELSE status[a]]
  IN  /\ status' = next
      /\ completedAt' = [a \in Attempt |->
           IF a \in Expired \cup S /\ next[a] \in Terminal THEN now ELSE completedAt[a]]
      /\ records' = records \ Forgotten

\* The same outside a swept operation: after an await.
Becomes(a, st) ==
  /\ status' = [status EXCEPT ![a] = st]
  /\ completedAt' = [completedAt EXCEPT ![a] = IF st \in Terminal THEN now ELSE @]
  /\ UNCHANGED <<records, pendingStates>>

\* An operation that only sweeps: a poll of a waiting attempt, a refused
\* request.
Sweep ==
  /\ Expired \cup Forgotten # {}
  /\ Settled({}, "expired")
  /\ pendingStates' = pendingStates \ (Expired \cup Forgotten)
  /\ UNCHANGED <<envVars, starting, fieldVars, claimVars, historyVars>>

-----------------------------------------------------------------------------
\* start(), up to its await: capacity is checked here.
StartAttempt(a) ==
  /\ status[a] = "none"
  /\ a \notin starting
  /\ Cardinality(records \ Forgotten) < MaximumAttempts
  /\ starting' = starting \cup {a}
  /\ Settled({}, "expired")
  /\ pendingStates' = pendingStates \ (Expired \cup Forgotten)
  /\ UNCHANGED <<envVars, fieldVars, claimVars, historyVars>>

\* The provider is configured: record the attempt.
RecordAttempt(a) ==
  /\ a \in starting
  /\ starting' = starting \ {a}
  /\ records' = records \cup {a}
  /\ pendingStates' = pendingStates \cup {a}
  /\ status' = [status EXCEPT ![a] = "pending"]
  /\ expiresAt' = [expiresAt EXCEPT ![a] = now + AttemptTtl]
  /\ UNCHANGED <<envVars, completedAt, approvalFailures, userId, subject, callback,
                 claimVars, historyVars>>

\* callbackResult: the state is used up; an error answer ends the attempt.
ReceiveCallback(a, ok) ==
  /\ a \in Live \cap pendingStates
  /\ status[a] = "pending"
  /\ Settled({a}, IF ok THEN "processing" ELSE "failed")
  /\ pendingStates' = pendingStates \ ({a} \cup Expired \cup Forgotten)
  /\ callback' = [callback EXCEPT ![a] = IF ok THEN "exchange" ELSE "done"]
  /\ UNCHANGED <<envVars, starting, expiresAt, approvalFailures, userId, subject,
                 claimVars, historyVars>>

\* The provider's answer has come and the identity's link is read.
ReadLink(a) ==
  /\ callback[a] = "exchange"
  /\ link # NoUser
  /\ subject' = [subject EXCEPT ![a] = link]
  /\ callback' = [callback EXCEPT ![a] = "linked"]
  /\ UNCHANGED <<envVars, starting, attemptVars, expiresAt, approvalFailures, userId,
                 claimVars, historyVars>>

StillProcessing(a) == status[a] = "processing" /\ expiresAt[a] > now

LinkedUser(a) == subject[a]

\* The linked user has been read and is eligible.
AwaitApproval(a) ==
  /\ callback[a] = "linked"
  /\ callback' = [callback EXCEPT ![a] = "done"]
  /\ IF StillProcessing(a)
     THEN Becomes(a, "awaitingApproval") /\ userId' = [userId EXCEPT ![a] = LinkedUser(a)]
     ELSE UNCHANGED <<attemptVars, userId>>
  /\ UNCHANGED <<envVars, starting, expiresAt, approvalFailures, subject, claimVars,
                 historyVars>>

\* The exchange, the link or the user is refused, or an await throws.
FailCallback(a) ==
  /\ callback[a] \in {"exchange", "linked"}
  /\ callback' = [callback EXCEPT ![a] = "done"]
  /\ IF status[a] = "processing" THEN Becomes(a, "failed") ELSE UNCHANGED attemptVars
  /\ UNCHANGED <<envVars, starting, expiresAt, approvalFailures, userId, subject, claimVars,
                 historyVars>>

WithinTries(tries) == tries <= ConfirmationAttempts

\* approve with the page's token: the entered code is right or not.
Approve(a, right) ==
  LET tries == approvalFailures[a] + 1
  IN  /\ a \in Live
      /\ status[a] = "awaitingApproval"
      /\ approvalFailures' = [approvalFailures EXCEPT ![a] = tries]
      /\ Settled({a}, CASE ~WithinTries(tries) -> "failed"
                      [] WithinTries(tries) /\ right -> "completed"
                      [] OTHER -> "awaitingApproval")
      /\ confirmed' = IF WithinTries(tries) /\ right THEN confirmed \cup {a} ELSE confirmed
      /\ pendingStates' = pendingStates \ (Expired \cup Forgotten)
      /\ UNCHANGED <<envVars, starting, expiresAt, userId, subject, callback, claimVars,
                     sessions>>

\* Mutant: the state of a cancelled attempt is kept.
StateKept(a) == Expired \cup Forgotten

StateDropped(a) == {a} \cup Expired \cup Forgotten

\* cancel: a failed attempt is cancelled too.
Cancel(a) ==
  /\ a \in Live
  /\ status[a] \notin {"redeemed", "cancelled", "expired"}
  /\ Settled({a}, "cancelled")
  /\ pendingStates' = pendingStates \ StateDropped(a)
  /\ UNCHANGED <<envVars, starting, fieldVars, claimVars, historyVars>>

-----------------------------------------------------------------------------
\* claim with the right verifier: a completed attempt's user is looked up.
StartClaim(c, a) ==
  /\ claimPc[c] = "idle"
  /\ a \in Live
  /\ status[a] = "completed"
  /\ Settled({}, "expired")
  /\ pendingStates' = pendingStates \ (Expired \cup Forgotten)
  /\ claimPc' = [claimPc EXCEPT ![c] = "user"]
  /\ claimOf' = [claimOf EXCEPT ![c] = a]
  /\ UNCHANGED <<envVars, starting, fieldVars, historyVars>>

ClaimGoes(c, from, to) ==
  /\ claimPc[c] = from
  /\ claimPc' = [claimPc EXCEPT ![c] = to]
  /\ UNCHANGED <<envVars, starting, fieldVars, claimOf, confirmed>>

\* failClaim: an attempt that ended meanwhile keeps its ending.
FailClaim(a) ==
  IF status[a] # "completed" THEN UNCHANGED attemptVars
  ELSE Becomes(a, IF expiresAt[a] <= now THEN "expired" ELSE "failed")

\* users.get has answered.
ReadUser(c, eligible) ==
  /\ ClaimGoes(c, "user", IF eligible THEN "provider" ELSE "done")
  /\ IF eligible THEN UNCHANGED attemptVars ELSE FailClaim(claimOf[c])
  /\ UNCHANGED sessions

\* configured() has answered; its failure does not look at the clock.
ReadProvider(c, configured) ==
  LET a == claimOf[c]
  IN  /\ ClaimGoes(c, "provider", IF configured THEN "link" ELSE "done")
      /\ IF ~configured /\ status[a] = "completed"
         THEN Becomes(a, "failed") ELSE UNCHANGED attemptVars
      /\ UNCHANGED sessions

\* Mutant: the link is the one the callback saw.
LinkedOnce(a) == TRUE

StillLinked(a) == link # NoUser /\ link = userId[a]

\* Mutant: another claim may have redeemed the attempt meanwhile.
RedeemedOrNot(a) == status[a] \in {"completed", "redeemed"} /\ expiresAt[a] > now

Redeemable(a) == status[a] = "completed" /\ expiresAt[a] > now

\* identities.find has answered: the last checks, the redemption and the
\* session are one synchronous step.
Redeem(c) ==
  LET a == claimOf[c]
  IN  /\ ClaimGoes(c, "link", "done")
      /\ StillLinked(a) /\ Redeemable(a)
      /\ Becomes(a, "redeemed")
      /\ sessions' = sessions \cup {<<c, a, userId[a]>>}

RefuseClaim(c) ==
  LET a == claimOf[c]
  IN  /\ ClaimGoes(c, "link", "done")
      /\ ~(StillLinked(a) /\ Redeemable(a))
      /\ IF StillLinked(a) /\ status[a] = "completed" THEN Becomes(a, "expired")
         ELSE FailClaim(a)
      /\ UNCHANGED sessions

-----------------------------------------------------------------------------
Tick ==
  /\ now < MaxTime
  /\ now' = now + 1
  /\ UNCHANGED <<link, starting, attemptVars, fieldVars, claimVars, historyVars>>

\* An administrator unlinks the identity or links it to another user.
Relink(u) ==
  /\ u # link
  /\ link' = u
  /\ UNCHANGED <<now, starting, attemptVars, fieldVars, claimVars, historyVars>>

AttemptNext(a) ==
  \/ StartAttempt(a)
  \/ RecordAttempt(a)
  \/ \E ok \in BOOLEAN : ReceiveCallback(a, ok)
  \/ ReadLink(a)
  \/ AwaitApproval(a)
  \/ FailCallback(a)
  \/ \E right \in BOOLEAN : Approve(a, right)
  \/ Cancel(a)

ClaimNext(c) ==
  \/ \E a \in Attempt : StartClaim(c, a)
  \/ \E eligible \in BOOLEAN : ReadUser(c, eligible)
  \/ \E configured \in BOOLEAN : ReadProvider(c, configured)
  \/ Redeem(c)
  \/ RefuseClaim(c)

Next ==
  \/ Sweep
  \/ \E a \in Attempt : AttemptNext(a)
  \/ \E c \in Claim : ClaimNext(c)
  \/ Tick
  \/ \E u \in User \cup {NoUser} : Relink(u)

Spec == Init /\ [][Next]_vars

-----------------------------------------------------------------------------
TypeOK ==
  /\ now \in Nat
  /\ link \in User \cup {NoUser}
  /\ starting \subseteq Attempt
  /\ records \subseteq Attempt
  /\ pendingStates \subseteq Attempt
  /\ status \in [Attempt -> Status]
  /\ expiresAt \in [Attempt -> Nat]
  /\ completedAt \in [Attempt -> Nat \cup {-1}]
  /\ approvalFailures \in [Attempt -> Nat]
  /\ userId \in [Attempt -> User \cup {NoUser}]
  /\ subject \in [Attempt -> User \cup {NoUser}]
  /\ callback \in [Attempt -> {"none", "exchange", "linked", "done"}]
  /\ \A a \in Attempt : callback[a] = "linked" => subject[a] \in User
  /\ \A a \in Attempt : status[a] \in WithUser => userId[a] \in User
  /\ claimPc \in [Claim -> {"idle", "user", "provider", "link", "done"}]
  /\ claimOf \in [Claim -> Attempt]
  /\ confirmed \subseteq Attempt
  /\ sessions \subseteq Claim \X Attempt \X User

\* However many claims race, an attempt gives one session at most, and only
\* after its code was confirmed in the browser.
OneConfirmedSession ==
  \A x, y \in sessions : (x[2] = y[2] => x = y) /\ x[2] \in confirmed

\* Guessing is limited: no attempt is confirmed after more codes than the
\* policy allows.
CodesAreLimited ==
  \A a \in confirmed : approvalFailures[a] <= ConfirmationAttempts

\* The session belongs to the user the external identity is linked to at that
\* moment ("Unlinking, disabling, or reassigning the identity while the
\* browser is open must never issue a session for its former user",
\* native-oauth-service.ts:207-210), and the attempt has not run out of time.
SessionsAreLinked ==
  [][\A x \in sessions' \ sessions : x[3] = link /\ now < expiresAt[x[2]]]_vars

\* Memory is given back: only an attempt whose browser has not come back yet
\* has a live provider state, and whatever ended has the date from which it
\* is forgotten, in every order of cancel, expiry and late answers.
StateMapsAreExact ==
  /\ \A a \in Attempt : a \in pendingStates <=> a \in records /\ status[a] = "pending"
  /\ \A a \in records : status[a] \in Terminal <=> completedAt[a] # -1

\* A late provider answer or a late claim never brings an ended attempt back,
\* and a redeemed one stays so ("terminal states must remain terminal",
\* native-oauth-service.ts:302-303).
EndedStaysEnded ==
  [][\A a \in Attempt :
       /\ status[a] \in Terminal => status'[a] \in Terminal
       /\ status[a] \in Terminal \ {"failed"} => status'[a] = status[a]]_vars

\* The service implements DeviceGrant: whatever answers late, the approval
\* names one account and one claim at most is given a session for it.  A
\* second claim that redeems the attempt is a step DeviceGrant does not have.
Phase(a) == IF status[a] \in Waiting \cup {"none"} THEN "open"
            ELSE IF status[a] = "completed" THEN "approved"
            ELSE IF status[a] = "redeemed" THEN "redeemed"
            ELSE "ended"

Grant == INSTANCE DeviceGrant WITH
  phase <- [a \in Attempt |-> Phase(a)],
  account <- [a \in Attempt |-> IF a \in confirmed THEN userId[a] ELSE NoUser]
GrantSpec == Grant!Spec
=============================================================================
