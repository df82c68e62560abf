----------------------- MODULE TransactionJournalProofs -----------------------
(***************************************************************************)
(* Proofs about TransactionJournal, for every set of transactions,         *)
(* sessions and requests and every bound.  Three invariants are layered:   *)
(* the loop of runFinalization stays inside its list (which typing needs), *)
(* the leases agree with the journal's count, and the outcome agrees with  *)
(* the state of the context.  The properties follow from them, and, with   *)
(* where each action stands in its list, the order in which actions run.   *)
(***************************************************************************)
EXTENDS TransactionJournal, SequenceTheorems, TLAPS

\* The position of the loop is inside the list it iterates over.
LoopInv ==
  \A t \in Tx :
    /\ finalization[t] = "none" => ran[t] = <<>>
    /\ t \in contexts /\ finalization[t] # "none" =>
         Len(ran[t]) < Len(ActionsOf(t, finalization[t]))
    /\ outcome[t] = "unborn" => finalization[t] = "none" /\ t \notin contexts

\* What a lease is: a running handler, in a live transaction that counts it.
LeaseInv ==
  /\ \A r \in Req :
       /\ leased[r] => /\ handler[r] = "running"
                       /\ inTx[r] \in contexts
                       /\ activeOperations[inTx[r]] = 1
       /\ handler[r] # "idle" => inTx[r] \in Tx
  /\ \A r, q \in Req : leased[r] /\ leased[q] /\ inTx[r] = inTx[q] => r = q
  /\ \A t \in Tx :
       /\ activeOperations[t] # 0 =>
            /\ t \in contexts
            /\ finalization[t] = "none"
            /\ \E r \in Req : leased[r] /\ inTx[r] = t

\* How the outcome of a transaction shows in its context.
OutcomeInv ==
  \A t \in Tx :
    /\ outcome[t] = "unborn" => /\ finalization[t] = "none"
                                /\ t \notin contexts
                                /\ waiters[t] = {}
    /\ outcome[t] = "open" => finalization[t] = "none" /\ t \in contexts
    /\ outcome[t] \in Phase => finalization[t] = outcome[t]
    /\ terminal[t] # "none" => t \notin contexts /\ outcome[t] = terminal[t]
    /\ waiters[t] \subseteq {owner[t]}

\* Reversing a list of actions gives a list of the same actions.
LEMMA ReverseType ==
  ASSUME NEW S, NEW s \in Seq(S)
  PROVE  Reverse(s) \in Seq(S) /\ Len(Reverse(s)) = Len(s)
BY DEF Reverse

\* Arming or clearing a timer with the value of a test keeps its type.
LEMMA TimerType ==
  ASSUME NEW f \in [Tx -> BOOLEAN], NEW t \in Tx, NEW v \in BOOLEAN
  PROVE  [f EXCEPT ![t] = v] \in [Tx -> BOOLEAN]
OBVIOUS

\* Touched is a test.
LEMMA TouchedType ==
  ASSUME NEW t, NEW n
  PROVE  Touched(t, n) \in BOOLEAN
BY DEF Touched

\* The two ways releasing a lease leaves the count and the timer.
LEMMA ReleaseType ==
  ASSUME NEW r \in Req, TypeOK, ReleaseOperation(r)
  PROVE  /\ activeOperations' \in [Tx -> Nat]
         /\ expiryTimer' \in [Tx -> BOOLEAN]
         /\ leased' = [leased EXCEPT ![r] = FALSE]
<1> DEFINE t == inTx[r]
           left == activeOperations[t] - 1
<1>1. CASE t \in contexts /\ ReleaseCounts(r)
  <2>1. t \in Tx /\ left \in Nat
    BY <1>1 DEF TypeOK, ReleaseCounts
  <2>2. /\ activeOperations' = [activeOperations EXCEPT ![t] = left]
        /\ expiryTimer' = [expiryTimer EXCEPT ![t] = Touched(t, left)]
        /\ leased' = [leased EXCEPT ![r] = FALSE]
    BY <1>1 DEF ReleaseOperation
  <2>3. expiryTimer' \in [Tx -> BOOLEAN]
    BY <2>1, <2>2, TimerType, TouchedType DEF TypeOK
  <2> QED BY <2>1, <2>2, <2>3 DEF TypeOK
<1>2. CASE ~(t \in contexts /\ ReleaseCounts(r))
  BY <1>2 DEF ReleaseOperation, TypeOK
<1> QED BY <1>1, <1>2

LEMMA InitInv == Init => TypeOK /\ LoopInv /\ LeaseInv /\ OutcomeInv
BY DEF Init, TypeOK, LoopInv, LeaseInv, OutcomeInv, Phase

\* A finalization that starts, for a client or for the expiry, keeps the types
\* and enters its loop at the front of a list that is not empty.
LEMMA StartType ==
  ASSUME NEW t \in Tx, NEW p \in Phase, NEW awaiting \in SUBSET Owner,
         TypeOK, LoopInv, t \in contexts, StartFinalization(t, p, awaiting)
  PROVE  TypeOK' /\ LoopInv'
<1>1. Reverse(rollbackActions[t]) \in Seq(Nat)
  BY ReverseType DEF TypeOK
<1>2. TypeOK'
  <2>1. awaiting \X {p} \subseteq Owner \X Phase
    OBVIOUS
  <2>2. plan' \in [Tx -> Seq(Nat)] /\ outcome' \in [Tx -> {"unborn", "open"} \cup Phase]
        /\ finalization' \in [Tx -> Phase \cup {"none"}] /\ expiryTimer' \in [Tx -> BOOLEAN]
    BY <1>1 DEF TypeOK, StartFinalization
  <2>3. CASE (IF p = "commit" THEN commitActions[t] ELSE Reverse(rollbackActions[t])) = <<>>
    <3>1. Complete(t, p, awaiting)
      BY <2>3 DEF StartFinalization
    <3>2. told' \in [Tx -> SUBSET (Owner \X Phase)]
      BY <2>1, <3>1 DEF TypeOK, Complete
    <3> QED BY <2>2, <3>1, <3>2 DEF TypeOK, StartFinalization, Complete, requestVars
  <2>4. CASE (IF p = "commit" THEN commitActions[t] ELSE Reverse(rollbackActions[t])) # <<>>
    <3>1. /\ waiters' = [waiters EXCEPT ![t] = awaiting]
          /\ UNCHANGED <<contexts, terminal, told>>
      BY <2>4 DEF StartFinalization
    <3>2. waiters' \in [Tx -> SUBSET Owner]
      BY <3>1 DEF TypeOK
    <3> QED BY <2>2, <3>1, <3>2 DEF TypeOK, StartFinalization, requestVars
  <2> QED BY <2>3, <2>4
<1>3. LoopInv'
  <2>1. ASSUME NEW u \in Tx, u # t
        PROVE  /\ finalization'[u] = finalization[u]
               /\ ran'[u] = ran[u]
               /\ outcome'[u] = outcome[u]
               /\ u \in contexts' => u \in contexts
               /\ ActionsOf(u, finalization[u])' = ActionsOf(u, finalization[u])
    BY <2>1 DEF TypeOK, StartFinalization, Complete, ActionsOf
  <2>2. /\ finalization'[t] = p /\ p # "none" /\ ran'[t] = <<>>
        /\ outcome'[t] # "unborn"
    BY DEF TypeOK, LoopInv, StartFinalization, Idle, Phase
  <2>3. ActionsOf(t, p)' \in Seq(Nat)
        /\ (t \in contexts' => ActionsOf(t, p)' # <<>>)
    BY <1>1 DEF TypeOK, StartFinalization, Complete, ActionsOf
  <2> QED BY <2>1, <2>2, <2>3 DEF LoopInv, ActionsOf
<1> QED BY <1>2, <1>3

LEMMA RunType ==
  ASSUME NEW t \in Tx, NEW ok \in BOOLEAN, TypeOK, LoopInv, RunAction(t, ok)
  PROVE  TypeOK' /\ LoopInv'
<1> DEFINE list == ActionsOf(t, finalization[t])
           next == Len(ran[t]) + 1
<1>1. list \in Seq(Nat) /\ ran[t] \in Seq(Nat) /\ next \in 1..Len(list)
  <2>1. list \in Seq(Nat) /\ ran[t] \in Seq(Nat)
    BY DEF TypeOK, ActionsOf
  <2>2. Len(ran[t]) < Len(list)
    BY DEF LoopInv, RunAction, Phase
  <2> QED BY <2>1, <2>2
<1>2. list[next] \in Nat
  BY <1>1
<1>3. ran' = [ran EXCEPT ![t] = Append(@, list[next])]
  BY DEF RunAction
<1>4. TypeOK'
  <2>1. ran' \in [Tx -> Seq(Nat)]
    BY <1>2, <1>3 DEF TypeOK
  <2>2. failures' \in [Tx -> SUBSET Nat]
    BY <1>2 DEF TypeOK, RunAction
  <2>3. waiters[t] \X {finalization[t]} \subseteq Owner \X Phase /\ finalization[t] \in Phase
    BY DEF TypeOK, RunAction
  <2>4. CASE LoopEnds(t, next, ok)
    <3>1. Complete(t, finalization[t], waiters[t])
      BY <2>4 DEF RunAction
    <3>2. told' \in [Tx -> SUBSET (Owner \X Phase)]
      BY <2>3, <3>1 DEF TypeOK, Complete
    <3> QED BY <2>1, <2>2, <2>3, <3>1, <3>2 DEF TypeOK, RunAction, Complete, requestVars
  <2>5. CASE ~LoopEnds(t, next, ok)
    BY <2>1, <2>2, <2>5 DEF TypeOK, RunAction, requestVars
  <2> QED BY <2>4, <2>5
<1>5. LoopInv'
  <2>1. ASSUME NEW u \in Tx, u # t
        PROVE  ran'[u] = ran[u] /\ ActionsOf(u, finalization[u])' = ActionsOf(u, finalization[u])
               /\ (u \in contexts' => u \in contexts) /\ finalization'[u] = finalization[u]
    BY <2>1 DEF RunAction, Complete, ActionsOf, TypeOK
  <2>2. /\ finalization[t] # "none"
        /\ UNCHANGED <<finalization, outcome>>
    BY DEF RunAction, Phase
  <2>3. Len(ran'[t]) = next
    BY <1>1, <1>2, <1>3 DEF TypeOK
  <2>4. ActionsOf(t, finalization[t])' = list
    BY DEF RunAction, ActionsOf
  <2>5. t \in contexts' => next # Len(list)
    BY DEF RunAction, Complete, LoopEnds
  <2> QED
    BY <1>1, <2>1, <2>2, <2>3, <2>4, <2>5 DEF LoopInv
<1> QED BY <1>4, <1>5

\* The types and the loop are kept by every step.
LEMMA NextType == TypeOK /\ LoopInv /\ [Next]_vars => TypeOK' /\ LoopInv'
<1> SUFFICES ASSUME TypeOK, LoopInv, [Next]_vars
             PROVE  TypeOK' /\ LoopInv'
  OBVIOUS
<1>1. ASSUME NEW t \in Tx, NEW o \in Owner, Begin(t, o)
      PROVE  TypeOK' /\ LoopInv'
  <2>1. TypeOK'
    BY <1>1 DEF TypeOK, Begin, contextVars, requestVars
  <2>2. UNCHANGED <<finalization, ran, plan, commitActions>> /\ finalization[t] = "none"
    BY <1>1 DEF LoopInv, Begin, contextVars
  <2>3. outcome'[t] = "open" /\ \A u \in Tx : u # t => outcome'[u] = outcome[u]
    BY <1>1 DEF TypeOK, Begin
  <2>4. \A u \in Tx : u \in contexts' => u \in contexts \/ u = t
    BY <1>1 DEF Begin
  <2>5. LoopInv'
    BY <2>2, <2>3, <2>4 DEF LoopInv, ActionsOf
  <2> QED BY <2>1, <2>5
<1>2. ASSUME NEW t \in Tx, NEW o \in Owner, NEW r \in Req, AcquireOperation(r, t, o)
      PROVE  TypeOK' /\ LoopInv'
  BY <1>2 DEF TypeOK, LoopInv, AcquireOperation, contextVars, historyVars, ActionsOf
<1>3. ASSUME NEW t \in Tx, NEW o \in Owner, NEW p \in Phase, Finalize(t, o, p)
      PROVE  TypeOK' /\ LoopInv'
  BY <1>3, StartType, {o} \in SUBSET Owner DEF Finalize, OwnedActive
<1>4. ASSUME NEW t \in Tx, NEW o \in Owner, NEW p \in Phase, JoinFinalization(t, o, p)
      PROVE  TypeOK' /\ LoopInv'
  BY <1>4 DEF TypeOK, LoopInv, JoinFinalization, contextVars, requestVars, historyVars, ActionsOf
<1>5. ASSUME NEW t \in Tx, NEW o \in Owner, NEW p \in Phase, RetryFinalization(t, o, p)
      PROVE  TypeOK' /\ LoopInv'
  BY <1>5 DEF TypeOK, LoopInv, RetryFinalization, contextVars, requestVars, ActionsOf
<1>6. ASSUME NEW t \in Tx, Expire(t)
      PROVE  TypeOK' /\ LoopInv'
  BY <1>6, StartType, {} \in SUBSET Owner DEF Expire, Phase
<1>7. ASSUME NEW t \in Tx, NEW ok \in BOOLEAN, RunAction(t, ok)
      PROVE  TypeOK' /\ LoopInv'
  BY <1>7, RunType
<1>8. ASSUME NEW t \in Tx, ForgetTerminal(t)
      PROVE  TypeOK' /\ LoopInv'
  BY <1>8 DEF TypeOK, LoopInv, ForgetTerminal, contextVars, requestVars, historyVars, ActionsOf
<1>9. ASSUME NEW r \in Req, FinishRequest(r)
      PROVE  TypeOK' /\ LoopInv'
  <2>1. TypeOK'
    BY <1>9, ReleaseType DEF TypeOK, FinishRequest, contextVars, historyVars
  <2>2. LoopInv'
    BY <1>9 DEF LoopInv, FinishRequest, contextVars, historyVars, ActionsOf
  <2> QED BY <2>1, <2>2
<1>10. ASSUME NEW r \in Req, Disconnect(r)
      PROVE  TypeOK' /\ LoopInv'
  <2>1. TypeOK'
    BY <1>10, ReleaseType DEF TypeOK, Disconnect, contextVars, historyVars
  <2>2. LoopInv'
    BY <1>10 DEF LoopInv, Disconnect, contextVars, historyVars, ActionsOf
  <2> QED BY <2>1, <2>2
<1>11. ASSUME NEW r \in Req, NEW p \in Phase, Register(r, p)
      PROVE  TypeOK' /\ LoopInv'
  <2> DEFINE t == inTx[r]
             id == Len(commitActions[t]) + Len(rollbackActions[t]) + 1
  <2>1. t \in Tx /\ id \in Nat
    BY <1>11 DEF TypeOK, Register
  <2>2. TypeOK'
    <3>1. expiryTimer' \in [Tx -> BOOLEAN]
      BY <1>11, <2>1, TimerType, TouchedType DEF TypeOK, Register
    <3>2. commitActions' \in [Tx -> Seq(Nat)] /\ rollbackActions' \in [Tx -> Seq(Nat)]
      <4>1. /\ Append(commitActions[t], id) \in Seq(Nat)
            /\ Append(rollbackActions[t], id) \in Seq(Nat)
        BY <2>1 DEF TypeOK
      <4> QED BY <1>11, <2>1, <4>1 DEF TypeOK, Register
    <3> QED BY <1>11, <3>1, <3>2 DEF TypeOK, Register, requestVars, historyVars
  <2>3. ASSUME NEW u \in Tx
        PROVE  Len(commitActions'[u]) >= Len(commitActions[u])
    <3>1. Len(Append(commitActions[t], id)) = Len(commitActions[t]) + 1
      BY <2>1 DEF TypeOK
    <3>2. Len(commitActions[u]) \in Nat /\ Len(commitActions[t]) \in Nat
      BY <2>1 DEF TypeOK
    <3>3. \/ commitActions' = [commitActions EXCEPT ![t] = Append(@, id)]
          \/ commitActions' = commitActions
      BY <1>11 DEF Register
    <3>4. CASE commitActions' = commitActions
      BY <3>2, <3>4
    <3>5. CASE commitActions' = [commitActions EXCEPT ![t] = Append(@, id)]
      <4>1. commitActions'[u] = IF u = t THEN Append(commitActions[t], id) ELSE commitActions[u]
        BY <2>1, <3>5 DEF TypeOK
      <4> QED BY <3>1, <3>2, <4>1
    <3> QED BY <3>3, <3>4, <3>5
  <2>4. LoopInv'
    <3>1. UNCHANGED <<contexts, finalization, ran, plan, outcome>>
      BY <1>11 DEF Register, historyVars
    <3>2. ASSUME NEW u \in Tx
          PROVE  /\ Len(ActionsOf(u, finalization[u])') >= Len(ActionsOf(u, finalization[u]))
                 /\ Len(ActionsOf(u, finalization[u])) \in Nat
                 /\ Len(ActionsOf(u, finalization[u])') \in Nat
                 /\ Len(ran[u]) \in Nat
      BY <2>2, <2>3, <3>1 DEF TypeOK, ActionsOf
    <3> QED BY <3>1, <3>2 DEF LoopInv
  <2> QED BY <2>2, <2>4
<1>12. CASE UNCHANGED vars
  BY <1>12 DEF TypeOK, LoopInv, vars, contextVars, requestVars, historyVars, ActionsOf
<1> QED
  BY <1>1, <1>2, <1>3, <1>4, <1>5, <1>6, <1>7, <1>8, <1>9, <1>10, <1>11, <1>12
     DEF Next, TxNext, ReqNext

\* The variables of the journal always have their types.
THEOREM TypeCorrect == Spec => []TypeOK
<1>1. Init => TypeOK /\ LoopInv
  BY InitInv
<1>2. TypeOK /\ LoopInv /\ [Next]_vars => TypeOK' /\ LoopInv'
  BY NextType
<1> QED BY <1>1, <1>2, PTL DEF Spec
-----------------------------------------------------------------------------
\* A step that touches no lease, and under which a transaction that is leased
\* stays live and undecided, keeps the lease invariant.
LEMMA LeaseStable ==
  ASSUME TypeOK, LeaseInv, UNCHANGED <<handler, inTx, leased, activeOperations>>,
         \A t \in Tx : activeOperations[t] # 0 =>
           (t \in contexts => t \in contexts') /\ finalization'[t] = finalization[t]
  PROVE  LeaseInv'
<1>1. \A r \in Req : leased[r] => inTx[r] \in Tx /\ inTx[r] \in contexts'
  BY DEF TypeOK, LeaseInv
<1> QED BY <1>1 DEF LeaseInv

\* Releasing a lease: the journal counts it down exactly when it was held, so
\* neither a second release nor the release of a dropped connection's request
\* takes the lease of another.
LEMMA LeaseReleased ==
  ASSUME NEW r \in Req, TypeOK, LeaseInv, ReleaseOperation(r), handler[r] = "running",
         handler' \in [Req -> {"idle", "running", "done"}],
         \A q \in Req : q # r => handler'[q] = handler[q],
         handler'[r] # "idle",
         UNCHANGED <<contexts, finalization, inTx>>
  PROVE  LeaseInv'
<1> DEFINE t == inTx[r]
<1>1. /\ leased' = [leased EXCEPT ![r] = FALSE]
      /\ t \in Tx
  BY DEF LeaseInv, ReleaseOperation
<1>2. CASE leased[r]
  <2>1. t \in contexts /\ activeOperations[t] = 1
    BY <1>2 DEF LeaseInv
  <2>2. activeOperations' = [activeOperations EXCEPT ![t] = 0]
    BY <1>2, <2>1 DEF ReleaseOperation, ReleaseCounts
  <2>3. \A q \in Req : leased'[q] => leased[q] /\ q # r /\ inTx[q] # t
    BY <1>1, <1>2 DEF LeaseInv, TypeOK
  <2>4. \A q \in Req : leased'[q] => /\ inTx[q] \in contexts
                                     /\ activeOperations'[inTx[q]] = 1
    BY <1>1, <2>2, <2>3 DEF LeaseInv, TypeOK
  <2>5. \A u \in Tx : activeOperations'[u] # 0 =>
          u # t /\ activeOperations[u] # 0
    BY <1>1, <2>2 DEF TypeOK
  <2>6. \A u \in Tx : activeOperations'[u] # 0 =>
          \E q \in Req : leased'[q] /\ inTx[q] = u
    BY <1>1, <2>5 DEF LeaseInv, TypeOK
  <2> QED BY <1>1, <2>3, <2>4, <2>5, <2>6 DEF LeaseInv, TypeOK
<1>3. CASE ~leased[r]
  <2>1. leased' = leased /\ activeOperations' = activeOperations
    BY <1>1, <1>3 DEF ReleaseOperation, ReleaseCounts, TypeOK
  <2> QED BY <1>3, <2>1 DEF LeaseInv
<1> QED BY <1>2, <1>3

\* The leases are kept by every step.
LEMMA NextLease ==
  TypeOK /\ LoopInv /\ LeaseInv /\ [Next]_vars => LeaseInv'
<1> SUFFICES ASSUME TypeOK, LoopInv, LeaseInv, [Next]_vars
             PROVE  LeaseInv'
  OBVIOUS
<1>1. ASSUME NEW t \in Tx, NEW o \in Owner, Begin(t, o)
      PROVE  LeaseInv'
  BY <1>1, LeaseStable DEF Begin, requestVars
<1>2. ASSUME NEW t \in Tx, NEW o \in Owner, NEW r \in Req, AcquireOperation(r, t, o)
      PROVE  LeaseInv'
  <2>1. /\ handler' = [handler EXCEPT ![r] = "running"]
        /\ inTx' = [inTx EXCEPT ![r] = t]
        /\ leased' = [leased EXCEPT ![r] = TRUE]
        /\ activeOperations' = [activeOperations EXCEPT ![t] = @ + 1]
        /\ activeOperations[t] = 0
        /\ finalization[t] = "none"
        /\ t \in contexts
        /\ handler[r] = "idle"
        /\ UNCHANGED <<contexts, finalization>>
    BY <1>2 DEF AcquireOperation, Idle, OwnedActive
  <2>2. activeOperations' = [activeOperations EXCEPT ![t] = 1]
    BY <2>1 DEF TypeOK
  <2>3. \A q \in Req : q # r => /\ leased'[q] = leased[q] /\ inTx'[q] = inTx[q]
                                /\ handler'[q] = handler[q]
    BY <2>1 DEF TypeOK
  <2>4. leased'[r] /\ inTx'[r] = t /\ handler'[r] = "running"
    BY <2>1 DEF TypeOK
  <2>5. \A q \in Req : leased[q] => inTx[q] # t /\ inTx[q] \in contexts
                                   /\ activeOperations[inTx[q]] = 1
    BY <2>1 DEF LeaseInv
  <2>6. \A q \in Req : leased'[q] => /\ handler'[q] = "running"
                                     /\ inTx'[q] \in contexts'
                                     /\ activeOperations'[inTx'[q]] = 1
    BY <2>1, <2>2, <2>3, <2>4, <2>5 DEF LeaseInv, TypeOK
  <2>7. \A q \in Req : handler'[q] # "idle" => inTx'[q] \in Tx
    BY <2>1, <2>3, <2>4 DEF LeaseInv
  <2>8. \A q, w \in Req : leased'[q] /\ leased'[w] /\ inTx'[q] = inTx'[w] => q = w
    BY <2>3, <2>4, <2>5 DEF LeaseInv
  <2>9. \A u \in Tx : activeOperations'[u] # 0 =>
          /\ u \in contexts'
          /\ finalization'[u] = "none"
          /\ \E q \in Req : leased'[q] /\ inTx'[q] = u
    <3> SUFFICES ASSUME NEW u \in Tx, activeOperations'[u] # 0
                 PROVE  /\ u \in contexts'
                        /\ finalization'[u] = "none"
                        /\ \E q \in Req : leased'[q] /\ inTx'[q] = u
      OBVIOUS
    <3>1. CASE u = t
      BY <2>1, <2>4, <3>1
    <3>2. CASE u # t
      <4>1. activeOperations[u] # 0
        BY <2>2, <3>2 DEF TypeOK
      <4>2. PICK q \in Req : leased[q] /\ inTx[q] = u
        BY <4>1 DEF LeaseInv
      <4>3. q # r
        BY <2>1, <4>2 DEF LeaseInv
      <4> QED BY <2>1, <2>3, <4>1, <4>2, <4>3 DEF LeaseInv
    <3> QED BY <3>1, <3>2
  <2> QED BY <2>6, <2>7, <2>8, <2>9 DEF LeaseInv
<1>3. ASSUME NEW t \in Tx, NEW p \in Phase, NEW awaiting, StartFinalization(t, p, awaiting)
      PROVE  LeaseInv'
  BY <1>3, LeaseStable DEF StartFinalization, Complete, Idle, requestVars, TypeOK
<1>4. ASSUME NEW t \in Tx, NEW o \in Owner, NEW p \in Phase,
             JoinFinalization(t, o, p) \/ RetryFinalization(t, o, p)
      PROVE  LeaseInv'
  BY <1>4, LeaseStable DEF JoinFinalization, RetryFinalization, requestVars
<1>5. ASSUME NEW t \in Tx, NEW ok \in BOOLEAN, RunAction(t, ok)
      PROVE  LeaseInv'
  <2>1. activeOperations[t] = 0
    BY <1>5 DEF RunAction, LeaseInv, Phase
  <2> QED BY <1>5, <2>1, LeaseStable DEF RunAction, Complete, requestVars
<1>6. ASSUME NEW t \in Tx, ForgetTerminal(t)
      PROVE  LeaseInv'
  BY <1>6, LeaseStable DEF ForgetTerminal, requestVars
<1>7. ASSUME NEW r \in Req, FinishRequest(r)
      PROVE  LeaseInv'
  BY <1>7, LeaseReleased DEF FinishRequest, TypeOK
<1>8. ASSUME NEW r \in Req, Disconnect(r)
      PROVE  LeaseInv'
  BY <1>8, LeaseReleased DEF Disconnect, TypeOK
<1>9. ASSUME NEW r \in Req, NEW p \in Phase, Register(r, p)
      PROVE  LeaseInv'
  BY <1>9, LeaseStable DEF Register, requestVars
<1>10. CASE UNCHANGED vars
  BY <1>10, LeaseStable DEF vars, requestVars
<1> QED
  BY <1>1, <1>2, <1>3, <1>4, <1>5, <1>6, <1>7, <1>8, <1>9, <1>10
     DEF Next, TxNext, ReqNext, Finalize, Expire, Phase

\* LeaseInv is the inductive form of LeaseIsExclusive.
LEMMA LeaseImpliesExclusive == TypeOK /\ LeaseInv => LeaseIsExclusive
<1> SUFFICES ASSUME TypeOK, LeaseInv, NEW t \in Tx
             PROVE  /\ t \in contexts =>
                          activeOperations[t] = (IF \E r \in Req : leased[r] /\ inTx[r] = t
                                                 THEN 1 ELSE 0)
                    /\ finalization[t] # "none" => activeOperations[t] = 0
  BY DEF LeaseIsExclusive, LeaseInv
<1>1. CASE \E r \in Req : leased[r] /\ inTx[r] = t
  BY <1>1 DEF LeaseInv
<1>2. CASE ~\E r \in Req : leased[r] /\ inTx[r] = t
  BY <1>2 DEF LeaseInv
<1> QED BY <1>1, <1>2

\* The operation lease is exclusive, agrees with the journal's count, and is
\* never held while its transaction is finalizing, whatever clients disconnect.
THEOREM LeaseExclusion == Spec => []LeaseIsExclusive
<1>1. Init => TypeOK /\ LoopInv /\ LeaseInv
  BY InitInv
<1>2. TypeOK /\ LoopInv /\ LeaseInv /\ [Next]_vars => TypeOK' /\ LoopInv' /\ LeaseInv'
  BY NextType, NextLease
<1>3. TypeOK /\ LeaseInv => LeaseIsExclusive
  BY LeaseImpliesExclusive
<1> QED BY <1>1, <1>2, <1>3, PTL DEF Spec

-----------------------------------------------------------------------------
\* An open transaction is leased or has its idle timer armed.
LEMMA NextTimer ==
  TypeOK /\ LoopInv /\ LeaseInv /\ IdleTimerCoversOpen /\ [Next]_vars
    => IdleTimerCoversOpen'
<1> SUFFICES ASSUME TypeOK, LoopInv, LeaseInv, IdleTimerCoversOpen, [Next]_vars
             PROVE  IdleTimerCoversOpen'
  OBVIOUS
<1> DEFINE Covered(t) ==
      expiryTimer[t] <=> (activeOperations[t] = 0 /\ finalization[t] = "none")
<1>1. ASSUME NEW t \in Tx, NEW o \in Owner, Begin(t, o)
      PROVE  IdleTimerCoversOpen'
  <2>1. /\ expiryTimer' = [expiryTimer EXCEPT ![t] = TRUE]
        /\ activeOperations[t] = 0 /\ finalization[t] = "none"
        /\ UNCHANGED <<activeOperations, finalization>>
        /\ contexts' = contexts \cup {t}
    BY <1>1 DEF Begin, LoopInv, LeaseInv
  <2> QED BY <2>1 DEF IdleTimerCoversOpen, TypeOK
<1>2. ASSUME NEW t \in Tx, NEW o \in Owner, NEW r \in Req, AcquireOperation(r, t, o)
      PROVE  IdleTimerCoversOpen'
  BY <1>2 DEF AcquireOperation, Idle, IdleTimerCoversOpen, TypeOK
<1>3. ASSUME NEW t \in Tx, NEW p \in Phase, NEW awaiting, StartFinalization(t, p, awaiting)
      PROVE  IdleTimerCoversOpen'
  <2>1. /\ expiryTimer' = [expiryTimer EXCEPT ![t] = FALSE]
        /\ finalization' = [finalization EXCEPT ![t] = p]
        /\ p # "none"
        /\ UNCHANGED activeOperations
        /\ contexts' \subseteq contexts
    BY <1>3 DEF StartFinalization, Complete, Phase
  <2> QED BY <2>1 DEF IdleTimerCoversOpen, TypeOK
<1>4. ASSUME NEW r \in Req, ReleaseOperation(r), handler[r] = "running",
             UNCHANGED <<contexts, finalization>>
      PROVE  IdleTimerCoversOpen'
  <2> DEFINE t == inTx[r]
             left == activeOperations[t] - 1
  <2>1. CASE t \in contexts /\ ReleaseCounts(r)
    <3>1. /\ activeOperations' = [activeOperations EXCEPT ![t] = left]
          /\ expiryTimer' = [expiryTimer EXCEPT ![t] = Touched(t, left)]
          /\ t \in Tx
      BY <1>4, <2>1 DEF ReleaseOperation, LeaseInv
    <3>2. expiryTimer'[t] = Touched(t, left) /\ activeOperations'[t] = left
      BY <3>1 DEF TypeOK
    <3>3. \A u \in Tx : u # t => /\ expiryTimer'[u] = expiryTimer[u]
                                 /\ activeOperations'[u] = activeOperations[u]
      BY <3>1 DEF TypeOK
    <3>4. Touched(t, left) <=> (left = 0 /\ finalization[t] = "none")
      BY DEF Touched
    <3>5. ASSUME NEW u \in contexts
          PROVE  expiryTimer'[u] <=> (activeOperations'[u] = 0 /\ finalization[u] = "none")
      <4>1. CASE u = t
        BY <3>2, <3>4, <4>1
      <4>2. CASE u # t
        BY <3>3, <4>2 DEF IdleTimerCoversOpen, TypeOK
      <4> QED BY <4>1, <4>2
    <3> QED BY <1>4, <3>5 DEF IdleTimerCoversOpen
  <2>2. CASE ~(t \in contexts /\ ReleaseCounts(r))
    BY <1>4, <2>2 DEF ReleaseOperation, IdleTimerCoversOpen
  <2> QED BY <2>1, <2>2
<1>5. ASSUME NEW t \in Tx, NEW ok \in BOOLEAN, RunAction(t, ok)
      PROVE  IdleTimerCoversOpen'
  <2>1. /\ contexts' \subseteq contexts
        /\ UNCHANGED <<expiryTimer, activeOperations, finalization>>
    BY <1>5 DEF RunAction, Complete
  <2> QED BY <2>1 DEF IdleTimerCoversOpen
<1>6. ASSUME NEW t \in Tx, NEW o \in Owner, NEW p \in Phase,
             JoinFinalization(t, o, p) \/ RetryFinalization(t, o, p)
      PROVE  IdleTimerCoversOpen'
  BY <1>6 DEF JoinFinalization, RetryFinalization, IdleTimerCoversOpen
<1>7. ASSUME NEW r \in Req, NEW p \in Phase, Register(r, p)
      PROVE  IdleTimerCoversOpen'
  <2> DEFINE t == inTx[r]
  <2>1. /\ expiryTimer' = [expiryTimer EXCEPT ![t] = Touched(t, activeOperations[t])]
        /\ UNCHANGED <<contexts, activeOperations, finalization>>
        /\ t \in contexts
    BY <1>7 DEF Register
  <2>2. expiryTimer'[t] = Touched(t, activeOperations[t])
    BY <2>1 DEF TypeOK
  <2>3. \A u \in Tx : u # t => expiryTimer'[u] = expiryTimer[u]
    BY <2>1 DEF TypeOK
  <2>4. Touched(t, activeOperations[t]) <=>
          (activeOperations[t] = 0 /\ finalization[t] = "none")
    BY DEF Touched
  <2>5. ASSUME NEW u \in contexts
        PROVE  expiryTimer'[u] <=> (activeOperations[u] = 0 /\ finalization[u] = "none")
    <3>1. CASE u = t
      BY <2>2, <2>4, <3>1
    <3>2. CASE u # t
      BY <2>3, <3>2 DEF IdleTimerCoversOpen, TypeOK
    <3> QED BY <3>1, <3>2
  <2> QED BY <2>1, <2>5 DEF IdleTimerCoversOpen
<1>8. CASE UNCHANGED vars
  BY <1>8 DEF vars, IdleTimerCoversOpen
<1>9. ASSUME NEW r \in Req, FinishRequest(r) \/ Disconnect(r)
      PROVE  IdleTimerCoversOpen'
  BY <1>4, <1>9 DEF FinishRequest, Disconnect
<1>10. ASSUME NEW t \in Tx, NEW o \in Owner, NEW p \in Phase, Finalize(t, o, p)
      PROVE  IdleTimerCoversOpen'
  BY <1>3, <1>10 DEF Finalize
<1>11. ASSUME NEW t \in Tx, Expire(t)
      PROVE  IdleTimerCoversOpen'
  BY <1>3, <1>11 DEF Expire, Phase
<1>12. ASSUME NEW t \in Tx, ForgetTerminal(t)
      PROVE  IdleTimerCoversOpen'
  BY <1>12 DEF ForgetTerminal, IdleTimerCoversOpen
<1> QED
  BY <1>1, <1>2, <1>5, <1>6, <1>7, <1>8, <1>9, <1>10, <1>11, <1>12 DEF Next, TxNext, ReqNext

\* No open transaction is left without somebody to end it, and no timer can
\* roll back a transaction that is leased or already finalizing.
THEOREM IdleTimerIsArmed == Spec => []IdleTimerCoversOpen
<1>1. Init => TypeOK /\ LoopInv /\ LeaseInv /\ IdleTimerCoversOpen
  BY InitInv DEF Init, IdleTimerCoversOpen
<1>2. TypeOK /\ LoopInv /\ LeaseInv /\ IdleTimerCoversOpen /\ [Next]_vars
        => TypeOK' /\ LoopInv' /\ LeaseInv' /\ IdleTimerCoversOpen'
  BY NextType, NextLease, NextTimer
<1> QED BY <1>1, <1>2, PTL DEF Spec

-----------------------------------------------------------------------------
\* While no client disconnects, a running handler holds its lease.
HandlersLeased == \A r \in Req : handler[r] = "running" => leased[r]

\* When clients wait for their responses, a handler runs only while its
\* transaction is live and undecided.
THEOREM HandlersProtected ==
  ASSUME Disconnects = FALSE
  PROVE  Spec => []HandlersSeeOpenTransaction
<1>1. Init => HandlersLeased
  BY DEF Init, HandlersLeased
<1>2. TypeOK /\ HandlersLeased /\ [Next]_vars => HandlersLeased'
  <2> SUFFICES ASSUME TypeOK, HandlersLeased, [Next]_vars
               PROVE  HandlersLeased'
    OBVIOUS
  <2>1. ASSUME NEW t \in Tx, NEW o \in Owner, NEW r \in Req, AcquireOperation(r, t, o)
        PROVE  HandlersLeased'
    BY <2>1 DEF AcquireOperation, HandlersLeased, TypeOK
  <2>2. ASSUME NEW r \in Req, FinishRequest(r)
        PROVE  HandlersLeased'
    BY <2>2 DEF FinishRequest, ReleaseOperation, HandlersLeased, TypeOK
  <2>3. ASSUME NEW r \in Req, Disconnect(r)
        PROVE  FALSE
    BY <2>3 DEF Disconnect
  <2>4. ASSUME UNCHANGED requestVars
        PROVE  HandlersLeased'
    BY <2>4 DEF requestVars, HandlersLeased
  <2> QED
    BY <2>1, <2>2, <2>3, <2>4
       DEF Next, TxNext, ReqNext, vars, Begin, Finalize, JoinFinalization, RetryFinalization,
           Expire, StartFinalization, RunAction, ForgetTerminal, Register
<1>3. TypeOK /\ LeaseInv /\ HandlersLeased => HandlersSeeOpenTransaction
  BY DEF TypeOK, LeaseInv, HandlersLeased, HandlersSeeOpenTransaction
<1>4. Init => TypeOK /\ LoopInv /\ LeaseInv
  BY InitInv
<1>5. TypeOK /\ LoopInv /\ LeaseInv /\ [Next]_vars => TypeOK' /\ LoopInv' /\ LeaseInv'
  BY NextType, NextLease
<1> QED BY <1>1, <1>2, <1>3, <1>4, <1>5, PTL DEF Spec

-----------------------------------------------------------------------------
\* A finalization that starts decides an open transaction.
LEMMA StartOutcome ==
  ASSUME NEW t \in Tx, NEW p \in Phase, NEW awaiting \in SUBSET {owner[t]},
         TypeOK, OutcomeInv, t \in contexts, StartFinalization(t, p, awaiting)
  PROVE  OutcomeInv' /\ (Outcome!Decide(t, p) \/ UNCHANGED Outcome!outcomeVars)
<1>1. /\ outcome[t] = "open"
      /\ outcome' = [outcome EXCEPT ![t] = p]
      /\ finalization' = [finalization EXCEPT ![t] = p]
      /\ UNCHANGED owner
  BY DEF TypeOK, OutcomeInv, StartFinalization, Idle, Phase
<1>2. CASE (IF p = "commit" THEN commitActions[t] ELSE Reverse(rollbackActions[t])) = <<>>
  <2>1. Complete(t, p, awaiting)
    BY <1>2 DEF StartFinalization
  <2>2. OutcomeInv'
    BY <1>1, <2>1 DEF TypeOK, OutcomeInv, Complete, Phase
  <2>3. awaiting = {} \/ awaiting = {owner[t]}
    OBVIOUS
  <2>4. told' = told \/ told' = [told EXCEPT ![t] = @ \cup {<<owner[t], p>>}]
    <3>1. CASE awaiting = {}
      <4>1. told[t] \cup (awaiting \X {p}) = told[t]
        BY <3>1
      <4> QED BY <2>1, <4>1 DEF Complete, TypeOK
    <3>2. CASE awaiting = {owner[t]}
      <4>1. awaiting \X {p} = {<<owner[t], p>>}
        BY <3>2
      <4> QED BY <2>1, <4>1 DEF Complete
    <3> QED BY <2>3, <3>1, <3>2
  <2> QED BY <1>1, <2>2, <2>4 DEF Outcome!Decide
<1>3. CASE (IF p = "commit" THEN commitActions[t] ELSE Reverse(rollbackActions[t])) # <<>>
  <2>1. /\ waiters' = [waiters EXCEPT ![t] = awaiting]
        /\ UNCHANGED <<contexts, terminal, told>>
    BY <1>3 DEF StartFinalization
  <2>2. OutcomeInv'
    BY <1>1, <2>1 DEF TypeOK, OutcomeInv, Phase
  <2> QED BY <1>1, <2>1, <2>2 DEF Outcome!Decide
<1> QED BY <1>2, <1>3

\* Telling a set of sessions that are all the owner is telling the owner.
LEMMA TellOwner ==
  ASSUME NEW t \in Tx, NEW sessions \in SUBSET {owner[t]}, TypeOK,
         outcome[t] \in Phase, UNCHANGED <<outcome, owner>>,
         told' = [told EXCEPT ![t] = @ \cup (sessions \X {outcome[t]})]
  PROVE  Outcome!Tell(t) \/ UNCHANGED Outcome!outcomeVars
<1>1. CASE sessions = {}
  <2>1. told[t] \cup (sessions \X {outcome[t]}) = told[t]
    BY <1>1
  <2> QED BY <2>1 DEF TypeOK, Outcome!outcomeVars
<1>2. CASE sessions = {owner[t]}
  <2>1. sessions \X {outcome[t]} = {<<owner[t], outcome[t]>>}
    BY <1>2
  <2> QED BY <2>1 DEF Outcome!Tell, Outcome!Phase, Phase
<1> QED BY <1>1, <1>2

\* Every step of the journal is a step of the promise, or changes nothing in it.
LEMMA NextOutcome ==
  TypeOK /\ OutcomeInv /\ [Next]_vars
    => OutcomeInv' /\ [Outcome!Next]_(Outcome!outcomeVars)
<1> SUFFICES ASSUME TypeOK, OutcomeInv, [Next]_vars
             PROVE  OutcomeInv' /\ [Outcome!Next]_(Outcome!outcomeVars)
  OBVIOUS
<1>1. ASSUME NEW t \in Tx, NEW o \in Owner, Begin(t, o)
      PROVE  OutcomeInv' /\ Outcome!Open(t, o)
  BY <1>1 DEF Begin, OutcomeInv, TypeOK, Phase, Outcome!Open
<1>2. ASSUME NEW t \in Tx, NEW o \in Owner, NEW p \in Phase, Finalize(t, o, p)
      PROVE  OutcomeInv' /\ (Outcome!Decide(t, p) \/ UNCHANGED Outcome!outcomeVars)
  <2>1. {o} \in SUBSET {owner[t]} /\ t \in contexts
    BY <1>2 DEF Finalize, OwnedActive
  <2> QED BY <1>2, <2>1, StartOutcome DEF Finalize
<1>3. ASSUME NEW t \in Tx, Expire(t)
      PROVE  OutcomeInv' /\ (Outcome!Decide(t, "rollback") \/ UNCHANGED Outcome!outcomeVars)
  <2>1. {} \in SUBSET {owner[t]} /\ "rollback" \in Phase
    BY DEF Phase
  <2> QED BY <1>3, <2>1, StartOutcome DEF Expire
<1>4. ASSUME NEW t \in Tx, NEW o \in Owner, NEW p \in Phase, JoinFinalization(t, o, p)
      PROVE  OutcomeInv' /\ UNCHANGED Outcome!outcomeVars
  <2>1. UNCHANGED Outcome!outcomeVars
    BY <1>4 DEF JoinFinalization, historyVars, Outcome!outcomeVars
  <2>2. OutcomeInv'
    BY <1>4 DEF JoinFinalization, OwnedActive, OutcomeInv, TypeOK, historyVars, Phase
  <2> QED BY <2>1, <2>2
<1>5. ASSUME NEW t \in Tx, NEW o \in Owner, NEW p \in Phase, RetryFinalization(t, o, p)
      PROVE  OutcomeInv' /\ (Outcome!Tell(t) \/ UNCHANGED Outcome!outcomeVars)
  <2>1. outcome[t] = p /\ owner[t] = o
    BY <1>5 DEF RetryFinalization, Remembers, OutcomeInv, Phase
  <2>2. OutcomeInv'
    BY <1>5 DEF RetryFinalization, OutcomeInv
  <2> QED
    BY <1>5, <2>1, <2>2 DEF RetryFinalization, Outcome!Tell, Outcome!Phase, Phase
<1>6. ASSUME NEW t \in Tx, NEW ok \in BOOLEAN, RunAction(t, ok)
      PROVE  OutcomeInv' /\ (Outcome!Tell(t) \/ UNCHANGED Outcome!outcomeVars)
  <2>1. outcome[t] = finalization[t] /\ outcome[t] \in Phase
        /\ UNCHANGED <<outcome, owner, finalization>>
    BY <1>6 DEF RunAction, OutcomeInv, TypeOK, Phase
  <2>2. CASE Complete(t, finalization[t], waiters[t])
    <3>1. OutcomeInv'
      BY <2>1, <2>2 DEF OutcomeInv, Complete, TypeOK, Phase
    <3>2. waiters[t] \in SUBSET {owner[t]}
      BY DEF OutcomeInv
    <3> QED BY <2>1, <2>2, <3>1, <3>2, TellOwner DEF Complete
  <2>3. CASE UNCHANGED <<contexts, terminal, told, waiters>>
    BY <2>1, <2>3 DEF OutcomeInv, Outcome!outcomeVars
  <2> QED BY <1>6, <2>2, <2>3 DEF RunAction
<1>7. ASSUME NEW t \in Tx, ForgetTerminal(t)
      PROVE  OutcomeInv' /\ UNCHANGED Outcome!outcomeVars
  <2>1. UNCHANGED Outcome!outcomeVars
    BY <1>7 DEF ForgetTerminal, historyVars, Outcome!outcomeVars
  <2>2. OutcomeInv'
    BY <1>7 DEF ForgetTerminal, OutcomeInv, TypeOK, historyVars, Phase
  <2> QED BY <2>1, <2>2
<1>8. ASSUME UNCHANGED <<contexts, owner, finalization, waiters, terminal, outcome, told>>
      PROVE  OutcomeInv' /\ UNCHANGED Outcome!outcomeVars
  BY <1>8 DEF OutcomeInv, Outcome!outcomeVars
<1>9. ASSUME NEW r \in Req, ReqNext(r)
      PROVE  UNCHANGED <<contexts, owner, finalization, waiters, terminal, outcome, told>>
  BY <1>9 DEF ReqNext, FinishRequest, Disconnect, Register, historyVars
<1>10. ASSUME NEW t \in Tx, NEW o \in Owner, NEW r \in Req, AcquireOperation(r, t, o)
       PROVE  UNCHANGED <<contexts, owner, finalization, waiters, terminal, outcome, told>>
  BY <1>10 DEF AcquireOperation, historyVars
<1>11. CASE UNCHANGED vars
  BY <1>8, <1>11 DEF vars, historyVars
<1>12. ASSUME NEW t \in Tx, TxNext(t)
       PROVE  OutcomeInv' /\ [Outcome!Next]_(Outcome!outcomeVars)
  BY <1>1, <1>2, <1>3, <1>4, <1>5, <1>6, <1>7, <1>8, <1>10, <1>12
     DEF TxNext, Outcome!Next, Outcome!Phase, Phase
<1> QED BY <1>8, <1>9, <1>11, <1>12 DEF Next

\* The journal implements the promise of TransactionOutcome: one decision per
\* transaction, and no result but that one ever reported, to its owner only.
THEOREM JournalImplementsOutcome == Spec => OutcomeSpec
<1>1. Init => TypeOK /\ LoopInv /\ OutcomeInv /\ Outcome!Init
  BY InitInv DEF Init, Outcome!Init
<1>2. TypeOK /\ LoopInv /\ OutcomeInv /\ [Next]_vars
        => TypeOK' /\ LoopInv' /\ OutcomeInv' /\ [Outcome!Next]_(Outcome!outcomeVars)
  BY NextType, NextOutcome
<1> QED BY <1>1, <1>2, PTL DEF Spec, OutcomeSpec, Outcome!Spec
-----------------------------------------------------------------------------
\* The position of each action: what has run is the front of the list of the
\* decided phase, all of it once the context is gone, and the list a rollback
\* iterates over is what was registered when it began, backwards.
PlanInv ==
  \A t \in Tx :
    finalization[t] = "rollback" =>
      /\ Len(plan[t]) <= Len(rollbackActions[t])
      /\ \A i \in 1..Len(plan[t]) :
           plan[t][i] = rollbackActions[t][Len(plan[t]) - i + 1]

RanInv ==
  \A t \in Tx :
    finalization[t] # "none" =>
      LET due == ActionsOf(t, finalization[t])
      IN  /\ Len(ran[t]) <= Len(due)
          /\ \A i \in 1..Len(ran[t]) : ran[t][i] = due[i]
          /\ t \notin contexts => Len(ran[t]) = Len(due)

LEMMA StartOrder ==
  ASSUME NEW t \in Tx, NEW p \in Phase, NEW awaiting \in SUBSET Owner,
         TypeOK, LoopInv, PlanInv, RanInv, t \in contexts, StartFinalization(t, p, awaiting)
  PROVE  PlanInv' /\ RanInv'
<1> DEFINE back == Reverse(rollbackActions[t])
<1>1. /\ finalization' = [finalization EXCEPT ![t] = p]
      /\ plan' = [plan EXCEPT ![t] = IF p = "commit" THEN <<>> ELSE back]
      /\ UNCHANGED <<commitActions, rollbackActions, ran>>
      /\ p \in {"commit", "rollback"} /\ contexts' \subseteq contexts
      /\ contexts \subseteq contexts' \cup {t}
      /\ t \notin contexts' /\ t \in contexts =>
           (IF p = "commit" THEN commitActions[t] ELSE back) = <<>>
  BY DEF StartFinalization, Complete, Phase
<1>2. ran[t] = <<>>
  BY DEF StartFinalization, Idle, LoopInv
<1>3. rollbackActions[t] \in Seq(Nat) /\ commitActions[t] \in Seq(Nat)
      /\ back \in Seq(Nat) /\ Len(back) = Len(rollbackActions[t])
      /\ \A i \in 1..Len(back) : back[i] = rollbackActions[t][Len(back) - i + 1]
  BY DEF TypeOK, Reverse
<1>4. PlanInv'
  <2>1. ASSUME NEW u \in Tx, u # t
        PROVE  finalization'[u] = finalization[u] /\ plan'[u] = plan[u]
    BY <1>1, <2>1 DEF TypeOK
  <2>2. finalization'[t] = p /\ plan'[t] = IF p = "commit" THEN <<>> ELSE back
    BY <1>1 DEF TypeOK
  <2> HIDE DEF back
  <2>3. finalization'[t] = "rollback" =>
          /\ Len(plan'[t]) <= Len(rollbackActions[t])
          /\ \A i \in 1..Len(plan'[t]) :
               plan'[t][i] = rollbackActions[t][Len(plan'[t]) - i + 1]
    <3>1. CASE p = "commit"
      BY <2>2, <3>1
    <3>2. CASE p # "commit"
      <4>1. plan'[t] = back
        BY <2>2, <3>2
      <4>2. /\ Len(plan'[t]) = Len(rollbackActions[t])
            /\ Len(rollbackActions[t]) \in Nat
        BY <1>3, <4>1
      <4>3. \A i \in 1..Len(back) : back[i] = rollbackActions[t][Len(back) - i + 1]
        BY <1>3
      <4>4. Len(back) <= Len(rollbackActions[t])
        BY <1>3, <4>1, <4>2
      <4> QED
        BY <4>1, <4>3, <4>4
    <3> QED
      BY <3>1, <3>2
  <2> QED
    BY <1>1, <2>1, <2>3 DEF PlanInv
<1>5. (IF p = "commit" THEN commitActions[t] ELSE back) = <<>> \/ t \in contexts'
  BY DEF StartFinalization
<1>6. ASSUME NEW u \in Tx, finalization'[u] # "none"
      PROVE  LET due == ActionsOf(u, finalization[u])'
             IN  /\ Len(ran'[u]) <= Len(due)
                 /\ \A i \in 1..Len(ran'[u]) : ran'[u][i] = due[i]
                 /\ u \notin contexts' => Len(ran'[u]) = Len(due)
  <2>1. CASE u = t
    <3>1. finalization'[t] = p /\ plan'[t] = IF p = "commit" THEN <<>> ELSE back
      BY <1>1 DEF TypeOK
    <3>2. ActionsOf(t, finalization[t])' = IF p = "commit" THEN commitActions[t] ELSE back
      BY <1>1, <3>1 DEF ActionsOf
    <3>3. ActionsOf(t, finalization[t])' \in Seq(Nat)
      BY <1>3, <3>2
    <3>4. Len(ran'[t]) = 0
      BY <1>1, <1>2
    <3> HIDE DEF back
    <3> QED
      BY <1>5, <2>1, <3>2, <3>3, <3>4
  <2>2. CASE u # t
    <3>2. finalization'[u] = finalization[u]
      BY <1>1, <2>2 DEF TypeOK
    <3>3. ActionsOf(u, finalization[u])' = ActionsOf(u, finalization[u])
      BY <1>1, <2>2 DEF TypeOK, ActionsOf
    <3>4. u \in contexts' <=> u \in contexts
      BY <1>1, <2>2
    <3> QED
      BY <1>1, <1>6, <3>2, <3>3, <3>4 DEF RanInv
  <2> QED
    BY <2>1, <2>2
<1> QED
  BY <1>4, <1>6 DEF RanInv

LEMMA RunOrder ==
  ASSUME NEW t \in Tx, NEW ok \in BOOLEAN, TypeOK, LoopInv, PlanInv, RanInv, RunAction(t, ok)
  PROVE  PlanInv' /\ RanInv'
<1> DEFINE due == ActionsOf(t, finalization[t])
           next == Len(ran[t]) + 1
<1>1. /\ finalization[t] # "none" /\ t \in contexts
      /\ UNCHANGED <<finalization, plan, commitActions, rollbackActions>>
      /\ ran' = [ran EXCEPT ![t] = Append(@, due[next])]
      /\ contexts \subseteq contexts' \cup {t} /\ contexts' \subseteq contexts
      /\ t \notin contexts' => next = Len(due)
  BY DEF RunAction, Complete, LoopEnds, Phase
<1>2. due \in Seq(Nat) /\ ran[t] \in Seq(Nat)
  BY DEF TypeOK, ActionsOf
<1>3. Len(ran[t]) < Len(due) /\ \A i \in 1..Len(ran[t]) : ran[t][i] = due[i]
  BY <1>1 DEF LoopInv, RanInv
<1>4. PlanInv'
  BY <1>1 DEF PlanInv
<1>5. \A u \in Tx : ActionsOf(u, finalization[u])' = ActionsOf(u, finalization[u])
  BY <1>1 DEF ActionsOf
<1>6. /\ ran'[t] = Append(ran[t], due[next]) /\ next \in 1..Len(due)
      /\ \A u \in Tx \ {t} : ran'[u] = ran[u] /\ (u \in contexts' <=> u \in contexts)
  BY <1>1, <1>2, <1>3 DEF TypeOK
<1> HIDE DEF due
<1>7. /\ Len(ran'[t]) <= Len(due)
      /\ \A i \in 1..Len(ran'[t]) : ran'[t][i] = due[i]
      /\ t \notin contexts' => Len(ran'[t]) = Len(due)
  BY <1>1, <1>2, <1>3, <1>6
<1> QED
  BY <1>1, <1>4, <1>5, <1>6, <1>7 DEF RanInv, due

LEMMA RegisterOrder ==
  ASSUME NEW r \in Req, NEW p \in Phase, TypeOK, LoopInv, PlanInv, RanInv, Register(r, p)
  PROVE  PlanInv' /\ RanInv'
<1> DEFINE t == inTx[r]
           id == Len(commitActions[t]) + Len(rollbackActions[t]) + 1
<1>1. t \in Tx /\ t \in contexts /\ id \in Nat
  BY DEF Register, TypeOK
<1>2. /\ \/ commitActions' = [commitActions EXCEPT ![t] = Append(@, id)]
         \/ commitActions' = commitActions
      /\ \/ rollbackActions' = [rollbackActions EXCEPT ![t] = Append(@, id)]
         \/ rollbackActions' = rollbackActions
      /\ UNCHANGED <<contexts, plan, ran, finalization>>
  BY DEF Register
<1> HIDE DEF id
<1> HIDE DEF t
<1>3. ASSUME NEW u \in Tx
      PROVE  /\ rollbackActions[u] \in Seq(Nat) /\ commitActions[u] \in Seq(Nat)
             /\ rollbackActions'[u] \in {rollbackActions[u], Append(rollbackActions[u], id)}
             /\ commitActions'[u] \in {commitActions[u], Append(commitActions[u], id)}
             /\ u \notin contexts => commitActions'[u] = commitActions[u]
  <2>1. /\ \/ rollbackActions'[u] = rollbackActions[u]
           \/ rollbackActions'[u] = Append(rollbackActions[u], id)
        /\ \/ commitActions'[u] = commitActions[u]
           \/ /\ u = t
              /\ commitActions'[u] = Append(commitActions[u], id)
    <3>1. \/ rollbackActions'[u] = rollbackActions[u]
          \/ rollbackActions'[u] = Append(rollbackActions[u], id)
      <4>1. CASE rollbackActions' = [rollbackActions EXCEPT ![t] = Append(@, id)]
        BY <1>1, <4>1 DEF TypeOK
      <4> QED
        BY <1>2, <4>1
    <3>2. \/ commitActions'[u] = commitActions[u]
          \/ /\ u = t
             /\ commitActions'[u] = Append(commitActions[u], id)
      <4>1. CASE commitActions' = [commitActions EXCEPT ![t] = Append(@, id)]
        BY <1>1, <4>1 DEF TypeOK
      <4> QED
        BY <1>2, <4>1
    <3> QED
      BY <3>1, <3>2
  <2>2. rollbackActions[u] \in Seq(Nat) /\ commitActions[u] \in Seq(Nat)
    BY DEF TypeOK
  <2> QED
    BY <1>1, <2>1, <2>2
<1>4. ASSUME NEW u \in Tx
      PROVE  /\ Len(rollbackActions[u]) <= Len(rollbackActions'[u])
             /\ \A i \in 1..Len(rollbackActions[u]) :
                  rollbackActions'[u][i] = rollbackActions[u][i]
             /\ Len(commitActions[u]) <= Len(commitActions'[u])
             /\ \A i \in 1..Len(commitActions[u]) : commitActions'[u][i] = commitActions[u][i]
  <2>1. ASSUME NEW s \in Seq(Nat), NEW w \in {s, Append(s, id)}
        PROVE  Len(s) <= Len(w) /\ \A i \in 1..Len(s) : w[i] = s[i]
    <3>1. CASE w = s
      BY <3>1
    <3>2. CASE w = Append(s, id)
      BY <1>1, <3>2
    <3> QED
      BY <3>1, <3>2
  <2> QED
    BY <1>3, <2>1
<1>5. PlanInv'
  <2>1. ASSUME NEW u \in Tx, finalization'[u] = "rollback"
        PROVE  /\ Len(plan'[u]) <= Len(rollbackActions'[u])
               /\ \A i \in 1..Len(plan'[u]) :
                    plan'[u][i] = rollbackActions'[u][Len(plan'[u]) - i + 1]
    <3>1. /\ Len(plan[u]) \in Nat /\ Len(rollbackActions[u]) \in Nat
          /\ Len(rollbackActions'[u]) \in Nat
      <4>1. \A s \in Seq(Nat) : Len(Append(s, id)) \in Nat /\ Len(s) \in Nat
        BY <1>1
      <4> QED
        BY <1>3, <4>1 DEF TypeOK
    <3>2. /\ Len(plan[u]) <= Len(rollbackActions[u])
          /\ \A i \in 1..Len(plan[u]) : plan[u][i] = rollbackActions[u][Len(plan[u]) - i + 1]
      BY <1>2, <2>1 DEF PlanInv
    <3>3. /\ Len(rollbackActions[u]) <= Len(rollbackActions'[u])
          /\ \A i \in 1..Len(rollbackActions[u]) :
               rollbackActions'[u][i] = rollbackActions[u][i]
      BY <1>4
    <3>4. ASSUME NEW i \in 1..Len(plan[u])
          PROVE  plan[u][i] = rollbackActions'[u][Len(plan[u]) - i + 1]
      <4>1. Len(plan[u]) - i + 1 \in 1..Len(rollbackActions[u])
        BY <3>1, <3>2
      <4> QED
        BY <3>2, <3>3, <4>1
    <3>5. plan'[u] = plan[u]
      BY <1>2
    <3>6. Len(plan[u]) <= Len(rollbackActions'[u])
      BY <3>1, <3>2, <3>3
    <3> QED
      BY <3>4, <3>5, <3>6
  <2> QED
    BY <2>1 DEF PlanInv
<1>6. ASSUME NEW u \in Tx, finalization[u] # "none"
      PROVE  LET due == ActionsOf(u, finalization[u])'
             IN  /\ Len(ran[u]) <= Len(due)
                 /\ \A i \in 1..Len(ran[u]) : ran[u][i] = due[i]
                 /\ u \notin contexts => Len(ran[u]) = Len(due)
  <2>1. /\ Len(commitActions'[u]) \in Nat /\ Len(commitActions[u]) \in Nat
        /\ Len(ran[u]) \in Nat
    <3>1. \A s \in Seq(Nat) : Len(Append(s, id)) \in Nat /\ Len(s) \in Nat
      BY <1>1
    <3> QED
      BY <1>3, <3>1 DEF TypeOK
  <2>2. CASE finalization[u] = "commit"
    <3>1. /\ ActionsOf(u, finalization[u]) = commitActions[u]
          /\ ActionsOf(u, finalization[u])' = commitActions'[u]
      BY <1>2, <2>2 DEF ActionsOf
    <3>2. /\ Len(ran[u]) <= Len(commitActions[u])
          /\ \A i \in 1..Len(ran[u]) : ran[u][i] = commitActions[u][i]
          /\ u \notin contexts => Len(ran[u]) = Len(commitActions[u])
      BY <1>6, <3>1 DEF RanInv
    <3>3. u \notin contexts => commitActions'[u] = commitActions[u]
      BY <1>3
    <3>4. /\ Len(commitActions[u]) <= Len(commitActions'[u])
          /\ \A i \in 1..Len(commitActions[u]) : commitActions'[u][i] = commitActions[u][i]
      BY <1>4
    <3> QED
      BY <2>1, <3>1, <3>2, <3>3, <3>4
  <2>3. CASE finalization[u] # "commit"
    BY <1>2, <1>6, <2>3 DEF RanInv, ActionsOf
  <2> QED
    BY <2>2, <2>3
<1> QED
  BY <1>2, <1>5, <1>6 DEF RanInv

LEMMA NextOrder ==
  ASSUME TypeOK, LoopInv, PlanInv, RanInv, [Next]_vars
  PROVE  PlanInv' /\ RanInv'
<1>1. ASSUME UNCHANGED <<contexts, contextVars, finalization>> PROVE PlanInv' /\ RanInv'
  BY <1>1 DEF contextVars, PlanInv, RanInv, ActionsOf
<1>2. ASSUME NEW t \in Tx, NEW o \in Owner, Begin(t, o) PROVE PlanInv' /\ RanInv'
  <2>1. /\ UNCHANGED <<commitActions, rollbackActions, plan, ran, finalization>>
        /\ finalization[t] = "none" /\ contexts' = contexts \cup {t}
    BY <1>2 DEF Begin, LoopInv, contextVars
  <2> QED
    BY <2>1 DEF PlanInv, RanInv, ActionsOf
<1>3. ASSUME NEW t \in Tx, TxNext(t) PROVE PlanInv' /\ RanInv'
  <2>1. ASSUME NEW o \in Owner, NEW p \in Phase, Finalize(t, o, p) PROVE PlanInv' /\ RanInv'
    BY <2>1, StartOrder, {o} \in SUBSET Owner DEF Finalize, OwnedActive
  <2>2. CASE Expire(t)
    BY <2>2, StartOrder, {} \in SUBSET Owner DEF Expire, Phase
  <2> QED
    BY <1>1, <1>2, <1>3, <2>1, <2>2, RunOrder
    DEF TxNext, AcquireOperation, JoinFinalization, RetryFinalization, ForgetTerminal
<1>4. ASSUME NEW r \in Req, ReqNext(r) PROVE PlanInv' /\ RanInv'
  BY <1>1, <1>4, RegisterOrder DEF ReqNext, FinishRequest, Disconnect
<1> QED
  BY <1>1, <1>3, <1>4 DEF Next, vars

\* A finished transaction has run exactly the actions of its phase, each once,
\* a commit in registration order and a rollback backwards, however many of
\* them threw and whatever a handler without its lease registered meanwhile.
THEOREM ActionsInOrder == Spec => []ActionsRunOnceInOrder
<1>1. Init => PlanInv /\ RanInv
  BY DEF Init, PlanInv, RanInv
<1>2. ASSUME TypeOK, LoopInv, OutcomeInv, PlanInv, RanInv, NEW t \in Tx
      PROVE  LET planned == Len(plan[t])
                 due == CASE finalization[t] = "commit" -> commitActions[t]
                          [] finalization[t] = "rollback" ->
                               Reverse(SubSeq(rollbackActions[t], 1, planned))
                          [] OTHER -> <<>>
             IN  /\ IsPrefix(ran[t], due)
                 /\ outcome[t] \in Phase /\ t \notin contexts => ran[t] = due
  <2>1. /\ ran[t] \in Seq(Nat) /\ plan[t] \in Seq(Nat) /\ commitActions[t] \in Seq(Nat)
        /\ rollbackActions[t] \in Seq(Nat)
        /\ finalization[t] \in {"none", "commit", "rollback"}
        /\ outcome[t] \in Phase => finalization[t] = outcome[t]
    BY <1>2 DEF TypeOK, OutcomeInv, Phase
  <2>2. ASSUME NEW due \in Seq(Nat), Len(ran[t]) <= Len(due),
               \A i \in 1..Len(ran[t]) : ran[t][i] = due[i]
        PROVE  /\ IsPrefix(ran[t], due)
               /\ Len(ran[t]) = Len(due) => ran[t] = due
    <3>1. SubSeq(ran[t], 1, Len(ran[t])) = SubSeq(due, 1, Len(ran[t]))
      <4> DEFINE x == SubSeq(ran[t], 1, Len(ran[t]))
                 y == SubSeq(due, 1, Len(ran[t]))
      <4>1. /\ x \in Seq(Nat) /\ Len(x) = Len(ran[t])
            /\ \A i \in 1..Len(x) : x[i] = ran[t][i]
        BY <2>1
      <4>2. /\ y \in Seq(Nat) /\ Len(y) = Len(ran[t])
            /\ \A i \in 1..Len(y) : y[i] = due[i]
        BY <2>1, <2>2
      <4> HIDE DEF x, y
      <4>3. x = y
        BY <2>2, <4>1, <4>2, SeqEqual
      <4> QED
        BY <4>3 DEF x, y
    <3>2. Len(ran[t]) = Len(due) => ran[t] = due
      BY <2>1, <2>2, SeqEqual
    <3> QED
      BY <2>2, <3>1, <3>2 DEF IsPrefix
  <2>3. CASE finalization[t] = "commit"
    <3>1. ActionsOf(t, finalization[t]) = commitActions[t]
      BY <2>3 DEF ActionsOf
    <3> QED
      BY <1>2, <2>1, <2>2, <2>3, <3>1 DEF RanInv
  <2>4. CASE finalization[t] = "rollback"
    <3>1. ActionsOf(t, finalization[t]) = plan[t]
      BY <2>4 DEF ActionsOf
    <3>2. plan[t] = Reverse(SubSeq(rollbackActions[t], 1, Len(plan[t])))
      <4>1. /\ Len(plan[t]) <= Len(rollbackActions[t])
            /\ \A i \in 1..Len(plan[t]) :
                 plan[t][i] = rollbackActions[t][Len(plan[t]) - i + 1]
        BY <1>2, <2>4 DEF PlanInv
      <4> DEFINE front == SubSeq(rollbackActions[t], 1, Len(plan[t]))
      <4>2. /\ front \in Seq(Nat) /\ Len(front) = Len(plan[t])
            /\ \A i \in 1..Len(front) : front[i] = rollbackActions[t][i]
        <5>1. Len(plan[t]) \in Nat /\ Len(plan[t]) <= Len(rollbackActions[t])
          BY <2>1, <4>1
        <5>2. \A i \in 1..Len(plan[t]) : rollbackActions[t][i] \in Nat
          BY <2>1, <5>1
        <5> QED
          BY <5>1, <5>2, SubSeqProperties
      <4> HIDE DEF front
      <4>3. Reverse(front) = [i \in 1..Len(front) |-> front[Len(front) - i + 1]]
        BY DEF Reverse
      <4>4. Reverse(front) \in Seq(Nat) /\ Len(Reverse(front)) = Len(front)
        BY <4>2, ReverseType
      <4>5. \A i \in 1..Len(front) : Reverse(front)[i] = plan[t][i]
        <5>1. Len(front) \in Nat
          BY <4>2
        <5>2. ASSUME NEW i \in 1..Len(front) PROVE Reverse(front)[i] = plan[t][i]
          <6>1. Len(front) - i + 1 \in 1..Len(front)
            BY <5>1, <5>2
          <6>2. Reverse(front)[i] = front[Len(front) - i + 1]
            BY <4>3
          <6> QED
            BY <4>1, <4>2, <6>1, <6>2
        <5> QED
          BY <5>2
      <4>6. plan[t] = Reverse(front)
        BY <2>1, <4>2, <4>4, <4>5, SeqEqual
      <4> QED
        BY <4>6 DEF front
    <3> QED
      BY <1>2, <2>1, <2>2, <2>4, <3>1, <3>2 DEF RanInv
  <2>5. CASE finalization[t] = "none"
    <3>1. ran[t] = <<>> /\ outcome[t] \notin Phase
      BY <1>2, <2>1, <2>5 DEF LoopInv, Phase
    <3>2. IsPrefix(ran[t], <<>>)
      BY <3>1 DEF IsPrefix
    <3> QED
      BY <2>5, <3>1, <3>2
  <2> QED
    BY <2>1, <2>3, <2>4, <2>5
<1>3. TypeOK /\ LoopInv /\ OutcomeInv /\ PlanInv /\ RanInv => ActionsRunOnceInOrder
  BY <1>2 DEF ActionsRunOnceInOrder
<1> QED
  BY <1>1, <1>3, InitInv, NextType, NextOutcome, NextOrder, PTL DEF Spec
=============================================================================
