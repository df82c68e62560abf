------------------------- MODULE TransactionJournal -------------------------
(***************************************************************************)
(* The compensation journal of api/src/storage/transactions-support.ts,    *)
(* together with the HTTP middleware that leases a transaction to one      *)
(* participating request (api/src/http/middleware/explicit-transaction.ts).*)
(*                                                                         *)
(* Node runs one callback at a time, so each action below is the code      *)
(* between two awaits of real I/O.  An action of the journal (a            *)
(* TransactionAction) is known by the order in which it was registered.    *)
(***************************************************************************)
EXTENDS Integers, Sequences, SequencesExt

CONSTANTS
  Tx,           \* transaction identifiers (randomUUID)
  Owner,        \* API sessions (token identifiers)
  NoOwner,
  Req,          \* requests carrying x-manatos-transaction-id, each served once
  NoTx,
  MaxActions,   \* bound: actions registered in one transaction
  Disconnects   \* whether a client may drop its connection mid-request

ASSUME NoOwnerAssumption == NoOwner \notin Owner
ASSUME NoTxAssumption == NoTx \notin Tx
ASSUME MaxActionsAssumption == MaxActions \in Nat
ASSUME DisconnectsAssumption == Disconnects \in BOOLEAN

VARIABLES
  contexts,          \* keys of the contexts map: transactions still live
  owner,             \* context.ownerId, kept by the terminal entry
  commitActions,     \* context.commitActions
  rollbackActions,   \* context.rollbackActions
  activeOperations,  \* context.activeOperations
  expiryTimer,       \* whether context.expiryTimer is armed
  finalization,      \* context.finalization?.phase
  plan,              \* the reversed copy a rollback iterates over
  ran,               \* actions executed so far, in order (context.history)
  failures,          \* those of them that threw
  waiters,           \* sessions awaiting the finalization promise
  terminal,          \* the terminal map: remembered phase, or "none"
  handler,           \* request: "idle", "running" (its handler), "done"
  inTx,              \* transaction a request was enlisted in
  leased,            \* the request's lease is not released yet
  outcome,           \* history: "unborn", "open", or the phase decided
  told               \* history: results returned, as <<session, phase>>

contextVars == <<commitActions, rollbackActions, plan, ran, failures>>
requestVars == <<handler, inTx, leased>>
historyVars == <<outcome, told>>
vars == <<contexts, owner, contextVars, activeOperations, expiryTimer,
          finalization, waiters, terminal, requestVars, historyVars>>

Phase == {"commit", "rollback"}

Init ==
  /\ contexts = {}
  /\ owner = [t \in Tx |-> NoOwner]
  /\ commitActions = [t \in Tx |-> <<>>]
  /\ rollbackActions = [t \in Tx |-> <<>>]
  /\ activeOperations = [t \in Tx |-> 0]
  /\ expiryTimer = [t \in Tx |-> FALSE]
  /\ finalization = [t \in Tx |-> "none"]
  /\ plan = [t \in Tx |-> <<>>]
  /\ ran = [t \in Tx |-> <<>>]
  /\ failures = [t \in Tx |-> {}]
  /\ waiters = [t \in Tx |-> {}]
  /\ terminal = [t \in Tx |-> "none"]
  /\ handler = [r \in Req |-> "idle"]
  /\ inTx = [r \in Req |-> NoTx]
  /\ leased = [r \in Req |-> FALSE]
  /\ outcome = [t \in Tx |-> "unborn"]
  /\ told = [t \in Tx |-> {}]

-----------------------------------------------------------------------------
\* ownedActive: a live context of the calling session; anything else throws.
OwnedActive(t, o) == t \in contexts /\ owner[t] = o

\* Mutants of touch: it arms the timer of a finalizing transaction; it never
\* arms it again.
TouchedWhileFinalizing(t, active) == active = 0
NeverTouched(t, active) == FALSE

\* touch: restart the idle timer, unless leased or finalizing.
Touched(t, active) == active = 0 /\ finalization[t] = "none"

\* The guard acquireOperation and a first finalize share.
Idle(t) == activeOperations[t] = 0 /\ finalization[t] = "none"

\* POST /transactions.
Begin(t, o) ==
  /\ outcome[t] = "unborn"
  /\ contexts' = contexts \cup {t}
  /\ owner' = [owner EXCEPT ![t] = o]
  /\ expiryTimer' = [expiryTimer EXCEPT ![t] = TRUE]
  /\ outcome' = [outcome EXCEPT ![t] = "open"]
  /\ UNCHANGED <<contextVars, activeOperations, finalization, waiters,
                 terminal, requestVars, told>>

\* A request with the transaction header passes the middleware.
AcquireOperation(r, t, o) ==
  /\ handler[r] = "idle"
  /\ OwnedActive(t, o)
  /\ Idle(t)
  /\ activeOperations' = [activeOperations EXCEPT ![t] = @ + 1]
  /\ expiryTimer' = [expiryTimer EXCEPT ![t] = FALSE]
  /\ handler' = [handler EXCEPT ![r] = "running"]
  /\ inTx' = [inTx EXCEPT ![r] = t]
  /\ leased' = [leased EXCEPT ![r] = TRUE]
  /\ UNCHANGED <<contexts, owner, contextVars, finalization, waiters,
                 terminal, historyVars>>

\* Mutant: 'finish' and 'close' each release, the second one the lease that
\* another request holds by then.
ReleasesEachTime(r) == activeOperations[inTx[r]] > 0

\* The middleware's `released` flag, and releaseOperation's own guard.
ReleaseCounts(r) == leased[r] /\ activeOperations[inTx[r]] > 0

\* releaseOperation, as the middleware's release() calls it.
ReleaseOperation(r) ==
  LET t == inTx[r]
      left == activeOperations[t] - 1
  IN  /\ leased' = [leased EXCEPT ![r] = FALSE]
      /\ IF t \in contexts /\ ReleaseCounts(r)
         THEN /\ activeOperations' = [activeOperations EXCEPT ![t] = left]
              /\ expiryTimer' = [expiryTimer EXCEPT ![t] = Touched(t, left)]
         ELSE UNCHANGED <<activeOperations, expiryTimer>>

\* The response is sent: 'finish'.
FinishRequest(r) ==
  /\ handler[r] = "running"
  /\ handler' = [handler EXCEPT ![r] = "done"]
  /\ ReleaseOperation(r)
  /\ UNCHANGED <<contexts, owner, contextVars, finalization, waiters,
                 terminal, inTx, historyVars>>

\* The connection drops first: 'close'.  The handler keeps running.
Disconnect(r) ==
  /\ Disconnects
  /\ handler[r] = "running"
  /\ leased[r]
  /\ ReleaseOperation(r)
  /\ UNCHANGED <<contexts, owner, contextVars, finalization, waiters,
                 terminal, handler, inTx, historyVars>>

\* A handler registers a commit or a rollback action.  The lease is not
\* looked at: any handler of a live transaction may register.
Register(r, p) ==
  LET t == inTx[r]
      id == Len(commitActions[t]) + Len(rollbackActions[t]) + 1
  IN  /\ handler[r] = "running"
      /\ t \in contexts
      /\ id <= MaxActions
      /\ IF p = "commit"
         THEN /\ commitActions' = [commitActions EXCEPT ![t] = Append(@, id)]
              /\ UNCHANGED rollbackActions
         ELSE /\ rollbackActions' = [rollbackActions EXCEPT ![t] = Append(@, id)]
              /\ UNCHANGED commitActions
      /\ expiryTimer' = [expiryTimer EXCEPT ![t] = Touched(t, activeOperations[t])]
      /\ UNCHANGED <<contexts, owner, plan, ran, failures, activeOperations,
                     finalization, waiters, terminal, requestVars, historyVars>>

-----------------------------------------------------------------------------
\* runFinalization's epilogue: remember the result, resolve the promise, drop
\* the context.  onFinalized only logs and its errors are swallowed.
Complete(t, p, awaiting) ==
  /\ contexts' = contexts \ {t}
  /\ terminal' = [terminal EXCEPT ![t] = p]
  /\ told' = [told EXCEPT ![t] = @ \cup (awaiting \X {p})]
  /\ waiters' = [waiters EXCEPT ![t] = {}]

\* The list runFinalization iterates over: the live commit list, which a late
\* registration still extends, or the reversed copy of the rollback list.
ActionsOf(t, p) ==
  IF p = "commit" THEN commitActions[t] ELSE plan[t]

\* finalize, first call: refused while an operation is leased.
StartFinalization(t, p, awaiting) ==
  LET reversed == Reverse(rollbackActions[t])
      todo == IF p = "commit" THEN commitActions[t] ELSE reversed
  IN  /\ Idle(t)
      /\ finalization' = [finalization EXCEPT ![t] = p]
      /\ expiryTimer' = [expiryTimer EXCEPT ![t] = FALSE]
      /\ plan' = [plan EXCEPT ![t] = IF p = "commit" THEN <<>> ELSE reversed]
      /\ outcome' = [outcome EXCEPT ![t] = p]
      /\ IF todo = <<>>
         THEN Complete(t, p, awaiting)
         ELSE /\ waiters' = [waiters EXCEPT ![t] = awaiting]
              /\ UNCHANGED <<contexts, terminal, told>>
      /\ UNCHANGED <<owner, commitActions, rollbackActions, ran, failures,
                     activeOperations, requestVars>>

\* POST /transactions/:id/$commit and /$rollback.
Finalize(t, o, p) ==
  /\ terminal[t] = "none"
  /\ OwnedActive(t, o)
  /\ StartFinalization(t, p, {o})

\* The same call while the same phase is running: share its promise.
JoinFinalization(t, o, p) ==
  /\ terminal[t] = "none"
  /\ OwnedActive(t, o)
  /\ activeOperations[t] = 0
  /\ finalization[t] = p
  /\ waiters' = [waiters EXCEPT ![t] = @ \cup {o}]
  /\ UNCHANGED <<contexts, owner, contextVars, activeOperations, expiryTimer,
                 finalization, terminal, requestVars, historyVars>>

\* Mutant: a retry does not compare the phases.
RemembersAny(t, p) == terminal[t] # "none"

\* completed.result.phase = phase; the other phase is refused.
Remembers(t, p) == terminal[t] = p

\* The same call after the end: the remembered result, again.
RetryFinalization(t, o, p) ==
  /\ Remembers(t, p)
  /\ owner[t] = o
  /\ told' = [told EXCEPT ![t] = @ \cup {<<o, p>>}]
  /\ UNCHANGED <<contexts, owner, contextVars, activeOperations, expiryTimer,
                 finalization, waiters, terminal, requestVars, outcome>>

\* The idle timer fires: an abandoned transaction is rolled back.
Expire(t) ==
  /\ expiryTimer[t]
  /\ t \in contexts
  /\ StartFinalization(t, "rollback", {})

\* Mutant: the first action that throws ends the loop.
EndsAtFailure(t, position, ok) ==
  ~ok \/ position = Len(ActionsOf(t, finalization[t]))

\* Whether the loop of runFinalization ends after the action at `position`.
LoopEnds(t, position, ok) == position = Len(ActionsOf(t, finalization[t]))

\* The action in progress settles.  One that throws is recorded and the loop
\* goes on; after the last one the finalization completes.
RunAction(t, ok) ==
  LET p == finalization[t]
      next == Len(ran[t]) + 1
  IN  /\ t \in contexts
      /\ p \in Phase
      /\ ran' = [ran EXCEPT ![t] = Append(@, ActionsOf(t, p)[next])]
      /\ failures' = [failures EXCEPT
           ![t] = IF ok THEN @ ELSE @ \cup {ActionsOf(t, p)[next]}]
      /\ IF LoopEnds(t, next, ok)
         THEN Complete(t, p, waiters[t])
         ELSE UNCHANGED <<contexts, terminal, told, waiters>>
      /\ UNCHANGED <<owner, commitActions, rollbackActions, plan,
                     activeOperations, expiryTimer, finalization, requestVars,
                     outcome>>

\* terminalRetentionMs passes: the cleanup timer or purgeTerminal forgets t.
ForgetTerminal(t) ==
  /\ terminal[t] # "none"
  /\ terminal' = [terminal EXCEPT ![t] = "none"]
  /\ UNCHANGED <<contexts, owner, contextVars, activeOperations, expiryTimer,
                 finalization, waiters, requestVars, historyVars>>

-----------------------------------------------------------------------------
TxNext(t) ==
  \/ \E o \in Owner : Begin(t, o)
  \/ \E o \in Owner, r \in Req : AcquireOperation(r, t, o)
  \/ \E o \in Owner, p \in Phase : Finalize(t, o, p)
  \/ \E o \in Owner, p \in Phase : JoinFinalization(t, o, p)
  \/ \E o \in Owner, p \in Phase : RetryFinalization(t, o, p)
  \/ Expire(t)
  \/ \E ok \in BOOLEAN : RunAction(t, ok)
  \/ ForgetTerminal(t)

ReqNext(r) ==
  \/ FinishRequest(r)
  \/ Disconnect(r)
  \/ \E p \in Phase : Register(r, p)

Next == (\E t \in Tx : TxNext(t)) \/ (\E r \in Req : ReqNext(r))

Spec == Init /\ [][Next]_vars

\* A handler returns or throws, a settled action is followed by the next, and
\* an armed Node timer fires.  Nothing obliges a client to call at all.
Fairness ==
  /\ \A r \in Req : WF_vars(FinishRequest(r))
  /\ \A t \in Tx : WF_vars(\E ok \in BOOLEAN : RunAction(t, ok))
  /\ \A t \in Tx : WF_vars(Expire(t))

FairSpec == Spec /\ Fairness

-----------------------------------------------------------------------------
TypeOK ==
  /\ contexts \subseteq Tx
  /\ owner \in [Tx -> Owner \cup {NoOwner}]
  /\ commitActions \in [Tx -> Seq(Nat)]
  /\ rollbackActions \in [Tx -> Seq(Nat)]
  /\ activeOperations \in [Tx -> Nat]
  /\ expiryTimer \in [Tx -> BOOLEAN]
  /\ finalization \in [Tx -> Phase \cup {"none"}]
  /\ plan \in [Tx -> Seq(Nat)]
  /\ ran \in [Tx -> Seq(Nat)]
  /\ failures \in [Tx -> SUBSET Nat]
  /\ waiters \in [Tx -> SUBSET Owner]
  /\ terminal \in [Tx -> Phase \cup {"none"}]
  /\ handler \in [Req -> {"idle", "running", "done"}]
  /\ inTx \in [Req -> Tx \cup {NoTx}]
  /\ leased \in [Req -> BOOLEAN]
  /\ outcome \in [Tx -> {"unborn", "open"} \cup Phase]
  /\ told \in [Tx -> SUBSET (Owner \X Phase)]

\* The lease is exclusive and is never held by a transaction that has begun to
\* finalize: the journal's own count agrees with the requests that hold it,
\* whichever of 'finish' and 'close' released the earlier ones.
LeaseIsExclusive ==
  \A t \in Tx :
    /\ t \in contexts =>
         activeOperations[t] = (IF \E r \in Req : leased[r] /\ inTx[r] = t
                                THEN 1 ELSE 0)
    /\ \A r, q \in Req :
         leased[r] /\ leased[q] /\ inTx[r] = t /\ inTx[q] = t => r = q
    /\ finalization[t] # "none" => activeOperations[t] = 0

\* An open transaction is either leased or has its idle timer armed, never
\* both: none is forgotten with nobody left to end it, and no timer is left
\* that could roll back a transaction in use or one already finalizing.
IdleTimerCoversOpen ==
  \A t \in contexts :
    expiryTimer[t] <=> (activeOperations[t] = 0 /\ finalization[t] = "none")

\* While its handler runs, a request's transaction is live and undecided:
\* what it registers is seen by the finalization that follows.
\* (api/src/storage/transactions-support.ts:130-134 says an expiry "must never
\* race an operation that is still mutating storage".)
HandlersSeeOpenTransaction ==
  \A r \in Req :
    handler[r] = "running" => /\ inTx[r] \in contexts
                              /\ finalization[inTx[r]] = "none"

\* A finished transaction has run exactly the actions of its phase, all of
\* them, once, however many of them failed; an unfinished one, a prefix.  A
\* commit runs in registration order and includes what a handler that lost
\* its lease registers while it runs; a rollback runs in reverse what was
\* registered by the time it began.
ActionsRunOnceInOrder ==
  \A t \in Tx :
    LET planned == Len(plan[t])
        due == CASE finalization[t] = "commit" -> commitActions[t]
                 [] finalization[t] = "rollback" ->
                      Reverse(SubSeq(rollbackActions[t], 1, planned))
                 [] OTHER -> <<>>
    IN  /\ IsPrefix(ran[t], due)
        /\ outcome[t] \in Phase /\ t \notin contexts => ran[t] = due

\* A transaction that has been opened is eventually finalized, also when its
\* client has gone away, its handlers fail or its compensations throw.
EventuallyFinalized ==
  \A t \in Tx : t \in contexts ~> t \notin contexts

\* The journal implements the abstract promise: one decision per transaction,
\* reported only to its owner, also across retries and forgotten results.
Outcome == INSTANCE TransactionOutcome
OutcomeSpec == Outcome!Spec
=============================================================================
