--------------------------- MODULE WorkspaceCommit ---------------------------
(***************************************************************************)
(* The Commit of an Organization workspace, across three programs: the     *)
(* page plans what it will ask for (buildWorkspaceCommitPlan) and lets the *)
(* user review it; its host runs one explicit transaction around it        *)
(* (commitMetadataDrivenHierarchy in ui.EJS0/src/routes/sysbo/hierarchy/); *)
(* the API executes the plan as one datastore transaction                  *)
(* (api/src/http/routes/workspace-commit-router.ts), through the service   *)
(* of principals.  Answers get lost between any two of them, transactions  *)
(* are left to expire, and other clients write at the same time.           *)
(*                                                                         *)
(* The API's execution awaits no I/O before its save, so it is one action. *)
(* A record created for the draft d by the n-th Commit is known as <<d,n>>.*)
(***************************************************************************)
EXTENDS OrganizationWorkspace, SequencesExt

CONSTANTS
  Rank,        \* the order of identities as strings
  Licensed,    \* principals that have a license
  MaxWrites,   \* bound: Commits sent and writes of other clients, together
  MaxOthers    \* bound: writes of other clients

Attempt == 1..MaxWrites

ASSUME RankAssumption ==
  /\ Rank \in [Member \cup DraftUser -> Nat]
  /\ \A x, y \in Member \cup DraftUser : Rank[x] = Rank[y] => x = y
ASSUME BoundsAssumption == MaxWrites \in Nat /\ MaxOthers \in Nat
ASSUME IdentityAssumption ==
  ({None} \cup Member \cup User \cup DraftUser) \cap ((Draft \cup DraftUser) \X Attempt) = {}

VARIABLES
  db,         \* principals in the API's data store, and their fields
  users,      \* users in the data store
  phase,      \* where the page's Commit is
  plan,       \* the reviewed CommitPlan, or <<>>
  submits,    \* Commits sent so far
  open,       \* explicit transactions not finalized: what each restores
  kept,       \* Commits whose transaction ended without a rollback
  doubtful,   \* history: Commits whose outcome the page was not told
  overlapped, \* history: something was written inside an open transaction
  others,     \* writes of other clients so far
  bypassed    \* history: one of them was not made through the service of principals

storeVars == <<db, users>>
commitVars == <<phase, plan, submits, open, kept, doubtful, overlapped, others, bypassed>>
vars == <<surfaceVars, storeVars, commitVars>>

CommitInit ==
  /\ Init
  /\ db = catalog
  /\ users = User
  /\ phase = "editing"
  /\ plan = <<>>
  /\ submits = 0
  /\ open = <<>>
  /\ kept = {}
  /\ doubtful = {}
  /\ overlapped = FALSE
  /\ others = 0
  /\ bypassed = FALSE

-----------------------------------------------------------------------------
\* Mutant: a plan names every field of a changed row.
AllFields(m) == {"parent", "root", "user"}

\* changedFieldKeys; the calculated root is one of the row's fields.
ChangedFields(m) ==
  (IF entries[m].parent # originals[m].parent THEN {"parent"} ELSE {}) \cup
  (IF RootOf(entries, m) # RootOf(originals, m) THEN {"root"} ELSE {}) \cup
  (IF entries[m].user # originals[m].user THEN {"user"} ELSE {})

Changed(m) == entries[m] # originals[m] \/ RootOf(entries, m) # RootOf(originals, m)

Operation(kind, ids) == {[kind |-> kind, id |-> x] : x \in ids}

\* rootOperations and the mutations of the transaction, which are users.
Operations ==
  LET stored == DOMAIN entries \cap DOMAIN originals
  IN  Operation("mutation", staged) \cup
      Operation("create", DOMAIN entries \ stored) \cup
      Operation("delete", DOMAIN originals \ stored) \cup
      Operation("update", {m \in stored : Changed(m)})

\* Mutant: only the parent itself is taken for a provider.
NoProviders(m) == {}

\* "Match only exact known workspace identities": the drafts a row names.
Providers(m) == ({entries[m].parent, RootOf(entries, m)} \cap Draft) \ {m}

\* The round in which an operation's providers have all been taken.
Round(op) ==
  LET round[m \in DOMAIN entries] ==
        IF Providers(m) = {} THEN 0 ELSE 1 + Max({round[p] : p \in Providers(m)})
  IN  IF op.kind \in {"create", "update"} THEN round[op.id] ELSE 0

\* "mutation:...", "root:create:...", "root:delete:...", "root:update:...".
KindRank == [mutation |-> 0, create |-> 1, delete |-> 2, update |-> 3]

Sooner(a, b) ==
  \/ a.round < b.round
  \/ /\ a.round = b.round
     /\ \/ KindRank[a.op.kind] < KindRank[b.op.kind]
        \/ KindRank[a.op.kind] = KindRank[b.op.kind] /\ Rank[a.op.id] < Rank[b.op.id]

\* The operations in their order.
Ordered ==
  LET ready == {[op |-> o, round |-> Round(o)] : o \in Operations}
      placed == {[op |-> r.op, before |-> Cardinality({q \in ready : Sooner(q, r)})] : r \in ready}
  IN  [i \in 1..Cardinality(Operations) |-> (CHOOSE r \in placed : r.before = i - 1).op]

\* buildWorkspaceCommitPlan: rounds of ready operations, each sorted by id.
CommitPlan ==
  [operations |-> Operations,
   order |-> Ordered,
   rows |-> entries,
   fields |-> [m \in DOMAIN entries \cap DOMAIN originals |-> ChangedFields(m)]]

-----------------------------------------------------------------------------
\* The member or draft a stored principal comes from: types never change.
Origin(p) == IF p \in Stored THEN p ELSE p[1]

\* Mutant: a user of another principal is accepted.
LinkedTwice(s, p, u) == u # None => Origin(p) \in Person /\ u \in s.users

\* SysBOPrincipalService: a user that is supplied is validated, a parent too.
LinkAllowed(s, p, u) ==
  u # None => /\ Origin(p) \in Person
              /\ u \in s.users
              /\ \A q \in DOMAIN s.db \ {p} : s.db[q].user # u

ParentAllowed(s, p, up) ==
  up # None => /\ up \in DOMAIN s.db
               /\ Origin(up) \in Container
               /\ p \notin Chain(s.db, up)

Normalized(p, row) ==
  [parent |-> IF Origin(p) \in CanHaveParent THEN row.parent ELSE None,
   user |-> IF Origin(p) \in Person THEN row.user ELSE None]

\* A principal that has members has to be a container.
MembersAllow(s, p) == Origin(p) \in Container \/ \A q \in DOMAIN s.db : s.db[q].parent # p

Refused(s) == [s EXCEPT !.ok = FALSE]

\* create and update: the row that is written, of which only the fields that
\* are supplied are validated.
Write(s, p, row, fields) ==
  LET new == Normalized(p, row)
  IN  IF /\ "parent" \in fields => ParentAllowed(s, p, new.parent)
         /\ "user" \in fields => LinkAllowed(s, p, new.user)
         /\ MembersAllow(s, p)
      THEN [s EXCEPT !.db = With(@, p, new)]
      ELSE Refused(s)

\* GenericSysBOService.delete: references to the row become null, but those of
\* licenses forbid the deletion (policy "restrict").
Unlinked(rows, p) ==
  [q \in DOMAIN rows \ {p} |-> [rows[q] EXCEPT !.parent = IF @ = p THEN None ELSE @]]
Delete(s, p) == IF p \in Licensed THEN Refused(s) ELSE [s EXCEPT !.db = Unlinked(@, p)]

\* Identities of principals that earlier operations created are resolved;
\* those of users only in references a root row never carries.
Resolved(s, x) == IF x \in DOMAIN s.idMap THEN s.idMap[x] ELSE x

\* One operation of the plan, in the n-th Commit.
Perform(s, op, n) ==
  LET m == op.id
      row == [parent |-> Resolved(s, plan.rows[m].parent), user |-> plan.rows[m].user]
      fields == plan.fields[m]
      merged == [parent |-> IF "parent" \in fields THEN row.parent ELSE s.db[m].parent,
                 user |-> IF "user" \in fields THEN row.user ELSE s.db[m].user]
  IN  CASE ~s.ok -> s
        [] s.ok /\ op.kind = "mutation" -> [s EXCEPT !.users = @ \cup {<<m, n>>}]
        [] s.ok /\ op.kind = "create" ->
             [Write(s, <<m, n>>, row, {"parent", "user"}) EXCEPT !.idMap = With(@, m, <<m, n>>)]
        [] s.ok /\ op.kind = "update" ->
             IF m \in DOMAIN s.db THEN Write(s, m, merged, fields) ELSE Refused(s)
        [] s.ok /\ op.kind = "delete" -> Delete(s, m)

\* assertPlan: the "execution order does ... exactly cover its operations".
Covered ==
  /\ {plan.order[i] : i \in DOMAIN plan.order} = plan.operations
  /\ Len(plan.order) = Cardinality(plan.operations)

\* "Validate the complete plan and authorization before the first write."
Valid ==
  /\ Covered
  /\ \A op \in plan.operations : op.kind \in {"update", "delete"} => op.id \in DOMAIN db

Executed(n) ==
  FoldLeft(LAMBDA s, op : Perform(s, op, n),
           [db |-> db, users |-> users, idMap |-> <<>>, ok |-> Valid], plan.order)

-----------------------------------------------------------------------------
\* confirmCommitWorkspace: Commit is enabled on a complete, changed workspace.
Review ==
  /\ phase = "editing"
  /\ Complete(entries) /\ Dirty
  /\ plan' = CommitPlan
  /\ phase' = "reviewed"
  /\ UNCHANGED <<surfaceVars, storeVars, submits, open, kept, doubtful, overlapped, others,
                 bypassed>>

\* The confirmation is cancelled, or an error is dismissed.
Dismiss ==
  /\ phase \in {"reviewed", "refused", "denied", "failed", "uncertain"}
  /\ phase' = "editing"
  /\ plan' = <<>>
  /\ UNCHANGED <<surfaceVars, storeVars, submits, open, kept, doubtful, overlapped, others,
                 bypassed>>

\* The reviewed plan is sent, or the same plan again by the error's retry.
Sends ==
  /\ phase \in {"reviewed", "failed"}
  /\ submits + others < MaxWrites
  /\ submits' = submits + 1

\* $commit succeeds: the transaction's journal can restore the whole store.
Execute ==
  /\ Sends
  /\ Executed(submits').ok
  /\ db' = Executed(submits').db
  /\ users' = Executed(submits').users
  /\ open' = With(open, submits', [db |-> db, users |-> users])
  /\ overlapped' = (overlapped \/ open # <<>>)
  /\ phase' = "executed"
  /\ UNCHANGED <<surfaceVars, plan, kept, doubtful, others, bypassed>>

\* The API refuses the plan or one of its operations: nothing is stored, and
\* the host rolls its transaction back.
Refuse ==
  /\ Sends
  /\ ~Executed(submits').ok
  /\ phase' = "refused"
  /\ UNCHANGED <<surfaceVars, storeVars, plan, open, kept, doubtful, overlapped, others,
                 bypassed>>

\* It refuses what is not modelled, whatever the rows: the user may not perform
\* an operation or, not being an Administrator, change a link; a name, a
\* picture or a contact is not valid.
Deny ==
  /\ Sends
  /\ phase' = "denied"
  /\ UNCHANGED <<surfaceVars, storeVars, plan, open, kept, doubtful, overlapped, others,
                 bypassed>>

Closed(n) == [i \in DOMAIN open \ {n} |-> open[i]]

\* Mutant: the host does not roll back what it has no answer of.
LeavesOpen(n) == db' = db /\ users' = users /\ open' = Closed(n)

\* A rollback restores every collection, whoever has written since.
RollBack(n) ==
  /\ db' = open[n].db
  /\ users' = open[n].users
  /\ open' = Closed(n)

\* The API's answer is lost, or fails late: the host rolls back.
LoseAnswer ==
  /\ phase = "executed"
  /\ RollBack(submits)
  /\ phase' = "failed"
  /\ UNCHANGED <<surfaceVars, plan, submits, kept, doubtful, overlapped, others,
                 bypassed>>

\* And so is that of the rollback, twice: the transaction is left to expire.
LoseRollback ==
  /\ phase = "executed"
  /\ phase' = "failed"
  /\ doubtful' = doubtful \cup {submits}
  /\ UNCHANGED <<surfaceVars, storeVars, plan, submits, open, kept, overlapped, others,
                 bypassed>>

\* The host's finalizeTransaction commits.
Finalize ==
  /\ phase = "executed"
  /\ open' = Closed(submits)
  /\ kept' = kept \cup {submits}
  /\ phase' = "finalized"
  /\ UNCHANGED <<surfaceVars, storeVars, plan, submits, doubtful, overlapped, others,
                 bypassed>>

\* "Never issue a compensating rollback after an ambiguous COMMIT response."
LoseFinalization(reached) ==
  /\ phase = "executed"
  /\ IF reached THEN open' = Closed(submits) /\ kept' = kept \cup {submits}
                ELSE UNCHANGED <<open, kept>>
  /\ doubtful' = doubtful \cup {submits}
  /\ phase' = "uncertain"
  /\ UNCHANGED <<surfaceVars, storeVars, plan, submits, overlapped, others,
                 bypassed>>

\* acceptCommittedBaseline; the page is left for one that loads the tree anew.
Accept ==
  /\ phase = "finalized"
  /\ phase' = "accepted"
  /\ originals' = entries
  /\ recycleBin' = <<>>
  /\ staged' = {}
  /\ UNCHANGED <<catalog, entries, minted, edits, storeVars, plan, submits, open, kept,
                 doubtful, overlapped, others, bypassed>>

\* The host's answer does not reach the page: an error with a retry.
LoseResponse ==
  /\ phase = "finalized"
  /\ phase' = "failed"
  /\ doubtful' = doubtful \cup {submits}
  /\ UNCHANGED <<surfaceVars, storeVars, plan, submits, open, kept, overlapped, others,
                 bypassed>>

\* The idle timer of a transaction that nobody finalized.
Expire(n) ==
  /\ n \in DOMAIN open
  /\ phase = "executed" => n # submits
  /\ RollBack(n)
  /\ UNCHANGED <<surfaceVars, phase, plan, submits, kept, doubtful, overlapped, others,
                 bypassed>>

\* The API process restarts: what its journals would have restored stays.
Restart ==
  /\ open # <<>>
  /\ open' = <<>>
  /\ kept' = kept \cup DOMAIN open
  /\ IF phase = "executed"
     THEN phase' = "uncertain" /\ doubtful' = doubtful \cup {submits}
     ELSE UNCHANGED <<phase, doubtful>>
  /\ UNCHANGED <<surfaceVars, storeVars, plan, submits, overlapped, others,
                 bypassed>>

\* Another client writes one principal.
WriteByOther(s, bypassing) ==
  /\ Edit
  /\ others < MaxOthers /\ submits + others < MaxWrites
  /\ phase # "accepted"
  /\ s.ok
  /\ s.db # db
  /\ db' = s.db
  /\ others' = others + 1
  /\ overlapped' = (overlapped \/ open # <<>>)
  /\ bypassed' = (bypassed \/ bypassing)
  /\ UNCHANGED <<catalog, entries, originals, recycleBin, staged, minted, users, phase, plan,
                 submits, open, kept, doubtful>>

\* Through the same service.
Now == [db |-> db, users |-> users, ok |-> TRUE]
MoveByOther(p, up) ==
  p \in DOMAIN db /\ WriteByOther(Write(Now, p, [db[p] EXCEPT !.parent = up], {"parent"}), FALSE)
LinkByOther(p, u) ==
  p \in DOMAIN db /\ WriteByOther(Write(Now, p, [db[p] EXCEPT !.user = u], {"user"}), FALSE)
DeleteByOther(p) == p \in DOMAIN db /\ WriteByOther(Delete(Now, p), FALSE)

\* By $aggregate-commit, which only looks for a cycle and for another principal
\* with that user, not even whether the parent is there.  (A row of it changes
\* one field; one that changes more is several of these.)
AggregateByOther(p, up, u) ==
  /\ p \in DOMAIN db
  /\ up = db[p].parent \/ u = db[p].user
  /\ u # None => \A q \in DOMAIN db \ {p} : db[q].user # u
  /\ p \notin Chain(db, up)
  /\ WriteByOther([Now EXCEPT !.db = With(@, p, [parent |-> up, user |-> u])], TRUE)

EditWorkspace == phase = "editing" /\ Command /\ UNCHANGED <<storeVars, commitVars>>

CommitNext ==
  \/ EditWorkspace
  \/ Review \/ Dismiss
  \/ Execute \/ Refuse \/ Deny
  \/ LoseAnswer \/ LoseRollback
  \/ Finalize \/ \E reached \in BOOLEAN : LoseFinalization(reached)
  \/ Accept \/ LoseResponse
  \/ \E n \in Attempt : Expire(n)
  \/ Restart
  \/ \E p \in Stored, up \in Stored \cup {None} : MoveByOther(p, up)
  \/ \E p \in Stored, u \in User \cup {None} : LinkByOther(p, u)
  \/ \E p \in Stored : DeleteByOther(p)
  \/ \E p \in Stored, up \in Stored \cup {None}, u \in User \cup {None} :
       AggregateByOther(p, up, u)

Spec == CommitInit /\ [][CommitNext]_vars

-----------------------------------------------------------------------------
CommitTypeOK ==
  /\ phase \in {"editing", "reviewed", "executed", "refused", "denied", "failed", "finalized",
                "uncertain", "accepted"}
  /\ phase \in {"executed", "finalized"} => submits # 0
  /\ submits \in 0..MaxWrites
  /\ DOMAIN open \cup kept \cup doubtful \subseteq 1..submits
  /\ DOMAIN open \cap kept = {}
  /\ overlapped \in BOOLEAN
  /\ others \in 0..MaxOthers
  /\ bypassed \in BOOLEAN

TypeOK == SurfaceTypeOK /\ CommitTypeOK

\* What the n-th Commit stores for the identity x of the page.
IdOf(x, n) == IF x \in Draft THEN <<x, n>> ELSE x

\* The row the workspace asks for: what the user changed, of the rest what is
\* stored now, whoever stored it.  A row that is written loses the parent or the
\* user its type may not have.
Wanted(m, n, removed) ==
  LET isNew == m \in Draft
      old == IF isNew THEN [parent |-> None, user |-> None] ELSE db[m]
      left == IF old.parent \in removed THEN None ELSE old.parent
      row == [parent |-> IF isNew \/ entries[m].parent # originals[m].parent
                         THEN IdOf(entries[m].parent, n) ELSE left,
              user |-> IF isNew \/ entries[m].user # originals[m].user
                       THEN entries[m].user ELSE old.user]
  IN  IF isNew \/ Changed(m) THEN Normalized(IdOf(m, n), row) ELSE row

\* Between two stores: what the n-th Commit stores is the page's workspace.
StoresWorkspace(n) ==
  LET removed == DOMAIN originals \ DOMAIN entries
      created == {IdOf(m, n) : m \in DOMAIN entries \cap Draft}
      inWorkspace == {IdOf(m, n) : m \in DOMAIN entries}
  IN  /\ DOMAIN db' = (DOMAIN db \ removed) \cup created
      /\ users' = users \cup (staged \X {n})
      /\ \A m \in DOMAIN entries :
           IF IdOf(m, n) \in DOMAIN db'
           THEN db'[IdOf(m, n)] = Wanted(m, n, removed)
           ELSE entries[m] = originals[m]
      /\ \A p \in DOMAIN db' \ inWorkspace :
           db'[p] = [db[p] EXCEPT !.parent = IF @ \in removed THEN None ELSE @]

\* A Commit that succeeds stores exactly what the user saw in the workspace:
\* the drafts under their new identities, the fields that were changed, the
\* removals; every other field and row is left as others have it by then, but
\* a row the user changed must still be there.  The order in which the plan
\* performs its operations makes no difference.
CommitMeansWorkspace ==
  [][phase' = "executed" /\ phase # "executed" => StoresWorkspace(submits')]_vars

\* Members that were moved, and users given to several members.
Moved == {m \in DOMAIN entries \cap DOMAIN originals : entries[m].parent # originals[m].parent}
SharedUsers ==
  {u \in User : \E m, q \in DOMAIN entries : m # q /\ {entries[m].user, entries[q].user} = {u}}
DraftLinks == {m \in DOMAIN entries : entries[m].user \in DraftUser}

\* What the rows of a plan are refused for (Deny is for the rest): another client
\* has written, or an earlier Commit without an answer has; a removed member has
\* a license; a member is linked to a user created in the same workspace, whose
\* identity is never resolved; two members share a user; or several members
\* were moved, in an order that closes a cycle on the way although the result
\* has none.  A collection that lacks the structure of the service may be
\* refused anything.
RefusalsAreExplained ==
  phase = "refused" /\ others = 0 /\ doubtful = {} /\ Structured(catalog) =>
    \/ (DOMAIN originals \ DOMAIN entries) \cap Licensed # {}
    \/ DraftLinks # {}
    \/ SharedUsers # {}
    \/ Cardinality(Moved) > 1

\* Whatever a workspace and others do, rollbacks and aggregate commits included,
\* the data store keeps chains that end and users of one principal each.  And if
\* it had the structure of the service of principals, only an aggregate commit
\* takes it away: a Commit of the workspace never stores a parent that is gone
\* or no container, or a user that is gone or no person's.
StoreStaysSound ==
  /\ \A p \in DOMAIN db :
       /\ db[p].parent # None => Roots(db) \cap Chain(db, p) # {}
       /\ db[p].user # None => \A q \in DOMAIN db \ {p} : db[q].user # db[p].user
  /\ ~bypassed /\ Structured(catalog) =>
       \A p \in DOMAIN db :
         /\ db[p].parent # None =>
              /\ db[p].parent \in DOMAIN db
              /\ Origin(db[p].parent) \in Container
              /\ Origin(p) \in CanHaveParent
         /\ db[p].user # None => db[p].user \in users /\ Origin(p) \in Person

\* Records of a Commit are in the data store only if its transaction is open or
\* ended without a rollback: what failed or was refused leaves no trace.  (The
\* journal restores a copy of the whole store: two transactions that overlap
\* bring back what the other has taken away.)
FailuresLeaveNoTrace ==
  ~overlapped =>
    \A x \in DOMAIN db \cup users :
      x \notin Stored \cup User => x[2] \in kept \cup DOMAIN open

\* A draft becomes one record, however often a Commit fails and is repeated,
\* unless an answer was lost after the API had committed.
DraftsAreCreatedOnce ==
  doubtful = {} =>
    \A x, y \in DOMAIN db \cup users :
      {x, y} \cap (Stored \cup User) = {} /\ x[1] = y[1] => x = y
=============================================================================
