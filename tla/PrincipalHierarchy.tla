-------------------------- MODULE PrincipalHierarchy --------------------------
(***************************************************************************)
(* Principals (people, companies, groups), their tree and their link to    *)
(* users: what SysBOPrincipalService, SysBOUserService and the generic     *)
(* service under them (api/src/services/sysbo/) do to the collection, with *)
(* the calculated rootId, the relationship policies of a deletion, the     *)
(* repair at startup and $aggregate-commit.                                *)
(*                                                                         *)
(* Between its checks and its save an operation only awaits promises that  *)
(* need no I/O, so it is one action; a failed operation restores the       *)
(* collection (DataStore), so only successful ones are actions.  A commit  *)
(* is written row by row, because the rows see one another, and nothing    *)
(* else runs until its end; one that cannot end is one that failed.        *)
(***************************************************************************)
EXTENDS Naturals, FiniteSets

CONSTANTS
  Principal,        \* principal ids (randomUUID), never reused
  PrincipalType,    \* members of the enum SysBOPrincipalType
  Person,           \* the type that may be linked to a user
  Container,        \* types whose enum item has isContainer
  CanHaveParent,    \* types whose enum item has canHaveParent
  User,
  NoOne,            \* null
  Thrown,           \* TraverseEntity's exception
  MaxDepth,         \* longest chain TraverseEntity follows (256)
  MaxRows           \* bound: rows written by one aggregate commit

ASSUME PersonAssumption == Person \in PrincipalType
ASSUME TraitAssumption == Container \cup CanHaveParent \subseteq PrincipalType
ASSUME NullAssumption == {NoOne, Thrown} \cap (Principal \cup User) = {} /\ NoOne # Thrown
ASSUME AbsentAssumption == {"unborn", "gone"} \cap PrincipalType = {}
ASSUME BoundAssumption == MaxDepth \in Nat /\ MaxRows \in Nat

VARIABLES
  principals,   \* the collection; type "unborn" or "gone": not in it
  users,        \* ids in the users collection
  licensed,     \* principals of the collection that some license refers to
  stage,        \* of the running commit: "none", "create", "update", "delete"
  rows,         \* rows it has written
  fresh,        \* history: no deletion or repair has changed the tree since
                \* the calculated roots were last refreshed
  bypassed      \* history: an aggregate commit has been made

commitVars == <<stage, rows>>
otherVars == <<users, licensed>>
vars == <<principals, otherVars, commitVars, fresh, bypassed>>

Absent(mark) == [type |-> mark, parent |-> NoOne, root |-> NoOne, userId |-> NoOne]

Init ==
  /\ principals = [p \in Principal |-> Absent("unborn")]
  /\ users = User
  /\ licensed = {}
  /\ stage = "none"
  /\ rows = 0
  /\ fresh = TRUE
  /\ bypassed = FALSE

Reference == Principal \cup {NoOne}
Idle == stage = "none"
Exists(ps, p) == ps[p].type \in PrincipalType
Existing == {p \in Principal : Exists(principals, p)}

-----------------------------------------------------------------------------
\* The ids TraverseEntity visits: the least set that holds start and, of each
\* of its members that has one, the parent.
Closed(ps, start) ==
  {S \in SUBSET Principal : start \in S /\ \A q \in S : ps[q].parent \in S \cup {NoOne}}
Chain(ps, start) ==
  LET sets == Closed(ps, start)
  IN  {q \in Principal : \A S \in sets : q \in S}

\* The rows of a chain that have no parent: its last one, or none in a cycle.
Ends(ps, chain) == {q \in chain : ps[q].parent = NoOne}
Last(ends) == CHOOSE q \in ends : TRUE

\* TraverseEntity(start, 'sys-principals', 'parentId', 'id'): the last of the
\* chain, null when its row is missing.  A cycle throws, as does a longer chain.
TraverseEntity(ps, start) ==
  LET chain == Chain(ps, start)
      ends == Ends(ps, chain)
  IN  IF ends = {} \/ Cardinality(chain) > MaxDepth THEN Thrown
      ELSE IF Exists(ps, Last(ends)) THEN Last(ends) ELSE NoOne

\* The calculation of rootId.
RootFor(ps, up) == IF up = NoOne THEN NoOne ELSE TraverseEntity(ps, up)

\* repository.create and update: the row is prepared with its root, as the
\* stored rows have it, and the unique userId is enforced.
Writable(ps, p, up, u) ==
  /\ RootFor(ps, up) \in Reference
  /\ u # NoOne => \A q \in Principal \ {p} : ps[q].userId # u

Written(ps, p, t, up, u) ==
  [ps EXCEPT ![p] = [type |-> t, parent |-> up, root |-> RootFor(ps, up), userId |-> u]]

\* Mutants of the refresh: rows are left as they were prepared; only the roots
\* that change are looked at.
PreparedOnly(ps) == ps
AnyChain(ps) == TRUE

\* refreshPersistedCalculatedCollection: roots depend on parents only, so they
\* have settled after one pass.
Refreshed(ps) ==
  [p \in Principal |->
     IF Exists(ps, p) THEN [ps[p] EXCEPT !.root = RootFor(ps, ps[p].parent)] ELSE ps[p]]
Refreshable(ps) == \A p \in Principal : Exists(ps, p) => RootFor(ps, ps[p].parent) \in Reference

\* The operation that wrote ps ends.
Saves(ps) ==
  /\ Refreshable(ps)
  /\ principals' = Refreshed(ps)
  /\ fresh' = TRUE

-----------------------------------------------------------------------------
\* A parent that a client supplies.
ParentAllowed(up) == up \in {NoOne} \cup {q \in Existing : principals[q].type \in Container}

\* validateUserIdentityLink.
LinkAllowed(p, t, u) ==
  u # NoOne => /\ t = Person
               /\ u \in users
               /\ \A q \in Existing \ {p} : principals[q].userId # u

\* SysBOPrincipalService.create: a parent is dropped where none can be.
Create(p, t, wanted, u) ==
  LET up == IF t \in CanHaveParent THEN wanted ELSE NoOne
  IN  /\ Idle
      /\ principals[p].type = "unborn"
      /\ LinkAllowed(p, t, u)
      /\ ParentAllowed(up)
      /\ Writable(principals, p, up, u)
      /\ Saves(Written(principals, p, t, up, u))
      /\ UNCHANGED <<otherVars, commitVars, bypassed>>

\* Mutant: the members of the principal are not looked at.
AnyMembers(p, t) == TRUE

\* A type that cannot contain members is refused to a principal that has some.
MembersAllow(p, t) == t \in Container \/ \A q \in Existing : principals[q].parent # p

\* update: a parent or user that is not in the changes is not validated, a
\* user is dropped with the type Person.
Update(p, t, wantedParent, wantedUser) ==
  LET old == principals[p]
      up == IF t \in CanHaveParent THEN wantedParent ELSE NoOne
      u == IF t = Person THEN wantedUser ELSE NoOne
  IN  /\ Idle
      /\ p \in Existing
      /\ u = old.userId \/ LinkAllowed(p, t, u)
      /\ MembersAllow(p, t)
      /\ up # p
      /\ up = old.parent \/ ParentAllowed(up)
      /\ Writable(principals, p, up, u)
      /\ Saves(Written(principals, p, t, up, u))
      /\ UNCHANGED <<otherVars, commitVars, bypassed>>

\* Mutant: the rows that have p as their root keep it.
ParentUnlinked(r, p) == [r EXCEPT !.parent = IF @ = p THEN NoOne ELSE @]

\* The policies of the relationships parent and root: set-null.
Unlinked(r, p) == [r EXCEPT !.parent = IF @ = p THEN NoOne ELSE @,
                            !.root = IF @ = p THEN NoOne ELSE @]

\* applyDeletePolicies and repository.delete; a license restricts.
Deletable(p) == p \in Existing /\ p \notin licensed
Deleted(p) ==
  [q \in Principal |-> IF q = p THEN Absent("gone") ELSE Unlinked(principals[q], p)]

\* Whether another row's parent or root is not the one it was.
Disturbs(p, ps) ==
  \E q \in Principal \ {p} : ps[q].parent # principals[q].parent \/ ps[q].root # principals[q].root

\* GenericSysBOService.delete: the roots are not refreshed.
Delete(p) ==
  /\ Idle
  /\ Deletable(p)
  /\ principals' = Deleted(p)
  /\ fresh' = (fresh /\ ~Disturbs(p, Deleted(p)))
  /\ UNCHANGED <<otherVars, commitVars, bypassed>>

-----------------------------------------------------------------------------
\* Mutant: the principal the user was linked to keeps it.
OtherLinkKept(u, p) == principals[p].userId

OtherLink(u, p) == IF principals[p].userId = u THEN NoOne ELSE principals[p].userId

\* SysBOUserService.update with a principalId: applyNonPersistentUpdates.
LinkUser(u, p) ==
  /\ Idle
  /\ u \in users
  /\ p \in {NoOne} \cup {q \in Existing : /\ principals[q].type = Person
                                         /\ principals[q].userId \in {NoOne, u}}
  /\ principals' = [q \in Principal |->
       [principals[q] EXCEPT !.userId = IF q = p THEN u ELSE OtherLink(u, q)]]
  /\ UNCHANGED <<otherVars, commitVars, fresh, bypassed>>

\* The deletion of a user; the relationship user has the policy set-null.
DeleteUser(u) ==
  /\ Idle
  /\ u \in users
  /\ users' = users \ {u}
  /\ principals' = [q \in Principal |-> [principals[q] EXCEPT !.userId = OtherLink(u, q)]]
  /\ UNCHANGED <<licensed, commitVars, fresh, bypassed>>

\* Licenses come and go.
License(p) ==
  /\ Idle
  /\ p \in Existing
  /\ licensed' \in {licensed \cup {p}, licensed \ {p}}
  /\ licensed' # licensed
  /\ UNCHANGED <<principals, users, commitVars, fresh, bypassed>>

\* repairOrphanedReferences, at startup.
Repaired(r) ==
  [r EXCEPT !.userId = IF @ \in users THEN @ ELSE NoOne,
            !.parent = IF @ \in Existing THEN @ ELSE NoOne,
            !.root = IF @ \in Existing THEN @ ELSE NoOne]

Restart ==
  /\ Idle
  /\ LET ps == [p \in Principal |-> Repaired(principals[p])]
     IN  /\ ps # principals
         /\ principals' = ps
         /\ fresh' = (fresh /\ \A p \in Principal : ps[p].parent = principals[p].parent)
  /\ UNCHANGED <<otherVars, commitVars, bypassed>>

-----------------------------------------------------------------------------
\* POST $aggregate-commit, which is the generic commitAggregate: drafts are
\* created, then rows updated, then removed ones deleted, none of them checked
\* by SysBOPrincipalService.
BeginCommit ==
  /\ Idle
  /\ stage' = "create"
  /\ UNCHANGED <<principals, otherVars, rows, fresh, bypassed>>

\* A reference to a draft is resolved: it is to a row written before.
Resolved(up) == up \in {NoOne} \cup {q \in Principal : principals[q].type # "unborn"}

CommitRow(from, to) ==
  /\ stage \in from
  /\ rows < MaxRows
  /\ stage' = to
  /\ rows' = rows + 1
  /\ UNCHANGED <<otherVars, fresh, bypassed>>

CommitCreate(p, t, up, u) ==
  /\ CommitRow({"create"}, "create")
  /\ principals[p].type = "unborn"
  /\ Resolved(up)
  /\ Writable(principals, p, up, u)
  /\ principals' = Written(principals, p, t, up, u)

CommitUpdate(p, t, up, u) ==
  /\ CommitRow({"create", "update"}, "update")
  /\ p \in Existing
  /\ Resolved(up)
  /\ Writable(principals, p, up, u)
  /\ principals' = Written(principals, p, t, up, u)

CommitDelete(p) ==
  /\ CommitRow({"create", "update", "delete"}, "delete")
  /\ Deletable(p)
  /\ principals' = Deleted(p)

\* The refresh is the last step of the transaction.
EndCommit ==
  /\ ~Idle
  /\ Saves(principals)
  /\ stage' = "none" /\ rows' = 0
  /\ bypassed' = TRUE
  /\ UNCHANGED otherVars

Write(p) ==
  \E t \in PrincipalType, up \in Reference, u \in User \cup {NoOne} :
    \/ Create(p, t, up, u)
    \/ Update(p, t, up, u)
    \/ CommitCreate(p, t, up, u)
    \/ CommitUpdate(p, t, up, u)

Next ==
  \/ \E p \in Principal : Write(p)
  \/ \E p \in Principal : Delete(p) \/ CommitDelete(p) \/ License(p)
  \/ \E u \in User, p \in Reference : LinkUser(u, p)
  \/ \E u \in User : DeleteUser(u)
  \/ Restart
  \/ BeginCommit
  \/ EndCommit

Spec == Init /\ [][Next]_vars

-----------------------------------------------------------------------------
Row ==
  [type : PrincipalType \cup {"unborn", "gone"}, parent : Reference,
   root : Reference, userId : User \cup {NoOne}]

TypeOK ==
  /\ principals \in [Principal -> Row]
  /\ users \subseteq User
  /\ licensed \subseteq Existing
  /\ stage \in {"none", "create", "update", "delete"}
  /\ rows \in 0..MaxRows
  /\ fresh \in BOOLEAN
  /\ bypassed \in BOOLEAN

\* Whatever is reparented, deleted or committed, no principal is above itself:
\* the services refuse only a principal that is its own parent, and leave
\* longer cycles, also those two rows of one commit make, to the refresh.
HierarchyIsAForest ==
  Idle => \A S \in SUBSET Existing :
            S # {} => \E p \in S : principals[p].parent \notin S

\* The stored root is the top of the chain of parents.  "The invariant is the
\* resulting stored value" and "changing a parent can change the root of
\* descendants" (docs/storage/Data-and-Storage-Architecture.md:218,227).
\* Authorization reads it (authorization-service.ts:311,321).
RootsAreCurrent ==
  Idle => \A p \in Existing :
            principals[p].root = RootFor(principals, principals[p].parent)

\* It is, unless a deletion or a repair has changed the tree since the last
\* refresh.
RefreshedRootsAreCurrent == fresh => RootsAreCurrent

\* A principal with a parent may have one, and the parent is a container
\* ("Direct API callers therefore cannot bypass the same structural facts",
\* principal-service.ts:156).
MembersHaveContainers ==
  Idle => \A p \in Existing : principals[p].parent # NoOne =>
            /\ principals[p].type \in CanHaveParent
            /\ principals[principals[p].parent].type \in Container

\* The services keep it, through changes of type, moves, deletions and user
\* deletions in any order; and only people are linked to users, who exist.
ServicesKeepStructure ==
  ~bypassed /\ Idle =>
    /\ MembersHaveContainers
    /\ \A p \in Existing : principals[p].userId # NoOne =>
         principals[p].type = Person /\ principals[p].userId \in users

\* A user is linked to one principal at most, whichever side of the link is
\* written and also by a commit.
OneUserOnePrincipal ==
  \A p, q \in Existing :
    principals[p].userId = principals[q].userId /\ principals[p].userId # NoOne => p = q

\* No deletion leaves a stored root that is gone.
RootsExist == \A p \in Existing : principals[p].root \in Existing \cup {NoOne}
=============================================================================
