------------------------ MODULE OrganizationWorkspace ------------------------
(***************************************************************************)
(* The Organization workspace of the UI host's page: the members of one    *)
(* tree are edited in the browser, and nothing is stored before a Commit.  *)
(* OrganizationHierarchySurface and UiHierarchyRelationshipPolicy          *)
(* (ui.EJS0/src/runtime/v2/) hold the state and decide; the scripts of     *)
(* ui.EJS0/public/js/sysbo/hierarchy/ call them.                           *)
(*                                                                         *)
(* Every command of the user is one callback of the page, so one action.   *)
(* A row keeps the two fields that refer to other records, the parent and  *)
(* the user; a member's type never changes.                                *)
(***************************************************************************)
EXTENDS Naturals, FiniteSets, Functions

CONSTANTS
  Stored,         \* principals in the database when the page is loaded
  Draft,          \* identities "draft:<uuid>" of members created in the page
  Container,      \* members whose type has isContainer
  CanHaveParent,  \* members whose type has canHaveParent
  Person,         \* members that may be linked to a user
  User,           \* users in the database when the page is loaded
  DraftUser,      \* identities of users created in the page
  None,           \* null
  Anchor,         \* originalMemberId: the member the page was opened for
  Catalogs,       \* the collections the page may find
  MaxEdits        \* bound: commands of the user, and writes of others

Member == Stored \cup Draft
Row == [parent : Member \cup {None}, user : User \cup DraftUser \cup {None}]
IsRows(r) == DOMAIN r \subseteq Member /\ \A m \in DOMAIN r : r[m] \in Row

ASSUME MemberAssumption ==
  /\ Stored \cap Draft = {} /\ Person \cap Container = {}
  /\ IsFiniteSet(Member)
ASSUME UserAssumption == User \cap DraftUser = {} /\ IsFiniteSet(DraftUser)
ASSUME NullAssumption == None \notin Member \cup User \cup DraftUser
ASSUME CatalogAssumption ==
  /\ Anchor \in Stored
  /\ \A c \in Catalogs : DOMAIN c = Stored /\ IsRows(c)
ASSUME EditsAssumption == MaxEdits \in Nat

VARIABLES
  catalog,     \* reference data: the collection as the page found it
  entries,     \* data.list.entries: the working rows
  originals,   \* data.list.originalEntries: the rows edits are compared with
  recycleBin,  \* removed rows that a restore brings back
  staged,      \* users whose creation the workspace transaction holds
  minted,      \* draft identities given out, randomUUIDs that never return
  edits        \* commands and writes so far

surfaceVars == <<catalog, entries, originals, recycleBin, staged, minted, edits>>

-----------------------------------------------------------------------------
\* The identities wouldCreateCycle visits from p upwards, while rows has them.
Chain(rows, p) ==
  LET visited[seen \in SUBSET DOMAIN rows] ==
        LET next == seen \cup ({rows[q].parent : q \in seen} \cap DOMAIN rows)
        IN  IF next = seen THEN seen ELSE visited[next]
  IN  visited[{p} \cap DOMAIN rows]

\* Mutant: only the new parent itself is looked at.
SelfOnly(rows, moving, next) == moving = next

WouldCreateCycle(rows, moving, next) == moving \in Chain(rows, next)

\* completion: the rows that have no parent among the others.
Roots(rows) == {p \in DOMAIN rows : rows[p].parent \notin DOMAIN rows}

\* What every write of the API keeps: the refresh refuses a cycle, and a user is
\* linked once, for the field is unique.  References name stored records: those
\* that do not, the start of the API repairs.
SoundCatalog(c) ==
  \A p \in Stored :
    /\ c[p].parent # None => c[p].parent \in Stored /\ Roots(c) \cap Chain(c, p) # {}
    /\ c[p].user # None =>
         c[p].user \in User /\ \A q \in Stored \ {p} : c[q].user # c[p].user

\* What the service of principals keeps besides, and $aggregate-commit does not:
\* parents are containers, and users are those of people.
Structured(c) ==
  \A p \in DOMAIN c :
    /\ c[p].parent # None => c[p].parent \in Container /\ p \in CanHaveParent
    /\ c[p].user # None => p \in Person

ASSUME SoundnessAssumption == \A c \in Catalogs : SoundCatalog(c)

\* withCalculatedHierarchy: null for a root, the topmost identity elsewhere.
RootOf(rows, p) ==
  IF rows[p].parent = None THEN None
  ELSE IF rows[p].parent \notin DOMAIN rows THEN rows[p].parent
  ELSE CHOOSE q \in Chain(rows, p) : q \in Roots(rows)

\* "This hierarchy needs an eligible root member type before it is finalized."
Complete(rows) ==
  \E top \in Member :
    /\ Roots(rows) = {top}
    /\ top \in Container \/ DOMAIN rows = {top}

\* The evaluation of the dirty runtime.
Dirty == entries # originals \/ DOMAIN recycleBin # {} \/ staged # {}

Without(rows, p) == Restrict(rows, DOMAIN rows \ {p})

\* The row of p among the others, in the place of the one it may have had.
With(rows, p, row) == [q \in DOMAIN rows \cup {p} |-> IF q = p THEN row ELSE rows[q]]

\* The page loads the whole tree of the member it was opened for.
Init ==
  /\ catalog \in Catalogs
  /\ originals = Restrict(catalog, {p \in Stored :
       \E top \in Chain(catalog, Anchor) : top \in Roots(catalog) /\ top \in Chain(catalog, p)})
  /\ entries = originals
  /\ recycleBin = <<>>
  /\ staged = {}
  /\ minted = {}
  /\ edits = 0

Edit == edits < MaxEdits /\ edits' = edits + 1

-----------------------------------------------------------------------------
\* The node's buttons (hierarchy-tree.js) offer a parent to a member without
\* one, a child to a container, a sibling to every member: to a root, another.
Offers(m, relation) ==
  \/ relation = "parent" /\ entries[m].parent = None /\ m \in CanHaveParent
  \/ relation = "sibling"
  \/ relation = "child" /\ m \in Container

\* Where the other member of the relation belongs: parentForNewMember.
PlaceFor(m, relation) == IF relation = "child" THEN m ELSE entries[m].parent

\* The types the quick entry offers: allowedTypeValuesForNewMember.
TypeAllowed(p, relation) ==
  IF relation = "parent" THEN p \in Container ELSE p \in CanHaveParent

\* The row p enters the workspace in that relation to m.
Placed(p, row, m, relation) ==
  With(IF relation = "parent" THEN [entries EXCEPT ![m].parent = p] ELSE entries,
       p, [row EXCEPT !.parent = PlaceFor(m, relation)])

\* beginQuick and the Save of the quick entry: rows of members never become
\* mutations of the transaction.
AddNew(p, m, relation) ==
  /\ Edit
  /\ p \in Draft \ minted
  /\ m \in DOMAIN entries
  /\ Offers(m, relation) /\ TypeAllowed(p, relation)
  /\ entries' = Placed(p, [parent |-> None, user |-> None], m, relation)
  /\ minted' = minted \cup {p}
  /\ UNCHANGED <<catalog, originals, recycleBin, staged>>

\* eligibility of a candidate that is not in the workspace, by its stored row;
\* a container may be a root, and any other member an organization of its own.
Eligible(p, m, relation) ==
  CASE relation = "parent"  -> p \in Container
    [] relation = "child"   -> catalog[p].parent # m /\ p \in CanHaveParent
    [] relation = "sibling" -> /\ catalog[p].parent # entries[m].parent
                               /\ entries[m].parent # None => p \in CanHaveParent

\* addExistingMemberForRelation: the stored row becomes the row to compare with.
AddExisting(p, m, relation) ==
  /\ Edit
  /\ p \in Stored \ DOMAIN entries
  /\ m \in DOMAIN entries
  /\ Offers(m, relation) /\ Eligible(p, m, relation)
  /\ originals' = IF p \in DOMAIN originals THEN originals ELSE With(originals, p, catalog[p])
  /\ entries' = Placed(p, catalog[p], m, relation)
  /\ UNCHANGED <<catalog, recycleBin, staged, minted>>

\* Mutant: a removed member is not kept.
NothingKept(m) == recycleBin

\* A removed member that is stored can be restored; a draft disappears.
Kept(m) ==
  IF m \in DOMAIN originals THEN With(recycleBin, m, entries[m]) ELSE recycleBin

\* removeMember: not the original member, and none that has children.
RemoveMember(m) ==
  /\ Edit
  /\ m \in DOMAIN entries \ {Anchor}
  /\ \A q \in DOMAIN entries : entries[q].parent # m
  /\ recycleBin' = Kept(m)
  /\ entries' = Without(entries, m)
  /\ UNCHANGED <<catalog, originals, staged, minted>>

\* restoreRecycledMember: without a parent, which may have changed or gone.
RestoredRow(m) == [recycleBin[m] EXCEPT !.parent = None]

Restore(m) ==
  /\ Edit
  /\ m \in DOMAIN recycleBin \ DOMAIN entries
  /\ entries' = With(entries, m, RestoredRow(m))
  /\ recycleBin' = Without(recycleBin, m)
  /\ UNCHANGED <<catalog, originals, staged, minted>>

\* moveNode and relateExistingNode, as the parent or as the child.
Move(m, up) ==
  /\ Edit
  /\ {m, up} \subseteq DOMAIN entries
  /\ m # up /\ entries[m].parent # up
  /\ m \in CanHaveParent /\ up \in Container
  /\ ~WouldCreateCycle(entries, m, up)
  /\ entries' = [entries EXCEPT ![m].parent = up]
  /\ UNCHANGED <<catalog, originals, recycleBin, staged, minted>>

\* relateExistingNode, as a sibling: beside a root it becomes one.
MoveBeside(m, q) ==
  /\ Edit
  /\ {m, q} \subseteq DOMAIN entries
  /\ m # q /\ entries[q].parent # entries[m].parent
  /\ entries[q].parent # None => m \in CanHaveParent
  /\ ~WouldCreateCycle(entries, m, entries[q].parent)
  /\ entries' = [entries EXCEPT ![m].parent = entries[q].parent]
  /\ UNCHANGED <<catalog, originals, recycleBin, staged, minted>>

ClearParent(m) ==
  /\ Edit
  /\ m \in DOMAIN entries
  /\ entries[m].parent # None
  /\ entries' = [entries EXCEPT ![m].parent = None]
  /\ UNCHANGED <<catalog, originals, recycleBin, staged, minted>>

\* The selector offers the users nobody was linked to, the member's own, and
\* those created in this workspace.
Selectable(m) ==
  {u \in User : \A p \in Stored : catalog[p].user = u => p = m} \cup staged

\* The Save of a member's entry: acceptOwnedEntrySave merges what it changed.
SaveEntry(m, u) ==
  /\ Edit
  /\ m \in DOMAIN entries \cap Person
  /\ u \in Selectable(m) \cup {None}
  /\ u # entries[m].user
  /\ entries' = [entries EXCEPT ![m].user = u]
  /\ UNCHANGED <<catalog, originals, recycleBin, staged, minted>>

\* The Save of a new user's entry: a mutation of the workspace transaction.
StageUser(v) ==
  /\ Edit
  /\ v \in DraftUser \ minted
  /\ staged' = staged \cup {v}
  /\ minted' = minted \cup {v}
  /\ UNCHANGED <<catalog, entries, originals, recycleBin>>

\* removeExternalDraftMutation: references go back to what was stored.
UserBefore(m, v) ==
  IF entries[m].user # v THEN entries[m].user
  ELSE IF m \in DOMAIN originals THEN originals[m].user ELSE None

DiscardUser(v) ==
  /\ Edit
  /\ v \in staged
  /\ staged' = staged \ {v}
  /\ entries' = [m \in DOMAIN entries |-> [entries[m] EXCEPT !.user = UserBefore(m, v)]]
  /\ UNCHANGED <<catalog, originals, recycleBin, minted>>

Relation == {"parent", "child", "sibling"}

Command ==
  \/ \E p \in Draft, m \in Member, relation \in Relation : AddNew(p, m, relation)
  \/ \E p \in Stored, m \in Member, relation \in Relation : AddExisting(p, m, relation)
  \/ \E m \in Member : RemoveMember(m)
  \/ \E m \in Member : Restore(m)
  \/ \E m, up \in Member : Move(m, up)
  \/ \E m, q \in Member : MoveBeside(m, q)
  \/ \E m \in Member : ClearParent(m)
  \/ \E m \in Member, u \in User \cup DraftUser \cup {None} : SaveEntry(m, u)
  \/ \E v \in DraftUser : StageUser(v)
  \/ \E v \in DraftUser : DiscardUser(v)

-----------------------------------------------------------------------------
SurfaceTypeOK ==
  /\ catalog \in Catalogs
  /\ IsRows(entries)
  /\ IsRows(originals)
  /\ IsRows(recycleBin)
  /\ staged \subseteq DraftUser
  /\ minted \subseteq Draft \cup DraftUser
  /\ edits \in 0..MaxEdits

\* After any sequence of commands the working rows are a forest: every parent is
\* among them and no chain closes, so that a Commit of a complete workspace
\* writes one tree.  And if the collection had the structure the service of
\* principals keeps, so have they.
WorkspaceIsForest ==
  /\ \A m \in DOMAIN entries : entries[m].parent # None =>
       entries[m].parent \in DOMAIN entries /\ Roots(entries) \cap Chain(entries, m) # {}
  /\ Structured(catalog) => Structured(entries)

\* What a Commit would delete can still be restored: no command makes a stored
\* row of the workspace unreachable, and every entry's row of comparison exists.
RemovedCanBeRestored ==
  /\ DOMAIN originals \subseteq DOMAIN entries \cup DOMAIN recycleBin
  /\ DOMAIN recycleBin \subseteq DOMAIN originals
  /\ DOMAIN entries \cap Stored \subseteq DOMAIN originals
=============================================================================
