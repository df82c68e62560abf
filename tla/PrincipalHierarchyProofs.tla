----------------------- MODULE PrincipalHierarchyProofs -----------------------
(***************************************************************************)
(* What TLAPS proves of PrincipalHierarchy for any principals, types and   *)
(* users and commits of any length: everything its run checks.             *)
(***************************************************************************)
EXTENDS PrincipalHierarchy, TLAPS

Table == [Principal -> Row]
Live(ps) == {p \in Principal : Exists(ps, p)}

-----------------------------------------------------------------------------
\* TraverseEntity.

LEMMA ChainIsClosed ==
  ASSUME NEW ps \in Table, NEW start \in Principal
  PROVE  /\ start \in Chain(ps, start)
         /\ Chain(ps, start) \in SUBSET Principal
         /\ \A q \in Chain(ps, start) : ps[q].parent \in Chain(ps, start) \cup {NoOne}
<1>1. \A q \in Principal : ps[q].parent \in Reference
  BY DEF Table, Row
<1>2. QED
  BY <1>1 DEF Chain, Closed, Reference

\* What it returns exists.
LEMMA RootRange ==
  ASSUME NEW ps \in Table, NEW up \in Reference
  PROVE  RootFor(ps, up) \in Live(ps) \cup {NoOne, Thrown}
<1>1. CASE up = NoOne
  BY <1>1 DEF RootFor
<1>2. CASE up \in Principal
  <2>1. Chain(ps, up) \in SUBSET Principal
    BY <1>2, ChainIsClosed
  <2>2. QED
    BY <2>1, <1>2, NullAssumption DEF RootFor, TraverseEntity, Ends, Last, Live
<1>3. QED
  BY <1>1, <1>2 DEF Reference

\* It looks at types and parents only.
LEMMA SameTreeSameRoot ==
  ASSUME NEW ps \in Table, NEW qs \in Table, NEW up \in Reference,
         \A p \in Principal : qs[p].type = ps[p].type /\ qs[p].parent = ps[p].parent
  PROVE  RootFor(qs, up) = RootFor(ps, up)
<1>1. Closed(qs, up) = Closed(ps, up)
  BY DEF Closed
<1>2. Chain(qs, up) = Chain(ps, up)
  BY <1>1 DEF Chain
<1>3. /\ Chain(ps, up) \in SUBSET Principal
      /\ \A p \in Principal : Exists(qs, p) <=> Exists(ps, p)
  BY DEF Chain, Exists
<1>4. Ends(qs, Chain(qs, up)) = Ends(ps, Chain(ps, up))
  BY <1>2, <1>3 DEF Ends
<1>5. TraverseEntity(qs, up) = TraverseEntity(ps, up)
  <2>1. Ends(ps, Chain(ps, up)) # {} => Last(Ends(ps, Chain(ps, up))) \in Principal
    BY <1>3 DEF Ends, Last
  <2>2. QED
    BY <1>2, <1>3, <1>4, <2>1 DEF TraverseEntity
<1>6. QED
  BY <1>5 DEF RootFor

\* It throws in a cycle.
LEMMA CyclesThrow ==
  ASSUME NEW ps \in Table, NEW S \in SUBSET Principal, NEW up \in S,
         \A q \in S : ps[q].parent \in S
  PROVE  RootFor(ps, up) = Thrown
<1>1. S \in Closed(ps, up)
  BY DEF Closed
<1>2. Chain(ps, up) \subseteq S
  BY <1>1 DEF Chain
<1>3. Ends(ps, Chain(ps, up)) = {}
  BY <1>2, NullAssumption DEF Ends
<1>4. up # NoOne
  BY NullAssumption
<1>5. QED
  BY <1>3, <1>4 DEF RootFor, TraverseEntity

\* A principal that nobody has as a parent is on no other chain, so its
\* deletion changes no root.
LEMMA LeavesDoNotMatter ==
  ASSUME NEW ps \in Table, NEW qs \in Table, NEW p \in Principal, NEW up \in Reference \ {p},
         \A q \in Principal : ps[q].parent # p,
         qs[p].parent = NoOne,
         \A q \in Principal \ {p} : qs[q].type = ps[q].type /\ qs[q].parent = ps[q].parent
  PROVE  RootFor(qs, up) = RootFor(ps, up)
<1>1. CASE up = NoOne
  BY <1>1 DEF RootFor
<1>2. CASE up \in Principal
  <2>1. /\ \A q \in Principal : ps[q].parent \in Reference
        /\ \A q \in Principal : qs[q].parent \in Reference \ {p}
        /\ p # NoOne
    BY NullAssumption DEF Table, Row, Reference
  <2>2. /\ Principal \ {p} \in Closed(ps, up)
        /\ Principal \ {p} \in Closed(qs, up)
    BY <1>2, <2>1 DEF Closed, Reference
  <2>3. p \notin Chain(ps, up) /\ p \notin Chain(qs, up)
    BY <2>2 DEF Chain
  <2>4. Chain(ps, up) \in Closed(qs, up) /\ Chain(qs, up) \in Closed(ps, up)
    BY <1>2, <2>3, ChainIsClosed DEF Closed
  <2>5. Chain(ps, up) = Chain(qs, up)
    BY <2>4 DEF Chain
  <2>6. /\ Chain(ps, up) \in SUBSET (Principal \ {p})
        /\ \A q \in Principal \ {p} : Exists(qs, q) <=> Exists(ps, q)
    BY <2>3 DEF Chain, Exists
  <2>7. Ends(qs, Chain(qs, up)) = Ends(ps, Chain(ps, up))
    BY <2>5, <2>6 DEF Ends
  <2>8. TraverseEntity(qs, up) = TraverseEntity(ps, up)
    <3>1. Ends(ps, Chain(ps, up)) # {} => Last(Ends(ps, Chain(ps, up))) \in Principal \ {p}
      BY <2>6 DEF Ends, Last
    <3>2. QED
      BY <2>5, <2>6, <2>7, <3>1 DEF TraverseEntity
  <2>9. QED
    BY <2>8 DEF RootFor
<1>3. QED
  BY <1>1, <1>2 DEF Reference

-----------------------------------------------------------------------------
\* What the operations make of the table.

LEMMA WrittenTable ==
  ASSUME NEW ps \in Table, NEW p \in Principal, NEW t \in PrincipalType, NEW up \in Reference,
         NEW u \in User \cup {NoOne}, Writable(ps, p, up, u)
  PROVE  /\ Written(ps, p, t, up, u) \in Table
         /\ Written(ps, p, t, up, u)[p] =
              [type |-> t, parent |-> up, root |-> RootFor(ps, up), userId |-> u]
         /\ \A q \in Principal \ {p} : Written(ps, p, t, up, u)[q] = ps[q]
BY DEF Written, Writable, Table, Row

LEMMA SavedTable ==
  ASSUME NEW ps \in Table, Saves(ps)
  PROVE  /\ principals' \in Table
         /\ \A p \in Principal : /\ principals'[p].type = ps[p].type
                                /\ principals'[p].parent = ps[p].parent
                                /\ principals'[p].userId = ps[p].userId
         /\ \A p \in Live(ps) : principals'[p].root = RootFor(ps, ps[p].parent)
BY DEF Saves, Refreshed, Refreshable, Table, Row, Live, Exists

LEMMA DeletedTable ==
  ASSUME principals \in Table, NEW p \in Principal
  PROVE  /\ Deleted(p) \in Table
         /\ Deleted(p)[p] = Absent("gone")
         /\ \A q \in Principal \ {p} :
              /\ Deleted(p)[q].type = principals[q].type
              /\ Deleted(p)[q].userId = principals[q].userId
              /\ Deleted(p)[q].parent = IF principals[q].parent = p THEN NoOne
                                       ELSE principals[q].parent
              /\ Deleted(p)[q].root = IF principals[q].root = p THEN NoOne
                                     ELSE principals[q].root
BY DEF Deleted, Unlinked, Absent, Table, Row, Reference

\* The two sides of the link change no other column.
LEMMA LinkedTable ==
  ASSUME principals \in Table, NEW u \in User, NEW p \in Reference, LinkUser(u, p)
  PROVE  /\ principals' \in Table
         /\ \A q \in Principal : /\ principals'[q].type = principals[q].type
                                /\ principals'[q].parent = principals[q].parent
                                /\ principals'[q].root = principals[q].root
                                /\ principals'[q].userId = IF q = p THEN u ELSE OtherLink(u, q)
BY DEF LinkUser, OtherLink, Table, Row

LEMMA UnlinkedTable ==
  ASSUME principals \in Table, NEW u \in User, DeleteUser(u)
  PROVE  /\ principals' \in Table
         /\ \A q \in Principal : /\ principals'[q].type = principals[q].type
                                /\ principals'[q].parent = principals[q].parent
                                /\ principals'[q].root = principals[q].root
                                /\ principals'[q].userId = OtherLink(u, q)
BY DEF DeleteUser, OtherLink, Table, Row

\* At the end of an operation that refreshes the roots.
LEMMA SavedTree ==
  ASSUME NEW ps \in Table, Saves(ps)
  PROVE  /\ \A S \in SUBSET Live(ps) : S # {} => \E p \in S : ps[p].parent \notin S
         /\ \A p \in Live(ps) : principals'[p].root \in Live(ps) \cup {NoOne}
         /\ \A p \in Live(ps) : principals'[p].root = RootFor(principals', principals'[p].parent)
<1>1. ASSUME NEW S \in SUBSET Live(ps), NEW p \in S, \A q \in S : ps[q].parent \in S
      PROVE  FALSE
  <2>1. S \in SUBSET Principal /\ ps[p].parent \in S
    BY <1>1 DEF Live
  <2>2. RootFor(ps, ps[p].parent) = Thrown
    BY <1>1, <2>1, CyclesThrow
  <2>3. RootFor(ps, ps[p].parent) \in Reference
    BY DEF Saves, Refreshable, Live
  <2>4. QED
    BY <2>2, <2>3, NullAssumption DEF Reference
<1>2. ASSUME NEW p \in Live(ps)
      PROVE  principals'[p].root \in Live(ps) \cup {NoOne}
  <2>1. ps[p].parent \in Reference
    BY DEF Table, Row, Live
  <2>2. RootFor(ps, ps[p].parent) \in Live(ps) \cup {NoOne, Thrown}
    BY <2>1, RootRange
  <2>3. RootFor(ps, ps[p].parent) \in Reference
    BY DEF Saves, Refreshable, Live
  <2>4. principals'[p].root = RootFor(ps, ps[p].parent)
    BY SavedTable
  <2>5. QED
    BY <2>2, <2>3, <2>4, NullAssumption DEF Reference
<1>3. ASSUME NEW p \in Live(ps)
      PROVE  principals'[p].root = RootFor(principals', principals'[p].parent)
  <2>1. ps[p].parent \in Reference
    BY DEF Table, Row, Live
  <2>2. PICK qs \in Table : qs = Refreshed(ps)
    BY SavedTable DEF Saves
  <2>3. \A q \in Principal : qs[q].type = ps[q].type /\ qs[q].parent = ps[q].parent
    BY <2>2, SavedTable DEF Saves
  <2>4. RootFor(qs, ps[p].parent) = RootFor(ps, ps[p].parent)
    BY <2>1, <2>3, SameTreeSameRoot
  <2>5. principals' = qs
    BY <2>2 DEF Saves
  <2>6. qs[p].root = RootFor(qs, qs[p].parent)
    BY <2>3, <2>4, <2>5, SavedTable DEF Live
  <2>7. QED
    BY <2>5, <2>6
<1>4. QED
  BY <1>1, <1>2, <1>3

-----------------------------------------------------------------------------
\* The inductive invariant is what the run checks, taken together.
IInv ==
  /\ TypeOK
  /\ HierarchyIsAForest
  /\ RefreshedRootsAreCurrent
  /\ ServicesKeepStructure
  /\ OneUserOnePrincipal
  /\ RootsExist

\* Of a table: its structural facts and its links.
Structured(ps) ==
  \A p \in Live(ps) :
    /\ ps[p].parent # NoOne => /\ ps[p].type \in CanHaveParent
                               /\ ps[ps[p].parent].type \in Container
    /\ ps[p].userId # NoOne => ps[p].type = Person /\ ps[p].userId \in users
OneToOne(ps) ==
  \A p, q \in Live(ps) : ps[p].userId = ps[q].userId /\ ps[p].userId # NoOne => p = q

LEMMA TableFacts ==
  ASSUME IInv
  PROVE  /\ principals \in Table
         /\ Existing = Live(principals)
         /\ OneToOne(principals)
         /\ ~bypassed /\ Idle => Structured(principals)
BY DEF IInv, TypeOK, Table, Existing, Live, OneUserOnePrincipal, OneToOne, ServicesKeepStructure,
       MembersHaveContainers, Structured, Reference

\* An operation that ends with the refresh.
LEMMA SavesKeeps ==
  ASSUME NEW ps \in Table, Saves(ps),
         users' \subseteq User, licensed' \subseteq Live(ps), users' = users,
         stage' = "none", rows' \in 0..MaxRows, bypassed' \in BOOLEAN,
         OneToOne(ps), ~bypassed' => Structured(ps)
  PROVE  IInv'
<1>1. /\ principals' \in Table
      /\ \A p \in Principal : /\ principals'[p].type = ps[p].type
                             /\ principals'[p].parent = ps[p].parent
                             /\ principals'[p].userId = ps[p].userId
  BY SavedTable
<1>2. Existing' = Live(ps)
  BY <1>1 DEF Existing, Exists, Live
<1>3. Live(ps) \subseteq Principal
  BY DEF Live
<1>4. TypeOK'
  BY <1>1, <1>2 DEF TypeOK, Table, Saves
<1>5. HierarchyIsAForest'
  BY <1>1, <1>2, <1>3, SavedTree DEF HierarchyIsAForest
<1>6. RefreshedRootsAreCurrent'
  BY <1>2, SavedTree DEF RefreshedRootsAreCurrent, RootsAreCurrent
<1>7. ServicesKeepStructure'
  <2>1. ASSUME NEW p \in Live(ps), ps[p].parent # NoOne
        PROVE  ps[p].parent \in Principal
    BY <2>1, <1>3 DEF Table, Row, Reference
  <2>2. QED
    BY <1>1, <1>2, <1>3, <2>1 DEF ServicesKeepStructure, MembersHaveContainers, Structured
<1>8. OneUserOnePrincipal'
  BY <1>1, <1>2, <1>3 DEF OneUserOnePrincipal, OneToOne
<1>9. RootsExist'
  BY <1>2, SavedTree DEF RootsExist
<1>10. QED
  BY <1>4, <1>5, <1>6, <1>7, <1>8, <1>9 DEF IInv

\* A row that is written keeps the links one to one.
LEMMA WrittenOneToOne ==
  ASSUME NEW ps \in Table, NEW p \in Principal, NEW t \in PrincipalType, NEW up \in Reference,
         NEW u \in User \cup {NoOne}, Writable(ps, p, up, u), OneToOne(ps)
  PROVE  /\ Live(Written(ps, p, t, up, u)) = Live(ps) \cup {p}
         /\ OneToOne(Written(ps, p, t, up, u))
<1> DEFINE qs == Written(ps, p, t, up, u)
<1>1. /\ qs[p].type = t
      /\ qs[p].userId = u
      /\ \A q \in Principal \ {p} : qs[q] = ps[q]
  <2>1. qs[p] = [type |-> t, parent |-> up, root |-> RootFor(ps, up), userId |-> u]
    BY WrittenTable
  <2>2. \A q \in Principal \ {p} : qs[q] = ps[q]
    BY DEF Written, Table
  <2> HIDE DEF qs
  <2>3. QED
    BY <2>1, <2>2
<1>2. u # NoOne => \A q \in Principal \ {p} : ps[q].userId # u
  BY DEF Writable
<1> HIDE DEF qs
<1>3. Live(qs) = Live(ps) \cup {p}
  BY <1>1 DEF Live, Exists
<1>4. OneToOne(qs)
  BY <1>1, <1>2, <1>3 DEF OneToOne, Live, Exists
<1>5. QED
  BY <1>3, <1>4 DEF qs

-----------------------------------------------------------------------------
\* Each action keeps the invariant.

LEMMA CreateKeeps ==
  ASSUME IInv, NEW p \in Principal, NEW t \in PrincipalType, NEW wanted \in Reference,
         NEW u \in User \cup {NoOne}, Create(p, t, wanted, u)
  PROVE  IInv'
<1> DEFINE up == IF t \in CanHaveParent THEN wanted ELSE NoOne
           ps == Written(principals, p, t, up, u)
<1>1. /\ up \in Reference
      /\ up # NoOne => t \in CanHaveParent
  BY DEF Reference
<1>2. /\ Idle
      /\ principals[p].type = "unborn"
      /\ LinkAllowed(p, t, u)
      /\ ParentAllowed(up)
      /\ Writable(principals, p, up, u)
      /\ Saves(ps)
      /\ UNCHANGED <<otherVars, commitVars, bypassed>>
  BY DEF Create
<1> HIDE DEF up
<1>3. /\ principals \in Table
      /\ Existing = Live(principals)
      /\ OneToOne(principals)
      /\ ~bypassed => Structured(principals)
  BY <1>2, TableFacts
<1>4. ps \in Table
  BY <1>1, <1>2, <1>3, WrittenTable
<1>5. /\ ps[p].type = t /\ ps[p].parent = up /\ ps[p].userId = u
      /\ \A q \in Principal \ {p} : ps[q] = principals[q]
  BY <1>3 DEF Written, Table
<1>6. Live(ps) = Live(principals) \cup {p} /\ OneToOne(ps)
  BY <1>1, <1>2, <1>3, WrittenOneToOne
<1> HIDE DEF ps
<1>7. p \notin Live(principals)
  BY <1>2, AbsentAssumption DEF Live, Exists
<1>8. ~bypassed => Structured(ps)
  <2> SUFFICES ASSUME ~bypassed, Structured(principals), NEW q \in Live(ps)
               PROVE  /\ ps[q].parent # NoOne => /\ ps[q].type \in CanHaveParent
                                                 /\ ps[ps[q].parent].type \in Container
                      /\ ps[q].userId # NoOne => ps[q].type = Person /\ ps[q].userId \in users
    BY <1>3 DEF Structured
  <2>1. CASE q = p
    <3>1. up # NoOne => up \in Live(principals) /\ principals[up].type \in Container
      BY <1>2, <1>3 DEF ParentAllowed
    <3>2. up # NoOne => up \in Principal \ {p}
      BY <3>1, <1>7 DEF Live
    <3>3. QED
      BY <2>1, <3>1, <3>2, <1>1, <1>2, <1>5 DEF LinkAllowed
  <2>2. CASE q # p
    <3>1. q \in Live(principals) /\ ps[q] = principals[q]
      BY <2>2, <1>5, <1>6 DEF Live
    <3>2. /\ principals[q].parent # NoOne => /\ principals[q].type \in CanHaveParent
                                             /\ principals[principals[q].parent].type \in Container
          /\ principals[q].userId # NoOne => /\ principals[q].type = Person
                                             /\ principals[q].userId \in users
      BY <3>1 DEF Structured
    <3>3. principals[q].parent # NoOne => principals[q].parent \in Principal \ {p}
      <4>1. principals[q].parent \in Reference
        BY <1>3, <3>1 DEF Live, Table, Row
      <4>2. principals[p].type \notin Container
        BY <1>2, AbsentAssumption, TraitAssumption
      <4>3. QED
        BY <3>2, <4>1, <4>2 DEF Reference
    <3>4. QED
      BY <3>1, <3>2, <3>3, <1>5
  <2>3. QED
    BY <2>1, <2>2
<1>9. /\ users' \subseteq User /\ licensed' \subseteq Live(ps) /\ users' = users
      /\ stage' = "none" /\ rows' \in 0..MaxRows /\ bypassed' \in BOOLEAN
      /\ bypassed' = bypassed
  BY <1>2, <1>3, <1>6 DEF IInv, TypeOK, otherVars, commitVars, Idle
<1>10. Saves(ps)
  BY <1>2
<1>11. QED
  BY <1>4, <1>6, <1>8, <1>9, <1>10, SavesKeeps

LEMMA UpdateKeeps ==
  ASSUME IInv, NEW p \in Principal, NEW t \in PrincipalType, NEW wantedParent \in Reference,
         NEW wantedUser \in User \cup {NoOne}, Update(p, t, wantedParent, wantedUser)
  PROVE  IInv'
<1> DEFINE old == principals[p]
           up == IF t \in CanHaveParent THEN wantedParent ELSE NoOne
           u == IF t = Person THEN wantedUser ELSE NoOne
           ps == Written(principals, p, t, up, u)
<1>1. /\ up \in Reference
      /\ up # NoOne => t \in CanHaveParent
      /\ u \in User \cup {NoOne}
      /\ u # NoOne => t = Person
  BY DEF Reference
<1>2. /\ Idle
      /\ p \in Existing
      /\ u = old.userId \/ LinkAllowed(p, t, u)
      /\ MembersAllow(p, t)
      /\ up # p
      /\ up = old.parent \/ ParentAllowed(up)
      /\ Writable(principals, p, up, u)
      /\ Saves(ps)
      /\ UNCHANGED <<otherVars, commitVars, bypassed>>
  BY DEF Update
<1> HIDE DEF up, u
<1>3. /\ principals \in Table
      /\ Existing = Live(principals)
      /\ OneToOne(principals)
      /\ ~bypassed => Structured(principals)
  BY <1>2, TableFacts
<1>4. ps \in Table
  BY <1>1, <1>2, <1>3, WrittenTable
<1>5. /\ ps[p].type = t /\ ps[p].parent = up /\ ps[p].userId = u
      /\ \A q \in Principal \ {p} : ps[q] = principals[q]
  BY <1>3 DEF Written, Table
<1>6. Live(ps) = Live(principals) \cup {p} /\ OneToOne(ps)
  BY <1>1, <1>2, <1>3, WrittenOneToOne
<1> HIDE DEF ps
<1>7. ~bypassed => Structured(ps)
  <2> SUFFICES ASSUME ~bypassed, Structured(principals), NEW q \in Live(ps)
               PROVE  /\ ps[q].parent # NoOne => /\ ps[q].type \in CanHaveParent
                                                 /\ ps[ps[q].parent].type \in Container
                      /\ ps[q].userId # NoOne => ps[q].type = Person /\ ps[q].userId \in users
    BY <1>3 DEF Structured
  <2>1. CASE q = p
    <3>1. up # NoOne => up \in Principal \ {p} /\ principals[up].type \in Container
      <4>1. CASE up = old.parent
        BY <4>1, <1>1, <1>2, <1>3 DEF Structured, Reference
      <4>2. CASE ParentAllowed(up)
        BY <4>2, <1>2 DEF ParentAllowed, Existing
      <4>3. QED
        BY <4>1, <4>2, <1>2
    <3>2. u # NoOne => u \in users
      BY <1>2, <1>3 DEF LinkAllowed, Structured
    <3>3. QED
      BY <2>1, <3>1, <3>2, <1>1, <1>5
  <2>2. CASE q # p
    <3>1. q \in Live(principals) /\ ps[q] = principals[q]
      BY <2>2, <1>5, <1>6 DEF Live
    <3>2. /\ principals[q].parent # NoOne => /\ principals[q].type \in CanHaveParent
                                             /\ principals[principals[q].parent].type \in Container
          /\ principals[q].userId # NoOne => /\ principals[q].type = Person
                                             /\ principals[q].userId \in users
      BY <3>1 DEF Structured
    <3>3. principals[q].parent \in Reference
      BY <1>3, <3>1 DEF Live, Table, Row
    <3>4. principals[q].parent = p => t \in Container
      BY <1>2, <1>3, <3>1 DEF MembersAllow
    <3>5. QED
      BY <3>1, <3>2, <3>3, <3>4, <1>5 DEF Reference
  <2>3. QED
    BY <2>1, <2>2
<1>8. /\ users' \subseteq User /\ licensed' \subseteq Live(ps) /\ users' = users
      /\ stage' = "none" /\ rows' \in 0..MaxRows /\ bypassed' \in BOOLEAN
      /\ bypassed' = bypassed
  BY <1>2, <1>3, <1>6 DEF IInv, TypeOK, otherVars, commitVars, Idle
<1>9. Saves(ps)
  BY <1>2
<1>10. QED
  BY <1>4, <1>6, <1>7, <1>8, <1>9, SavesKeeps

LEMMA EndCommitKeeps ==
  ASSUME IInv, EndCommit
  PROVE  IInv'
<1>1. /\ principals \in Table
      /\ Existing = Live(principals)
      /\ OneToOne(principals)
  BY TableFacts
<1>2. /\ users' \subseteq User /\ licensed' \subseteq Live(principals) /\ users' = users
      /\ stage' = "none" /\ rows' \in 0..MaxRows /\ bypassed' = TRUE
  BY <1>1, BoundAssumption DEF EndCommit, IInv, TypeOK, otherVars
<1>3. QED
  BY <1>1, <1>2, SavesKeeps DEF EndCommit

\* The tree stays as it is: the links, the licenses and the commit may change.
LEMMA SameTreeKeeps ==
  ASSUME IInv, Idle, principals' \in Table, fresh' = fresh,
         \A q \in Principal : /\ principals'[q].type = principals[q].type
                               /\ principals'[q].parent = principals[q].parent
                               /\ principals'[q].root = principals[q].root
  PROVE  Existing' = Existing /\ HierarchyIsAForest' /\ RefreshedRootsAreCurrent' /\ RootsExist'
<1>1. principals \in Table /\ Existing \subseteq Principal
  BY TableFacts DEF Existing
<1>2. Existing' = Existing
  BY DEF Existing, Exists
<1>3. HierarchyIsAForest'
  BY <1>1, <1>2 DEF HierarchyIsAForest, IInv
<1>4. RootsExist'
  BY <1>1, <1>2 DEF RootsExist, IInv
<1>5. PICK qs \in Table : qs = principals'
  OBVIOUS
<1>6. \A up \in Reference : RootFor(qs, up) = RootFor(principals, up)
  BY <1>1, <1>5, SameTreeSameRoot
<1>7. ASSUME fresh, NEW p \in Existing
      PROVE  principals'[p].root = RootFor(principals', principals'[p].parent)
  <2>1. principals[p].root = RootFor(principals, principals[p].parent)
    BY <1>7 DEF IInv, RefreshedRootsAreCurrent, RootsAreCurrent
  <2>2. principals[p].parent \in Reference
    BY <1>1, <1>7 DEF Table, Row
  <2>3. qs[p].root = RootFor(qs, qs[p].parent)
    BY <1>1, <1>5, <1>6, <1>7, <2>1, <2>2
  <2>4. QED
    BY <2>3, <1>5
<1>8. RefreshedRootsAreCurrent'
  BY <1>2, <1>7 DEF RefreshedRootsAreCurrent, RootsAreCurrent
<1>9. QED
  BY <1>2, <1>3, <1>4, <1>8

LEMMA LinkUserKeeps ==
  ASSUME IInv, NEW u \in User, NEW p \in Reference, LinkUser(u, p)
  PROVE  IInv'
<1>1. /\ Idle
      /\ u \in users
      /\ p # NoOne => p \in Existing /\ principals[p].type = Person
      /\ UNCHANGED <<otherVars, commitVars, fresh, bypassed>>
  BY NullAssumption DEF LinkUser
<1>2. principals \in Table /\ Existing \subseteq Principal
  BY TableFacts DEF Existing
<1>3. /\ principals' \in Table
      /\ \A q \in Principal : /\ principals'[q].type = principals[q].type
                             /\ principals'[q].parent = principals[q].parent
                             /\ principals'[q].root = principals[q].root
                             /\ principals'[q].userId = IF q = p THEN u ELSE OtherLink(u, q)
  BY <1>2, LinkedTable
<1>4. Existing' = Existing /\ HierarchyIsAForest' /\ RefreshedRootsAreCurrent' /\ RootsExist'
  BY <1>1, <1>3, SameTreeKeeps
<1>5. TypeOK'
  BY <1>1, <1>3, <1>4 DEF IInv, TypeOK, Table, otherVars, commitVars
<1>6. OneUserOnePrincipal'
  BY <1>2, <1>3, <1>4 DEF IInv, OneUserOnePrincipal, OtherLink
<1>7. ServicesKeepStructure'
  <2> SUFFICES ASSUME ~bypassed, NEW q \in Existing
               PROVE  /\ principals[q].parent # NoOne =>
                           /\ principals[q].type \in CanHaveParent
                           /\ principals'[principals[q].parent].type \in Container
                      /\ principals'[q].userId # NoOne =>
                           principals[q].type = Person /\ principals'[q].userId \in users
    BY <1>1, <1>2, <1>3, <1>4
    DEF ServicesKeepStructure, MembersHaveContainers, otherVars, commitVars
  <2>1. principals[q].parent \in Reference
    BY <1>2 DEF Table, Row
  <2>2. principals[q].parent # NoOne => /\ principals[q].type \in CanHaveParent
                                          /\ principals'[principals[q].parent].type \in Container
    BY <1>1, <1>2, <1>3, <2>1
    DEF IInv, ServicesKeepStructure, MembersHaveContainers, Reference
  <2>3. principals'[q].userId # NoOne => principals[q].type = Person /\ principals'[q].userId \in users
    <3>1. CASE q = p
      BY <1>1, <1>2, <1>3, <3>1, NullAssumption
    <3>2. CASE q # p
      BY <1>1, <1>2, <1>3, <3>2 DEF IInv, ServicesKeepStructure, OtherLink
    <3>3. QED
      BY <3>1, <3>2
  <2>4. QED
    BY <2>2, <2>3
<1>8. QED
  BY <1>4, <1>5, <1>6, <1>7 DEF IInv

LEMMA DeleteUserKeeps ==
  ASSUME IInv, NEW u \in User, DeleteUser(u)
  PROVE  IInv'
<1>1. /\ Idle
      /\ users' = users \ {u}
      /\ UNCHANGED <<licensed, commitVars, fresh, bypassed>>
  BY DEF DeleteUser
<1>2. principals \in Table /\ Existing \subseteq Principal
  BY TableFacts DEF Existing
<1>3. /\ principals' \in Table
      /\ \A q \in Principal : /\ principals'[q].type = principals[q].type
                             /\ principals'[q].parent = principals[q].parent
                             /\ principals'[q].root = principals[q].root
                             /\ principals'[q].userId = OtherLink(u, q)
  BY <1>2, UnlinkedTable
<1>4. Existing' = Existing /\ HierarchyIsAForest' /\ RefreshedRootsAreCurrent' /\ RootsExist'
  BY <1>1, <1>3, SameTreeKeeps
<1>5. TypeOK'
  BY <1>1, <1>3, <1>4 DEF IInv, TypeOK, Table, commitVars
<1>6. OneUserOnePrincipal'
  BY <1>2, <1>3, <1>4 DEF IInv, OneUserOnePrincipal, OtherLink
<1>7. ServicesKeepStructure'
  <2> SUFFICES ASSUME ~bypassed, NEW q \in Existing
               PROVE  /\ principals[q].parent # NoOne =>
                           /\ principals[q].type \in CanHaveParent
                           /\ principals'[principals[q].parent].type \in Container
                      /\ principals'[q].userId # NoOne =>
                           principals[q].type = Person /\ principals'[q].userId \in users \ {u}
    BY <1>1, <1>2, <1>3, <1>4 DEF ServicesKeepStructure, MembersHaveContainers, commitVars
  <2>1. principals[q].parent \in Reference
    BY <1>2 DEF Table, Row
  <2>2. QED
    BY <1>1, <1>2, <1>3, <2>1
    DEF IInv, ServicesKeepStructure, MembersHaveContainers, OtherLink, Reference
<1>8. QED
  BY <1>4, <1>5, <1>6, <1>7 DEF IInv

\* Licenses, and a commit that begins, leave the table alone.
LEMMA UntouchedKeeps ==
  ASSUME IInv, UNCHANGED <<principals, users, fresh, bypassed>>, licensed' \subseteq Existing,
         Idle, stage' \in {"none", "create"}, rows' = rows
  PROVE  IInv'
<1>1. principals \in Table
  BY TableFacts
<1>2. Existing' = Existing /\ HierarchyIsAForest' /\ RefreshedRootsAreCurrent' /\ RootsExist'
  BY <1>1, SameTreeKeeps
<1>3. TypeOK'
  BY <1>2 DEF IInv, TypeOK
<1>4. OneUserOnePrincipal' /\ ServicesKeepStructure'
  BY <1>2 DEF IInv, OneUserOnePrincipal, ServicesKeepStructure, MembersHaveContainers, Idle
<1>5. QED
  BY <1>2, <1>3, <1>4 DEF IInv

LEMMA RestartKeeps ==
  ASSUME IInv, Restart
  PROVE  IInv'
<1>1. /\ Idle
      /\ fresh' = (fresh /\ \A q \in Principal : principals'[q].parent = principals[q].parent)
      /\ UNCHANGED <<otherVars, commitVars, bypassed>>
  BY DEF Restart
<1>2. /\ principals \in Table
      /\ Existing \subseteq Principal
      /\ users \subseteq User
      /\ NoOne \notin Principal
  BY TableFacts, NullAssumption DEF Existing, IInv, TypeOK
<1>3. /\ principals' \in Table
      /\ \A q \in Principal :
           /\ principals'[q].type = principals[q].type
           /\ principals'[q].userId \in {principals[q].userId, NoOne}
           /\ principals'[q].parent \in {principals[q].parent, NoOne}
           /\ principals'[q].root \in {principals[q].root, NoOne}
           /\ principals[q].root \in Existing => principals'[q].root = principals[q].root
           /\ principals'[q].root \in Existing \cup {NoOne}
  <2>1. principals' = [q \in Principal |-> Repaired(principals[q])]
    BY DEF Restart
  <2>2. ASSUME NEW r \in Row
        PROVE  /\ Repaired(r) \in Row
               /\ Repaired(r).type = r.type
               /\ Repaired(r).userId \in {r.userId, NoOne}
               /\ Repaired(r).parent \in {r.parent, NoOne}
               /\ Repaired(r).root \in {r.root, NoOne}
               /\ Repaired(r).root \in Existing \cup {NoOne}
               /\ r.root \in Existing => Repaired(r).root = r.root
    BY <1>2 DEF Repaired, Row, Reference
  <2>3. QED
    BY <1>2, <2>1, <2>2 DEF Table
<1>4. Existing' = Existing
  BY <1>3 DEF Existing, Exists
<1>5. TypeOK'
  BY <1>1, <1>3, <1>4 DEF IInv, TypeOK, Table, otherVars, commitVars
<1>6. HierarchyIsAForest'
  <2>1. ASSUME NEW S \in SUBSET Existing, S # {}
        PROVE  \E p \in S : principals'[p].parent \notin S
    <3>1. PICK p \in S : principals[p].parent \notin S
      BY <1>1, <2>1 DEF IInv, HierarchyIsAForest
    <3>2. QED
      BY <1>2, <1>3, <3>1
  <2>2. QED
    BY <1>4, <2>1 DEF HierarchyIsAForest
<1>7. RefreshedRootsAreCurrent'
  <2> SUFFICES ASSUME fresh', NEW p \in Existing
               PROVE  principals'[p].root = RootFor(principals', principals'[p].parent)
    BY <1>4 DEF RefreshedRootsAreCurrent, RootsAreCurrent
  <2>1. fresh /\ \A q \in Principal : principals'[q].parent = principals[q].parent
    BY <1>1
  <2>2. PICK qs \in Table : qs = principals'
    BY <1>3
  <2>3. \A up \in Reference : RootFor(qs, up) = RootFor(principals, up)
    BY <1>2, <1>3, <2>1, <2>2, SameTreeSameRoot
  <2>4. principals[p].root = RootFor(principals, principals[p].parent)
    BY <1>1, <2>1 DEF IInv, RefreshedRootsAreCurrent, RootsAreCurrent
  <2>5. principals[p].parent \in Reference /\ p \in Principal
    BY <1>2 DEF Table, Row
  <2>6. qs[p].root = principals[p].root
    BY <1>2, <1>3, <2>2, <2>5 DEF IInv, RootsExist, Reference, Table, Row
  <2>7. qs[p].root = RootFor(qs, qs[p].parent)
    BY <2>1, <2>2, <2>3, <2>4, <2>5, <2>6
  <2>8. QED
    BY <2>2, <2>7
<1>8. ServicesKeepStructure'
  <2> SUFFICES ASSUME ~bypassed, NEW q \in Existing
               PROVE  /\ principals'[q].parent # NoOne =>
                           /\ principals[q].type \in CanHaveParent
                           /\ principals'[principals'[q].parent].type \in Container
                      /\ principals'[q].userId # NoOne =>
                           principals[q].type = Person /\ principals'[q].userId \in users
    BY <1>1, <1>2, <1>3, <1>4
    DEF ServicesKeepStructure, MembersHaveContainers, otherVars, commitVars
  <2>1. principals[q].parent \in Reference
    BY <1>2 DEF Table, Row
  <2>2. QED
    BY <1>1, <1>2, <1>3, <2>1 DEF IInv, ServicesKeepStructure, MembersHaveContainers, Reference
<1>9. OneUserOnePrincipal'
  BY <1>2, <1>3, <1>4 DEF IInv, OneUserOnePrincipal
<1>10. RootsExist'
  BY <1>2, <1>3, <1>4 DEF RootsExist
<1>11. QED
  BY <1>5, <1>6, <1>7, <1>8, <1>9, <1>10 DEF IInv

\* A deletion, by itself or in a commit, as far as other rows can tell.
LEMMA DeletedKeeps ==
  ASSUME IInv, NEW p \in Principal, Deletable(p), principals' = Deleted(p)
  PROVE  /\ principals' \in Table
         /\ Existing' = Existing \ {p}
         /\ licensed \subseteq Existing'
         /\ OneUserOnePrincipal'
         /\ RootsExist'
<1>1. principals \in Table /\ Existing \subseteq Principal
  BY TableFacts DEF Existing
<1>2. /\ principals' \in Table
      /\ principals'[p].type = "gone"
      /\ \A q \in Principal \ {p} :
           /\ principals'[q].type = principals[q].type
           /\ principals'[q].userId = principals[q].userId
           /\ principals'[q].root = IF principals[q].root = p THEN NoOne
                                   ELSE principals[q].root
  BY <1>1, DeletedTable DEF Absent
<1>3. Existing' = Existing \ {p}
  BY <1>1, <1>2, AbsentAssumption DEF Existing, Exists
<1>4. licensed \subseteq Existing'
  BY <1>3 DEF IInv, TypeOK, Deletable
<1>5. OneUserOnePrincipal'
  BY <1>1, <1>2, <1>3 DEF IInv, OneUserOnePrincipal
<1>6. RootsExist'
  BY <1>1, <1>2, <1>3 DEF IInv, RootsExist
<1>7. QED
  BY <1>2, <1>3, <1>4, <1>5, <1>6

LEMMA DeleteKeeps ==
  ASSUME IInv, NEW p \in Principal, Delete(p)
  PROVE  IInv'
<1>1. /\ Idle
      /\ p \in Existing
      /\ Deletable(p)
      /\ principals' = Deleted(p)
      /\ fresh' = (fresh /\ ~Disturbs(p, Deleted(p)))
      /\ UNCHANGED <<otherVars, commitVars, bypassed>>
  BY DEF Delete, Deletable
<1>2. /\ principals \in Table
      /\ Existing \subseteq Principal
      /\ NoOne \notin Principal
  BY TableFacts, NullAssumption DEF Existing
<1>3. /\ principals' \in Table
      /\ principals'[p].parent = NoOne
      /\ \A q \in Principal \ {p} :
           /\ principals'[q].type = principals[q].type
           /\ principals'[q].userId = principals[q].userId
           /\ principals'[q].parent = IF principals[q].parent = p THEN NoOne
                                     ELSE principals[q].parent
  BY <1>1, <1>2, DeletedTable DEF Absent
<1>4. /\ Existing' = Existing \ {p}
      /\ licensed \subseteq Existing'
      /\ OneUserOnePrincipal'
      /\ RootsExist'
  BY <1>1, DeletedKeeps
<1>5. TypeOK'
  BY <1>1, <1>3, <1>4 DEF IInv, TypeOK, Table, otherVars, commitVars
<1>6. HierarchyIsAForest'
  <2>1. ASSUME NEW S \in SUBSET (Existing \ {p}), S # {}
        PROVE  \E q \in S : principals'[q].parent \notin S
    <3>1. PICK q \in S : principals[q].parent \notin S
      BY <1>1, <2>1 DEF IInv, HierarchyIsAForest
    <3>2. QED
      BY <1>2, <1>3, <3>1
  <2>2. QED
    BY <1>4, <2>1 DEF HierarchyIsAForest
<1>7. RefreshedRootsAreCurrent'
  <2> SUFFICES ASSUME fresh', NEW q \in Existing \ {p}
               PROVE  principals'[q].root = RootFor(principals', principals'[q].parent)
    BY <1>4 DEF RefreshedRootsAreCurrent, RootsAreCurrent
  <2>1. fresh /\ \A r \in Principal \ {p} : /\ principals'[r].parent = principals[r].parent
                                           /\ principals'[r].root = principals[r].root
    BY <1>1 DEF Disturbs
  <2>2. \A r \in Principal : principals[r].parent # p
    <3>1. principals[p].parent # p
      <4>1. {p} \in SUBSET Existing
        BY <1>1
      <4>2. QED
        BY <1>1, <4>1 DEF IInv, HierarchyIsAForest
    <3>2. QED
      BY <1>1, <1>2, <1>3, <2>1, <3>1
  <2>3. PICK qs \in Table : qs = principals'
    BY <1>3
  <2>4. q \in Principal /\ principals[q].parent \in Reference \ {p}
    BY <1>2, <2>2 DEF Table, Row
  <2>5. RootFor(qs, principals[q].parent) = RootFor(principals, principals[q].parent)
    <3>1. /\ qs[p].parent = NoOne
          /\ \A r \in Principal \ {p} : /\ qs[r].type = principals[r].type
                                      /\ qs[r].parent = principals[r].parent
      BY <1>3, <2>1, <2>3
    <3>2. QED
      BY <1>2, <2>2, <2>4, <3>1, LeavesDoNotMatter
  <2>6. principals[q].root = RootFor(principals, principals[q].parent)
    BY <1>1, <2>1 DEF IInv, RefreshedRootsAreCurrent, RootsAreCurrent
  <2>7. qs[q].root = RootFor(qs, qs[q].parent)
    BY <2>1, <2>3, <2>4, <2>5, <2>6
  <2>8. QED
    BY <2>3, <2>7
<1>8. ServicesKeepStructure'
  <2> SUFFICES ASSUME ~bypassed, NEW q \in Existing \ {p}
               PROVE  /\ principals'[q].parent # NoOne =>
                           /\ principals[q].type \in CanHaveParent
                           /\ principals'[principals'[q].parent].type \in Container
                      /\ principals[q].userId # NoOne =>
                           principals[q].type = Person /\ principals[q].userId \in users
    BY <1>1, <1>2, <1>3, <1>4
    DEF ServicesKeepStructure, MembersHaveContainers, otherVars, commitVars
  <2>1. principals[q].parent \in Reference
    BY <1>2 DEF Table, Row
  <2>2. QED
    BY <1>1, <1>2, <1>3, <2>1 DEF IInv, ServicesKeepStructure, MembersHaveContainers, Reference
<1>9. QED
  BY <1>4, <1>5, <1>6, <1>7, <1>8 DEF IInv

\* In the middle of a commit only the types, the links and the existence of
\* roots are at stake.
LEMMA MidCommitKeeps ==
  ASSUME TypeOK', ~Idle', OneUserOnePrincipal', RootsExist'
  PROVE  IInv'
BY DEF IInv, HierarchyIsAForest, RefreshedRootsAreCurrent, RootsAreCurrent, ServicesKeepStructure

LEMMA CommitRowTypes ==
  ASSUME IInv, NEW from, NEW to \in {"create", "update", "delete"}, CommitRow(from, to)
  PROVE  /\ rows' \in 0..MaxRows /\ stage' = to /\ ~Idle'
         /\ users' = users /\ licensed' = licensed /\ fresh' = fresh /\ bypassed' = bypassed
BY BoundAssumption DEF IInv, TypeOK, CommitRow, otherVars, Idle

LEMMA CommitDeleteKeeps ==
  ASSUME IInv, NEW p \in Principal, CommitDelete(p)
  PROVE  IInv'
<1>1. /\ rows' \in 0..MaxRows /\ stage' = "delete" /\ ~Idle'
      /\ users' = users /\ licensed' = licensed /\ fresh' = fresh /\ bypassed' = bypassed
  BY CommitRowTypes DEF CommitDelete
<1>2. /\ principals' \in Table
      /\ licensed \subseteq Existing'
      /\ OneUserOnePrincipal'
      /\ RootsExist'
  BY DeletedKeeps DEF CommitDelete
<1>3. TypeOK'
  BY <1>1, <1>2 DEF IInv, TypeOK, Table
<1>4. QED
  BY <1>1, <1>2, <1>3, MidCommitKeeps

\* A row that a commit creates or updates.
LEMMA CommitWriteKeeps ==
  ASSUME IInv, NEW p \in Principal, NEW t \in PrincipalType, NEW up \in Reference,
         NEW u \in User \cup {NoOne}, Writable(principals, p, up, u),
         principals' = Written(principals, p, t, up, u),
         NEW from, NEW to \in {"create", "update", "delete"}, CommitRow(from, to)
  PROVE  IInv'
<1>1. /\ rows' \in 0..MaxRows /\ stage' = to /\ ~Idle'
      /\ users' = users /\ licensed' = licensed /\ fresh' = fresh /\ bypassed' = bypassed
  BY CommitRowTypes
<1>2. /\ principals \in Table
      /\ Existing = Live(principals)
      /\ OneToOne(principals)
  BY TableFacts
<1>3. principals' \in Table
  BY <1>2, WrittenTable
<1>4. /\ principals'[p].root = RootFor(principals, up)
      /\ \A q \in Principal \ {p} : principals'[q].root = principals[q].root
  BY <1>2 DEF Written, Table
<1>5. PICK qs \in Table : qs = Written(principals, p, t, up, u)
  BY <1>3
<1>6. Live(qs) = Live(principals) \cup {p} /\ OneToOne(qs)
  BY <1>2, <1>5, WrittenOneToOne
<1>7. Existing' = Existing \cup {p}
  BY <1>2, <1>5, <1>6 DEF Existing, Live
<1>8. TypeOK'
  BY <1>1, <1>3, <1>7 DEF IInv, TypeOK, Table
<1>9. OneUserOnePrincipal'
  BY <1>2, <1>5, <1>6, <1>7 DEF OneUserOnePrincipal, OneToOne
<1>10. RootsExist'
  <2>1. RootFor(principals, up) \in Existing \cup {NoOne}
    BY <1>2, RootRange, NullAssumption DEF Writable, Reference
  <2>2. QED
    BY <1>2, <1>4, <1>7, <2>1 DEF IInv, RootsExist, Live
<1>11. QED
  BY <1>1, <1>8, <1>9, <1>10, MidCommitKeeps

-----------------------------------------------------------------------------
LEMMA InitEstablishes == Init => IInv
<1> SUFFICES ASSUME Init PROVE IInv
  OBVIOUS
<1>1. Existing = {}
  BY AbsentAssumption DEF Init, Absent, Existing, Exists
<1>2. TypeOK
  <2>1. Absent("unborn") \in Row
    BY DEF Absent, Row, Reference
  <2>2. principals \in [Principal -> Row]
    BY <2>1 DEF Init
  <2>3. rows \in 0..MaxRows
    BY BoundAssumption DEF Init
  <2>4. licensed \subseteq Existing
    BY <1>1 DEF Init
  <2>5. /\ users \subseteq User
        /\ stage \in {"none", "create", "update", "delete"}
        /\ fresh \in BOOLEAN
        /\ bypassed \in BOOLEAN
    BY DEF Init
  <2>6. QED
    BY <2>2, <2>3, <2>4, <2>5 DEF TypeOK
<1>3. QED
  BY <1>1, <1>2
  DEF IInv, HierarchyIsAForest, RefreshedRootsAreCurrent, RootsAreCurrent, ServicesKeepStructure,
      MembersHaveContainers, OneUserOnePrincipal, RootsExist

LEMMA NextKeeps ==
  ASSUME IInv, [Next]_vars
  PROVE  IInv'
<1>1. CASE \E p \in Principal : Write(p)
  <2>1. PICK p \in Principal, t \in PrincipalType, up \in Reference, u \in User \cup {NoOne} :
          \/ Create(p, t, up, u)
          \/ Update(p, t, up, u)
          \/ CommitCreate(p, t, up, u)
          \/ CommitUpdate(p, t, up, u)
    BY <1>1 DEF Write
  <2>2. CASE Create(p, t, up, u)
    BY <2>2, CreateKeeps
  <2>3. CASE Update(p, t, up, u)
    BY <2>3, UpdateKeeps
  <2>4. CASE CommitCreate(p, t, up, u)
    BY <2>4, CommitWriteKeeps DEF CommitCreate
  <2>5. CASE CommitUpdate(p, t, up, u)
    BY <2>5, CommitWriteKeeps DEF CommitUpdate
  <2>6. QED
    BY <2>1, <2>2, <2>3, <2>4, <2>5
<1>2. CASE \E p \in Principal : Delete(p)
  BY <1>2, DeleteKeeps
<1>3. CASE \E p \in Principal : CommitDelete(p)
  BY <1>3, CommitDeleteKeeps
<1>4. CASE \E p \in Principal : License(p)
  <2>1. /\ UNCHANGED <<principals, users, fresh, bypassed>>
        /\ licensed' \subseteq Existing
        /\ Idle /\ stage' = "none" /\ rows' = rows
    BY <1>4 DEF License, commitVars, Idle, IInv, TypeOK
  <2>2. QED
    BY <2>1, UntouchedKeeps
<1>5. CASE \E u \in User, p \in Reference : LinkUser(u, p)
  BY <1>5, LinkUserKeeps
<1>6. CASE \E u \in User : DeleteUser(u)
  BY <1>6, DeleteUserKeeps
<1>7. CASE Restart
  BY <1>7, RestartKeeps
<1>8. CASE BeginCommit
  <2>1. /\ UNCHANGED <<principals, users, fresh, bypassed>>
        /\ licensed' \subseteq Existing
        /\ Idle /\ stage' = "create" /\ rows' = rows
    BY <1>8 DEF BeginCommit, otherVars, IInv, TypeOK
  <2>2. QED
    BY <2>1, UntouchedKeeps
<1>9. CASE EndCommit
  BY <1>9, EndCommitKeeps
<1>10. CASE UNCHANGED vars
  BY <1>10
  DEF vars, otherVars, commitVars, IInv, TypeOK, Existing, Exists, Idle, HierarchyIsAForest,
      RefreshedRootsAreCurrent, RootsAreCurrent, ServicesKeepStructure, MembersHaveContainers,
      OneUserOnePrincipal, RootsExist
<1>11. QED
  BY <1>1, <1>2, <1>3, <1>4, <1>5, <1>6, <1>7, <1>8, <1>9, <1>10 DEF Next

\* All that the run checks holds together.
THEOREM IInvHolds == Spec => []IInv
BY InitEstablishes, NextKeeps, PTL DEF Spec

\* Every variable keeps its type, and a principal that a license refers to
\* stays in the collection.
THEOREM TypeCorrect == Spec => []TypeOK
<1>1. IInv => TypeOK
  BY DEF IInv
<1>2. QED
  BY <1>1, IInvHolds, PTL

\* No principal is above itself, however principals are moved, one by one or
\* by the rows of a commit: TraverseEntity throws in every cycle.
THEOREM ForestHolds == Spec => []HierarchyIsAForest
<1>1. IInv => HierarchyIsAForest
  BY DEF IInv
<1>2. QED
  BY <1>1, IInvHolds, PTL

\* Stored roots are current until a deletion or a repair changes the tree.
THEOREM RootsHold == Spec => []RefreshedRootsAreCurrent
<1>1. IInv => RefreshedRootsAreCurrent
  BY DEF IInv
<1>2. QED
  BY <1>1, IInvHolds, PTL

\* Without aggregate commits, members have containers and only people are
\* linked to users, who exist.
THEOREM StructureHolds == Spec => []ServicesKeepStructure
<1>1. IInv => ServicesKeepStructure
  BY DEF IInv
<1>2. QED
  BY <1>1, IInvHolds, PTL

\* A user is linked to one principal at most.
THEOREM LinksHold == Spec => []OneUserOnePrincipal
<1>1. IInv => OneUserOnePrincipal
  BY DEF IInv
<1>2. QED
  BY <1>1, IInvHolds, PTL

\* A stored root is a principal of the collection.
THEOREM RootsExistAlways == Spec => []RootsExist
<1>1. IInv => RootsExist
  BY DEF IInv
<1>2. QED
  BY <1>1, IInvHolds, PTL
=============================================================================
