---------------------------- MODULE WorkspaceProofs ----------------------------
(***************************************************************************)
(* What TLAPS proves of WorkspaceCommit for any members, users and number  *)
(* of commands, Commits and writes of others: the types of the page and of *)
(* the transactions; that the working rows stay a forest, of which nothing *)
(* is lost that a Commit would delete; that the data store keeps what      *)
(* every write of the API keeps, and the structure of the service unless   *)
(* an aggregate commit took it away; that it keeps no trace of what failed *)
(* and one record of each draft; that a Commit which succeeds stores the   *)
(* user's workspace; and that the rows of one nobody disturbed are refused *)
(* only for the reasons stated.  The execution of a plan is a fold: the    *)
(* states it goes through are taken one by one.                            *)
(***************************************************************************)
EXTENDS WorkspaceCommit, FiniteSetTheorems, WellFoundedInduction, TLAPS

-----------------------------------------------------------------------------
\* Every step leaves the page as it is, is one of the user's commands, accepts
\* the committed rows as the baseline, or is another client's write.
Accepted ==
  /\ originals' = entries /\ recycleBin' = <<>> /\ staged' = {}
  /\ UNCHANGED <<catalog, entries, minted, edits>>
Counted == Edit /\ UNCHANGED <<catalog, entries, originals, recycleBin, staged, minted>>

LEMMA PageSteps ==
  ASSUME [CommitNext]_vars
  PROVE  Command \/ Accepted \/ Counted \/ UNCHANGED surfaceVars
<1> USE DEF surfaceVars
<1>1. CASE EditWorkspace
  BY <1>1 DEF EditWorkspace
<1>2. CASE Review \/ Dismiss \/ Execute \/ Refuse \/ Deny \/ LoseAnswer \/ LoseRollback \/ Finalize
           \/ LoseResponse \/ Restart
  BY <1>2 DEF Review, Dismiss, Execute, Refuse, Deny, LoseAnswer, LoseRollback, Finalize,
              LoseResponse, Restart
<1>3. CASE \E reached \in BOOLEAN : LoseFinalization(reached)
  BY <1>3 DEF LoseFinalization
<1>4. CASE Accept
  BY <1>4 DEF Accept, Accepted
<1>5. CASE \E n \in Attempt : Expire(n)
  BY <1>5 DEF Expire
<1>6. \A s, b : WriteByOther(s, b) => Counted
  BY DEF WriteByOther, Counted
<1>7. CASE \E p \in Stored, up \in Stored \cup {None} : MoveByOther(p, up)
  BY <1>6, <1>7 DEF MoveByOther
<1>8. CASE \E p \in Stored, u \in User \cup {None} : LinkByOther(p, u)
  BY <1>6, <1>8 DEF LinkByOther
<1>9. CASE \E p \in Stored : DeleteByOther(p)
  BY <1>6, <1>9 DEF DeleteByOther
<1>10. CASE \E p \in Stored, up \in Stored \cup {None}, u \in User \cup {None} :
              AggregateByOther(p, up, u)
  BY <1>6, <1>10 DEF AggregateByOther
<1>11. CASE UNCHANGED vars
  BY <1>11 DEF vars
<1> QED
  BY <1>1, <1>2, <1>3, <1>4, <1>5, <1>7, <1>8, <1>9, <1>10, <1>11 DEF CommitNext

-----------------------------------------------------------------------------
\* The rows.
LEMMA RowsWith ==
  ASSUME NEW r, IsRows(r), NEW m \in Member, NEW row \in Row
  PROVE  IsRows(With(r, m, row)) /\ DOMAIN With(r, m, row) = DOMAIN r \cup {m}
BY DEF IsRows, With

LEMMA RowsWithout ==
  ASSUME NEW r, IsRows(r), NEW m
  PROVE  IsRows(Without(r, m)) /\ DOMAIN Without(r, m) = DOMAIN r \ {m}
BY DEF IsRows, Without, Restrict

LEMMA RowMoved ==
  ASSUME NEW row \in Row, NEW up \in Member \cup {None}
  PROVE  [row EXCEPT !.parent = up] \in Row
BY DEF Row

LEMMA RowLinked ==
  ASSUME NEW row \in Row, NEW u \in User \cup DraftUser \cup {None}
  PROVE  [row EXCEPT !.user = u] \in Row
BY DEF Row

LEMMA RowsMoved ==
  ASSUME NEW r, IsRows(r), NEW m, NEW up \in Member \cup {None}
  PROVE  IsRows([r EXCEPT ![m].parent = up]) /\ DOMAIN [r EXCEPT ![m].parent = up] = DOMAIN r
BY RowMoved DEF IsRows

LEMMA RowsPlaced ==
  ASSUME IsRows(entries), NEW p \in Member, NEW row \in Row, NEW m \in DOMAIN entries,
         NEW relation
  PROVE  /\ IsRows(Placed(p, row, m, relation))
         /\ DOMAIN Placed(p, row, m, relation) = DOMAIN entries \cup {p}
<1>1. entries[m] \in Row /\ m \in Member
  BY DEF IsRows
<1>2. PlaceFor(m, relation) \in Member \cup {None}
  BY <1>1 DEF PlaceFor, Row
<1> DEFINE new == [row EXCEPT !.parent = PlaceFor(m, relation)]
           old == IF relation = "parent" THEN [entries EXCEPT ![m].parent = p] ELSE entries
<1>3. new \in Row
  BY <1>2, RowMoved
<1>4. IsRows(old) /\ DOMAIN old = DOMAIN entries
  BY RowsMoved
<1> HIDE DEF new, old
<1>5. IsRows(With(old, p, new)) /\ DOMAIN With(old, p, new) = DOMAIN old \cup {p}
  BY <1>3, <1>4, RowsWith
<1> QED
  BY <1>4, <1>5 DEF Placed, new, old

LEMMA RowsLinked ==
  ASSUME NEW r, IsRows(r), NEW m, NEW u \in User \cup DraftUser \cup {None}
  PROVE  IsRows([r EXCEPT ![m].user = u]) /\ DOMAIN [r EXCEPT ![m].user = u] = DOMAIN r
BY RowLinked DEF IsRows

LEMMA CatalogRows ==
  ASSUME catalog \in Catalogs
  PROVE  DOMAIN catalog = Stored /\ IsRows(catalog) /\ \A p \in Stored : catalog[p] \in Row
BY CatalogAssumption DEF IsRows

-----------------------------------------------------------------------------
\* Chains.

\* S holds the parent of each of its rows, where there is one.
UpClosed(rows, S) ==
  /\ S \subseteq DOMAIN rows
  /\ \A q \in S : rows[q].parent \in DOMAIN rows => rows[q].parent \in S

\* No set of rows holds the parent of each of its rows: no chain closes.
Acyclic(rows) ==
  \A S \in SUBSET DOMAIN rows : S # {} => \E q \in S : rows[q].parent \notin S

Upwards(rows, seen) == seen \cup ({rows[q].parent : q \in seen} \cap DOMAIN rows)

\* What every closed set around seen has in common.
Least(rows, seen) ==
  {x \in DOMAIN rows :
     \A T \in SUBSET DOMAIN rows : seen \subseteq T /\ UpClosed(rows, T) => x \in T}

LEMMA LeastSteps ==
  ASSUME NEW rows, NEW seen \in SUBSET DOMAIN rows
  PROVE  /\ Upwards(rows, seen) \in SUBSET DOMAIN rows
         /\ seen \subseteq Upwards(rows, seen)
         /\ seen \subseteq Least(rows, seen)
         /\ UpClosed(rows, Least(rows, seen))
         /\ Upwards(rows, seen) = seen => Least(rows, seen) = seen
         /\ Least(rows, Upwards(rows, seen)) = Least(rows, seen)
<1>1. Upwards(rows, seen) \in SUBSET DOMAIN rows /\ seen \subseteq Upwards(rows, seen)
  BY DEF Upwards
<1>2. seen \subseteq Least(rows, seen)
  BY DEF Least
<1>3. UpClosed(rows, Least(rows, seen))
  BY DEF Least, UpClosed
<1>4. ASSUME Upwards(rows, seen) = seen PROVE Least(rows, seen) = seen
  <2>1. UpClosed(rows, seen)
    BY <1>4 DEF Upwards, UpClosed
  <2> QED
    BY <1>2, <2>1 DEF Least
<1>5. \A T \in SUBSET DOMAIN rows :
        UpClosed(rows, T) => (seen \subseteq T <=> Upwards(rows, seen) \subseteq T)
  BY DEF UpClosed, Upwards
<1>6. Least(rows, Upwards(rows, seen)) = Least(rows, seen)
  BY <1>5 DEF Least
<1> QED
  BY <1>1, <1>2, <1>3, <1>4, <1>6

\* Of the sets of a collection of subsets of a finite set, one is in no other.
LEMMA LargestSet ==
  ASSUME NEW D, IsFiniteSet(D), NEW B \in SUBSET (SUBSET D), B # {}
  PROVE  \E S \in B : \A T \in B : S \subseteq T => T = S
<1> DEFINE C == {D \ S : S \in B}
           R == StrictSubsetOrdering(D)
<1>1. IsWellFoundedOn(R, SUBSET D)
  BY FS_StrictSubsetOrderingWellFounded, FS_FiniteSubsetsOfFinite
<1>2. C \subseteq SUBSET D /\ C # {}
  <2>1. PICK S \in B : TRUE
    OBVIOUS
  <2>2. D \ S \in C
    BY <2>1
  <2>3. \A U \in C : U \in SUBSET D
    OBVIOUS
  <2> HIDE DEF C
  <2> QED
    BY <2>2, <2>3
<1> HIDE DEF C, R
<1>3. PICK U \in C : \A V \in C : ~ (<<V, U>> \in R)
  BY <1>1, <1>2, WFMin
<1>4. PICK S \in B : U = D \ S
  BY DEF C
<1>5. ASSUME NEW T \in B, S \subseteq T PROVE T = S
  <2>1. D \ T \in C /\ D \ T \in SUBSET D /\ U \in SUBSET D
    BY <1>2 DEF C
  <2>2. ~ (D \ T \subseteq U /\ D \ T # U)
    BY <1>3, <2>1 DEF R, StrictSubsetOrdering
  <2> QED
    BY <1>4, <1>5, <2>2
<1> QED
  BY <1>5

\* The chain of p is the least closed set with p in it.
LEMMA ChainIsLeast ==
  ASSUME NEW rows, IsFiniteSet(DOMAIN rows), NEW p
  PROVE  Chain(rows, p) = Least(rows, {p} \cap DOMAIN rows)
<1> DEFINE D == DOMAIN rows
           Next(f, seen) == IF Upwards(rows, seen) = seen THEN seen ELSE f[Upwards(rows, seen)]
           V == CHOOSE f : f = [seen \in SUBSET D |-> Next(f, seen)]
           F == [seen \in SUBSET D |-> Least(rows, seen)]
<1>1. Chain(rows, p) = V[{p} \cap D]
  BY DEF Chain, Upwards
<1>2. F = [seen \in SUBSET D |-> Next(F, seen)]
  BY LeastSteps
<1>3. V = [seen \in SUBSET D |-> Next(V, seen)]
  BY <1>2
<1> HIDE DEF V
<1> DEFINE B == {S \in SUBSET D : V[S] # Least(rows, S)}
<1>4. B = {}
  <2> SUFFICES ASSUME B # {} PROVE FALSE
    OBVIOUS
  <2>0. B \in SUBSET (SUBSET D) /\ IsFiniteSet(D)
    OBVIOUS
  <2>1. PICK S \in B : \A T \in B : S \subseteq T => T = S
    <3> HIDE DEF B, D
    <3> QED
      BY <2>0, LargestSet
  <2>2. S \in SUBSET D /\ V[S] # Least(rows, S)
    OBVIOUS
  <2>3. V[S] = IF Upwards(rows, S) = S THEN S ELSE V[Upwards(rows, S)]
    BY <1>3, <2>2
  <2>4. Upwards(rows, S) # S
    BY <2>2, <2>3, LeastSteps
  <2>5. Upwards(rows, S) \notin B
    BY <2>1, <2>2, <2>4, LeastSteps
  <2>6. V[Upwards(rows, S)] = Least(rows, S)
    BY <2>2, <2>5, LeastSteps
  <2> QED
    BY <2>2, <2>3, <2>4, <2>6
<1> QED
  BY <1>1, <1>4

LEMMA ChainClosed ==
  ASSUME NEW rows, IsFiniteSet(DOMAIN rows), NEW p
  PROVE  /\ UpClosed(rows, Chain(rows, p))
         /\ p \in DOMAIN rows => p \in Chain(rows, p)
         /\ \A T : UpClosed(rows, T) /\ {p} \cap DOMAIN rows \subseteq T => Chain(rows, p) \subseteq T
<1> DEFINE seen == {p} \cap DOMAIN rows
<1>1. seen \in SUBSET DOMAIN rows /\ Chain(rows, p) = Least(rows, seen)
  BY ChainIsLeast
<1> HIDE DEF seen
<1>2. seen \subseteq Chain(rows, p) /\ UpClosed(rows, Chain(rows, p))
  BY <1>1, LeastSteps
<1>3. ASSUME NEW T, UpClosed(rows, T), seen \subseteq T PROVE Chain(rows, p) \subseteq T
  BY <1>1, <1>3 DEF Least, UpClosed
<1> QED
  BY <1>2, <1>3 DEF seen

\* Without a cycle every chain ends at a root, and the other way round.
LEMMA ChainsEnd ==
  ASSUME NEW rows, IsFiniteSet(DOMAIN rows)
  PROVE  Acyclic(rows) <=> \A m \in DOMAIN rows : Roots(rows) \cap Chain(rows, m) # {}
<1>1. ASSUME Acyclic(rows), NEW m \in DOMAIN rows PROVE Roots(rows) \cap Chain(rows, m) # {}
  <2>1. UpClosed(rows, Chain(rows, m)) /\ m \in Chain(rows, m)
    BY ChainClosed
  <2>2. PICK q \in Chain(rows, m) : rows[q].parent \notin Chain(rows, m)
    BY <1>1, <2>1 DEF Acyclic, UpClosed
  <2> QED
    BY <2>1, <2>2 DEF UpClosed, Roots
<1>2. ASSUME \A m \in DOMAIN rows : Roots(rows) \cap Chain(rows, m) # {},
             NEW S \in SUBSET DOMAIN rows, S # {}
      PROVE  \E q \in S : rows[q].parent \notin S
  <2>1. SUFFICES ASSUME \A q \in S : rows[q].parent \in S PROVE FALSE
    OBVIOUS
  <2>2. PICK m \in S : TRUE
    BY <1>2
  <2>3. UpClosed(rows, S)
    BY <2>1 DEF UpClosed
  <2>4. Chain(rows, m) \subseteq S
    BY <2>2, <2>3, ChainClosed
  <2> QED
    BY <1>2, <2>1, <2>4 DEF Roots
<1> QED
  BY <1>1, <1>2 DEF Acyclic

-----------------------------------------------------------------------------
\* The page: its rows keep their types, and removed rows their way back.
SInv == SurfaceTypeOK /\ RemovedCanBeRestored

LEMMA SurfaceInit == Init => SInv
<1> SUFFICES ASSUME Init PROVE SInv
  OBVIOUS
<1>1. DOMAIN catalog = Stored /\ IsRows(catalog) /\ catalog \in Catalogs
  BY CatalogRows DEF Init
<1>2. PICK S \in SUBSET Stored : originals = Restrict(catalog, S)
  BY DEF Init
<1>3. DOMAIN originals = S /\ IsRows(originals)
  BY <1>1, <1>2 DEF Restrict, IsRows
<1>4. DOMAIN recycleBin = {} /\ IsRows(recycleBin)
  BY DEF Init, IsRows
<1>5. SurfaceTypeOK
  BY <1>1, <1>3, <1>4, EditsAssumption DEF Init, SurfaceTypeOK
<1>6. RemovedCanBeRestored
  BY <1>3, <1>4 DEF Init, RemovedCanBeRestored
<1> QED
  BY <1>5, <1>6 DEF SInv

\* A command that changes the rows of entries, and no more than the rows.
LEMMA RowsChanged ==
  ASSUME SInv, Edit, IsRows(entries'), DOMAIN entries' = DOMAIN entries,
         UNCHANGED <<catalog, originals, recycleBin>>,
         staged' \subseteq DraftUser, minted' \subseteq Draft \cup DraftUser
  PROVE  SInv'
<1>1. edits' \in 0..MaxEdits
  BY EditsAssumption DEF Edit, SInv, SurfaceTypeOK
<1> QED
  BY <1>1 DEF SInv, SurfaceTypeOK, RemovedCanBeRestored

LEMMA SurfaceCommand ==
  ASSUME SInv, Command
  PROVE  SInv'
<1>0. /\ catalog \in Catalogs /\ IsRows(entries) /\ IsRows(originals) /\ IsRows(recycleBin)
      /\ staged \subseteq DraftUser /\ minted \subseteq Draft \cup DraftUser
      /\ edits \in 0..MaxEdits
  BY DEF SInv, SurfaceTypeOK
<1>1. DOMAIN catalog = Stored /\ \A p \in Stored : catalog[p] \in Row
  BY <1>0, CatalogRows
<1>2. Edit => edits' \in 0..MaxEdits
  BY <1>0, EditsAssumption DEF Edit
<1>3. /\ DOMAIN originals \subseteq DOMAIN entries \cup DOMAIN recycleBin
      /\ DOMAIN recycleBin \subseteq DOMAIN originals
      /\ DOMAIN entries \cap Stored \subseteq DOMAIN originals
  BY DEF SInv, RemovedCanBeRestored
<1>4. ASSUME NEW p \in Draft, NEW m \in Member, NEW relation \in Relation,
             AddNew(p, m, relation)
      PROVE  SInv'
  <2>1. [parent |-> None, user |-> None] \in Row /\ p \in Member
    BY DEF Row, Member
  <2>2. IsRows(entries') /\ DOMAIN entries' = DOMAIN entries \cup {p}
    BY <1>0, <1>4, <2>1, RowsPlaced DEF AddNew
  <2>3. p \notin Stored
    BY MemberAssumption
  <2>4. SurfaceTypeOK'
    BY <1>0, <1>2, <1>4, <2>2 DEF AddNew, SurfaceTypeOK
  <2>5. RemovedCanBeRestored'
    BY <1>3, <1>4, <2>2, <2>3 DEF AddNew, RemovedCanBeRestored
  <2> QED
    BY <2>4, <2>5 DEF SInv
<1>5. ASSUME NEW p \in Stored, NEW m \in Member, NEW relation \in Relation,
             AddExisting(p, m, relation)
      PROVE  SInv'
  <2>1. catalog[p] \in Row /\ p \in Member
    BY <1>1 DEF Member
  <2>2. IsRows(entries') /\ DOMAIN entries' = DOMAIN entries \cup {p}
    BY <1>0, <1>5, <2>1, RowsPlaced DEF AddExisting
  <2>3. IsRows(originals') /\ DOMAIN originals' = DOMAIN originals \cup {p}
    <3>1. IsRows(With(originals, p, catalog[p]))
          /\ DOMAIN With(originals, p, catalog[p]) = DOMAIN originals \cup {p}
      BY <1>0, <2>1, RowsWith
    <3> QED
      BY <1>0, <1>5, <3>1 DEF AddExisting
  <2>4. SurfaceTypeOK'
    BY <1>0, <1>2, <1>5, <2>2, <2>3 DEF AddExisting, SurfaceTypeOK
  <2>5. RemovedCanBeRestored'
    BY <1>3, <1>5, <2>2, <2>3 DEF AddExisting, RemovedCanBeRestored
  <2> QED
    BY <2>4, <2>5 DEF SInv
<1>6. ASSUME NEW m \in Member, RemoveMember(m) PROVE SInv'
  <2>1. entries[m] \in Row
    BY <1>0, <1>6 DEF RemoveMember, IsRows
  <2>2. IsRows(entries') /\ DOMAIN entries' = DOMAIN entries \ {m}
    BY <1>0, <1>6, RowsWithout DEF RemoveMember
  <2>3. /\ IsRows(recycleBin')
        /\ DOMAIN recycleBin' = IF m \in DOMAIN originals THEN DOMAIN recycleBin \cup {m}
                                ELSE DOMAIN recycleBin
    <3>1. IsRows(With(recycleBin, m, entries[m]))
          /\ DOMAIN With(recycleBin, m, entries[m]) = DOMAIN recycleBin \cup {m}
      BY <1>0, <2>1, RowsWith
    <3> QED
      BY <1>0, <1>6, <3>1 DEF RemoveMember, Kept
  <2>4. SurfaceTypeOK'
    BY <1>0, <1>2, <1>6, <2>2, <2>3 DEF RemoveMember, SurfaceTypeOK
  <2>5. RemovedCanBeRestored'
    BY <1>3, <1>6, <2>2, <2>3 DEF RemoveMember, RemovedCanBeRestored
  <2> QED
    BY <2>4, <2>5 DEF SInv
<1>7. ASSUME NEW m \in Member, Restore(m) PROVE SInv'
  <2>1. RestoredRow(m) \in Row
    BY <1>0, <1>7, RowMoved DEF Restore, RestoredRow, IsRows
  <2>2. IsRows(entries') /\ DOMAIN entries' = DOMAIN entries \cup {m}
    BY <1>0, <1>7, <2>1, RowsWith DEF Restore
  <2>3. IsRows(recycleBin') /\ DOMAIN recycleBin' = DOMAIN recycleBin \ {m}
    BY <1>0, <1>7, RowsWithout DEF Restore
  <2>4. SurfaceTypeOK'
    BY <1>0, <1>2, <1>7, <2>2, <2>3 DEF Restore, SurfaceTypeOK
  <2>5. RemovedCanBeRestored'
    BY <1>3, <1>7, <2>2, <2>3 DEF Restore, RemovedCanBeRestored
  <2> QED
    BY <2>4, <2>5 DEF SInv
<1>8. ASSUME NEW m \in Member, NEW up \in Member, Move(m, up) PROVE SInv'
  BY <1>0, <1>8, RowsMoved, RowsChanged DEF Move
<1>9. ASSUME NEW m \in Member, NEW q \in Member, MoveBeside(m, q) PROVE SInv'
  <2>1. entries[q].parent \in Member \cup {None}
    BY <1>0, <1>9 DEF MoveBeside, IsRows, Row
  <2> QED
    BY <1>0, <1>9, <2>1, RowsMoved, RowsChanged DEF MoveBeside
<1>10. ASSUME NEW m \in Member, ClearParent(m) PROVE SInv'
  BY <1>0, <1>10, RowsMoved, RowsChanged DEF ClearParent
<1>11. ASSUME NEW m \in Member, NEW u \in User \cup DraftUser \cup {None}, SaveEntry(m, u)
       PROVE  SInv'
  BY <1>0, <1>11, RowsLinked, RowsChanged DEF SaveEntry
<1>12. ASSUME NEW v \in DraftUser, StageUser(v) PROVE SInv'
  BY <1>0, <1>12, RowsChanged DEF StageUser
<1>13. ASSUME NEW v \in DraftUser, DiscardUser(v) PROVE SInv'
  <2>1. \A m \in DOMAIN entries : UserBefore(m, v) \in User \cup DraftUser \cup {None}
    BY <1>0 DEF UserBefore, IsRows, Row
  <2>2. \A m \in DOMAIN entries : [entries[m] EXCEPT !.user = UserBefore(m, v)] \in Row
    BY <1>0, <2>1, RowLinked DEF IsRows
  <2>3. IsRows(entries') /\ DOMAIN entries' = DOMAIN entries
    BY <1>0, <1>13, <2>2 DEF DiscardUser, IsRows
  <2> QED
    BY <1>0, <1>13, <2>3, RowsChanged DEF DiscardUser
<1> QED
  BY <1>4, <1>5, <1>6, <1>7, <1>8, <1>9, <1>10, <1>11, <1>12, <1>13 DEF Command

LEMMA SurfaceNext ==
  ASSUME SInv, [CommitNext]_vars
  PROVE  SInv'
<1>1. CASE Command
  BY <1>1, SurfaceCommand
<1>2. CASE Accepted
  <2>1. DOMAIN recycleBin' = {} /\ IsRows(recycleBin')
    BY <1>2 DEF Accepted, IsRows
  <2>2. SurfaceTypeOK'
    BY <1>2, <2>1 DEF Accepted, SInv, SurfaceTypeOK
  <2>3. RemovedCanBeRestored'
    BY <1>2, <2>1 DEF Accepted, RemovedCanBeRestored
  <2> QED
    BY <2>2, <2>3 DEF SInv
<1>3. CASE Counted
  <2>1. edits' \in 0..MaxEdits
    BY <1>3, EditsAssumption DEF Counted, Edit, SInv, SurfaceTypeOK
  <2> QED
    BY <1>3, <2>1 DEF Counted, SInv, SurfaceTypeOK, RemovedCanBeRestored
<1>4. CASE UNCHANGED surfaceVars
  BY <1>4 DEF surfaceVars, SInv, SurfaceTypeOK, RemovedCanBeRestored
<1> QED
  BY <1>1, <1>2, <1>3, <1>4, PageSteps

-----------------------------------------------------------------------------
\* Forests.

\* Every parent is one of the rows.
Whole(rows) == \A q \in DOMAIN rows : rows[q].parent \in DOMAIN rows \cup {None}

\* A row p is given another parent, or a place among rows of which none names
\* it, and other rows at most lose theirs: where p is not above its new parent,
\* no cycle closes.
LEMMA StaysAcyclic ==
  ASSUME NEW old, NEW new, NEW p,
         IsFiniteSet(DOMAIN old), Acyclic(old),
         p \in DOMAIN old \/ \A q \in DOMAIN old : old[q].parent # p,
         DOMAIN new \subseteq DOMAIN old \cup {p},
         \A q \in DOMAIN new \ {p} :
           new[q].parent = old[q].parent \/ new[q].parent \notin DOMAIN new,
         p \in DOMAIN new =>
           \/ new[p].parent \notin DOMAIN new
           \/ p \in DOMAIN old /\ new[p].parent = old[p].parent
           \/ new[p].parent \in DOMAIN old /\ p \notin Chain(old, new[p].parent)
  PROVE  Acyclic(new)
<1> SUFFICES ASSUME NEW S \in SUBSET DOMAIN new, S # {}, \A q \in S : new[q].parent \in S
             PROVE  FALSE
  BY DEF Acyclic
<1>1. \A q \in S \ {p} : q \in DOMAIN old /\ old[q].parent = new[q].parent
  OBVIOUS
<1>2. CASE p \notin S \/ (p \in DOMAIN old /\ new[p].parent = old[p].parent)
  <2>1. S \subseteq DOMAIN old /\ \A q \in S : old[q].parent \in S
    BY <1>1, <1>2
  <2> QED
    BY <2>1 DEF Acyclic
<1>3. CASE p \in S /\ new[p].parent \in DOMAIN old /\ p \notin Chain(old, new[p].parent)
  <2> DEFINE up == new[p].parent
             T == S \cap Chain(old, up)
  <2>1. UpClosed(old, Chain(old, up)) /\ up \in T
    BY <1>3, ChainClosed
  <2>2. ASSUME NEW q \in T PROVE old[q].parent \in T
    <3>1. q # p /\ old[q].parent \in S /\ q \in DOMAIN old
      BY <1>1, <1>3
    <3>2. old[q].parent \in DOMAIN old
      BY <3>1
    <3> QED
      BY <2>1, <3>1, <3>2 DEF UpClosed
  <2>3. T \subseteq DOMAIN old
    BY <2>1 DEF UpClosed
  <2> HIDE DEF T
  <2> QED
    BY <2>1, <2>2, <2>3 DEF Acyclic
<1> QED
  BY <1>2, <1>3

\* The working rows are a forest.
Forest == Whole(entries) /\ Acyclic(entries)

LEMMA FiniteRows ==
  ASSUME NEW rows, IsRows(rows)
  PROVE  IsFiniteSet(DOMAIN rows) /\ None \notin DOMAIN rows /\ None \notin Member
BY MemberAssumption, NullAssumption, FS_Subset DEF IsRows

LEMMA ForestStays ==
  ASSUME SInv, Forest, NEW p \in Member, Whole(entries'),
         DOMAIN entries' \subseteq DOMAIN entries \cup {p},
         \A q \in DOMAIN entries' \ {p} : entries'[q].parent = entries[q].parent,
         p \in DOMAIN entries' =>
           \/ entries'[p].parent = None
           \/ p \in DOMAIN entries /\ entries'[p].parent = entries[p].parent
           \/ entries'[p].parent \in DOMAIN entries /\ p \notin Chain(entries, entries'[p].parent)
  PROVE  Forest'
<1>1. IsFiniteSet(DOMAIN entries) /\ None \notin DOMAIN entries \cup {p} /\ Whole(entries)
  BY FiniteRows DEF SInv, SurfaceTypeOK, Forest
<1>2. None \notin DOMAIN entries'
  BY <1>1
<1>3. Acyclic(entries')
  <2> DEFINE new == entries'
  <2> HIDE DEF new
  <2>1. /\ DOMAIN new \subseteq DOMAIN entries \cup {p} /\ None \notin DOMAIN new
        /\ p \in DOMAIN entries \/ \A q \in DOMAIN entries : entries[q].parent # p
        /\ \A q \in DOMAIN new \ {p} : new[q].parent = entries[q].parent
        /\ p \in DOMAIN new =>
             \/ new[p].parent = None
             \/ p \in DOMAIN entries /\ new[p].parent = entries[p].parent
             \/ new[p].parent \in DOMAIN entries /\ p \notin Chain(entries, new[p].parent)
    BY <1>1, <1>2 DEF new, Whole
  <2>2. Acyclic(entries)
    BY DEF Forest
  <2>3. Acyclic(new)
    BY <1>1, <2>1, <2>2, StaysAcyclic
  <2> QED
    BY <2>3 DEF new
<1> QED
  BY <1>3 DEF Forest

\* A row above m, which had no parent.
LEMMA ForestRaised ==
  ASSUME SInv, Forest, NEW p \in Member \ DOMAIN entries, NEW m \in DOMAIN entries,
         entries[m].parent = None,
         DOMAIN entries' = DOMAIN entries \cup {p},
         \A q \in DOMAIN entries \ {m} : entries'[q].parent = entries[q].parent,
         entries'[m].parent = p, entries'[p].parent = None
  PROVE  Forest'
<1>1. None \notin DOMAIN entries \cup {p} /\ Whole(entries) /\ Acyclic(entries)
  BY FiniteRows DEF SInv, SurfaceTypeOK, Forest
<1>2. Whole(entries')
  BY <1>1 DEF Whole
<1>3. Acyclic(entries')
  <2> SUFFICES ASSUME NEW S \in SUBSET DOMAIN entries', S # {},
                      \A q \in S : entries'[q].parent \in S
               PROVE  FALSE
    BY DEF Acyclic
  <2>1. p \notin S /\ m \notin S
    BY <1>1 DEF Whole
  <2>2. S \subseteq DOMAIN entries /\ \A q \in S : entries[q].parent \in S
    BY <2>1
  <2> QED
    BY <1>1, <2>2 DEF Acyclic
<1> QED
  BY <1>2, <1>3 DEF Forest

\* A row p that was not among the others, in relation to m.
LEMMA ForestPlaced ==
  ASSUME SInv, Forest, NEW p \in Member \ DOMAIN entries, NEW row \in Row,
         NEW m \in DOMAIN entries, NEW relation \in Relation,
         Offers(m, relation),
         entries' = Placed(p, row, m, relation)
  PROVE  Forest'
<1> DEFINE old == IF relation = "parent" THEN [entries EXCEPT ![m].parent = p] ELSE entries
           new == [row EXCEPT !.parent = PlaceFor(m, relation)]
<1>1. /\ IsRows(entries) /\ Whole(entries) /\ Acyclic(entries)
      /\ IsFiniteSet(DOMAIN entries) /\ None \notin Member
      /\ \A q \in DOMAIN entries : entries[q] \in Row
  BY FiniteRows DEF SInv, SurfaceTypeOK, Forest, IsRows
<1>2. DOMAIN old = DOMAIN entries /\ new.parent = PlaceFor(m, relation)
  BY DEF Row
<1>3. /\ \A q \in DOMAIN entries \ {m} : old[q].parent = entries[q].parent
      /\ old[m].parent = IF relation = "parent" THEN p ELSE entries[m].parent
  BY <1>1 DEF Row
<1>4. entries' = [q \in DOMAIN old \cup {p} |-> IF q = p THEN new ELSE old[q]]
  BY DEF Placed, With
<1> HIDE DEF old, new
<1>5. /\ DOMAIN entries' = DOMAIN entries \cup {p}
      /\ entries'[p].parent = PlaceFor(m, relation)
      /\ \A q \in DOMAIN entries \ {m} : entries'[q].parent = entries[q].parent
      /\ entries'[m].parent = IF relation = "parent" THEN p ELSE entries[m].parent
  BY <1>2, <1>3, <1>4
<1>6. CASE relation = "parent"
  <2>1. entries[m].parent = None /\ PlaceFor(m, relation) = None
    BY <1>6 DEF Offers, PlaceFor
  <2> QED
    BY <1>5, <1>6, <2>1, ForestRaised
<1>7. CASE relation # "parent"
  <2> DEFINE up == PlaceFor(m, relation)
  <2>1. up \in DOMAIN entries \cup {None}
    BY <1>1, <1>7 DEF Relation, PlaceFor, Whole
  <2> HIDE DEF up
  <2>2. Whole(entries')
    BY <1>1, <1>5, <1>7, <2>1 DEF Whole, up
  <2>3. p \notin Chain(entries, up)
    BY <1>1, ChainClosed DEF UpClosed
  <2> QED
    BY <1>5, <1>7, <2>1, <2>2, <2>3, ForestStays DEF up
<1> QED
  BY <1>6, <1>7

\* A row is given a parent that it is not above.
LEMMA ForestMoved ==
  ASSUME SInv, Forest, NEW m \in DOMAIN entries, NEW up,
         up = None \/ (up \in DOMAIN entries /\ ~WouldCreateCycle(entries, m, up)),
         entries' = [entries EXCEPT ![m].parent = up]
  PROVE  Forest'
<1>1. m \in Member /\ entries[m] \in Row /\ Whole(entries)
  BY DEF SInv, SurfaceTypeOK, IsRows, Forest
<1>2. /\ DOMAIN entries' = DOMAIN entries /\ entries'[m].parent = up
      /\ \A q \in DOMAIN entries \ {m} : entries'[q].parent = entries[q].parent
  BY <1>1 DEF Row
<1>3. Whole(entries')
  BY <1>1, <1>2 DEF Whole
<1> QED
  BY <1>1, <1>2, <1>3, ForestStays DEF WouldCreateCycle

\* No parent changes, though rows without children may go.
LEMMA ForestKept ==
  ASSUME SInv, Forest, DOMAIN entries' \subseteq DOMAIN entries,
         \A q \in DOMAIN entries' : entries'[q].parent = entries[q].parent,
         \A q \in DOMAIN entries' :
           entries[q].parent \in DOMAIN entries => entries[q].parent \in DOMAIN entries'
  PROVE  Forest'
<1>1. Whole(entries')
  BY DEF Forest, Whole
<1>2. Acyclic(entries')
  BY DEF Forest, Acyclic
<1> QED
  BY <1>1, <1>2 DEF Forest

\* A draft's identity is given out before the draft is among the rows.
DraftsMinted == (DOMAIN entries \cup DOMAIN originals) \cap Draft \subseteq minted

LEMMA MintedCommand ==
  ASSUME SInv, DraftsMinted, Command
  PROVE  DraftsMinted'
<1>0. /\ IsRows(entries) /\ IsRows(originals) /\ IsRows(recycleBin)
      /\ DOMAIN recycleBin \subseteq DOMAIN originals
  BY DEF SInv, SurfaceTypeOK, RemovedCanBeRestored
<1>1. ASSUME NEW p \in Member, NEW m \in DOMAIN entries, NEW relation, NEW row,
             entries' = Placed(p, row, m, relation)
      PROVE  DOMAIN entries' = DOMAIN entries \cup {p}
  BY <1>1 DEF Placed, With
<1>2. \A p \in Draft : \A m \in Member, relation \in Relation :
        AddNew(p, m, relation) => DraftsMinted'
  BY <1>1 DEF AddNew, DraftsMinted, Member
<1>3. ASSUME NEW p \in Stored, NEW m \in Member, NEW relation \in Relation,
             AddExisting(p, m, relation)
      PROVE  DraftsMinted'
  <2>1. DOMAIN entries' = DOMAIN entries \cup {p} /\ p \notin Draft /\ minted' = minted
    BY <1>1, <1>3, MemberAssumption DEF AddExisting, Member
  <2>2. DOMAIN originals' \subseteq DOMAIN originals \cup {p}
    BY <1>3 DEF AddExisting, With
  <2> QED
    BY <2>1, <2>2 DEF DraftsMinted
<1>4. ASSUME NEW m \in Member, RemoveMember(m) PROVE DraftsMinted'
  <2>1. DOMAIN entries' = DOMAIN entries \ {m}
    BY <1>0, <1>4, RowsWithout DEF RemoveMember
  <2> QED
    BY <1>4, <2>1 DEF RemoveMember, DraftsMinted
<1>5. ASSUME NEW m \in Member, Restore(m) PROVE DraftsMinted'
  <2>1. DOMAIN entries' = DOMAIN entries \cup {m}
    BY <1>5 DEF Restore, With
  <2> QED
    BY <1>0, <1>5, <2>1 DEF Restore, DraftsMinted
<1>6. \A m, q \in Member :
        Move(m, q) \/ MoveBeside(m, q) \/ ClearParent(m) => DraftsMinted'
  BY DEF Move, MoveBeside, ClearParent, DraftsMinted
<1>7. \A m \in Member, u \in User \cup DraftUser \cup {None} : SaveEntry(m, u) => DraftsMinted'
  BY DEF SaveEntry, DraftsMinted
<1>8. \A v \in DraftUser : StageUser(v) \/ DiscardUser(v) => DraftsMinted'
  BY DEF StageUser, DiscardUser, DraftsMinted
<1> QED
  BY <1>2, <1>3, <1>4, <1>5, <1>6, <1>7, <1>8 DEF Command

LEMMA ForestCommand ==
  ASSUME SInv, Forest, DraftsMinted, Command
  PROVE  Forest'
<1>0. /\ IsRows(entries) /\ \A q \in DOMAIN entries : q \in Member /\ entries[q] \in Row
      /\ Whole(entries) /\ catalog \in Catalogs
  BY DEF SInv, SurfaceTypeOK, IsRows, Forest
<1>1. ASSUME NEW p \in Draft, NEW m \in Member, NEW relation \in Relation, AddNew(p, m, relation)
      PROVE  Forest'
  <2>1. p \notin DOMAIN entries
    BY <1>1 DEF AddNew, DraftsMinted
  <2>2. [parent |-> None, user |-> None] \in Row /\ p \in Member
    BY DEF Row, Member
  <2> QED
    BY <1>1, <2>1, <2>2, ForestPlaced DEF AddNew
<1>2. ASSUME NEW p \in Stored, NEW m \in Member, NEW relation \in Relation,
             AddExisting(p, m, relation)
      PROVE  Forest'
  <2>1. catalog[p] \in Row /\ p \in Member
    BY <1>0, CatalogRows DEF Member
  <2> QED
    BY <1>2, <2>1, ForestPlaced DEF AddExisting
<1>3. ASSUME NEW m \in Member, RemoveMember(m) PROVE Forest'
  <2>1. /\ DOMAIN entries' = DOMAIN entries \ {m}
        /\ \A q \in DOMAIN entries' : entries'[q] = entries[q]
        /\ \A q \in DOMAIN entries : entries[q].parent # m
    BY <1>3 DEF RemoveMember, Without, Restrict
  <2> QED
    BY <2>1, ForestKept
<1>4. ASSUME NEW m \in Member, Restore(m) PROVE Forest'
  <2>1. m \in DOMAIN recycleBin /\ recycleBin[m] \in Row
    BY <1>4 DEF Restore, SInv, SurfaceTypeOK, IsRows
  <2>2. RestoredRow(m).parent = None
    BY <2>1 DEF RestoredRow, Row
  <2>3. /\ DOMAIN entries' = DOMAIN entries \cup {m}
        /\ entries'[m].parent = None
        /\ \A q \in DOMAIN entries' \ {m} : entries'[q] = entries[q]
    BY <1>4, <2>2 DEF Restore, With
  <2>4. Whole(entries')
    BY <1>0, <2>3 DEF Whole
  <2> QED
    BY <2>3, <2>4, ForestStays
<1>5. ASSUME NEW m \in Member, NEW up \in Member, Move(m, up) PROVE Forest'
  BY <1>5, ForestMoved DEF Move
<1>6. ASSUME NEW m \in Member, NEW q \in Member, MoveBeside(m, q) PROVE Forest'
  <2>1. entries[q].parent \in DOMAIN entries \cup {None}
    BY <1>0, <1>6 DEF MoveBeside, Whole
  <2> QED
    BY <1>6, <2>1, ForestMoved DEF MoveBeside
<1>7. ASSUME NEW m \in Member, ClearParent(m) PROVE Forest'
  BY <1>7, ForestMoved DEF ClearParent
<1>8. ASSUME NEW m \in Member, NEW u, SaveEntry(m, u) PROVE Forest'
  <2>1. /\ DOMAIN entries' = DOMAIN entries
        /\ \A q \in DOMAIN entries : entries'[q].parent = entries[q].parent
    BY <1>0, <1>8 DEF SaveEntry, Row
  <2> QED
    BY <2>1, ForestKept
<1>9. ASSUME NEW v \in DraftUser, DiscardUser(v) PROVE Forest'
  <2>1. /\ DOMAIN entries' = DOMAIN entries
        /\ \A q \in DOMAIN entries : entries'[q].parent = entries[q].parent
    BY <1>0, <1>9 DEF DiscardUser, Row
  <2> QED
    BY <2>1, ForestKept
<1>10. ASSUME NEW v \in DraftUser, StageUser(v) PROVE Forest'
  BY <1>10 DEF StageUser, Forest, Whole, Acyclic
<1> QED
  BY <1>1, <1>2, <1>3, <1>4, <1>5, <1>6, <1>7, <1>8, <1>9, <1>10 DEF Command

LEMMA CatalogAcyclic ==
  ASSUME catalog \in Catalogs
  PROVE  Acyclic(catalog)
<1>1. /\ DOMAIN catalog = Stored /\ IsRows(catalog) /\ SoundCatalog(catalog)
      /\ IsFiniteSet(DOMAIN catalog) /\ None \notin Stored
  BY CatalogRows, SoundnessAssumption, FiniteRows
<1>2. ASSUME NEW m \in Stored PROVE Roots(catalog) \cap Chain(catalog, m) # {}
  <2>1. CASE catalog[m].parent # None
    BY <1>1, <2>1 DEF SoundCatalog
  <2>2. CASE catalog[m].parent = None
    BY <1>1, <2>2, ChainClosed DEF Roots
  <2> QED
    BY <2>1, <2>2
<1> QED
  BY <1>1, <1>2, ChainsEnd

LEMMA ForestInit == Init => Forest
<1> SUFFICES ASSUME Init PROVE Forest
  OBVIOUS
<1> DEFINE tree == {p \in Stored : \E top \in Chain(catalog, Anchor) :
                                     top \in Roots(catalog) /\ top \in Chain(catalog, p)}
<1>1. /\ DOMAIN catalog = Stored /\ IsRows(catalog) /\ SoundCatalog(catalog)
      /\ IsFiniteSet(DOMAIN catalog) /\ None \notin Stored
  BY CatalogRows, SoundnessAssumption, FiniteRows DEF Init
<1>2. entries = Restrict(catalog, tree)
  BY DEF Init
<1>3. tree \subseteq Stored
  OBVIOUS
<1>4. ASSUME NEW p \in tree, catalog[p].parent # None PROVE catalog[p].parent \in tree
  <2> DEFINE up == catalog[p].parent
             chain == Chain(catalog, up)
  <2>1. up \in Stored
    BY <1>1, <1>4 DEF SoundCatalog
  <2>2. PICK top \in Chain(catalog, Anchor) : top \in Roots(catalog) /\ top \in Chain(catalog, p)
    OBVIOUS
  <2>3. UpClosed(catalog, chain) /\ up \in chain
    BY <1>1, <2>1, ChainClosed
  <2>4. UpClosed(catalog, chain \cup {p})
    BY <1>1, <2>3 DEF UpClosed
  <2>5. top \in chain \cup {p}
    BY <1>1, <2>2, <2>4, ChainClosed
  <2>6. top # p
    BY <1>1, <2>1, <2>2 DEF Roots
  <2> QED
    BY <2>1, <2>2, <2>5, <2>6
<1> HIDE DEF tree
<1>5. DOMAIN entries = tree /\ \A q \in tree : entries[q] = catalog[q]
  BY <1>1, <1>2, <1>3 DEF Restrict
<1>6. Whole(entries)
  BY <1>3, <1>4, <1>5 DEF Whole
<1>7. Acyclic(catalog)
  BY CatalogAcyclic DEF Init
<1>8. Acyclic(entries)
  BY <1>1, <1>3, <1>5, <1>7 DEF Acyclic
<1> QED
  BY <1>6, <1>8 DEF Forest

-----------------------------------------------------------------------------
\* The structure of the service: parents are containers, above members that may
\* have one, and users are those of people.

Placeable(rows) ==
  \A m \in DOMAIN rows : rows[m].parent # None =>
    rows[m].parent \in Container /\ m \in CanHaveParent

PersonRows(rows) == \A m \in DOMAIN rows : rows[m].user # None => m \in Person
RowsOfPersons == PersonRows(entries) /\ PersonRows(originals) /\ PersonRows(recycleBin)

\* The page keeps the structure, where the collection had it.
StaysStructured == Structured(catalog) => RowsOfPersons /\ Placeable(entries)

LEMMA StructuredInit == Init => StaysStructured
<1> SUFFICES ASSUME Init, Structured(catalog) PROVE RowsOfPersons /\ Placeable(entries)
  BY DEF StaysStructured
<1>1. DOMAIN catalog = Stored /\ DOMAIN recycleBin = {} /\ entries = originals
  BY CatalogRows DEF Init
<1>2. PICK S \in SUBSET Stored : originals = Restrict(catalog, S)
  BY DEF Init
<1>3. DOMAIN originals = S /\ \A m \in S : originals[m] = catalog[m]
  BY <1>1, <1>2 DEF Restrict
<1> QED
  BY <1>1, <1>3 DEF Structured, RowsOfPersons, PersonRows, Placeable

\* The row of p is written, with the user it had or none, or a person's.
LEMMA PersonsWith ==
  ASSUME NEW rows, PersonRows(rows), NEW p, NEW row, row.user # None => p \in Person
  PROVE  PersonRows(With(rows, p, row))
BY DEF PersonRows, With

\* The parent of m is another one.
LEMMA PersonsMoved ==
  ASSUME NEW rows, IsRows(rows), PersonRows(rows), NEW m, NEW up
  PROVE  PersonRows([rows EXCEPT ![m].parent = up])
BY DEF PersonRows, IsRows, Row

LEMMA PersonsPlaced ==
  ASSUME IsRows(entries), PersonRows(entries), NEW p, NEW row \in Row, NEW m, NEW relation,
         row.user # None => p \in Person
  PROVE  PersonRows(Placed(p, row, m, relation))
<1> DEFINE new == [row EXCEPT !.parent = PlaceFor(m, relation)]
           old == IF relation = "parent" THEN [entries EXCEPT ![m].parent = p] ELSE entries
<1>1. new.user = row.user
  BY DEF Row
<1>2. PersonRows(old)
  BY PersonsMoved
<1> HIDE DEF new, old
<1>3. PersonRows(With(old, p, new))
  BY <1>1, <1>2, PersonsWith
<1> QED
  BY <1>3 DEF Placed, new, old

LEMMA PersonsCommand ==
  ASSUME SInv, Structured(catalog), RowsOfPersons, Command
  PROVE  RowsOfPersons'
<1>0. /\ IsRows(entries) /\ IsRows(originals) /\ IsRows(recycleBin)
      /\ PersonRows(entries) /\ PersonRows(originals) /\ PersonRows(recycleBin)
  BY DEF SInv, SurfaceTypeOK, RowsOfPersons
<1>1. /\ DOMAIN catalog = Stored
      /\ \A p \in Stored : catalog[p] \in Row /\ (catalog[p].user # None => p \in Person)
  BY CatalogRows DEF SInv, SurfaceTypeOK, Structured
<1>2. ASSUME NEW p \in Draft, NEW m \in Member, NEW relation \in Relation,
             AddNew(p, m, relation)
      PROVE  RowsOfPersons'
  <2>1. [parent |-> None, user |-> None] \in Row
    BY DEF Row
  <2>2. PersonRows(entries')
    BY <1>0, <1>2, <2>1, PersonsPlaced DEF AddNew
  <2> QED
    BY <1>0, <1>2, <2>2 DEF AddNew, RowsOfPersons, PersonRows
<1>3. ASSUME NEW p \in Stored, NEW m \in Member, NEW relation \in Relation,
             AddExisting(p, m, relation)
      PROVE  RowsOfPersons'
  <2>1. PersonRows(entries')
    BY <1>0, <1>1, <1>3, PersonsPlaced DEF AddExisting
  <2>2. PersonRows(originals')
    BY <1>0, <1>1, <1>3, PersonsWith DEF AddExisting
  <2> QED
    BY <1>0, <1>3, <2>1, <2>2 DEF AddExisting, RowsOfPersons, PersonRows
<1>4. ASSUME NEW m \in Member, RemoveMember(m) PROVE RowsOfPersons'
  <2>1. m \in DOMAIN entries /\ entries' = Without(entries, m) /\ recycleBin' = Kept(m)
    BY <1>4 DEF RemoveMember
  <2>2. PersonRows(entries')
    BY <1>0, <2>1 DEF PersonRows, Without, Restrict
  <2>3. entries[m].user # None => m \in Person
    BY <1>0, <2>1 DEF PersonRows
  <2>4. PersonRows(recycleBin')
    BY <1>0, <2>1, <2>3, PersonsWith DEF Kept
  <2> QED
    BY <1>0, <1>4, <2>2, <2>4 DEF RemoveMember, RowsOfPersons, PersonRows
<1>5. ASSUME NEW m \in Member, Restore(m) PROVE RowsOfPersons'
  <2>1. /\ m \in DOMAIN recycleBin /\ recycleBin[m] \in Row
        /\ entries' = With(entries, m, RestoredRow(m)) /\ recycleBin' = Without(recycleBin, m)
    BY <1>0, <1>5 DEF Restore, IsRows
  <2>2. RestoredRow(m).user # None => m \in Person
    BY <1>0, <2>1 DEF RestoredRow, Row, PersonRows
  <2>3. PersonRows(entries')
    BY <1>0, <2>1, <2>2, PersonsWith
  <2>4. PersonRows(recycleBin')
    BY <1>0, <2>1 DEF PersonRows, Without, Restrict
  <2> QED
    BY <1>0, <1>5, <2>3, <2>4 DEF Restore, RowsOfPersons, PersonRows
<1>6. ASSUME NEW m, NEW up, entries' = [entries EXCEPT ![m].parent = up],
             UNCHANGED <<originals, recycleBin>>
      PROVE  RowsOfPersons'
  BY <1>0, <1>6, PersonsMoved DEF RowsOfPersons, PersonRows
<1>7. ASSUME NEW m \in Member, NEW u, SaveEntry(m, u) PROVE RowsOfPersons'
  <2>1. m \in Person /\ entries' = [entries EXCEPT ![m].user = u]
    BY <1>7 DEF SaveEntry
  <2>2. PersonRows(entries')
    BY <1>0, <2>1 DEF PersonRows
  <2> QED
    BY <1>0, <1>7, <2>2 DEF SaveEntry, RowsOfPersons, PersonRows
<1>8. ASSUME NEW v \in DraftUser, StageUser(v) PROVE RowsOfPersons'
  BY <1>0, <1>8 DEF StageUser, RowsOfPersons, PersonRows
<1>9. ASSUME NEW v \in DraftUser, DiscardUser(v) PROVE RowsOfPersons'
  <2>1. entries' = [m \in DOMAIN entries |-> [entries[m] EXCEPT !.user = UserBefore(m, v)]]
    BY <1>9 DEF DiscardUser
  <2>2. \A m \in DOMAIN entries : entries'[m].user = UserBefore(m, v)
    BY <1>0, <2>1 DEF IsRows, Row
  <2>3. \A m \in DOMAIN entries : UserBefore(m, v) # None => m \in Person
    BY <1>0 DEF PersonRows, UserBefore
  <2>4. PersonRows(entries')
    BY <2>1, <2>2, <2>3 DEF PersonRows
  <2> QED
    BY <1>0, <1>9, <2>4 DEF DiscardUser, RowsOfPersons, PersonRows
<1>10. ASSUME NEW m \in Member, NEW q \in Member,
              Move(m, q) \/ MoveBeside(m, q) \/ ClearParent(m)
       PROVE  RowsOfPersons'
  BY <1>6, <1>10 DEF Move, MoveBeside, ClearParent
<1> QED
  BY <1>2, <1>3, <1>4, <1>5, <1>7, <1>8, <1>9, <1>10 DEF Command

LEMMA PlaceableCommand ==
  ASSUME SInv, Structured(catalog), Placeable(entries), Command
  PROVE  Placeable(entries')
<1>0. /\ IsRows(entries) /\ \A m \in DOMAIN entries : entries[m] \in Row
      /\ \A p \in Stored : catalog[p] \in Row
  BY CatalogRows DEF SInv, SurfaceTypeOK, IsRows
<1>1. ASSUME NEW p, NEW row \in Row, NEW m \in DOMAIN entries, NEW relation \in Relation,
             entries' = Placed(p, row, m, relation),
             relation = "parent" =>
               p \in Container /\ m \in CanHaveParent /\ entries[m].parent = None,
             relation = "child" => m \in Container /\ p \in CanHaveParent,
             relation = "sibling" => (entries[m].parent # None => p \in CanHaveParent)
      PROVE  Placeable(entries')
  <2> DEFINE new == [row EXCEPT !.parent = PlaceFor(m, relation)]
             old == IF relation = "parent" THEN [entries EXCEPT ![m].parent = p] ELSE entries
  <2>1. DOMAIN old = DOMAIN entries /\ new.parent = PlaceFor(m, relation)
    BY DEF Row
  <2>2. Placeable(old)
    BY <1>0, <1>1 DEF Placeable, Row
  <2>3. new.parent # None => new.parent \in Container /\ p \in CanHaveParent
    BY <1>1, <2>1 DEF PlaceFor, Placeable, Relation
  <2>4. entries' = With(old, p, new)
    BY <1>1 DEF Placed
  <2> HIDE DEF old, new
  <2> QED
    BY <2>1, <2>2, <2>3, <2>4 DEF Placeable, With
<1>2. ASSUME NEW p \in Draft, NEW m \in Member, NEW relation \in Relation,
             AddNew(p, m, relation)
      PROVE  Placeable(entries')
  <2> DEFINE row == [parent |-> None, user |-> None]
  <2>1. row \in Row /\ m \in DOMAIN entries /\ entries' = Placed(p, row, m, relation)
    BY <1>2 DEF Row, AddNew
  <2>2. /\ relation = "parent" => p \in Container /\ m \in CanHaveParent /\ entries[m].parent = None
        /\ relation = "child" => m \in Container /\ p \in CanHaveParent
        /\ relation = "sibling" => p \in CanHaveParent
    BY <1>2 DEF AddNew, Offers, TypeAllowed
  <2> HIDE DEF row
  <2> QED
    BY <1>1, <2>1, <2>2
<1>3. ASSUME NEW p \in Stored, NEW m \in Member, NEW relation \in Relation,
             AddExisting(p, m, relation)
      PROVE  Placeable(entries')
  <2>1. catalog[p] \in Row /\ m \in DOMAIN entries /\ entries' = Placed(p, catalog[p], m, relation)
    BY <1>0, <1>3 DEF AddExisting
  <2>2. /\ relation = "parent" => p \in Container /\ m \in CanHaveParent /\ entries[m].parent = None
        /\ relation = "child" => m \in Container /\ p \in CanHaveParent
        /\ relation = "sibling" => (entries[m].parent # None => p \in CanHaveParent)
    BY <1>3 DEF AddExisting, Offers, Eligible
  <2> QED
    BY <1>1, <2>1, <2>2
<1>4. ASSUME NEW m \in Member, RemoveMember(m) PROVE Placeable(entries')
  BY <1>4 DEF RemoveMember, Without, Restrict, Placeable
<1>5. ASSUME NEW m \in Member, Restore(m) PROVE Placeable(entries')
  <2>1. recycleBin[m] \in Row /\ entries' = With(entries, m, RestoredRow(m))
    BY <1>5 DEF Restore, SInv, SurfaceTypeOK, IsRows
  <2>2. RestoredRow(m).parent = None
    BY <2>1 DEF RestoredRow, Row
  <2> QED
    BY <2>1, <2>2 DEF With, Placeable
<1>6. ASSUME NEW m, NEW up, entries' = [entries EXCEPT ![m].parent = up],
             up # None => up \in Container /\ m \in CanHaveParent
      PROVE  Placeable(entries')
  BY <1>0, <1>6 DEF Placeable, Row
<1>7. ASSUME NEW m \in Member, NEW up \in Member, Move(m, up) PROVE Placeable(entries')
  BY <1>6, <1>7 DEF Move
<1>8. ASSUME NEW m \in Member, NEW q \in Member, MoveBeside(m, q) PROVE Placeable(entries')
  BY <1>6, <1>8 DEF MoveBeside, Placeable
<1>9. ASSUME NEW m \in Member, ClearParent(m) PROVE Placeable(entries')
  BY <1>6, <1>9 DEF ClearParent
<1>10. ASSUME NEW m \in Member, NEW u, SaveEntry(m, u) PROVE Placeable(entries')
  BY <1>0, <1>10 DEF SaveEntry, Placeable, Row
<1>11. ASSUME NEW v \in DraftUser, StageUser(v) \/ DiscardUser(v) PROVE Placeable(entries')
  BY <1>0, <1>11 DEF StageUser, DiscardUser, Placeable, Row
<1> QED
  BY <1>2, <1>3, <1>4, <1>5, <1>7, <1>8, <1>9, <1>10, <1>11 DEF Command

\* The page does not load the collection again.
LEMMA CatalogStays ==
  ASSUME [CommitNext]_vars
  PROVE  catalog' = catalog
<1>1. Command => catalog' = catalog
  BY DEF Command, AddNew, AddExisting, RemoveMember, Restore, Move, MoveBeside, ClearParent,
         SaveEntry, StageUser, DiscardUser
<1> QED
  BY <1>1, PageSteps DEF Accepted, Counted, surfaceVars

LEMMA StructuredNext ==
  ASSUME SInv, StaysStructured, [CommitNext]_vars
  PROVE  StaysStructured'
<1>1. catalog' = catalog
  BY CatalogStays
<1>2. CASE Command
  BY <1>1, <1>2, PersonsCommand, PlaceableCommand DEF StaysStructured
<1>3. CASE Accepted
  <2>1. DOMAIN recycleBin' = {}
    BY <1>3 DEF Accepted
  <2> QED
    BY <1>1, <1>3, <2>1 DEF Accepted, StaysStructured, RowsOfPersons, PersonRows, Placeable
<1>4. CASE Counted \/ UNCHANGED surfaceVars
  BY <1>1, <1>4
  DEF Counted, surfaceVars, StaysStructured, RowsOfPersons, PersonRows, Placeable
<1> QED
  BY <1>2, <1>3, <1>4, PageSteps

LEMMA ForestIsForest ==
  ASSUME SInv, Forest, StaysStructured
  PROVE  WorkspaceIsForest
<1>1. IsFiniteSet(DOMAIN entries)
  BY FiniteRows DEF SInv, SurfaceTypeOK
<1>2. \A m \in DOMAIN entries : Roots(entries) \cap Chain(entries, m) # {}
  BY <1>1, ChainsEnd DEF Forest
<1> QED
  BY <1>2
  DEF Forest, Whole, WorkspaceIsForest, StaysStructured, Structured, RowsOfPersons, PersonRows,
      Placeable

-----------------------------------------------------------------------------
\* The transactions of the Commits.
LEMMA CommitInitTyped == CommitInit => CommitTypeOK
<1> SUFFICES ASSUME CommitInit PROVE CommitTypeOK
  OBVIOUS
<1>1. DOMAIN open = {}
  BY DEF CommitInit
<1>2. /\ phase = "editing" /\ submits = 0 /\ kept = {} /\ doubtful = {}
      /\ overlapped = FALSE /\ others = 0 /\ bypassed = FALSE
  BY DEF CommitInit
<1>3. 0 \in 0..MaxWrites /\ 0 \in 0..MaxOthers
  BY BoundsAssumption
<1> QED
  BY <1>1, <1>2, <1>3 DEF CommitTypeOK

LEMMA ClosedDomain ==
  ASSUME NEW n
  PROVE  DOMAIN Closed(n) = DOMAIN open \ {n}
BY DEF Closed

LEMMA CommitNextTyped ==
  ASSUME CommitTypeOK, [CommitNext]_vars
  PROVE  CommitTypeOK'
<1> USE BoundsAssumption DEF CommitTypeOK
<1>1. CASE EditWorkspace
  BY <1>1 DEF EditWorkspace, commitVars
<1>2. CASE Review
  BY <1>2 DEF Review
<1>3. CASE Dismiss
  BY <1>3 DEF Dismiss
<1>4. CASE Execute
  <2>1. /\ submits' = submits + 1 /\ submits < MaxWrites
        /\ open' = With(open, submits', [db |-> db, users |-> users])
        /\ phase' = "executed" /\ overlapped' = (overlapped \/ open # <<>>)
        /\ UNCHANGED <<kept, doubtful, others, bypassed>>
    BY <1>4 DEF Execute, Sends
  <2>2. DOMAIN open' = DOMAIN open \cup {submits + 1}
    BY <2>1 DEF With
  <2>3. submits + 1 \notin kept /\ submits' \in 0..MaxWrites /\ submits' # 0
    BY <2>1
  <2>4. \A n \in 1..submits : n \in 1..submits'
    BY <2>1
  <2>5. DOMAIN open' \cup kept' \cup doubtful' \subseteq 1..submits'
    BY <2>1, <2>2, <2>3, <2>4
  <2>6. DOMAIN open' \cap kept' = {} /\ overlapped' \in BOOLEAN
    BY <2>1, <2>2, <2>3
  <2> QED
    BY <2>1, <2>3, <2>5, <2>6
<1>5. CASE Refuse
  <2>1. submits' \in 0..MaxWrites /\ \A n \in 1..submits : n \in 1..submits'
    BY <1>5 DEF Refuse, Sends
  <2> QED
    BY <1>5, <2>1 DEF Refuse
<1>6. CASE LoseAnswer
  BY <1>6, ClosedDomain DEF LoseAnswer, RollBack
<1>7. CASE LoseRollback
  BY <1>7 DEF LoseRollback
<1>8. CASE Finalize
  <2>1. submits \in 1..submits
    BY <1>8 DEF Finalize
  <2>2. DOMAIN open' = DOMAIN open \ {submits} /\ kept' = kept \cup {submits}
    BY <1>8, ClosedDomain DEF Finalize
  <2> QED
    BY <1>8, <2>1, <2>2 DEF Finalize
<1>9. ASSUME NEW reached \in BOOLEAN, LoseFinalization(reached) PROVE CommitTypeOK'
  <2>1. submits \in 1..submits
    BY <1>9 DEF LoseFinalization
  <2>2. CASE reached
    <3>1. DOMAIN open' = DOMAIN open \ {submits} /\ kept' = kept \cup {submits}
      BY <1>9, <2>2, ClosedDomain DEF LoseFinalization
    <3> QED
      BY <1>9, <2>1, <3>1 DEF LoseFinalization
  <2>3. CASE ~reached
    BY <1>9, <2>1, <2>3 DEF LoseFinalization
  <2> QED
    BY <2>2, <2>3
<1>10. CASE Accept
  BY <1>10 DEF Accept
<1>11. CASE LoseResponse
  BY <1>11 DEF LoseResponse
<1>12. ASSUME NEW n \in Attempt, Expire(n) PROVE CommitTypeOK'
  BY <1>12, ClosedDomain DEF Expire, RollBack
<1>13. CASE Restart
  <2>1. DOMAIN open' = {}
    BY <1>13 DEF Restart
  <2> QED
    BY <1>13, <2>1 DEF Restart
<1>14. \A s, b : WriteByOther(s, b) => CommitTypeOK'
  BY DEF WriteByOther
<1>15. CASE \E p \in Stored, up \in Stored \cup {None} : MoveByOther(p, up)
  BY <1>14, <1>15 DEF MoveByOther
<1>16. CASE \E p \in Stored, u \in User \cup {None} : LinkByOther(p, u)
  BY <1>14, <1>16 DEF LinkByOther
<1>17. CASE \E p \in Stored : DeleteByOther(p)
  BY <1>14, <1>17 DEF DeleteByOther
<1>18. CASE \E p \in Stored, up \in Stored \cup {None}, u \in User \cup {None} :
              AggregateByOther(p, up, u)
  BY <1>14, <1>18 DEF AggregateByOther
<1>19. CASE UNCHANGED vars
  BY <1>19 DEF vars, commitVars
<1>20. CASE Deny
  <2>1. submits' \in 0..MaxWrites /\ \A n \in 1..submits : n \in 1..submits'
    BY <1>20 DEF Deny, Sends
  <2> QED
    BY <1>20, <2>1 DEF Deny
<1> QED
  BY <1>1, <1>2, <1>3, <1>4, <1>5, <1>6, <1>7, <1>8, <1>9, <1>10, <1>11, <1>12, <1>13,
     <1>15, <1>16, <1>17, <1>18, <1>19, <1>20 DEF CommitNext

-----------------------------------------------------------------------------
LEMMA Invariance == Spec => [](SInv /\ CommitTypeOK)
<1>1. CommitInit => SInv /\ CommitTypeOK
  BY SurfaceInit, CommitInitTyped DEF CommitInit
<1>2. SInv /\ CommitTypeOK /\ [CommitNext]_vars => (SInv /\ CommitTypeOK)'
  BY SurfaceNext, CommitNextTyped
<1> QED
  BY <1>1, <1>2, PTL DEF Spec

\* The page's rows and users and the Commits' transactions always have their
\* types; no transaction is both open and kept.
THEOREM TypeCorrect == Spec => []TypeOK
<1>1. SInv /\ CommitTypeOK => TypeOK
  BY DEF SInv, TypeOK
<1> QED
  BY <1>1, Invariance, PTL

\* However members are added, removed, restored, moved and committed, every
\* row that a Commit would delete is in the recycle bin, and everything in it
\* can be restored.
THEOREM NothingIsOutOfReach == Spec => []RemovedCanBeRestored
<1>1. SInv => RemovedCanBeRestored
  BY DEF SInv
<1> QED
  BY <1>1, Invariance, PTL

LEMMA ForestHolds == Spec => [](Forest /\ DraftsMinted)
<1>1. CommitInit => Forest /\ DraftsMinted
  <2>1. CommitInit => DraftsMinted
    <3> SUFFICES ASSUME CommitInit PROVE DraftsMinted
      OBVIOUS
    <3>1. entries = originals /\ DOMAIN originals \subseteq Stored
      BY DEF CommitInit, Init, Restrict
    <3> QED
      BY <3>1, MemberAssumption DEF DraftsMinted
  <2> QED
    BY <2>1, ForestInit DEF CommitInit
<1>2. SInv /\ Forest /\ DraftsMinted /\ [CommitNext]_vars => (Forest /\ DraftsMinted)'
  <2> SUFFICES ASSUME SInv, Forest, DraftsMinted, [CommitNext]_vars
               PROVE  Forest' /\ DraftsMinted'
    OBVIOUS
  <2>1. CASE Command
    BY <2>1, ForestCommand, MintedCommand
  <2>2. CASE UNCHANGED <<entries, minted>> /\ originals' \in {originals, entries}
    BY <2>2 DEF Forest, Whole, Acyclic, DraftsMinted
  <2> QED
    BY <2>1, <2>2, PageSteps DEF Accepted, Counted, surfaceVars
<1> QED
  BY <1>1, <1>2, Invariance, PTL DEF Spec

LEMMA StructureHolds == Spec => []StaysStructured
<1>1. CommitInit => StaysStructured
  BY StructuredInit DEF CommitInit
<1>2. SInv /\ StaysStructured /\ [CommitNext]_vars => StaysStructured'
  BY StructuredNext
<1> QED
  BY <1>1, <1>2, Invariance, PTL DEF Spec

\* After any sequence of commands the working rows are a forest: every chain of
\* parents ends, so a complete workspace is one tree; and one of containers, if
\* the collection the page found was.
THEOREM WorkspaceStaysForest == Spec => []WorkspaceIsForest
<1>1. SInv /\ Forest /\ StaysStructured => WorkspaceIsForest
  BY ForestIsForest
<1> QED
  BY <1>1, ForestHolds, StructureHolds, Invariance, PTL

-----------------------------------------------------------------------------
\* The execution of a plan, operation by operation.

Start == [db |-> db, users |-> users, idMap |-> <<>>, ok |-> Valid]

LEMMA LeastNumber ==
  ASSUME NEW S \in SUBSET Nat, S # {}
  PROVE  \E x \in S : \A y \in S : x <= y
<1>1. \E x \in S : \A y \in S : ~ (<<y, x>> \in OpToRel(<, Nat))
  BY NatLessThanWellFounded, WFMin
<1>2. \A x, y \in Nat : y < x => <<y, x>> \in OpToRel(<, Nat)
  BY DEF OpToRel
<1>3. PICK Less : /\ \E x \in S : \A y \in S : <<y, x>> \notin Less
                  /\ \A x, y \in Nat : y < x => <<y, x>> \in Less
  BY <1>1, <1>2, Zenon
<1>4. PICK x \in S : \A y \in S : <<y, x>> \notin Less
  BY <1>3
<1>5. ASSUME NEW y \in S PROVE x <= y
  <2>1. x \in Nat /\ y \in Nat /\ (y < x => <<y, x>> \in Less) /\ <<y, x>> \notin Less
    BY <1>3, <1>4
  <2> QED
    BY <2>1
<1> QED
  BY <1>5

LEMMA LastOf ==
  ASSUME NEW j \in Nat \ {0}, NEW s \in SUBSET (1..j), j \in s
  PROVE  Max(s) = j
<1>1. \A y \in s : y \in Nat /\ j >= y
  OBVIOUS
<1>2. \A x \in s : (\A y \in s : x >= y) => x = j
  BY <1>1
<1> QED
  BY <1>1, <1>2 DEF Max

\* One step of the fold over the operations whose positions are in s.
FoldStep(g, s, n) ==
  IF s = {} THEN Start ELSE Perform(g[s \ {Max(s)}], plan.order[Max(s)], n)

LEMMA FoldDefined ==
  ASSUME NEW n, NEW k \in Nat
  PROVE  \E g : g = [s \in SUBSET (1..k) |-> FoldStep(g, s, n)]
<1> DEFINE Solved(j) == \E g : g = [s \in SUBSET (1..j) |-> FoldStep(g, s, n)]
           Bad == {j \in Nat : ~Solved(j)}
<1> SUFFICES ASSUME Bad # {} PROVE FALSE
  OBVIOUS
<1>1. PICK j \in Bad : \A i \in Bad : j <= i
  <2>1. Bad \in SUBSET Nat
    OBVIOUS
  <2> HIDE DEF Bad
  <2> QED
    BY <2>1, LeastNumber
<1>2. j \in Nat /\ ~Solved(j)
  OBVIOUS
<1>3. CASE j = 0
  <2> DEFINE g == [s \in SUBSET (1..0) |-> Start]
  <2>1. SUBSET (1..0) = {{}}
    OBVIOUS
  <2>2. g = [s \in SUBSET (1..0) |-> FoldStep(g, s, n)]
    BY <2>1 DEF FoldStep
  <2> QED
    BY <1>2, <1>3, <2>2
<1>4. CASE j # 0
  <2>1. j - 1 \in Nat /\ Solved(j - 1)
    <3>1. j - 1 \in Nat /\ j - 1 \notin Bad
      <4> HIDE DEF Bad
      <4> QED
        BY <1>1, <1>2, <1>4
    <3> HIDE DEF Solved
    <3> QED
      BY <3>1
  <2>2. PICK g : g = [s \in SUBSET (1..(j - 1)) |-> FoldStep(g, s, n)]
    BY <2>1
  <2> DEFINE h == [s \in SUBSET (1..j) |->
                    IF j \in s THEN Perform(g[s \ {j}], plan.order[j], n) ELSE g[s]]
  <2>3. \A s \in SUBSET (1..j) : j \notin s => s \in SUBSET (1..(j - 1))
    BY <1>2, <1>4
  <2>4. \A s \in SUBSET (1..j) : j \notin s => h[s] = g[s]
    OBVIOUS
  <2>5. ASSUME NEW s \in SUBSET (1..j) PROVE h[s] = FoldStep(h, s, n)
    <3>1. CASE j \in s
      <4>1. Max(s) = j /\ s # {} /\ s \ {j} \in SUBSET (1..j) /\ j \notin s \ {j}
        BY <1>2, <1>4, <3>1, LastOf
      <4>2. h[s] = Perform(g[s \ {j}], plan.order[j], n)
        BY <3>1
      <4> HIDE DEF h
      <4> QED
        BY <2>4, <4>1, <4>2 DEF FoldStep
    <3>2. CASE j \notin s
      <4>1. h[s] = g[s] /\ g[s] = FoldStep(g, s, n)
        BY <2>2, <2>3, <2>4, <3>2
      <4>2. h[s \ {Max(s)}] = g[s \ {Max(s)}]
        BY <2>4, <3>2
      <4> HIDE DEF h
      <4> QED
        BY <4>1, <4>2 DEF FoldStep
    <3> QED
      BY <3>1, <3>2
  <2>6. h = [s \in SUBSET (1..j) |-> h[s]]
    OBVIOUS
  <2> HIDE DEF h
  <2>7. h = [s \in SUBSET (1..j) |-> FoldStep(h, s, n)]
    BY <2>5, <2>6
  <2> QED
    BY <1>2, <2>7
<1> QED
  BY <1>3, <1>4

\* The states the execution goes through.
LEMMA ExecutionSteps ==
  ASSUME NEW n, NEW k \in Nat, DOMAIN plan.order = 1..k
  PROVE  \E state :
           /\ state[0] = Start
           /\ \A i \in 1..k : state[i] = Perform(state[i - 1], plan.order[i], n)
           /\ Executed(n) = state[k]
<1> DEFINE V == CHOOSE g : g = [s \in SUBSET (1..k) |-> FoldStep(g, s, n)]
<1>1. Executed(n) = V[1..k]
  BY DEF Executed, FoldLeft, MapThenFoldSet, FoldStep, Start
<1>2. V = [s \in SUBSET (1..k) |-> FoldStep(V, s, n)]
  BY FoldDefined
<1> HIDE DEF V
<1> DEFINE state == [i \in 0..k |-> V[1..i]]
<1>3. \A i \in 0..k : 1..i \in SUBSET (1..k)
  OBVIOUS
<1>4. state[0] = Start
  <2>1. 1..0 = {} /\ 0 \in 0..k
    OBVIOUS
  <2> QED
    BY <1>2, <1>3, <2>1 DEF FoldStep
<1>5. ASSUME NEW i \in 1..k PROVE state[i] = Perform(state[i - 1], plan.order[i], n)
  <2>1. (1..i) \ {i} = 1..(i - 1) /\ i \in 1..i /\ i \in 0..k /\ i - 1 \in 0..k /\ i \in Nat \ {0}
    OBVIOUS
  <2>2. Max(1..i) = i
    BY <2>1, LastOf
  <2> QED
    BY <1>2, <1>3, <2>1, <2>2 DEF FoldStep
<1>6. Executed(n) = state[k]
  BY <1>1
<1> HIDE DEF state
<1> QED
  BY <1>4, <1>5, <1>6

-----------------------------------------------------------------------------
\* The data store.

Shaped(d) == \A p \in DOMAIN d : d[p] = [parent |-> d[p].parent, user |-> d[p].user]

Parented(d) ==
  \A p \in DOMAIN d : d[p].parent # None =>
    d[p].parent \in DOMAIN d /\ Origin(d[p].parent) \in Container

Linked(d, us) == \A p \in DOMAIN d : d[p].user # None => d[p].user \in us

\* Only types that may have one have a parent or a user.
Suited(d) ==
  \A p \in DOMAIN d :
    /\ d[p].parent # None => Origin(p) \in CanHaveParent
    /\ d[p].user # None => Origin(p) \in Person

\* A user is linked to one principal.
Single(d) ==
  \A p \in DOMAIN d : d[p].user # None => \A q \in DOMAIN d \ {p} : d[q].user # d[p].user

\* What every write keeps.
SoundStore(d) ==
  /\ IsFiniteSet(DOMAIN d) /\ None \notin DOMAIN d
  /\ Shaped(d)
  /\ Acyclic(d)
  /\ Single(d)

\* What the service of principals keeps besides.
Built(d, us) == Suited(d) /\ Parented(d) /\ Linked(d, us)

Parents(d) == {d[q].parent : q \in DOMAIN d}

\* The state of an execution, or of one call of the service.
IsState(s) == {"db", "users", "ok"} \subseteq DOMAIN s

\* A row is written, whose parent it is not above and whose user no other has.
LEMMA WithSound ==
  ASSUME NEW old, SoundStore(old), NEW p, p # None, NEW row,
         row = [parent |-> row.parent, user |-> row.user],
         p \in DOMAIN old \/ p \notin Parents(old),
         \/ row.parent \notin DOMAIN old \cup {p}
         \/ p \in DOMAIN old /\ row.parent = old[p].parent
         \/ row.parent \in DOMAIN old /\ p \notin Chain(old, row.parent),
         row.user # None => \A q \in DOMAIN old \ {p} : old[q].user # row.user
  PROVE  SoundStore(With(old, p, row)) /\ DOMAIN With(old, p, row) = DOMAIN old \cup {p}
<1> DEFINE d == With(old, p, row)
<1>1. /\ DOMAIN d = DOMAIN old \cup {p}
      /\ d[p] = row
      /\ \A q \in DOMAIN old \ {p} : d[q] = old[q]
  BY DEF With
<1> HIDE DEF d
<1>2. IsFiniteSet(DOMAIN d) /\ None \notin DOMAIN d
  BY <1>1, FS_AddElement DEF SoundStore
<1>3. Shaped(d)
  BY <1>1 DEF SoundStore, Shaped
<1>4. Single(d)
  BY <1>1 DEF SoundStore, Single
<1>5. Acyclic(d)
  <2>1. p \in DOMAIN old \/ \A q \in DOMAIN old : old[q].parent # p
    BY DEF Parents
  <2> QED
    BY <1>1, <2>1, StaysAcyclic DEF SoundStore
<1> QED
  BY <1>1, <1>2, <1>3, <1>4, <1>5 DEF SoundStore, d

\* create and update: what is supplied is validated, the rest was sound before.
LEMMA WriteSound ==
  ASSUME NEW s, IsState(s), SoundStore(s.db), NEW p, p # None, NEW row, NEW fields,
         p \notin DOMAIN s.db => {"parent", "user"} \subseteq fields /\ p \notin Parents(s.db),
         "parent" \in fields \/ row.parent = s.db[p].parent,
         "user" \in fields \/ row.user = s.db[p].user
  PROVE  LET w == Write(s, p, row, fields)
         IN  /\ DOMAIN w = DOMAIN s
             /\ w.users = s.users
             /\ w.ok => /\ s.ok
                        /\ DOMAIN w.db = DOMAIN s.db \cup {p}
                        /\ SoundStore(w.db)
                        /\ Built(s.db, s.users) => Built(w.db, w.users)
                        /\ Parents(w.db) \subseteq DOMAIN s.db \cup {None} \cup Parents(s.db)
<1> DEFINE new == Normalized(p, row)
           d == With(s.db, p, new)
           w == Write(s, p, row, fields)
           allowed == /\ "parent" \in fields => ParentAllowed(s, p, new.parent)
                      /\ "user" \in fields => LinkAllowed(s, p, new.user)
                      /\ MembersAllow(s, p)
<1>1. w = IF allowed THEN [s EXCEPT !.db = d] ELSE [s EXCEPT !.ok = FALSE]
  BY DEF Write, Refused
<1>2. /\ new = [parent |-> new.parent, user |-> new.user]
      /\ new.parent \in {row.parent, None}
      /\ new.user \in {row.user, None}
      /\ new.parent # None => Origin(p) \in CanHaveParent
      /\ new.user # None => Origin(p) \in Person
  BY DEF Normalized
<1>3. /\ DOMAIN d = DOMAIN s.db \cup {p}
      /\ d[p] = new
      /\ \A q \in DOMAIN s.db \ {p} : d[q] = s.db[q]
  BY DEF With
<1> HIDE DEF allowed, new, w
<1>4. CASE ~allowed
  BY <1>1, <1>4 DEF IsState, w
<1>5. CASE allowed
  <2>1. w.db = d /\ w.users = s.users /\ w.ok = s.ok /\ DOMAIN w = DOMAIN s
    BY <1>1, <1>5 DEF IsState
  <2>2. /\ new.parent # None /\ "parent" \in fields =>
             /\ new.parent \in DOMAIN s.db /\ Origin(new.parent) \in Container
             /\ p \notin Chain(s.db, new.parent)
        /\ new.user # None /\ "user" \in fields =>
             new.user \in s.users /\ \A q \in DOMAIN s.db \ {p} : s.db[q].user # new.user
    BY <1>5 DEF allowed, ParentAllowed, LinkAllowed
  <2>3. /\ new.parent # None /\ "parent" \notin fields =>
             p \in DOMAIN s.db /\ new.parent = s.db[p].parent
        /\ new.user # None /\ "user" \notin fields => p \in DOMAIN s.db /\ new.user = s.db[p].user
    BY <1>2
  <2>4. SoundStore(d)
    <3>1. \/ new.parent \notin DOMAIN s.db \cup {p}
          \/ p \in DOMAIN s.db /\ new.parent = s.db[p].parent
          \/ new.parent \in DOMAIN s.db /\ p \notin Chain(s.db, new.parent)
      BY <2>2, <2>3 DEF SoundStore
    <3>2. new.user # None => \A q \in DOMAIN s.db \ {p} : s.db[q].user # new.user
      BY <2>2, <2>3 DEF SoundStore, Single
    <3> QED
      BY <1>2, <3>1, <3>2, WithSound
  <2> HIDE DEF d
  <2>5. ASSUME Built(s.db, s.users) PROVE Built(d, s.users)
    <3>1. Suited(d)
      BY <1>2, <1>3, <2>5 DEF Built, Suited
    <3>2. Parented(d)
      BY <1>3, <2>2, <2>3, <2>5 DEF Built, Parented, Parents
    <3>3. Linked(d, s.users)
      BY <1>3, <2>2, <2>3, <2>5 DEF Built, Linked
    <3> QED
      BY <3>1, <3>2, <3>3 DEF Built
  <2>6. Parents(d) \subseteq DOMAIN s.db \cup {None} \cup Parents(s.db)
    BY <1>3, <2>2, <2>3 DEF Parents
  <2> QED
    BY <1>3, <2>1, <2>4, <2>5, <2>6 DEF w
<1> QED
  BY <1>4, <1>5

\* A deletion takes the row's children to the top.
LEMMA DeleteSound ==
  ASSUME NEW s, IsState(s), SoundStore(s.db), NEW p
  PROVE  LET w == Delete(s, p)
         IN  /\ DOMAIN w = DOMAIN s
             /\ w.users = s.users
             /\ w.ok => /\ s.ok /\ p \notin Licensed
                        /\ DOMAIN w.db = DOMAIN s.db \ {p}
                        /\ SoundStore(w.db)
                        /\ Built(s.db, s.users) => Built(w.db, w.users)
                        /\ p # None => p \notin Parents(w.db)
                        /\ Parents(w.db) \subseteq Parents(s.db) \cup {None}
<1> DEFINE d == Unlinked(s.db, p)
           w == Delete(s, p)
<1>1. w = IF p \in Licensed THEN [s EXCEPT !.ok = FALSE] ELSE [s EXCEPT !.db = d]
  BY DEF Delete, Refused
<1>2. DOMAIN d = DOMAIN s.db \ {p}
  BY DEF Unlinked
<1>3. \A q \in DOMAIN d :
        /\ d[q] = [parent |-> d[q].parent, user |-> d[q].user]
        /\ d[q].parent = IF s.db[q].parent = p THEN None ELSE s.db[q].parent
        /\ d[q].user = s.db[q].user
  <2> SUFFICES ASSUME NEW q \in DOMAIN d
               PROVE  /\ d[q] = [parent |-> d[q].parent, user |-> d[q].user]
                      /\ d[q].parent = IF s.db[q].parent = p THEN None ELSE s.db[q].parent
                      /\ d[q].user = s.db[q].user
    OBVIOUS
  <2>1. s.db[q] = [parent |-> s.db[q].parent, user |-> s.db[q].user]
    BY <1>2 DEF SoundStore, Shaped
  <2>2. d[q] = [s.db[q] EXCEPT !.parent = IF s.db[q].parent = p THEN None ELSE s.db[q].parent]
    BY <1>2 DEF Unlinked
  <2> HIDE DEF d
  <2> QED
    BY <2>1, <2>2
<1> HIDE DEF d, w
<1>4. CASE p \in Licensed
  BY <1>1, <1>4 DEF IsState, w
<1>5. CASE p \notin Licensed
  <2>1. w.db = d /\ w.users = s.users /\ w.ok = s.ok /\ DOMAIN w = DOMAIN s
    BY <1>1, <1>5 DEF IsState
  <2>2. IsFiniteSet(DOMAIN d) /\ None \notin DOMAIN d
    BY <1>2, FS_Subset DEF SoundStore
  <2>3. Shaped(d) /\ Single(d)
    <3>1. Shaped(d)
      BY <1>3 DEF Shaped
    <3>2. Single(d)
      BY <1>2, <1>3 DEF SoundStore, Single
    <3> QED
      BY <3>1, <3>2
  <2>4. Acyclic(d)
    <3> SUFFICES ASSUME NEW S \in SUBSET DOMAIN d, S # {}, \A q \in S : d[q].parent \in S
                 PROVE  FALSE
      BY DEF Acyclic
    <3>1. S \subseteq DOMAIN s.db /\ \A q \in S : s.db[q].parent \in S
      BY <1>2, <1>3, <2>2
    <3> QED
      BY <3>1 DEF SoundStore, Acyclic
  <2>5. ASSUME Built(s.db, s.users) PROVE Built(d, s.users)
    <3>1. Suited(d)
      BY <1>2, <1>3, <2>5 DEF Built, Suited
    <3>2. Parented(d)
      BY <1>2, <1>3, <2>5 DEF Built, Parented
    <3>3. Linked(d, s.users)
      BY <1>2, <1>3, <2>5 DEF Built, Linked
    <3> QED
      BY <3>1, <3>2, <3>3 DEF Built
  <2>6. Parents(d) \subseteq Parents(s.db) \cup {None} /\ (p # None => p \notin Parents(d))
    BY <1>2, <1>3 DEF Parents
  <2> QED
    BY <1>2, <1>5, <2>1, <2>2, <2>3, <2>4, <2>5, <2>6 DEF SoundStore, w
<1> QED
  BY <1>4, <1>5

-----------------------------------------------------------------------------
\* The plan of the page.

AnyOperation(op) ==
  /\ op.kind = "create" => op.id \in Draft
  /\ op.kind = "mutation" => op.id \in DraftUser
  /\ op.kind \in {"update", "delete"} => op.id \in Member
  /\ op.kind \in {"create", "mutation", "update", "delete"}

\* A plan under review or sent is of the page's members and users.
PlanTyped ==
  phase # "editing" =>
    /\ \E k \in Nat : DOMAIN plan.order = 1..k
    /\ \A op \in plan.operations : AnyOperation(op)

LEMMA OperationsOf ==
  ASSUME NEW kind, NEW ids, IsFiniteSet(ids)
  PROVE  /\ IsFiniteSet(Operation(kind, ids))
         /\ \A op \in Operation(kind, ids) : op.kind = kind /\ op.id \in ids
<1> DEFINE f == [x \in ids |-> [kind |-> kind, id |-> x]]
<1>1. Operation(kind, ids) = {f[x] : x \in ids}
  BY DEF Operation
<1>2. f \in Surjection(ids, Operation(kind, ids))
  <2>1. f \in [ids -> Operation(kind, ids)]
    BY DEF Operation
  <2>2. \A op \in Operation(kind, ids) : \E x \in ids : f[x] = op
    BY <1>1
  <2> HIDE DEF f
  <2> QED
    BY <2>1, <2>2 DEF Surjection
<1>3. IsFiniteSet(Operation(kind, ids))
  BY <1>2, FS_Surjection
<1> QED
  BY <1>3 DEF Operation

LEMMA PlanOfPage ==
  ASSUME SInv
  PROVE  /\ \E k \in Nat : DOMAIN CommitPlan.order = 1..k
         /\ \A op \in CommitPlan.operations : AnyOperation(op)
         /\ IsFiniteSet(CommitPlan.operations)
<1> DEFINE stored == DOMAIN entries \cap DOMAIN originals
           a == Operation("mutation", staged)
           b == Operation("create", DOMAIN entries \ stored)
           c == Operation("delete", DOMAIN originals \ stored)
           e == Operation("update", {m \in stored : Changed(m)})
<1>1. /\ staged \subseteq DraftUser /\ DOMAIN entries \subseteq Member
      /\ DOMAIN originals \subseteq Member
      /\ DOMAIN entries \ stored \subseteq Draft
  BY DEF SInv, SurfaceTypeOK, IsRows, RemovedCanBeRestored, Member
<1>2. /\ IsFiniteSet(staged) /\ IsFiniteSet(DOMAIN entries \ stored)
      /\ IsFiniteSet(DOMAIN originals \ stored) /\ IsFiniteSet({m \in stored : Changed(m)})
  <2>1. {m \in stored : Changed(m)} \subseteq Member /\ DOMAIN originals \ stored \subseteq Member
        /\ DOMAIN entries \ stored \subseteq Member
    BY <1>1
  <2> QED
    BY <1>1, <2>1, MemberAssumption, UserAssumption, FS_Subset
<1>3. Operations = a \cup b \cup c \cup e
  BY DEF Operations
<1> HIDE DEF a, b, c, e
<1>4. IsFiniteSet(a) /\ \A op \in a : op.kind = "mutation" /\ op.id \in DraftUser
  BY <1>1, <1>2, OperationsOf DEF a
<1>5. IsFiniteSet(b) /\ \A op \in b : op.kind = "create" /\ op.id \in Draft
  BY <1>1, <1>2, OperationsOf DEF b
<1>6. IsFiniteSet(c) /\ \A op \in c : op.kind = "delete" /\ op.id \in Member
  BY <1>1, <1>2, OperationsOf DEF c
<1>7. IsFiniteSet(e) /\ \A op \in e : op.kind = "update" /\ op.id \in Member
  <2>1. /\ IsFiniteSet(e)
        /\ \A op \in e : op.kind = "update" /\ op.id \in {m \in stored : Changed(m)}
    BY <1>2, OperationsOf DEF e
  <2> QED
    BY <1>1, <2>1
<1>8. IsFiniteSet(Operations)
  BY <1>3, <1>4, <1>5, <1>6, <1>7, FS_Union
<1>9. Cardinality(Operations) \in Nat
  BY <1>8, FS_CardinalityType
<1>10. DOMAIN Ordered = 1..Cardinality(Operations)
  BY DEF Ordered
<1>11. CommitPlan.order = Ordered /\ CommitPlan.operations = Operations
  BY DEF CommitPlan
<1> QED
  BY <1>3, <1>4, <1>5, <1>6, <1>7, <1>8, <1>9, <1>10, <1>11 DEF AnyOperation

-----------------------------------------------------------------------------
\* Identities given to records so far, and the rows of a store that has no other.
Ids(k) == Stored \cup (Draft \X (1..k))
Known(d, k) == DOMAIN d \subseteq Ids(k) /\ Parents(d) \subseteq Ids(k) \cup {None}

LEMMA KnownLonger ==
  ASSUME NEW d, NEW j \in Nat, NEW k \in Nat, j <= k, Known(d, j)
  PROVE  Known(d, k)
<1>1. 1..j \subseteq 1..k
  OBVIOUS
<1> QED
  BY <1>1 DEF Known, Ids

\* The n-th Commit keeps the store sound, and creates records of its own only.
Executing(s, n) ==
  /\ {"db", "users", "idMap", "ok"} \subseteq DOMAIN s
  /\ s.ok =>
       /\ Valid
       /\ SoundStore(s.db)
       /\ Built(db, users) => Built(s.db, s.users)
       /\ DOMAIN s.db \subseteq DOMAIN db \cup (Draft \X {n})
       /\ Parents(s.db) \subseteq DOMAIN s.db \cup {None} \cup Parents(db)
       /\ s.users \subseteq users \cup (DraftUser \X {n})
       /\ users \subseteq s.users

LEMMA PerformSound ==
  ASSUME NEW n \in Attempt, Known(db, n - 1), NEW s, Executing(s, n), NEW op, AnyOperation(op)
  PROVE  Executing(Perform(s, op, n), n)
<1> DEFINE m == op.id
           row == [parent |-> Resolved(s, plan.rows[m].parent), user |-> plan.rows[m].user]
           fields == plan.fields[m]
           merged == [parent |-> IF "parent" \in fields THEN row.parent ELSE s.db[m].parent,
                      user |-> IF "user" \in fields THEN row.user ELSE s.db[m].user]
           t == Perform(s, op, n)
<1>1. CASE ~s.ok
  BY <1>1 DEF Perform
<1>2. CASE s.ok /\ op.kind = "mutation"
  <2>1. t = [s EXCEPT !.users = s.users \cup {<<m, n>>}]
    BY <1>2 DEF Perform
  <2> HIDE DEF t
  <2>2. DOMAIN t = DOMAIN s /\ t.db = s.db /\ t.ok = s.ok /\ t.users = s.users \cup {<<m, n>>}
    BY <2>1 DEF Executing
  <2>3. <<m, n>> \in DraftUser \X {n}
    BY <1>2 DEF AnyOperation
  <2> QED
    BY <1>2, <2>2, <2>3 DEF Executing, Built, Linked, t
<1>3. CASE s.ok /\ op.kind = "create"
  <2> DEFINE w == Write(s, <<m, n>>, row, {"parent", "user"})
  <2>1. t = [w EXCEPT !.idMap = With(w.idMap, m, <<m, n>>)]
    BY <1>3 DEF Perform
  <2>2. <<m, n>> \in Draft \X {n} /\ <<m, n>> # None
    BY <1>3, IdentityAssumption DEF AnyOperation
  <2>3. IsState(s) /\ SoundStore(s.db)
    BY <1>3 DEF Executing, IsState
  <2>6. <<m, n>> \notin DOMAIN s.db => <<m, n>> \notin Parents(s.db)
    <3>1. n \in Nat /\ n \notin 1..(n - 1) /\ <<m, n>> \in Draft \X Attempt
      BY <1>3, BoundsAssumption DEF Attempt, AnyOperation
    <3>2. <<m, n>> \notin Stored \cup {None} \cup (Draft \X (1..(n - 1)))
      BY <3>1, IdentityAssumption DEF Member
    <3> QED
      BY <1>3, <3>2 DEF Executing, Known, Ids
  <2> HIDE DEF row
  <2>4. /\ DOMAIN w = DOMAIN s
        /\ w.users = s.users
        /\ w.ok => /\ s.ok
                   /\ DOMAIN w.db = DOMAIN s.db \cup {<<m, n>>}
                   /\ SoundStore(w.db)
                   /\ Built(s.db, s.users) => Built(w.db, w.users)
                   /\ Parents(w.db) \subseteq DOMAIN s.db \cup {None} \cup Parents(s.db)
    BY <2>2, <2>3, <2>6, WriteSound
  <2> HIDE DEF t, w, m
  <2>5. DOMAIN t = DOMAIN w /\ t.db = w.db /\ t.ok = w.ok /\ t.users = w.users
    BY <2>1, <2>4 DEF Executing
  <2> QED
    BY <1>3, <2>2, <2>4, <2>5 DEF Executing, t
<1>4. CASE s.ok /\ op.kind = "update" /\ m \in DOMAIN s.db
  <2>1. t = Write(s, m, merged, fields)
    BY <1>4 DEF Perform
  <2>2. m # None
    BY <1>4, NullAssumption DEF AnyOperation
  <2>3. /\ "parent" \in fields \/ merged.parent = s.db[m].parent
        /\ "user" \in fields \/ merged.user = s.db[m].user
    OBVIOUS
  <2>4. IsState(s) /\ SoundStore(s.db) /\ m \in DOMAIN s.db
    BY <1>4 DEF Executing, IsState
  <2> HIDE DEF t, merged, fields, m
  <2>5. /\ DOMAIN t = DOMAIN s
        /\ t.users = s.users
        /\ t.ok => /\ s.ok
                   /\ DOMAIN t.db = DOMAIN s.db \cup {m}
                   /\ SoundStore(t.db)
                   /\ Built(s.db, s.users) => Built(t.db, t.users)
                   /\ Parents(t.db) \subseteq DOMAIN s.db \cup {None} \cup Parents(s.db)
    BY <2>1, <2>2, <2>3, <2>4, WriteSound
  <2> QED
    BY <1>4, <2>4, <2>5 DEF Executing, t
<1>5. CASE s.ok /\ op.kind = "update" /\ m \notin DOMAIN s.db
  <2>1. t = [s EXCEPT !.ok = FALSE]
    BY <1>5 DEF Perform, Refused
  <2> QED
    BY <2>1 DEF Executing
<1>6. CASE s.ok /\ op.kind = "delete"
  <2>1. t = Delete(s, m)
    BY <1>6 DEF Perform
  <2>2. IsState(s) /\ SoundStore(s.db) /\ m # None
    BY <1>6, NullAssumption DEF Executing, IsState, AnyOperation
  <2> HIDE DEF t
  <2>3. /\ DOMAIN t = DOMAIN s
        /\ t.users = s.users
        /\ t.ok => /\ s.ok
                   /\ DOMAIN t.db = DOMAIN s.db \ {m}
                   /\ SoundStore(t.db)
                   /\ Built(s.db, s.users) => Built(t.db, t.users)
                   /\ m \notin Parents(t.db)
                   /\ Parents(t.db) \subseteq Parents(s.db) \cup {None}
    BY <2>1, <2>2, DeleteSound
  <2> QED
    BY <1>6, <2>3 DEF Executing, t
<1> QED
  BY <1>1, <1>2, <1>3, <1>4, <1>5, <1>6 DEF AnyOperation

\* What holds at the start and after each operation holds at the end.
LEMMA ExecutedSound ==
  ASSUME NEW n \in Attempt, Known(db, n - 1), SoundStore(db), PlanTyped, phase # "editing"
  PROVE  Executing(Executed(n), n)
<1>1. PICK k \in Nat : DOMAIN plan.order = 1..k
  BY DEF PlanTyped
<1>2. PICK state :
        /\ state[0] = Start
        /\ \A i \in 1..k : state[i] = Perform(state[i - 1], plan.order[i], n)
        /\ Executed(n) = state[k]
  BY <1>1, ExecutionSteps
<1>3. Executing(Start, n)
  BY DEF Executing, Start, Parents
<1>4. ASSUME ~Valid PROVE \A s : Executing(s, n) => ~s.ok
  BY <1>4 DEF Executing
<1>5. ASSUME Valid, NEW i \in 1..k PROVE AnyOperation(plan.order[i])
  BY <1>1, <1>5 DEF Valid, Covered, PlanTyped
<1>6. ASSUME NEW i \in 1..k, Executing(state[i - 1], n) PROVE Executing(state[i], n)
  <2>1. CASE Valid
    BY <1>2, <1>5, <1>6, <2>1, PerformSound
  <2>2. CASE ~Valid
    BY <1>2, <1>4, <1>6, <2>2 DEF Perform
  <2> QED
    BY <2>1, <2>2
<1> DEFINE Bad == {i \in 0..k : ~Executing(state[i], n)}
<1>7. Bad = {}
  <2> SUFFICES ASSUME Bad # {} PROVE FALSE
    OBVIOUS
  <2>1. Bad \in SUBSET Nat
    OBVIOUS
  <2>2. PICK i \in Bad : \A j \in Bad : i <= j
    <3> HIDE DEF Bad
    <3> QED
      BY <2>1, LeastNumber
  <2>3. i \in 0..k /\ ~Executing(state[i], n)
    OBVIOUS
  <2>4. i # 0
    BY <1>2, <1>3, <2>3
  <2>5. i \in 1..k /\ i - 1 \in 0..k /\ i - 1 \notin Bad
    <3> HIDE DEF Bad
    <3> QED
      BY <2>1, <2>2, <2>3, <2>4
  <2>6. Executing(state[i - 1], n)
    BY <2>5
  <2> QED
    BY <1>6, <2>3, <2>5, <2>6
<1> QED
  BY <1>2, <1>7

-----------------------------------------------------------------------------
\* The store and what the open transactions would restore.

\* Records that Commits have created.
Made(d, us) == (DOMAIN d \cup us) \ (Stored \cup User)

SnapshotsSound ==
  /\ open = [n \in DOMAIN open |-> open[n]]
  /\ \A n \in DOMAIN open : SoundStore(open[n].db)

\* Nothing has taken away the structure of the service of principals.
Undamaged == ~bypassed /\ Structured(catalog)

StaysBuilt ==
  Undamaged => /\ Built(db, users)
               /\ \A n \in DOMAIN open : Built(open[n].db, open[n].users)

ExecutedIsOpen == phase = "executed" => submits \in DOMAIN open

\* As long as transactions do not overlap: what an open one restores has only
\* records of Commits that are kept.
Traces ==
  ~overlapped =>
    /\ \A x \in Made(db, users) : x[2] \in kept \cup DOMAIN open
    /\ \A n \in DOMAIN open : \A x \in Made(open[n].db, open[n].users) : x[2] \in kept
    /\ \A i, j \in DOMAIN open : i = j

\* As long as the page knows the outcome of its Commits: only the last one has
\* left records, unless it failed, and nothing of the earlier ones is open.
LastOnly ==
  doubtful = {} =>
    /\ IF phase \in {"executed", "finalized", "accepted"}
       THEN \A x \in Made(db, users) : x = <<x[1], submits>>
       ELSE Made(db, users) = {}
    /\ \A n \in DOMAIN open :
         n = submits /\ phase = "executed" /\ Made(open[n].db, open[n].users) = {}

Records ==
  /\ SoundStore(db) /\ SnapshotsSound /\ StaysBuilt
  /\ ExecutedIsOpen /\ Traces /\ LastOnly

\* Nor does the store have identities that are still to be given.
Numbered == Known(db, submits) /\ \A i \in DOMAIN open : Known(open[i].db, submits)

LEMMA SoundIsSound ==
  ASSUME Records
  PROVE  StoreStaysSound
<1>1. \A m \in DOMAIN db : Roots(db) \cap Chain(db, m) # {}
  BY ChainsEnd DEF Records, SoundStore
<1>2. \A p \in DOMAIN db :
        db[p].user # None => \A q \in DOMAIN db \ {p} : db[q].user # db[p].user
  BY DEF Records, SoundStore, Single
<1>3. ~bypassed /\ Structured(catalog) => Suited(db) /\ Parented(db) /\ Linked(db, users)
  BY DEF Records, StaysBuilt, Undamaged, Built
<1> QED
  BY <1>1, <1>2, <1>3 DEF Suited, Parented, Linked, StoreStaysSound

LEMMA RecordsInit == CommitInit => Records /\ PlanTyped /\ Numbered
<1> SUFFICES ASSUME CommitInit PROVE Records /\ PlanTyped /\ Numbered
  OBVIOUS
<1>1. /\ catalog \in Catalogs /\ db = catalog /\ users = User /\ phase = "editing"
      /\ open = <<>> /\ DOMAIN open = {}
  BY DEF CommitInit, Init
<1>2. /\ DOMAIN db = Stored /\ IsRows(db) /\ SoundCatalog(db) /\ Acyclic(db)
      /\ IsFiniteSet(DOMAIN db) /\ None \notin Stored
  BY <1>1, CatalogRows, SoundnessAssumption, FiniteRows, CatalogAcyclic
<1>3. Shaped(db) /\ Single(db)
  BY <1>2 DEF IsRows, Row, Shaped, SoundCatalog, Single
<1>4. ASSUME Structured(catalog) PROVE Built(db, users)
  BY <1>1, <1>2, <1>4 DEF SoundCatalog, Structured, Suited, Parented, Linked, Built, Origin
<1>5. SoundStore(db)
  BY <1>2, <1>3 DEF SoundStore
<1>6. Made(db, users) = {}
  BY <1>1, <1>2 DEF Made
<1>7. Numbered
  BY <1>1, <1>2 DEF Numbered, Known, Ids, Parents, SoundCatalog
<1>8. StaysBuilt
  BY <1>1, <1>4 DEF StaysBuilt, Undamaged
<1> QED
  BY <1>1, <1>5, <1>6, <1>7, <1>8
  DEF Records, SnapshotsSound, ExecutedIsOpen, Traces, LastOnly, PlanTyped

\* Only an aggregate commit damages it.
LEMMA DamageStays ==
  ASSUME [CommitNext]_vars
  PROVE  Undamaged' => Undamaged
<1>1. catalog' = catalog
  BY CatalogStays
<1>2. bypassed => bypassed'
  <2>1. CASE EditWorkspace \/ UNCHANGED vars
    BY <2>1 DEF EditWorkspace, vars, commitVars
  <2>2. CASE \/ Review \/ Dismiss \/ Execute \/ Refuse \/ Deny \/ LoseAnswer \/ LoseRollback
             \/ Finalize \/ Accept \/ LoseResponse \/ Restart
             \/ \E reached \in BOOLEAN : LoseFinalization(reached)
             \/ \E n \in Attempt : Expire(n)
    BY <2>2 DEF Review, Dismiss, Execute, Refuse, Deny, LoseAnswer, LoseRollback, Finalize,
                Accept, LoseResponse, Restart, LoseFinalization, Expire
  <2>3. ASSUME NEW s, NEW b, WriteByOther(s, b) PROVE bypassed => bypassed'
    BY <2>3 DEF WriteByOther
  <2> QED
    BY <2>1, <2>2, <2>3
    DEF CommitNext, MoveByOther, LinkByOther, DeleteByOther, AggregateByOther
<1> QED
  BY <1>1, <1>2 DEF Undamaged

\* A plan is made in the review, and kept until the page edits again.
LEMMA PlanNext ==
  ASSUME SInv, PlanTyped, [CommitNext]_vars
  PROVE  PlanTyped'
<1>1. CASE Review
  <2>1. plan' = CommitPlan
    BY <1>1 DEF Review
  <2> QED
    BY <2>1, PlanOfPage DEF PlanTyped
<1>2. CASE Dismiss
  BY <1>2 DEF Dismiss, PlanTyped
<1>3. CASE EditWorkspace
  BY <1>3 DEF EditWorkspace, commitVars, PlanTyped
<1>4. CASE plan' = plan /\ phase # "editing"
  BY <1>4 DEF PlanTyped
<1>5. CASE UNCHANGED <<plan, phase>>
  BY <1>5 DEF PlanTyped
<1>6. CASE Execute \/ Refuse \/ Deny
  BY <1>4, <1>6 DEF Execute, Refuse, Deny, Sends
<1>7. CASE \/ LoseAnswer \/ LoseRollback \/ Finalize \/ Accept \/ LoseResponse
           \/ \E reached \in BOOLEAN : LoseFinalization(reached)
  BY <1>4, <1>7 DEF LoseAnswer, LoseRollback, Finalize, Accept, LoseResponse, LoseFinalization
<1>8. CASE Restart
  <2>1. plan' = plan /\ (phase = "executed" \/ phase' = phase)
    BY <1>8 DEF Restart
  <2> QED
    BY <1>4, <1>5, <2>1
<1>9. CASE \E n \in Attempt : Expire(n)
  BY <1>5, <1>9 DEF Expire
<1>10. \A s, b : WriteByOther(s, b) => UNCHANGED <<plan, phase>>
  BY DEF WriteByOther
<1>11. CASE \/ \E p \in Stored, up \in Stored \cup {None} : MoveByOther(p, up)
            \/ \E p \in Stored, u \in User \cup {None} : LinkByOther(p, u)
            \/ \E p \in Stored : DeleteByOther(p)
            \/ \E p \in Stored, up \in Stored \cup {None}, u \in User \cup {None} :
                 AggregateByOther(p, up, u)
  BY <1>5, <1>10, <1>11 DEF MoveByOther, LinkByOther, DeleteByOther, AggregateByOther
<1>12. CASE UNCHANGED vars
  BY <1>5, <1>12 DEF vars, commitVars
<1> QED
  BY <1>1, <1>2, <1>3, <1>6, <1>7, <1>8, <1>9, <1>11, <1>12 DEF CommitNext

\* Nothing is written, and no transaction ends.
LEMMA NothingWritten ==
  ASSUME Records, UNCHANGED <<db, users, open, kept, overlapped>>, Undamaged' => Undamaged,
         doubtful' = {} => doubtful = {},
         phase' = "executed" => phase = "executed" /\ submits' = submits,
         doubtful' = {} => \/ UNCHANGED <<phase, submits>>
                           \/ {phase, phase'} \cap {"executed", "finalized", "accepted"} = {}
                           \/ phase = "finalized" /\ phase' = "accepted" /\ submits' = submits
  PROVE  Records'
<1>1. SnapshotsSound' /\ SoundStore(db)' /\ StaysBuilt'
  BY DEF Records, SnapshotsSound, StaysBuilt
<1>2. ExecutedIsOpen' /\ Traces'
  BY DEF Records, ExecutedIsOpen, Traces
<1>3. LastOnly'
  BY DEF Records, LastOnly
<1> QED
  BY <1>1, <1>2, <1>3 DEF Records

\* The transaction of the last Commit ends without a rollback.
LEMMA Committed ==
  ASSUME Records, phase = "executed", UNCHANGED <<db, users, overlapped, submits>>,
         Undamaged' => Undamaged,
         open' = Closed(submits), kept' = kept \cup {submits},
         \/ phase' = "finalized" /\ doubtful' = doubtful
         \/ phase' = "uncertain" /\ doubtful' # {}
  PROVE  Records'
<1>1. /\ DOMAIN open' = DOMAIN open \ {submits}
      /\ open' = [n \in DOMAIN open' |-> open'[n]]
      /\ \A n \in DOMAIN open' : open'[n] = open[n]
  BY DEF Closed
<1>2. SnapshotsSound' /\ SoundStore(db)' /\ StaysBuilt'
  BY <1>1 DEF Records, SnapshotsSound, StaysBuilt
<1>3. ExecutedIsOpen' /\ Traces'
  BY <1>1 DEF Records, ExecutedIsOpen, Traces
<1>4. LastOnly'
  BY <1>1 DEF Records, LastOnly
<1> QED
  BY <1>2, <1>3, <1>4 DEF Records

\* A transaction is rolled back.
LEMMA RolledBack ==
  ASSUME Records, NEW n \in DOMAIN open, RollBack(n), Undamaged' => Undamaged,
         UNCHANGED <<kept, doubtful, overlapped, submits>>,
         \/ phase = "executed" /\ n = submits /\ phase' = "failed"
         \/ phase' = phase /\ (phase = "executed" => n # submits)
  PROVE  Records'
<1>1. /\ DOMAIN open' = DOMAIN open \ {n}
      /\ open' = [i \in DOMAIN open' |-> open'[i]]
      /\ \A i \in DOMAIN open' : open'[i] = open[i]
      /\ db' = open[n].db /\ users' = open[n].users
  BY DEF RollBack, Closed
<1>2. SnapshotsSound' /\ SoundStore(db)' /\ StaysBuilt'
  BY <1>1 DEF Records, SnapshotsSound, StaysBuilt
<1>3. ExecutedIsOpen'
  BY <1>1 DEF Records, ExecutedIsOpen
<1>4. Traces'
  BY <1>1 DEF Records, Traces
<1>5. LastOnly'
  BY <1>1 DEF Records, LastOnly
<1> QED
  BY <1>2, <1>3, <1>4, <1>5 DEF Records

LEMMA ExecuteRecords ==
  ASSUME CommitTypeOK, PlanTyped, Records, Numbered, Execute, Undamaged' => Undamaged
  PROVE  Records'
<1> DEFINE n == submits'
           t == Executed(n)
<1>1. /\ phase \in {"reviewed", "failed"} /\ n \in Attempt /\ n - 1 = submits
      /\ t.ok /\ db' = t.db /\ users' = t.users
      /\ open' = With(open, n, [db |-> db, users |-> users])
      /\ overlapped' = (overlapped \/ open # <<>>)
      /\ phase' = "executed" /\ UNCHANGED <<kept, doubtful>>
  BY BoundsAssumption DEF Execute, Sends, Attempt, CommitTypeOK
<1>2. Executing(t, n)
  <2> HIDE DEF n, t
  <2> QED
    BY <1>1, ExecutedSound DEF Records, Numbered, t
<1> HIDE DEF n, t
<1>3. /\ SoundStore(db') /\ (Built(db, users) => Built(db', users'))
      /\ DOMAIN db' \subseteq DOMAIN db \cup (Draft \X {n})
      /\ users' \subseteq users \cup (DraftUser \X {n})
  BY <1>1, <1>2 DEF Executing
<1>4. /\ DOMAIN open' = DOMAIN open \cup {n}
      /\ open' = [i \in DOMAIN open' |-> open'[i]]
      /\ \A i \in DOMAIN open' : open'[i] = IF i = n THEN [db |-> db, users |-> users] ELSE open[i]
  BY <1>1 DEF With
<1>5. \A x \in Made(db', users') : x \in Made(db, users) \/ (x = <<x[1], n>> /\ x[2] = n)
  BY <1>3 DEF Made
<1>6. SnapshotsSound' /\ StaysBuilt'
  BY <1>3, <1>4 DEF Records, SnapshotsSound, StaysBuilt
<1>7. ExecutedIsOpen'
  BY <1>4 DEF ExecutedIsOpen, n
<1>8. Traces'
  <2> SUFFICES ASSUME ~overlapped' PROVE Traces'
    BY DEF Traces
  <2>0. ~overlapped /\ open = <<>>
    BY <1>1
  <2>1. ~overlapped /\ DOMAIN open = {}
    BY <2>0
  <2>2. \A x \in Made(db, users) : x[2] \in kept
    BY <2>1 DEF Records, Traces
  <2> QED
    BY <1>1, <1>4, <1>5, <2>1, <2>2 DEF Traces
<1>9. LastOnly'
  <2> SUFFICES ASSUME doubtful' = {} PROVE LastOnly'
    BY DEF LastOnly
  <2>1. Made(db, users) = {} /\ DOMAIN open = {}
    BY <1>1 DEF Records, LastOnly
  <2> QED
    BY <1>1, <1>4, <1>5, <2>1 DEF LastOnly, n
<1> QED
  BY <1>3, <1>6, <1>7, <1>8, <1>9 DEF Records

LEMMA RestartRecords ==
  ASSUME Records, Restart, Undamaged' => Undamaged
  PROVE  Records'
<1>1. /\ open' = <<>> /\ DOMAIN open' = {} /\ kept' = kept \cup DOMAIN open
      /\ UNCHANGED <<db, users, submits, overlapped>>
      /\ IF phase = "executed" THEN phase' = "uncertain" /\ doubtful' = doubtful \cup {submits}
                               ELSE UNCHANGED <<phase, doubtful>>
  BY DEF Restart, storeVars
<1>2. SnapshotsSound' /\ SoundStore(db)' /\ StaysBuilt'
  BY <1>1 DEF Records, SnapshotsSound, StaysBuilt
<1>3. ExecutedIsOpen' /\ Traces'
  BY <1>1 DEF Records, ExecutedIsOpen, Traces
<1>4. LastOnly'
  BY <1>1 DEF Records, LastOnly
<1> QED
  BY <1>2, <1>3, <1>4 DEF Records

\* A write of another client.
OtherWrite ==
  \/ \E p \in Stored, up \in Stored \cup {None} : MoveByOther(p, up)
  \/ \E p \in Stored, u \in User \cup {None} : LinkByOther(p, u)
  \/ \E p \in Stored : DeleteByOther(p)
  \/ \E p \in Stored, up \in Stored \cup {None}, u \in User \cup {None} :
       AggregateByOther(p, up, u)

\* What it stores.
Written(s, b) ==
  /\ WriteByOther(s, b)
  /\ SoundStore(s.db)
  /\ ~b /\ Built(db, users) => Built(s.db, users)
  /\ DOMAIN s.db \subseteq DOMAIN db
  /\ Parents(s.db) \subseteq DOMAIN db \cup Stored \cup {None} \cup Parents(db)

LEMMA OthersWrite ==
  ASSUME Records, OtherWrite
  PROVE  \E s, b : Written(s, b)
<1>1. /\ IsState(Now) /\ Now.db = db /\ Now.users = users /\ SoundStore(Now.db)
  BY DEF Now, IsState, Records
<1>2. ASSUME NEW p \in DOMAIN db
      PROVE  p # None /\ db[p] = [parent |-> db[p].parent, user |-> db[p].user]
  BY <1>2 DEF Records, SoundStore, Shaped
<1>3. ASSUME NEW p \in Stored, NEW up, MoveByOther(p, up) PROVE \E s, b : Written(s, b)
  <2> DEFINE row == [db[p] EXCEPT !.parent = up]
             s == Write(Now, p, row, {"parent"})
  <2>1. p \in DOMAIN db /\ WriteByOther(s, FALSE)
    BY <1>3 DEF MoveByOther
  <2>2. row.user = db[p].user /\ p # None
    BY <1>2, <2>1
  <2> HIDE DEF row
  <2>3. /\ s.users = users
        /\ s.ok => /\ DOMAIN s.db = DOMAIN db \cup {p} /\ SoundStore(s.db)
                   /\ Built(db, users) => Built(s.db, s.users)
                   /\ Parents(s.db) \subseteq DOMAIN db \cup {None} \cup Parents(db)
    BY <1>1, <2>1, <2>2, WriteSound
  <2> HIDE DEF s
  <2>4. s.ok
    BY <2>1 DEF WriteByOther
  <2>5. Written(s, FALSE)
    BY <2>1, <2>3, <2>4 DEF Written
  <2> QED
    BY <2>5
<1>4. ASSUME NEW p \in Stored, NEW u, LinkByOther(p, u) PROVE \E s, b : Written(s, b)
  <2> DEFINE row == [db[p] EXCEPT !.user = u]
             s == Write(Now, p, row, {"user"})
  <2>1. p \in DOMAIN db /\ WriteByOther(s, FALSE)
    BY <1>4 DEF LinkByOther
  <2>2. row.parent = db[p].parent /\ p # None
    BY <1>2, <2>1
  <2> HIDE DEF row
  <2>3. /\ s.users = users
        /\ s.ok => /\ DOMAIN s.db = DOMAIN db \cup {p} /\ SoundStore(s.db)
                   /\ Built(db, users) => Built(s.db, s.users)
                   /\ Parents(s.db) \subseteq DOMAIN db \cup {None} \cup Parents(db)
    BY <1>1, <2>1, <2>2, WriteSound
  <2> HIDE DEF s
  <2>4. s.ok
    BY <2>1 DEF WriteByOther
  <2>5. Written(s, FALSE)
    BY <2>1, <2>3, <2>4 DEF Written
  <2> QED
    BY <2>5
<1>5. ASSUME NEW p \in Stored, DeleteByOther(p) PROVE \E s, b : Written(s, b)
  <2> DEFINE s == Delete(Now, p)
  <2>1. WriteByOther(s, FALSE) /\ s.ok
    BY <1>5 DEF DeleteByOther, WriteByOther
  <2>2. /\ s.users = users
        /\ s.ok => /\ DOMAIN s.db = DOMAIN db \ {p} /\ SoundStore(s.db)
                   /\ Built(db, users) => Built(s.db, s.users)
                   /\ Parents(s.db) \subseteq Parents(db) \cup {None}
    BY <1>1, DeleteSound
  <2> HIDE DEF s
  <2>3. Written(s, FALSE)
    BY <2>1, <2>2 DEF Written
  <2> QED
    BY <2>3
<1>6. ASSUME NEW p \in Stored, NEW up \in Stored \cup {None}, NEW u, AggregateByOther(p, up, u)
      PROVE  \E s, b : Written(s, b)
  <2> DEFINE row == [parent |-> up, user |-> u]
             d == With(db, p, row)
             s == [Now EXCEPT !.db = d]
  <2>1. /\ p \in DOMAIN db /\ WriteByOther([Now EXCEPT !.db = With(db, p, row)], TRUE)
        /\ p \notin Chain(db, up)
        /\ u # None => \A q \in DOMAIN db \ {p} : db[q].user # u
    BY <1>1, <1>6 DEF AggregateByOther
  <2>2. row.parent = up /\ row.user = u /\ row = [parent |-> row.parent, user |-> row.user]
    OBVIOUS
  <2>8. s.db = d
    BY DEF Now
  <2> HIDE DEF row
  <2>9. \/ row.parent \notin DOMAIN db \cup {p}
        \/ row.parent \in DOMAIN db /\ p \notin Chain(db, row.parent)
    BY <2>1, <2>2
  <2>10. /\ p # None /\ SoundStore(db)
         /\ row.user # None => \A q \in DOMAIN db \ {p} : db[q].user # row.user
    BY <1>1, <1>2, <2>1, <2>2
  <2>3. SoundStore(d) /\ DOMAIN d = DOMAIN db \cup {p}
    BY <2>1, <2>2, <2>9, <2>10, WithSound
  <2>4. Parents(d) \subseteq Stored \cup {None} \cup Parents(db)
    BY <2>1, <2>2 DEF Parents, With
  <2>6. WriteByOther(s, TRUE)
    BY <2>1
  <2> HIDE DEF d, s
  <2>7. Written(s, TRUE)
    BY <2>1, <2>3, <2>4, <2>6, <2>8 DEF Written
  <2> QED
    BY <2>7
<1> QED
  BY <1>3, <1>4, <1>5, <1>6 DEF OtherWrite

LEMMA OtherRecords ==
  ASSUME Records, OtherWrite
  PROVE  Records'
<1>0. PICK s, b : Written(s, b)
  BY OthersWrite
<1>1. /\ db' = s.db /\ UNCHANGED <<catalog, users, open, kept, doubtful, submits, phase>>
      /\ ~overlapped' => ~overlapped
      /\ bypassed' = (bypassed \/ b)
      /\ SoundStore(s.db) /\ (~b /\ Built(db, users) => Built(s.db, users))
      /\ DOMAIN s.db \subseteq DOMAIN db
  BY <1>0 DEF Written, WriteByOther
<1>2. Made(db', users') \subseteq Made(db, users)
  BY <1>1 DEF Made
<1>3. SnapshotsSound' /\ SoundStore(db)'
  BY <1>1 DEF Records, SnapshotsSound
<1>4. StaysBuilt'
  BY <1>1 DEF Records, StaysBuilt, Undamaged
<1>5. ExecutedIsOpen'
  BY <1>1 DEF Records, ExecutedIsOpen
<1>6. Traces'
  BY <1>1, <1>2 DEF Records, Traces
<1>7. LastOnly'
  BY <1>1, <1>2 DEF Records, LastOnly
<1> QED
  BY <1>3, <1>4, <1>5, <1>6, <1>7 DEF Records

LEMMA RecordsNext ==
  ASSUME CommitTypeOK, PlanTyped, Records, Numbered, [CommitNext]_vars
  PROVE  Records'
<1>0. Undamaged' => Undamaged
  BY DamageStays
<1>1. CASE EditWorkspace \/ UNCHANGED vars
  BY <1>0, <1>1, NothingWritten DEF EditWorkspace, vars, storeVars, commitVars
<1>2. CASE Review \/ Dismiss
  BY <1>0, <1>2, NothingWritten DEF Review, Dismiss, storeVars
<1>3. CASE Execute
  BY <1>0, <1>3, ExecuteRecords
<1>4. CASE Refuse \/ Deny
  BY <1>0, <1>4, NothingWritten DEF Refuse, Deny, Sends, storeVars
<1>5. CASE LoseAnswer
  <2>1. submits \in DOMAIN open
    BY <1>5 DEF LoseAnswer, Records, ExecutedIsOpen
  <2> QED
    BY <1>0, <1>5, <2>1, RolledBack DEF LoseAnswer
<1>6. CASE LoseRollback \/ LoseResponse
  BY <1>0, <1>6, NothingWritten DEF LoseRollback, LoseResponse, storeVars
<1>7. CASE Finalize
  BY <1>0, <1>7, Committed DEF Finalize, storeVars
<1>8. ASSUME NEW reached \in BOOLEAN, LoseFinalization(reached) PROVE Records'
  <2>1. CASE reached
    BY <1>0, <1>8, <2>1, Committed DEF LoseFinalization, storeVars
  <2>2. CASE ~reached
    BY <1>0, <1>8, <2>2, NothingWritten DEF LoseFinalization, storeVars
  <2> QED
    BY <2>1, <2>2
<1>9. CASE Accept
  BY <1>0, <1>9, NothingWritten DEF Accept, storeVars
<1>10. ASSUME NEW n \in Attempt, Expire(n) PROVE Records'
  BY <1>0, <1>10, RolledBack DEF Expire
<1>11. CASE Restart
  BY <1>0, <1>11, RestartRecords
<1>12. CASE OtherWrite
  BY <1>12, OtherRecords
<1> QED
  BY <1>1, <1>2, <1>3, <1>4, <1>5, <1>6, <1>7, <1>8, <1>9, <1>10, <1>11, <1>12
  DEF CommitNext, OtherWrite

\* What the execution of a Commit finds and stores.
LEMMA ExecuteStores ==
  ASSUME CommitTypeOK, PlanTyped, Records, Numbered, Execute
  PROVE  /\ submits' = submits + 1 /\ submits \in Nat /\ submits' \in Attempt
         /\ phase \in {"reviewed", "failed"}
         /\ Executed(submits').ok
         /\ db' = Executed(submits').db /\ users' = Executed(submits').users
         /\ Executing(Executed(submits'), submits')
         /\ open' = With(open, submits', [db |-> db, users |-> users])
<1> DEFINE n == submits'
           t == Executed(n)
<1>1. /\ phase \in {"reviewed", "failed"} /\ n = submits + 1 /\ n - 1 = submits
      /\ submits \in Nat /\ n \in Attempt
      /\ t.ok /\ db' = t.db /\ users' = t.users
      /\ open' = With(open, n, [db |-> db, users |-> users])
  BY BoundsAssumption DEF Execute, Sends, Attempt, CommitTypeOK
<1>2. Executing(t, n)
  <2> HIDE DEF n, t
  <2> QED
    BY <1>1, ExecutedSound DEF Records, Numbered, t
<1> QED
  BY <1>1, <1>2

LEMMA NumberedNext ==
  ASSUME CommitTypeOK, PlanTyped, Records, Numbered, [CommitNext]_vars
  PROVE  Numbered'
<1>0. submits \in Nat
  BY DEF CommitTypeOK
<1>1. ASSUME Known(db', submits), submits' \in {submits, submits + 1},
             DOMAIN open' \subseteq DOMAIN open, \A i \in DOMAIN open' : open'[i] = open[i]
      PROVE  Numbered'
  <2>1. submits' \in Nat /\ submits <= submits'
    BY <1>0, <1>1
  <2>2. Known(db', submits')
    BY <1>0, <1>1, <2>1, KnownLonger
  <2>3. \A i \in DOMAIN open' : Known(open'[i].db, submits')
    BY <1>0, <1>1, <2>1, KnownLonger DEF Numbered
  <2> QED
    BY <2>2, <2>3 DEF Numbered
<1>2. \A n : /\ DOMAIN Closed(n) \subseteq DOMAIN open
             /\ \A i \in DOMAIN Closed(n) : Closed(n)[i] = open[i]
  BY DEF Closed
<1>3. CASE EditWorkspace \/ UNCHANGED vars
  BY <1>1, <1>3 DEF Numbered, EditWorkspace, vars, storeVars, commitVars
<1>4. CASE Review \/ Dismiss \/ LoseRollback \/ Accept \/ LoseResponse
  BY <1>1, <1>4 DEF Numbered, Review, Dismiss, LoseRollback, Accept, LoseResponse, storeVars
<1>5. CASE Refuse \/ Deny
  BY <1>1, <1>5 DEF Numbered, Refuse, Deny, Sends, storeVars
<1>6. CASE Finalize \/ \E reached \in BOOLEAN : LoseFinalization(reached)
  BY <1>1, <1>2, <1>6 DEF Numbered, Finalize, LoseFinalization, storeVars
<1>7. CASE Restart
  <2>1. DOMAIN open' = {} /\ db' = db /\ submits' = submits
    BY <1>7 DEF Restart, storeVars
  <2> QED
    BY <1>1, <2>1 DEF Numbered
<1>8. ASSUME NEW n \in DOMAIN open, RollBack(n), submits' = submits PROVE Numbered'
  BY <1>2, <1>8 DEF RollBack, Numbered
<1>9. CASE LoseAnswer
  <2>1. submits \in DOMAIN open
    BY <1>9 DEF LoseAnswer, Records, ExecutedIsOpen
  <2> QED
    BY <1>8, <1>9, <2>1 DEF LoseAnswer
<1>10. CASE \E n \in Attempt : Expire(n)
  BY <1>8, <1>10 DEF Expire
<1>11. CASE Execute
  <2> DEFINE n == submits'
             t == Executed(n)
  <2>1. /\ n = submits + 1 /\ n \in 1..n /\ n \in Nat
        /\ t.ok /\ db' = t.db /\ Executing(t, n)
        /\ open' = With(open, n, [db |-> db, users |-> users])
    BY <1>0, <1>11, ExecuteStores
  <2> HIDE DEF n, t
  <2>2. /\ DOMAIN db' \subseteq DOMAIN db \cup (Draft \X {n})
        /\ Parents(db') \subseteq DOMAIN db' \cup {None} \cup Parents(db)
    BY <2>1 DEF Executing
  <2>3. Known(db, n) /\ \A i \in DOMAIN open : Known(open[i].db, n)
    BY <1>0, <2>1, KnownLonger DEF Numbered
  <2>4. Known(db', n)
    BY <2>1, <2>2, <2>3 DEF Known, Ids
  <2>5. \A i \in DOMAIN open' : Known(open'[i].db, n)
    BY <2>1, <2>3 DEF With
  <2> QED
    BY <2>4, <2>5 DEF Numbered, n
<1>12. CASE OtherWrite
  <2>1. PICK s, b : Written(s, b)
    BY <1>12, OthersWrite
  <2>2. /\ DOMAIN db' \subseteq DOMAIN db /\ UNCHANGED <<open, submits>>
        /\ Parents(db') \subseteq DOMAIN db \cup Stored \cup {None} \cup Parents(db)
    BY <2>1 DEF Written, WriteByOther
  <2>3. Known(db', submits)
    BY <2>2 DEF Numbered, Known, Ids
  <2> QED
    BY <1>1, <2>2, <2>3
<1> QED
  BY <1>3, <1>4, <1>5, <1>6, <1>7, <1>9, <1>10, <1>11, <1>12
  DEF CommitNext, OtherWrite

LEMMA RecordsHold == Spec => [](Records /\ PlanTyped /\ Numbered)
<1>1. CommitInit => Records /\ PlanTyped /\ Numbered
  BY RecordsInit
<1>2. SInv /\ CommitTypeOK /\ Records /\ PlanTyped /\ Numbered /\ [CommitNext]_vars
        => (Records /\ PlanTyped /\ Numbered)'
  BY RecordsNext, PlanNext, NumberedNext
<1> QED
  BY <1>1, <1>2, Invariance, PTL DEF Spec

\* Whatever the workspace, its Commits, rollbacks, restarts and other clients
\* do, aggregate commits included, the store keeps chains that end and users of
\* one principal each; and only an aggregate commit takes away the structure of
\* the service of principals.
THEOREM StoreIsSound == Spec => []StoreStaysSound
<1>1. Records => StoreStaysSound
  BY SoundIsSound DEF Records
<1> QED
  BY <1>1, RecordsHold, PTL

\* What was refused or rolled back leaves no record.
THEOREM NoTrace == Spec => []FailuresLeaveNoTrace
<1>1. Records => FailuresLeaveNoTrace
  BY DEF Records, Traces, Made, FailuresLeaveNoTrace
<1> QED
  BY <1>1, RecordsHold, PTL

\* Repeated Commits create one record of a draft, unless an answer was lost.
THEOREM CreatedOnce == Spec => []DraftsAreCreatedOnce
<1>1. Records => DraftsAreCreatedOnce
  <2> SUFFICES ASSUME Records, doubtful = {}, NEW x \in DOMAIN db \cup users,
                      NEW y \in DOMAIN db \cup users,
                      {x, y} \cap (Stored \cup User) = {}, x[1] = y[1]
               PROVE  x = y
    BY DEF DraftsAreCreatedOnce
  <2>1. x \in Made(db, users) /\ y \in Made(db, users)
    BY DEF Made
  <2>2. x = <<x[1], submits>> /\ y = <<y[1], submits>>
    BY <2>1 DEF Records, LastOnly
  <2> QED
    BY <2>2
<1> QED
  BY <1>1, RecordsHold, PTL
-----------------------------------------------------------------------------
\* What the page sends: a plan that fits its rows.

\* Only the baseline of an accepted Commit has rows that the page created.
OriginalsStored == phase # "accepted" => DOMAIN originals \subseteq Stored

LEMMA OriginalsInit == CommitInit => OriginalsStored
<1> SUFFICES ASSUME CommitInit PROVE DOMAIN originals \subseteq Stored
  BY DEF OriginalsStored
<1>1. PICK S \in SUBSET Stored : originals = Restrict(catalog, S)
  BY DEF CommitInit, Init
<1> QED
  BY <1>1 DEF Restrict

LEMMA OriginalsCommand ==
  ASSUME SInv, Command, DOMAIN originals \subseteq Stored
  PROVE  DOMAIN originals' \subseteq Stored
<1>1. ASSUME NEW p \in Stored, NEW m \in Member, NEW relation \in Relation,
             AddExisting(p, m, relation)
      PROVE  DOMAIN originals' \subseteq Stored
  BY <1>1 DEF AddExisting, With
<1>2. CASE originals' = originals
  BY <1>2
<1> QED
  BY <1>1, <1>2 DEF Command, AddNew, RemoveMember, Restore, Move, MoveBeside, ClearParent,
                    SaveEntry, StageUser, DiscardUser

LEMMA OriginalsNext ==
  ASSUME SInv, OriginalsStored, [CommitNext]_vars
  PROVE  OriginalsStored'
<1>1. CASE EditWorkspace
  BY <1>1, OriginalsCommand DEF EditWorkspace, commitVars, OriginalsStored
<1>2. CASE Accept
  BY <1>2 DEF Accept, OriginalsStored
<1>3. CASE originals' = originals /\ phase # "accepted"
  BY <1>3 DEF OriginalsStored
<1>4. CASE UNCHANGED <<originals, phase>>
  BY <1>4 DEF OriginalsStored
<1>5. CASE \/ Review \/ Dismiss \/ Execute \/ Refuse \/ Deny \/ LoseAnswer \/ LoseRollback \/ Finalize
           \/ LoseResponse \/ \E reached \in BOOLEAN : LoseFinalization(reached)
  BY <1>3, <1>5 DEF Review, Dismiss, Execute, Refuse, Deny, Sends, LoseAnswer, LoseRollback, Finalize,
                    LoseResponse, LoseFinalization, surfaceVars
<1>6. CASE Restart
  BY <1>3, <1>4, <1>6 DEF Restart, surfaceVars
<1>7. CASE \E n \in Attempt : Expire(n)
  BY <1>4, <1>7 DEF Expire, surfaceVars
<1>8. \A s, b : WriteByOther(s, b) => UNCHANGED <<originals, phase>>
  BY DEF WriteByOther
<1>9. CASE \/ \E p \in Stored, up \in Stored \cup {None} : MoveByOther(p, up)
           \/ \E p \in Stored, u \in User \cup {None} : LinkByOther(p, u)
           \/ \E p \in Stored : DeleteByOther(p)
           \/ \E p \in Stored, up \in Stored \cup {None}, u \in User \cup {None} :
                AggregateByOther(p, up, u)
  BY <1>4, <1>8, <1>9 DEF MoveByOther, LinkByOther, DeleteByOther, AggregateByOther
<1>10. CASE UNCHANGED vars
  BY <1>4, <1>10 DEF vars, surfaceVars, commitVars
<1> QED
  BY <1>1, <1>2, <1>5, <1>6, <1>7, <1>9, <1>10 DEF CommitNext

InBoth == DOMAIN entries \cap DOMAIN originals

\* An operation of the plan, and what the plan must have.
Asked(op) ==
  /\ op = [kind |-> op.kind, id |-> op.id]
  /\ \/ op.kind = "mutation" /\ op.id \in staged
     \/ op.kind = "create" /\ op.id \in DOMAIN entries \ InBoth
     \/ op.kind = "delete" /\ op.id \in DOMAIN originals \ InBoth
     \/ op.kind = "update" /\ op.id \in InBoth /\ Changed(op.id)

Asks(operations) ==
  /\ Operation("mutation", staged) \subseteq operations
  /\ Operation("create", DOMAIN entries \ InBoth) \subseteq operations
  /\ Operation("delete", DOMAIN originals \ InBoth) \subseteq operations
  /\ \A m \in InBoth : Changed(m) => [kind |-> "update", id |-> m] \in operations

Fits(p) ==
  /\ p.rows = entries
  /\ \A op \in p.operations : Asked(op)
  /\ Asks(p.operations)
  /\ \A m \in InBoth :
       /\ "parent" \in p.fields[m] <=> entries[m].parent # originals[m].parent
       /\ "user" \in p.fields[m] <=> entries[m].user # originals[m].user

PlanFits == phase \notin {"editing", "accepted"} => Fits(plan)

LEMMA CommitPlanFits == Fits(CommitPlan)
<1>1. /\ CommitPlan.rows = entries /\ CommitPlan.operations = Operations
      /\ \A m \in InBoth : CommitPlan.fields[m] = ChangedFields(m)
  BY DEF CommitPlan, InBoth
<1>2. ASSUME NEW op \in Operations PROVE Asked(op)
  <2>1. ASSUME NEW kind, NEW ids, op \in Operation(kind, ids)
        PROVE  op = [kind |-> op.kind, id |-> op.id] /\ op.kind = kind /\ op.id \in ids
    BY <2>1 DEF Operation
  <2>2. \/ op \in Operation("mutation", staged)
        \/ op \in Operation("create", DOMAIN entries \ InBoth)
        \/ op \in Operation("delete", DOMAIN originals \ InBoth)
        \/ op \in Operation("update", {m \in InBoth : Changed(m)})
    BY DEF Operations, InBoth
  <2> QED
    BY <2>1, <2>2 DEF Asked
<1>3. Asks(Operations)
  BY DEF Asks, Operations, Operation, InBoth
<1>4. \A m \in InBoth :
        /\ "parent" \in ChangedFields(m) <=> entries[m].parent # originals[m].parent
        /\ "user" \in ChangedFields(m) <=> entries[m].user # originals[m].user
  BY DEF ChangedFields
<1> QED
  BY <1>1, <1>2, <1>3, <1>4 DEF Fits

LEMMA PlanFitsNext ==
  ASSUME PlanFits, [CommitNext]_vars
  PROVE  PlanFits'
<1>1. CASE Review
  <2>1. plan' = CommitPlan /\ UNCHANGED <<entries, originals, staged>>
    BY <1>1 DEF Review, surfaceVars
  <2> QED
    BY <2>1, CommitPlanFits DEF PlanFits, Fits, Asks, Asked, InBoth, Changed
<1>2. CASE phase' \in {"editing", "accepted"}
  BY <1>2 DEF PlanFits
<1>3. ASSUME UNCHANGED <<plan, entries, originals, staged>>,
             phase \notin {"editing", "accepted"} \/ phase' = phase
      PROVE  PlanFits'
  BY <1>3 DEF PlanFits, Fits, Asks, Asked, InBoth, Changed
<1>4. CASE Dismiss \/ Accept
  BY <1>2, <1>4 DEF Dismiss, Accept
<1>5. CASE EditWorkspace
  BY <1>2, <1>5 DEF EditWorkspace, commitVars
<1>6. CASE Execute \/ Refuse \/ Deny
  BY <1>3, <1>6 DEF Execute, Refuse, Deny, Sends, surfaceVars
<1>7. CASE \/ LoseAnswer \/ LoseRollback \/ Finalize \/ LoseResponse
           \/ \E reached \in BOOLEAN : LoseFinalization(reached)
  BY <1>3, <1>7 DEF LoseAnswer, LoseRollback, Finalize, LoseResponse, LoseFinalization,
                    surfaceVars
<1>8. CASE Restart
  BY <1>3, <1>8 DEF Restart, surfaceVars
<1>9. CASE \E n \in Attempt : Expire(n)
  BY <1>3, <1>9 DEF Expire, surfaceVars
<1>10. \A s, b : WriteByOther(s, b) => UNCHANGED <<plan, entries, originals, staged, phase>>
  BY DEF WriteByOther
<1>11. CASE \/ \E p \in Stored, up \in Stored \cup {None} : MoveByOther(p, up)
            \/ \E p \in Stored, u \in User \cup {None} : LinkByOther(p, u)
            \/ \E p \in Stored : DeleteByOther(p)
            \/ \E p \in Stored, up \in Stored \cup {None}, u \in User \cup {None} :
                 AggregateByOther(p, up, u)
  BY <1>3, <1>10, <1>11 DEF MoveByOther, LinkByOther, DeleteByOther, AggregateByOther
<1>12. CASE UNCHANGED vars
  BY <1>3, <1>12 DEF vars, surfaceVars, commitVars
<1> QED
  BY <1>1, <1>4, <1>5, <1>6, <1>7, <1>8, <1>9, <1>11, <1>12 DEF CommitNext

-----------------------------------------------------------------------------
\* How far a Commit has come with some of its operations done.

NewUsers(done) == {op.id : op \in {o \in done : o.kind = "mutation"}}
Created(done) == {op.id : op \in {o \in done : o.kind = "create"}}
Updated(done) == {op.id : op \in {o \in done : o.kind = "update"}}
Deleted(done) == {op.id : op \in {o \in done : o.kind = "delete"}}

\* The parent a stored row keeps, and its row: the changes of the user are in.
Left(p, done) == IF db[p].parent \in Deleted(done) THEN None ELSE db[p].parent

Merged(p, done, n) ==
  [parent |-> IF p \in Updated(done) /\ entries[p].parent # originals[p].parent
              THEN IdOf(entries[p].parent, n) ELSE Left(p, done),
   user |-> IF p \in Updated(done) /\ entries[p].user # originals[p].user
            THEN entries[p].user ELSE db[p].user]

RowAfter(p, done, n) ==
  IF p \in Updated(done) THEN Normalized(p, Merged(p, done, n)) ELSE Merged(p, done, n)

NewRow(m, n) ==
  Normalized(<<m, n>>, [parent |-> IdOf(entries[m].parent, n), user |-> entries[m].user])

Progress(s, done, n) ==
  s.ok =>
    /\ DOMAIN s.db = (DOMAIN db \ Deleted(done)) \cup (Created(done) \X {n})
    /\ s.users = users \cup (NewUsers(done) \X {n})
    /\ DOMAIN s.idMap = Created(done)
    /\ \A m \in Created(done) : s.idMap[m] = <<m, n>> /\ s.db[<<m, n>>] = NewRow(m, n)
    /\ \A p \in DOMAIN db \ Deleted(done) : s.db[p] = RowAfter(p, done, n)

\* The n-th Commit of a plan that fits is about to be executed.
Sending(n) ==
  /\ n \in Attempt
  /\ Fits(plan)
  /\ SInv /\ WorkspaceIsForest
  /\ DOMAIN originals \subseteq Stored
  /\ Known(db, n - 1)
  /\ SoundStore(db)

LEMMA DoneMore ==
  ASSUME NEW done, NEW op
  PROVE  /\ NewUsers(done \cup {op}) = IF op.kind = "mutation" THEN NewUsers(done) \cup {op.id}
                                                                ELSE NewUsers(done)
         /\ Created(done \cup {op}) = IF op.kind = "create" THEN Created(done) \cup {op.id}
                                                          ELSE Created(done)
         /\ Updated(done \cup {op}) = IF op.kind = "update" THEN Updated(done) \cup {op.id}
                                                          ELSE Updated(done)
         /\ Deleted(done \cup {op}) = IF op.kind = "delete" THEN Deleted(done) \cup {op.id}
                                                          ELSE Deleted(done)
BY DEF NewUsers, Created, Updated, Deleted

LEMMA SendingIds ==
  ASSUME NEW n, Sending(n)
  PROVE  /\ n \in Nat \ {0} /\ n \in Attempt
         /\ Stored \cap Draft = {} /\ None \notin Stored \cup Draft
         /\ \A m \in Draft :
              /\ <<m, n>> \notin DOMAIN db \cup Stored \cup Draft \cup {None}
              /\ m \notin DOMAIN db \cup (Draft \X {n})
              /\ Origin(<<m, n>>) = m
         /\ DOMAIN db \subseteq Stored \cup (Draft \X Attempt)
<1>1. n \in Attempt /\ n \in Nat \ {0} /\ n \notin 1..(n - 1) /\ 1..(n - 1) \subseteq Attempt
  BY BoundsAssumption DEF Sending, Attempt
<1>2. Stored \cap Draft = {} /\ None \notin Stored \cup Draft
  BY MemberAssumption, NullAssumption DEF Member
<1>3. DOMAIN db \subseteq Stored \cup (Draft \X (1..(n - 1)))
  BY DEF Sending, Known, Ids
<1>4. \A x \in (Draft \X Attempt) : x \notin Stored \cup Draft \cup {None}
  BY IdentityAssumption DEF Member
<1>5. ASSUME NEW m \in Draft
      PROVE  /\ <<m, n>> \in Draft \X Attempt
             /\ <<m, n>> \notin Draft \X (1..(n - 1))
  BY <1>1
<1>6. ASSUME NEW m \in Draft PROVE <<m, n>> \notin Stored /\ <<m, n>>[1] = m
  BY <1>4, <1>5
<1> QED
  BY <1>1, <1>2, <1>3, <1>4, <1>5, <1>6 DEF Origin

LEMMA SendingRows ==
  ASSUME NEW n, Sending(n)
  PROVE  /\ \A m \in DOMAIN entries :
              /\ m \in Stored \cup Draft
              /\ entries[m] = [parent |-> entries[m].parent, user |-> entries[m].user]
              /\ entries[m].parent # None => entries[m].parent \in DOMAIN entries
         /\ \A m \in DOMAIN originals :
              originals[m] = [parent |-> originals[m].parent, user |-> originals[m].user]
         /\ DOMAIN entries \ InBoth = DOMAIN entries \cap Draft
         /\ InBoth = DOMAIN entries \cap Stored
         /\ DOMAIN originals \subseteq Stored
<1>1. /\ IsRows(entries) /\ IsRows(originals) /\ DOMAIN entries \cap Stored \subseteq DOMAIN originals
  BY DEF Sending, SInv, SurfaceTypeOK, RemovedCanBeRestored
<1>2. DOMAIN originals \subseteq Stored
  BY DEF Sending
<1>3. \A m \in DOMAIN entries : entries[m] \in Row /\ m \in Stored \cup Draft
  BY <1>1 DEF IsRows, Member
<1>4. \A m \in DOMAIN originals : originals[m] \in Row
  BY <1>1 DEF IsRows
<1>5. \A row \in Row : row = [parent |-> row.parent, user |-> row.user]
  BY DEF Row
<1>6. /\ DOMAIN entries \ InBoth = DOMAIN entries \cap Draft
      /\ InBoth = DOMAIN entries \cap Stored
  BY <1>1, <1>2, <1>3, SendingIds DEF InBoth
<1>7. \A m \in DOMAIN entries :
        entries[m].parent # None => entries[m].parent \in DOMAIN entries
  BY DEF Sending, WorkspaceIsForest
<1> QED
  BY <1>2, <1>3, <1>4, <1>5, <1>6, <1>7

\* What a row refers to is never what the workspace has removed.
LEMMA NamesStay ==
  ASSUME NEW n, Sending(n), NEW m \in DOMAIN entries
  PROVE  IdOf(entries[m].parent, n) \notin DOMAIN originals \ InBoth
<1>1. CASE entries[m].parent \in Draft
  BY <1>1, SendingIds, SendingRows DEF IdOf
<1>2. CASE entries[m].parent \notin Draft
  BY <1>2, SendingIds, SendingRows DEF IdOf, InBoth
<1> QED
  BY <1>1, <1>2

\* A parent that is allowed has its identity: drafts are not in the store.
LEMMA ParentResolved ==
  ASSUME NEW n, Sending(n), NEW m \in DOMAIN entries, NEW s,
         DOMAIN s.db \subseteq DOMAIN db \cup (Draft \X {n}),
         DOMAIN s.idMap \subseteq Draft, \A x \in DOMAIN s.idMap : s.idMap[x] = <<x, n>>,
         Resolved(s, entries[m].parent) \in DOMAIN s.db \cup {None}
  PROVE  Resolved(s, entries[m].parent) = IdOf(entries[m].parent, n)
<1>1. CASE entries[m].parent \in DOMAIN s.idMap
  BY <1>1 DEF Resolved, IdOf
<1>2. CASE entries[m].parent \notin DOMAIN s.idMap
  BY <1>2, SendingIds DEF Resolved, IdOf
<1> QED
  BY <1>1, <1>2

\* The execution has done these operations of the plan, and no error yet.
Amid(s, done, n) ==
  /\ Sending(n)
  /\ \A op \in done : Asked(op)
  /\ Executing(s, n)
  /\ Progress(s, done, n)

LEMMA DoneIds ==
  ASSUME NEW n, Sending(n), NEW done, \A op \in done : Asked(op)
  PROVE  /\ Created(done) \subseteq DOMAIN entries \cap Draft
         /\ Deleted(done) \subseteq DOMAIN originals \ InBoth
         /\ Updated(done) \subseteq InBoth
         /\ \A m \in Updated(done) : Changed(m)
         /\ NewUsers(done) \subseteq staged
<1>1. DOMAIN entries \ InBoth = DOMAIN entries \cap Draft
  BY SendingRows
<1>2. Created(done) \subseteq DOMAIN entries \ InBoth
  BY DEF Created, Asked
<1>3. Deleted(done) \subseteq DOMAIN originals \ InBoth
  BY DEF Deleted, Asked
<1>4. Updated(done) \subseteq InBoth /\ \A m \in Updated(done) : Changed(m)
  BY DEF Updated, Asked
<1>5. NewUsers(done) \subseteq staged
  BY DEF NewUsers, Asked
<1> QED
  BY <1>1, <1>2, <1>3, <1>4, <1>5

\* With the same members created, changed and deleted the rows are the same.
LEMMA SameRows ==
  ASSUME NEW done, NEW more, Updated(more) = Updated(done),
         Deleted(more) = Deleted(done), NEW p, NEW n
  PROVE  RowAfter(p, more, n) = RowAfter(p, done, n)
BY DEF RowAfter, Merged, Left

\* What a row keeps when it is normalized.
LEMMA NormalizedRow ==
  ASSUME NEW p, NEW row
  PROVE  /\ Normalized(p, row) = [parent |-> Normalized(p, row).parent,
                                  user |-> Normalized(p, row).user]
         /\ Normalized(p, row).parent = IF Origin(p) \in CanHaveParent THEN row.parent ELSE None
         /\ Normalized(p, row).user = IF Origin(p) \in Person THEN row.user ELSE None
BY DEF Normalized

LEMMA RowsAfter ==
  ASSUME NEW p, NEW done, NEW n
  PROVE  LET r == RowAfter(p, done, n)
             row == Merged(p, done, n)
         IN  /\ r = [parent |-> r.parent, user |-> r.user]
             /\ r.parent = IF p \in Updated(done) /\ Origin(p) \notin CanHaveParent
                           THEN None ELSE row.parent
             /\ r.user = IF p \in Updated(done) /\ Origin(p) \notin Person
                         THEN None ELSE row.user
<1>1. CASE p \in Updated(done)
  BY <1>1, NormalizedRow DEF RowAfter
<1>2. CASE p \notin Updated(done)
  BY <1>2 DEF RowAfter, Merged
<1> QED
  BY <1>1, <1>2

LEMMA UserDone ==
  ASSUME NEW n, NEW s, NEW done, Amid(s, done, n), s.ok,
         NEW op, Asked(op), op.kind = "mutation"
  PROVE  Progress(Perform(s, op, n), done \cup {op}, n)
<1> DEFINE t == Perform(s, op, n)
           more == done \cup {op}
<1> SUFFICES Progress(t, more, n)
  OBVIOUS
<1>1. t = [s EXCEPT !.users = s.users \cup {<<op.id, n>>}]
  BY DEF Perform
<1>2. {"db", "users", "idMap", "ok"} \subseteq DOMAIN s
  BY DEF Amid, Executing
<1> HIDE DEF t
<1>3. t.db = s.db /\ t.idMap = s.idMap /\ t.users = s.users \cup {<<op.id, n>>}
  BY <1>1, <1>2
<1>4. /\ NewUsers(more) = NewUsers(done) \cup {op.id}
      /\ Created(more) = Created(done)
      /\ Updated(more) = Updated(done)
      /\ Deleted(more) = Deleted(done)
  BY DoneMore
<1> HIDE DEF more
<1>5. ASSUME NEW p PROVE RowAfter(p, more, n) = RowAfter(p, done, n)
  BY <1>4, SameRows
<1>6. /\ DOMAIN s.db = (DOMAIN db \ Deleted(done)) \cup (Created(done) \X {n})
      /\ s.users = users \cup (NewUsers(done) \X {n})
      /\ DOMAIN s.idMap = Created(done)
      /\ \A x \in Created(done) : s.idMap[x] = <<x, n>> /\ s.db[<<x, n>>] = NewRow(x, n)
      /\ \A p \in DOMAIN db \ Deleted(done) : s.db[p] = RowAfter(p, done, n)
  BY DEF Amid, Progress
<1>7. t.users = users \cup (NewUsers(more) \X {n})
  BY <1>3, <1>4, <1>6
<1> QED
  BY <1>3, <1>4, <1>5, <1>6, <1>7 DEF Progress

LEMMA CreateDone ==
  ASSUME NEW n, NEW s, NEW done, Amid(s, done, n), s.ok,
         NEW op, Asked(op), op.kind = "create"
  PROVE  Progress(Perform(s, op, n), done \cup {op}, n)
<1> DEFINE m == op.id
           id == <<m, n>>
           row == [parent |-> Resolved(s, plan.rows[m].parent), user |-> plan.rows[m].user]
           new == Normalized(id, row)
           w == Write(s, id, row, {"parent", "user"})
           t == Perform(s, op, n)
           more == done \cup {op}
<1> SUFFICES ASSUME t.ok PROVE Progress(t, more, n)
  BY DEF Progress
<1>0. Sending(n) /\ plan.rows = entries
  BY DEF Amid, Sending, Fits
<1>1. m \in DOMAIN entries /\ m \in Draft
  BY <1>0, SendingRows DEF Asked
<1>2. /\ {"db", "users", "idMap", "ok"} \subseteq DOMAIN s
      /\ DOMAIN s.db \subseteq DOMAIN db \cup (Draft \X {n})
  BY DEF Amid, Executing
<1>3. t = [w EXCEPT !.idMap = With(w.idMap, m, id)]
  BY DEF Perform
<1>4. w = IF /\ ParentAllowed(s, id, new.parent)
             /\ LinkAllowed(s, id, new.user)
             /\ MembersAllow(s, id)
          THEN [s EXCEPT !.db = With(s.db, id, new)] ELSE [s EXCEPT !.ok = FALSE]
  BY DEF Write, Refused
<1>5. Origin(id) = m /\ id \notin DOMAIN db
  BY <1>0, <1>1, SendingIds
<1>6. /\ Created(done) \subseteq Draft
      /\ DOMAIN s.db = (DOMAIN db \ Deleted(done)) \cup (Created(done) \X {n})
      /\ s.users = users \cup (NewUsers(done) \X {n})
      /\ DOMAIN s.idMap = Created(done)
      /\ \A x \in Created(done) : s.idMap[x] = <<x, n>> /\ s.db[<<x, n>>] = NewRow(x, n)
      /\ \A p \in DOMAIN db \ Deleted(done) : s.db[p] = RowAfter(p, done, n)
  BY DoneIds DEF Amid, Progress
<1>7. /\ Created(more) = Created(done) \cup {m}
      /\ NewUsers(more) = NewUsers(done)
      /\ Updated(more) = Updated(done)
      /\ Deleted(more) = Deleted(done)
  BY DoneMore
<1>8. /\ new.parent = IF m \in CanHaveParent THEN Resolved(s, entries[m].parent) ELSE None
      /\ new.user = IF m \in Person THEN entries[m].user ELSE None
      /\ new = [parent |-> new.parent, user |-> new.user]
  BY <1>0, <1>5 DEF Normalized
<1> HIDE DEF t, w, new, row, more, id, m
<1>9. w.ok /\ ParentAllowed(s, id, new.parent) /\ w = [s EXCEPT !.db = With(s.db, id, new)]
  <2>1. CASE ~(/\ ParentAllowed(s, id, new.parent) /\ LinkAllowed(s, id, new.user)
               /\ MembersAllow(s, id))
    <3>1. w = [s EXCEPT !.ok = FALSE]
      BY <1>4, <2>1
    <3>2. ~w.ok /\ t.ok = w.ok
      BY <1>2, <1>3, <3>1
    <3> QED
      BY <3>2
  <2>2. CASE /\ ParentAllowed(s, id, new.parent) /\ LinkAllowed(s, id, new.user)
             /\ MembersAllow(s, id)
    <3>1. w = [s EXCEPT !.db = With(s.db, id, new)]
      BY <1>4, <2>2
    <3> QED
      BY <1>2, <2>2, <3>1
  <2> QED
    BY <2>1, <2>2
<1>10. /\ t.db = With(s.db, id, new) /\ t.users = s.users
       /\ t.idMap = With(s.idMap, m, id)
  BY <1>2, <1>3, <1>9
<1>11. m \in CanHaveParent => new.parent = IdOf(entries[m].parent, n)
  <2> SUFFICES ASSUME m \in CanHaveParent PROVE new.parent = IdOf(entries[m].parent, n)
    OBVIOUS
  <2>1. new.parent = Resolved(s, entries[m].parent)
    BY <1>8
  <2>2. new.parent \in DOMAIN s.db \cup {None}
    BY <1>9 DEF ParentAllowed
  <2>3. Resolved(s, entries[m].parent) \in DOMAIN s.db \cup {None}
    BY <2>1, <2>2
  <2>4. DOMAIN s.idMap \subseteq Draft /\ \A x \in DOMAIN s.idMap : s.idMap[x] = <<x, n>>
    BY <1>6
  <2>5. Resolved(s, entries[m].parent) = IdOf(entries[m].parent, n)
    BY <1>0, <1>1, <1>2, <2>3, <2>4, ParentResolved
  <2> QED
    BY <2>1, <2>5
<1>13. new = NewRow(m, n)
  <2> DEFINE asked == [parent |-> IdOf(entries[m].parent, n), user |-> entries[m].user]
  <2>1. NewRow(m, n) = Normalized(id, asked)
    BY DEF NewRow, id
  <2>2. asked.parent = IdOf(entries[m].parent, n) /\ asked.user = entries[m].user
    OBVIOUS
  <2> HIDE DEF asked
  <2>3. Normalized(id, asked) = new
    BY <1>5, <1>8, <1>11, <2>2, NormalizedRow
  <2> QED
    BY <2>1, <2>3
<1>14. \A p : RowAfter(p, more, n) = RowAfter(p, done, n)
  BY <1>7, SameRows
<1>15. DOMAIN t.db = (DOMAIN db \ Deleted(more)) \cup (Created(more) \X {n})
  BY <1>6, <1>7, <1>10 DEF With, id
<1>16. /\ DOMAIN t.idMap = Created(more)
       /\ \A x \in Created(more) : t.idMap[x] = <<x, n>>
  BY <1>6, <1>7, <1>10 DEF With, id
<1>17. \A x \in Created(more) : t.db[<<x, n>>] = NewRow(x, n)
  BY <1>6, <1>7, <1>10, <1>13 DEF With, id
<1>18. \A p \in DOMAIN db \ Deleted(more) : t.db[p] = RowAfter(p, more, n)
  BY <1>5, <1>6, <1>7, <1>10, <1>14 DEF With
<1> QED
  BY <1>6, <1>7, <1>10, <1>15, <1>16, <1>17, <1>18 DEF Progress

LEMMA DeleteDone ==
  ASSUME NEW n, NEW s, NEW done, Amid(s, done, n), s.ok,
         NEW op, Asked(op), op.kind = "delete"
  PROVE  Progress(Perform(s, op, n), done \cup {op}, n)
<1> DEFINE m == op.id
           d == Unlinked(s.db, m)
           t == Perform(s, op, n)
           more == done \cup {op}
<1> SUFFICES ASSUME t.ok PROVE Progress(t, more, n)
  BY DEF Progress
<1>0. Sending(n)
  BY DEF Amid
<1>1. m \in DOMAIN originals \ InBoth /\ m \in Stored /\ m # None
  BY <1>0, SendingIds, SendingRows DEF Asked
<1>2. {"db", "users", "idMap", "ok"} \subseteq DOMAIN s
  BY DEF Amid, Executing
<1>3. t = IF m \in Licensed THEN [s EXCEPT !.ok = FALSE] ELSE [s EXCEPT !.db = d]
  BY DEF Perform, Delete, Refused
<1>4. /\ Created(done) \subseteq DOMAIN entries \cap Draft
      /\ Updated(done) \subseteq InBoth
      /\ DOMAIN s.db = (DOMAIN db \ Deleted(done)) \cup (Created(done) \X {n})
      /\ s.users = users \cup (NewUsers(done) \X {n})
      /\ DOMAIN s.idMap = Created(done)
      /\ \A x \in Created(done) : s.idMap[x] = <<x, n>> /\ s.db[<<x, n>>] = NewRow(x, n)
      /\ \A p \in DOMAIN db \ Deleted(done) : s.db[p] = RowAfter(p, done, n)
  BY DoneIds DEF Amid, Progress
<1>5. /\ Created(more) = Created(done)
      /\ NewUsers(more) = NewUsers(done)
      /\ Updated(more) = Updated(done)
      /\ Deleted(more) = Deleted(done) \cup {m}
  BY DoneMore
<1>6. /\ DOMAIN d = DOMAIN s.db \ {m}
      /\ \A q \in DOMAIN d : d[q] = [s.db[q] EXCEPT !.parent = IF s.db[q].parent = m THEN None
                                                             ELSE s.db[q].parent]
  BY DEF Unlinked
<1> HIDE DEF t, d, more, m
<1>7. t.db = d /\ t.users = s.users /\ t.idMap = s.idMap
  <2>1. CASE m \in Licensed
    BY <1>2, <1>3, <2>1
  <2>2. CASE m \notin Licensed
    BY <1>2, <1>3, <2>2
  <2> QED
    BY <2>1, <2>2
<1>8. DOMAIN d = (DOMAIN db \ Deleted(more)) \cup (Created(more) \X {n})
  <2>1. \A x \in Created(done) : <<x, n>> # m
    BY <1>0, <1>1, <1>4, SendingIds
  <2> QED
    BY <1>4, <1>5, <1>6, <2>1
<1>9. ASSUME NEW x \in Created(more) PROVE d[<<x, n>>] = NewRow(x, n)
  <2>1. <<x, n>> \in DOMAIN d /\ s.db[<<x, n>>] = NewRow(x, n) /\ x \in DOMAIN entries
    BY <1>4, <1>5, <1>8
  <2> DEFINE asked == [parent |-> IdOf(entries[x].parent, n), user |-> entries[x].user]
  <2>4. asked.parent = IdOf(entries[x].parent, n) /\ NewRow(x, n) = Normalized(<<x, n>>, asked)
    BY DEF NewRow
  <2> HIDE DEF asked
  <2>2. NewRow(x, n).parent # m
    BY <1>0, <1>1, <2>1, <2>4, NamesStay, NormalizedRow
  <2>3. NewRow(x, n) = [NewRow(x, n) EXCEPT !.parent = NewRow(x, n).parent]
    BY <2>4, NormalizedRow
  <2> QED
    BY <1>6, <2>1, <2>2, <2>3
<1>10. ASSUME NEW p \in DOMAIN db \ Deleted(more) PROVE d[p] = RowAfter(p, more, n)
  <2> DEFINE r == RowAfter(p, done, n)
  <2>1. s.db[p] = r /\ p \in DOMAIN d
    BY <1>4, <1>5, <1>8
  <2>2. d[p] = [r EXCEPT !.parent = IF r.parent = m THEN None ELSE r.parent]
    BY <1>6, <2>1
  <2> DEFINE after == RowAfter(p, more, n)
             row == Merged(p, done, n)
             rest == Merged(p, more, n)
  <2>3. /\ r = [parent |-> r.parent, user |-> r.user]
        /\ r.parent = IF p \in Updated(done) /\ Origin(p) \notin CanHaveParent
                      THEN None ELSE row.parent
        /\ r.user = IF p \in Updated(done) /\ Origin(p) \notin Person THEN None ELSE row.user
    BY RowsAfter
  <2>4. /\ after = [parent |-> after.parent, user |-> after.user]
        /\ after.parent = IF p \in Updated(done) /\ Origin(p) \notin CanHaveParent
                          THEN None ELSE rest.parent
        /\ after.user = IF p \in Updated(done) /\ Origin(p) \notin Person THEN None ELSE rest.user
    BY <1>5, RowsAfter
  <2>5. rest.parent = (IF row.parent = m THEN None ELSE row.parent) /\ rest.user = row.user
    <3>1. CASE p \in Updated(done) /\ entries[p].parent # originals[p].parent
      <4>1. p \in DOMAIN entries
        BY <1>4, <3>1 DEF InBoth
      <4>2. IdOf(entries[p].parent, n) # m
        BY <1>0, <1>1, <4>1, NamesStay
      <4> QED
        BY <1>5, <3>1, <4>2 DEF Merged
    <3>2. CASE ~(p \in Updated(done) /\ entries[p].parent # originals[p].parent)
      <4>1. row.parent = Left(p, done) /\ rest.parent = Left(p, more) /\ rest.user = row.user
        BY <1>5, <3>2 DEF Merged
      <4> QED
        BY <1>1, <1>5, <4>1 DEF Left
    <3> QED
      BY <3>1, <3>2
  <2> HIDE DEF r, after, row, rest
  <2>6. after.parent = (IF r.parent = m THEN None ELSE r.parent) /\ after.user = r.user
    BY <1>1, <2>3, <2>4, <2>5
  <2>7. d[p] = [parent |-> after.parent, user |-> after.user]
    BY <2>2, <2>3, <2>6
  <2> QED
    BY <2>4, <2>7 DEF after
<1> QED
  BY <1>4, <1>5, <1>7, <1>8, <1>9, <1>10 DEF Progress, t, more

LEMMA UpdateDone ==
  ASSUME NEW n, NEW s, NEW done, Amid(s, done, n), s.ok,
         NEW op, Asked(op), op.kind = "update"
  PROVE  Progress(Perform(s, op, n), done \cup {op}, n)
<1> DEFINE m == op.id
           fields == plan.fields[m]
           moved == entries[m].parent # originals[m].parent
           linked == entries[m].user # originals[m].user
           merged == [parent |-> IF "parent" \in fields THEN Resolved(s, plan.rows[m].parent)
                                 ELSE s.db[m].parent,
                      user |-> IF "user" \in fields THEN plan.rows[m].user ELSE s.db[m].user]
           new == Normalized(m, merged)
           w == Write(s, m, merged, fields)
           t == Perform(s, op, n)
           more == done \cup {op}
<1> SUFFICES ASSUME t.ok PROVE Progress(t, more, n)
  BY DEF Progress
<1>0. Sending(n) /\ plan.rows = entries
  BY DEF Amid, Sending, Fits
<1>1. m \in InBoth /\ m \in DOMAIN entries /\ m \in Stored
  BY <1>0, SendingRows DEF Asked
<1>2. ("parent" \in fields <=> moved) /\ ("user" \in fields <=> linked)
  BY <1>0, <1>1 DEF Sending, Fits
<1>3. /\ {"db", "users", "idMap", "ok"} \subseteq DOMAIN s
      /\ DOMAIN s.db \subseteq DOMAIN db \cup (Draft \X {n})
  BY DEF Amid, Executing
<1>4. t = IF m \in DOMAIN s.db THEN w ELSE [s EXCEPT !.ok = FALSE]
  BY DEF Perform, Refused
<1>5. w = IF /\ "parent" \in fields => ParentAllowed(s, m, new.parent)
             /\ "user" \in fields => LinkAllowed(s, m, new.user)
             /\ MembersAllow(s, m)
          THEN [s EXCEPT !.db = With(s.db, m, new)] ELSE [s EXCEPT !.ok = FALSE]
  BY DEF Write, Refused
<1>6. /\ Created(done) \subseteq Draft
      /\ DOMAIN s.db = (DOMAIN db \ Deleted(done)) \cup (Created(done) \X {n})
      /\ s.users = users \cup (NewUsers(done) \X {n})
      /\ DOMAIN s.idMap = Created(done)
      /\ \A x \in Created(done) : s.idMap[x] = <<x, n>> /\ s.db[<<x, n>>] = NewRow(x, n)
      /\ \A p \in DOMAIN db \ Deleted(done) : s.db[p] = RowAfter(p, done, n)
  BY DoneIds DEF Amid, Progress
<1>7. /\ NewUsers(more) = NewUsers(done)
      /\ Created(more) = Created(done)
      /\ Updated(more) = Updated(done) \cup {m}
      /\ Deleted(more) = Deleted(done)
  BY DoneMore
<1>8. Origin(m) = m
  BY <1>1 DEF Origin
<1>9. /\ new = [parent |-> new.parent, user |-> new.user]
      /\ new.parent = IF m \in CanHaveParent
                      THEN IF moved THEN Resolved(s, entries[m].parent) ELSE s.db[m].parent
                      ELSE None
      /\ new.user = IF m \in Person THEN IF linked THEN entries[m].user ELSE s.db[m].user
                    ELSE None
  BY <1>0, <1>2, <1>8 DEF Normalized
<1> HIDE DEF t, w, new, merged, fields, more, m
<1>10. m \in DOMAIN s.db /\ t = w
  <2>1. CASE m \notin DOMAIN s.db
    BY <1>3, <1>4, <2>1
  <2> QED
    BY <1>4, <2>1
<1>11. /\ t.db = With(s.db, m, new) /\ t.users = s.users /\ t.idMap = s.idMap
       /\ moved => ParentAllowed(s, m, new.parent)
  <2>1. CASE ~("parent" \in fields => ParentAllowed(s, m, new.parent))
    BY <1>3, <1>5, <1>10, <2>1
  <2>2. CASE ~("user" \in fields => LinkAllowed(s, m, new.user))
    BY <1>3, <1>5, <1>10, <2>2
  <2>4. CASE ~MembersAllow(s, m)
    BY <1>3, <1>5, <1>10, <2>4
  <2>3. CASE /\ "parent" \in fields => ParentAllowed(s, m, new.parent)
             /\ "user" \in fields => LinkAllowed(s, m, new.user)
             /\ MembersAllow(s, m)
    <3>1. t = [s EXCEPT !.db = With(s.db, m, new)]
      BY <1>5, <1>10, <2>3
    <3> QED
      BY <1>2, <1>3, <2>3, <3>1
  <2> QED
    BY <2>1, <2>2, <2>3, <2>4
<1>12. m \in DOMAIN db \ Deleted(done) /\ \A x \in Created(done) : <<x, n>> # m
  <2>1. \A x \in Created(done) : <<x, n>> # m
    BY <1>0, <1>1, <1>6, SendingIds
  <2> QED
    BY <1>6, <1>10, <2>1
<1>13. s.db[m] = RowAfter(m, done, n)
  BY <1>6, <1>12
<1>14. LET row == Merged(m, done, n)
           rest == Merged(m, more, n)
       IN  /\ rest.parent = IF moved THEN IdOf(entries[m].parent, n) ELSE Left(m, done)
           /\ rest.user = IF linked THEN entries[m].user ELSE db[m].user
           /\ ~moved => row.parent = Left(m, done)
           /\ ~linked => row.user = db[m].user
  BY <1>7 DEF Merged, Left
<1>15. m \in CanHaveParent => new.parent = Merged(m, more, n).parent
  <2> SUFFICES ASSUME m \in CanHaveParent PROVE new.parent = Merged(m, more, n).parent
    OBVIOUS
  <2>1. CASE moved
    <3>1. new.parent = Resolved(s, entries[m].parent)
      BY <1>9, <2>1
    <3>2. Resolved(s, entries[m].parent) \in DOMAIN s.db \cup {None}
      BY <1>11, <2>1, <3>1 DEF ParentAllowed
    <3>3. DOMAIN s.idMap \subseteq Draft /\ \A x \in DOMAIN s.idMap : s.idMap[x] = <<x, n>>
      BY <1>6
    <3>4. Resolved(s, entries[m].parent) = IdOf(entries[m].parent, n)
      BY <1>0, <1>1, <1>3, <3>2, <3>3, ParentResolved
    <3> QED
      BY <1>14, <2>1, <3>1, <3>4
  <2>2. CASE ~moved
    <3>1. s.db[m].parent = Merged(m, done, n).parent
      BY <1>8, <1>13, RowsAfter
    <3> QED
      BY <1>9, <1>14, <2>2, <3>1
  <2> QED
    BY <2>1, <2>2
<1>21. m \in Person => new.user = Merged(m, more, n).user
  <2> SUFFICES ASSUME m \in Person PROVE new.user = Merged(m, more, n).user
    OBVIOUS
  <2>1. CASE linked
    BY <1>9, <1>14, <2>1
  <2>2. CASE ~linked
    <3>1. s.db[m].user = Merged(m, done, n).user
      BY <1>8, <1>13, RowsAfter
    <3> QED
      BY <1>9, <1>14, <2>2, <3>1
  <2> QED
    BY <2>1, <2>2
<1>16. new = RowAfter(m, more, n)
  <2>1. m \in Updated(more)
    BY <1>7
  <2>2. /\ RowAfter(m, more, n) = [parent |-> RowAfter(m, more, n).parent,
                                   user |-> RowAfter(m, more, n).user]
        /\ RowAfter(m, more, n).parent = IF m \in CanHaveParent THEN Merged(m, more, n).parent
                                         ELSE None
        /\ RowAfter(m, more, n).user = IF m \in Person THEN Merged(m, more, n).user ELSE None
    BY <1>8, <2>1, RowsAfter
  <2> QED
    BY <1>9, <1>15, <1>21, <2>2
<1>17. ASSUME NEW p, p # m PROVE RowAfter(p, more, n) = RowAfter(p, done, n)
  BY <1>7, <1>17 DEF RowAfter, Merged, Left
<1>18. DOMAIN t.db = DOMAIN s.db
  BY <1>10, <1>11 DEF With
<1>19. \A x \in Created(more) : t.db[<<x, n>>] = NewRow(x, n)
  BY <1>6, <1>7, <1>11, <1>12 DEF With
<1>20. \A p \in DOMAIN db \ Deleted(more) : t.db[p] = RowAfter(p, more, n)
  BY <1>6, <1>7, <1>11, <1>12, <1>16, <1>17 DEF With
<1> QED
  BY <1>6, <1>7, <1>11, <1>18, <1>19, <1>20 DEF Progress

LEMMA PerformDone ==
  ASSUME NEW n, NEW s, NEW done, Amid(s, done, n), NEW op, Asked(op)
  PROVE  Amid(Perform(s, op, n), done \cup {op}, n)
<1>1. Sending(n) /\ (\A o \in done \cup {op} : Asked(o)) /\ Executing(s, n)
  BY DEF Amid
<1>2. n \in Attempt
  BY <1>1, SendingIds
<1>3. AnyOperation(op)
  <2>1. staged \subseteq DraftUser /\ Stored \cup Draft \subseteq Member
    BY <1>1 DEF Sending, SInv, SurfaceTypeOK, Member
  <2> QED
    BY <1>1, <2>1, SendingRows DEF Asked, AnyOperation
<1>4. Executing(Perform(s, op, n), n)
  BY <1>1, <1>2, <1>3, PerformSound DEF Sending
<1>5. Progress(Perform(s, op, n), done \cup {op}, n)
  <2>1. CASE ~s.ok
    BY <2>1 DEF Perform, Progress
  <2>2. CASE s.ok
    BY <2>2, UserDone, CreateDone, UpdateDone, DeleteDone DEF Asked
  <2> QED
    BY <2>1, <2>2
<1> QED
  BY <1>1, <1>4, <1>5 DEF Amid

LEMMA AmidStart ==
  ASSUME NEW n, Sending(n)
  PROVE  Amid(Start, {}, n)
<1>1. Executing(Start, n)
  BY DEF Executing, Start, Sending, Parents
<1>2. Created({}) = {} /\ Deleted({}) = {} /\ Updated({}) = {} /\ NewUsers({}) = {}
  BY DEF Created, Deleted, Updated, NewUsers
<1>3. ASSUME NEW p \in DOMAIN db PROVE db[p] = RowAfter(p, {}, n)
  <2>1. db[p] = [parent |-> db[p].parent, user |-> db[p].user]
    BY DEF Sending, SoundStore, Shaped
  <2> QED
    BY <1>2, <2>1 DEF RowAfter, Merged, Left
<1>4. Start.db = db /\ Start.users = users /\ DOMAIN Start.idMap = {}
  BY DEF Start
<1>5. Progress(Start, {}, n)
  BY <1>2, <1>3, <1>4 DEF Progress
<1> QED
  BY <1>1, <1>5 DEF Amid

LEMMA ExecutedDone ==
  ASSUME NEW n, Sending(n), PlanTyped, phase # "editing", Executed(n).ok
  PROVE  Valid /\ Progress(Executed(n), plan.operations, n)
<1>1. PICK k \in Nat : DOMAIN plan.order = 1..k
  BY DEF PlanTyped
<1>2. PICK state :
        /\ state[0] = Start
        /\ \A i \in 1..k : state[i] = Perform(state[i - 1], plan.order[i], n)
        /\ Executed(n) = state[k]
  BY <1>1, ExecutionSteps
<1>3. Valid
  <2>1. n \in Attempt /\ Known(db, n - 1) /\ SoundStore(db)
    BY DEF Sending
  <2> QED
    BY <2>1, ExecutedSound DEF Executing
<1> DEFINE done(i) == {plan.order[j] : j \in 1..i}
<1>4. Amid(Start, {}, n)
  BY AmidStart
<1>5. ASSUME NEW i \in 1..k PROVE Asked(plan.order[i])
  BY <1>1, <1>3 DEF Valid, Covered, Sending, Fits
<1>6. ASSUME NEW i \in 1..k, Amid(state[i - 1], done(i - 1), n)
      PROVE  Amid(state[i], done(i), n)
  <2>1. 1..i = (1..(i - 1)) \cup {i}
    OBVIOUS
  <2>2. done(i) = done(i - 1) \cup {plan.order[i]}
    BY <2>1
  <2> HIDE DEF done
  <2>3. Asked(plan.order[i]) /\ state[i] = Perform(state[i - 1], plan.order[i], n)
    BY <1>2, <1>5
  <2> QED
    BY <1>6, <2>2, <2>3, PerformDone
<1>7. done(0) = {} /\ done(k) = plan.operations
  BY <1>1, <1>3 DEF Valid, Covered
<1> HIDE DEF done
<1> DEFINE Bad == {i \in 0..k : ~Amid(state[i], done(i), n)}
<1>8. Bad = {}
  <2> SUFFICES ASSUME Bad # {} PROVE FALSE
    OBVIOUS
  <2>1. Bad \in SUBSET Nat
    OBVIOUS
  <2>2. PICK i \in Bad : \A j \in Bad : i <= j
    <3> HIDE DEF Bad
    <3> QED
      BY <2>1, LeastNumber
  <2>3. i \in 0..k /\ ~Amid(state[i], done(i), n)
    OBVIOUS
  <2>4. i # 0
    BY <1>2, <1>4, <1>7, <2>3
  <2>5. i \in 1..k /\ i - 1 \in 0..k /\ i - 1 \notin Bad
    <3> HIDE DEF Bad
    <3> QED
      BY <2>1, <2>2, <2>3, <2>4
  <2>6. Amid(state[i - 1], done(i - 1), n)
    BY <2>5
  <2> QED
    BY <1>6, <2>3, <2>5, <2>6
<1>9. Amid(state[k], done(k), n)
  BY <1>8
<1> QED
  BY <1>2, <1>3, <1>7, <1>9 DEF Amid

LEMMA OperationDone ==
  ASSUME NEW done, NEW x
  PROVE  /\ [kind |-> "mutation", id |-> x] \in done => x \in NewUsers(done)
         /\ [kind |-> "create", id |-> x] \in done => x \in Created(done)
         /\ [kind |-> "update", id |-> x] \in done => x \in Updated(done)
         /\ [kind |-> "delete", id |-> x] \in done => x \in Deleted(done)
<1>1. ASSUME NEW kind, [kind |-> kind, id |-> x] \in done
      PROVE  \E op \in done : op.kind = kind /\ op.id = x
  <2> DEFINE op == [kind |-> kind, id |-> x]
  <2>1. op \in done /\ op.kind = kind /\ op.id = x
    BY <1>1
  <2> QED
    BY <2>1
<1> QED
  BY <1>1 DEF NewUsers, Created, Updated, Deleted

LEMMA AskedAreDone ==
  ASSUME NEW done, Asks(done)
  PROVE  /\ \A m \in DOMAIN entries \ InBoth : m \in Created(done)
         /\ \A m \in DOMAIN originals \ InBoth : m \in Deleted(done)
         /\ \A v \in staged : v \in NewUsers(done)
         /\ \A m \in InBoth : Changed(m) => m \in Updated(done)
<1>1. /\ \A m \in DOMAIN entries \ InBoth : [kind |-> "create", id |-> m] \in done
      /\ \A m \in DOMAIN originals \ InBoth : [kind |-> "delete", id |-> m] \in done
      /\ \A v \in staged : [kind |-> "mutation", id |-> v] \in done
      /\ \A m \in InBoth : Changed(m) => [kind |-> "update", id |-> m] \in done
  BY DEF Asks, Operation
<1> QED
  BY <1>1, OperationDone

\* The whole plan is done.
LEMMA ExecutedMeans ==
  ASSUME NEW n, Sending(n), Valid, NEW s, s.ok, Progress(s, plan.operations, n),
         db' = s.db, users' = s.users
  PROVE  StoresWorkspace(n)
<1> DEFINE done == plan.operations
           removed == DOMAIN originals \ DOMAIN entries
           created == {IdOf(m, n) : m \in DOMAIN entries \cap Draft}
           inWorkspace == {IdOf(m, n) : m \in DOMAIN entries}
<1>1. (\A op \in done : Asked(op)) /\ Asks(done)
  BY DEF Sending, Fits
<1>2. /\ Created(done) = DOMAIN entries \cap Draft
      /\ Deleted(done) = removed
      /\ NewUsers(done) = staged
      /\ Updated(done) = {m \in InBoth : Changed(m)}
  <2>1. /\ \A m \in DOMAIN entries \ InBoth : m \in Created(done)
        /\ \A m \in DOMAIN originals \ InBoth : m \in Deleted(done)
        /\ \A v \in staged : v \in NewUsers(done)
        /\ \A m \in InBoth : Changed(m) => m \in Updated(done)
    BY <1>1, AskedAreDone
  <2>2. DOMAIN originals \ InBoth = removed
    BY DEF InBoth
  <2>3. DOMAIN entries \ InBoth = DOMAIN entries \cap Draft
    BY SendingRows
  <2>4. /\ Created(done) \subseteq DOMAIN entries \cap Draft
        /\ Deleted(done) \subseteq DOMAIN originals \ InBoth
        /\ Updated(done) \subseteq InBoth
        /\ \A m \in Updated(done) : Changed(m)
        /\ NewUsers(done) \subseteq staged
    BY <1>1, DoneIds
  <2> HIDE DEF done
  <2> QED
    BY <2>1, <2>2, <2>3, <2>4
<1>3. /\ DOMAIN db' = (DOMAIN db \ removed) \cup (Created(done) \X {n})
      /\ users' = users \cup (staged \X {n})
      /\ \A m \in Created(done) : db'[<<m, n>>] = NewRow(m, n)
      /\ \A p \in DOMAIN db \ removed : db'[p] = RowAfter(p, done, n)
  BY <1>2 DEF Progress
<1>4. created = Created(done) \X {n}
  BY <1>2 DEF IdOf
<1>5. \A op \in done : op.kind = "update" => op.id \in DOMAIN db
  BY DEF Valid
<1>6. \A m \in Updated(done) : m \in DOMAIN db
  BY <1>5 DEF Updated
<1> HIDE DEF done, created
<1>7. ASSUME NEW m \in DOMAIN entries, m \in Draft
      PROVE  IdOf(m, n) \in DOMAIN db' /\ db'[IdOf(m, n)] = Wanted(m, n, removed)
  <2>1. IdOf(m, n) = <<m, n>> /\ m \in Created(done)
    BY <1>2, <1>7 DEF IdOf
  <2>2. Wanted(m, n, removed) = NewRow(m, n)
    BY <1>7, <2>1 DEF Wanted, NewRow
  <2> QED
    BY <1>3, <2>1, <2>2
<1>8. ASSUME NEW m \in DOMAIN entries, m \notin Draft
      PROVE  IF m \in DOMAIN db' THEN db'[m] = Wanted(m, n, removed)
                                 ELSE entries[m] = originals[m]
  <2>1. m \in InBoth /\ m \in Stored /\ m \notin removed
    BY <1>8, SendingRows
  <2>2. CASE m \notin DOMAIN db'
    <3>1. m \notin DOMAIN db
      BY <1>3, <2>1, <2>2
    <3> QED
      BY <1>2, <1>6, <2>1, <2>2, <3>1 DEF Changed
  <2>3. CASE m \in DOMAIN db'
    <3>1. m \in DOMAIN db
      BY <1>2, <1>3, <2>1, <2>3, SendingIds
    <3>2. db'[m] = RowAfter(m, done, n)
      BY <1>3, <2>1, <3>1
    <3>3. (m \in Updated(done) <=> Changed(m)) /\ (~Changed(m) => entries[m] = originals[m])
      BY <1>2, <2>1 DEF Changed
    <3>5. IdOf(m, n) = m
      BY <1>8 DEF IdOf
    <3>4. RowAfter(m, done, n) = Wanted(m, n, removed)
      BY <1>2, <1>8, <3>3, <3>5 DEF RowAfter, Merged, Left, Wanted
    <3> QED
      BY <2>3, <3>2, <3>4
  <2> QED
    BY <2>2, <2>3
<1>9. ASSUME NEW p \in DOMAIN db' \ inWorkspace
      PROVE  db'[p] = [db[p] EXCEPT !.parent = IF db[p].parent \in removed THEN None
                                               ELSE db[p].parent]
  <2>1. p \notin created
    BY <1>9 DEF created
  <2>2. p \in DOMAIN db \ removed
    BY <1>3, <1>4, <2>1
  <2>3. p \notin Updated(done)
    <3>1. ASSUME p \in InBoth PROVE FALSE
      <4>1. p \in DOMAIN entries /\ p \notin Draft
        BY <3>1, SendingIds, SendingRows DEF InBoth
      <4>2. IdOf(p, n) = p
        BY <4>1 DEF IdOf
      <4> QED
        BY <1>9, <4>1, <4>2
    <3> QED
      BY <1>2, <3>1
  <2>4. db'[p] = [parent |-> Left(p, done), user |-> db[p].user]
    BY <1>3, <2>2, <2>3 DEF RowAfter, Merged
  <2>5. db[p] = [parent |-> db[p].parent, user |-> db[p].user]
    BY <2>2 DEF Sending, SoundStore, Shaped
  <2> QED
    BY <1>2, <2>4, <2>5 DEF Left
<1>10. \A m \in DOMAIN entries :
         IF IdOf(m, n) \in DOMAIN db'
         THEN db'[IdOf(m, n)] = Wanted(m, n, removed)
         ELSE entries[m] = originals[m]
  <2> SUFFICES ASSUME NEW m \in DOMAIN entries
               PROVE  IF IdOf(m, n) \in DOMAIN db'
                      THEN db'[IdOf(m, n)] = Wanted(m, n, removed)
                      ELSE entries[m] = originals[m]
    OBVIOUS
  <2>1. CASE m \in Draft
    BY <1>7, <2>1
  <2>2. CASE m \notin Draft
    <3>1. IdOf(m, n) = m
      BY <2>2 DEF IdOf
    <3> QED
      BY <1>8, <2>2, <3>1
  <2> QED
    BY <2>1, <2>2
<1> QED
  BY <1>3, <1>4, <1>9, <1>10 DEF StoresWorkspace, created

\* The page and the store when a Commit is sent.
Ready ==
  /\ SInv /\ CommitTypeOK /\ WorkspaceIsForest /\ OriginalsStored
  /\ PlanTyped /\ PlanFits /\ Records /\ Numbered

LEMMA OnlyExecute ==
  ASSUME [CommitNext]_vars, phase' = "executed", phase # "executed"
  PROVE  Execute
<1>1. phase' # phase
  OBVIOUS
<1>2. CASE EditWorkspace \/ UNCHANGED vars
  BY <1>1, <1>2 DEF EditWorkspace, vars, commitVars
<1>3. CASE \/ Review \/ Dismiss \/ Refuse \/ Deny \/ LoseAnswer \/ LoseRollback \/ Finalize \/ Accept
           \/ LoseResponse \/ Restart \/ \E reached \in BOOLEAN : LoseFinalization(reached)
  BY <1>1, <1>3 DEF Review, Dismiss, Refuse, Deny, LoseAnswer, LoseRollback, Finalize, Accept,
                    LoseResponse, Restart, LoseFinalization
<1>4. CASE \E n \in Attempt : Expire(n)
  BY <1>1, <1>4 DEF Expire
<1>5. \A s, b : WriteByOther(s, b) => phase' = phase
  BY DEF WriteByOther
<1>6. CASE \/ \E p \in Stored, up \in Stored \cup {None} : MoveByOther(p, up)
           \/ \E p \in Stored, u \in User \cup {None} : LinkByOther(p, u)
           \/ \E p \in Stored : DeleteByOther(p)
           \/ \E p \in Stored, up \in Stored \cup {None}, u \in User \cup {None} :
                AggregateByOther(p, up, u)
  BY <1>1, <1>5, <1>6 DEF MoveByOther, LinkByOther, DeleteByOther, AggregateByOther
<1> QED
  BY <1>2, <1>3, <1>4, <1>6 DEF CommitNext

LEMMA ExecuteMeans ==
  ASSUME Ready, Execute
  PROVE  StoresWorkspace(submits')
<1> DEFINE n == submits'
           s == Executed(n)
<1>1. /\ n = submits + 1 /\ submits \in Nat /\ n \in Attempt
      /\ phase \in {"reviewed", "failed"}
      /\ s.ok /\ db' = s.db /\ users' = s.users
  BY ExecuteStores DEF Ready
<1>2. Sending(n)
  <2>1. n - 1 = submits
    BY <1>1
  <2> HIDE DEF n, s
  <2>2. Fits(plan) /\ DOMAIN originals \subseteq Stored
    BY <1>1 DEF Ready, PlanFits, OriginalsStored
  <2>3. Known(db, n - 1)
    BY <2>1 DEF Ready, Numbered
  <2> QED
    BY <1>1, <2>2, <2>3 DEF Ready, Records, Sending
<1> HIDE DEF n
<1>3. Valid /\ Progress(s, plan.operations, n)
  BY <1>1, <1>2, ExecutedDone DEF Ready
<1> HIDE DEF s
<1>4. StoresWorkspace(n)
  BY <1>1, <1>2, <1>3, ExecutedMeans
<1> QED
  BY <1>4 DEF n

LEMMA PlanHolds == Spec => [](OriginalsStored /\ PlanFits)
<1>1. CommitInit => OriginalsStored /\ PlanFits
  <2>1. CommitInit => PlanFits
    BY DEF CommitInit, PlanFits
  <2> QED
    BY <2>1, OriginalsInit
<1>2. SInv /\ OriginalsStored /\ PlanFits /\ [CommitNext]_vars => (OriginalsStored /\ PlanFits)'
  BY OriginalsNext, PlanFitsNext
<1> QED
  BY <1>1, <1>2, Invariance, PTL DEF Spec

\* What a Commit stores is what the user saw in the workspace, and nothing of
\* what others have written in the meantime is lost to it.
THEOREM CommitStoresWorkspace == Spec => CommitMeansWorkspace
<1>1. Ready /\ [CommitNext]_vars =>
        (phase' = "executed" /\ phase # "executed" => StoresWorkspace(submits'))
  BY OnlyExecute, ExecuteMeans
<1>2. /\ SInv /\ CommitTypeOK /\ WorkspaceIsForest
      /\ Records /\ OriginalsStored /\ PlanTyped /\ PlanFits /\ Numbered
      => Ready
  BY DEF Ready
<1> QED
  BY <1>1, <1>2, Invariance, WorkspaceStaysForest, RecordsHold, PlanHolds, PTL
  DEF Spec, CommitMeansWorkspace

-----------------------------------------------------------------------------
\* The order of a plan.

\* What holds of no rows, and of one row more whose parent is among those it
\* holds of, holds of all.
LEMMA GrownWhole ==
  ASSUME NEW rows, IsFiniteSet(DOMAIN rows), Acyclic(rows),
         NEW B \in SUBSET (SUBSET DOMAIN rows), {} \in B,
         \A S \in B : UpClosed(rows, S),
         \A S \in B : \A m \in DOMAIN rows \ S : UpClosed(rows, S \cup {m}) => S \cup {m} \in B
  PROVE  DOMAIN rows \in B
<1>1. PICK S \in B : \A T \in B : S \subseteq T => T = S
  BY LargestSet
<1>2. S = DOMAIN rows
  <2> SUFFICES ASSUME S # DOMAIN rows PROVE FALSE
    OBVIOUS
  <2>1. DOMAIN rows \ S # {} /\ S \subseteq DOMAIN rows
    OBVIOUS
  <2>2. PICK m \in DOMAIN rows \ S : rows[m].parent \notin DOMAIN rows \ S
    BY <2>1 DEF Acyclic
  <2>3. UpClosed(rows, S \cup {m})
    BY <2>1, <2>2 DEF UpClosed
  <2>4. S \cup {m} \in B
    BY <2>3
  <2> QED
    BY <1>1, <2>4
<1> QED
  BY <1>2

\* The drafts a row names are above it.
LEMMA ProvidersAbove ==
  ASSUME SInv, Forest, NEW m \in DOMAIN entries
  PROVE  /\ Providers(m) \subseteq Chain(entries, m) \ {m}
         /\ entries[m].parent \in Draft => entries[m].parent \in Providers(m)
<1>1. IsFiniteSet(DOMAIN entries) /\ None \notin DOMAIN entries /\ None \notin Member
  BY FiniteRows DEF SInv, SurfaceTypeOK
<1>2. UpClosed(entries, Chain(entries, m)) /\ m \in Chain(entries, m)
  BY <1>1, ChainClosed
<1>3. Roots(entries) \cap Chain(entries, m) # {}
  BY <1>1, ChainsEnd DEF Forest
<1>4. None \notin Draft
  BY <1>1 DEF Member
<1>5. entries[m].parent \in Draft => entries[m].parent \in Chain(entries, m)
  BY <1>2, <1>4 DEF Forest, Whole, UpClosed
<1>6. RootOf(entries, m) \in Draft => RootOf(entries, m) \in Chain(entries, m)
  <2>1. CASE entries[m].parent = None
    BY <1>4, <2>1 DEF RootOf
  <2>2. CASE entries[m].parent # None
    <3>1. RootOf(entries, m) = CHOOSE q \in Chain(entries, m) : q \in Roots(entries)
      BY <2>2 DEF RootOf, Forest, Whole
    <3> QED
      BY <1>3, <3>1
  <2> QED
    BY <2>1, <2>2
<1>7. entries[m].parent # m
  <2>1. {m} \in SUBSET DOMAIN entries /\ {m} # {}
    OBVIOUS
  <2> QED
    BY <2>1 DEF Forest, Acyclic
<1> QED
  BY <1>5, <1>6, <1>7 DEF Providers

RoundStep(f, m) == IF Providers(m) = {} THEN 0 ELSE 1 + Max({f[p] : p \in Providers(m)})
Rounds == CHOOSE f : f = [m \in DOMAIN entries |-> RoundStep(f, m)]

LEMMA RoundsDefined ==
  ASSUME SInv, Forest
  PROVE  Rounds = [m \in DOMAIN entries |-> RoundStep(Rounds, m)]
<1> DEFINE D == DOMAIN entries
           Solved(S) == \E f : f = [m \in S |-> RoundStep(f, m)]
           B == {S \in SUBSET D : UpClosed(entries, S) /\ Solved(S)}
<1>1. IsFiniteSet(D) /\ Acyclic(entries)
  BY FiniteRows DEF SInv, SurfaceTypeOK, Forest
<1>2. {} \in B
  <2>1. Solved({})
    <3> DEFINE f == [m \in {} |-> 0]
    <3>1. f = [m \in {} |-> RoundStep(f, m)]
      OBVIOUS
    <3> QED
      BY <3>1
  <2> QED
    BY <2>1 DEF UpClosed
<1>3. ASSUME NEW S \in B, NEW m \in D \ S, UpClosed(entries, S \cup {m})
      PROVE  S \cup {m} \in B
  <2>1. PICK f : f = [x \in S |-> RoundStep(f, x)]
    OBVIOUS
  <2>2. S \in SUBSET D /\ UpClosed(entries, S)
    OBVIOUS
  <2> DEFINE g == [x \in S \cup {m} |-> IF x = m THEN RoundStep(f, m) ELSE f[x]]
  <2>3. ASSUME NEW x \in S \cup {m} PROVE Providers(x) \subseteq S
    <3>1. x \in D /\ IsFiniteSet(D)
      BY <1>1, <2>2
    <3>2. Providers(x) \subseteq Chain(entries, x) \ {x}
      BY <3>1, ProvidersAbove
    <3>3. CASE x = m
      <4>1. Chain(entries, x) \subseteq S \cup {m}
        BY <1>3, <3>1, <3>3, ChainClosed
      <4> QED
        BY <3>2, <3>3, <4>1
    <3>4. CASE x # m
      <4>1. Chain(entries, x) \subseteq S
        BY <2>2, <3>1, <3>4, ChainClosed
      <4> QED
        BY <3>2, <4>1
    <3> QED
      BY <3>3, <3>4
  <2>4. ASSUME NEW x \in S \cup {m} PROVE RoundStep(g, x) = RoundStep(f, x)
    <3>1. \A p \in Providers(x) : g[p] = f[p]
      BY <2>3
    <3> HIDE DEF g
    <3>2. {g[p] : p \in Providers(x)} = {f[p] : p \in Providers(x)}
      BY <3>1
    <3> QED
      BY <3>2 DEF RoundStep
  <2>5. ASSUME NEW x \in S \cup {m} PROVE g[x] = RoundStep(f, x)
    BY <2>1
  <2>6. g = [x \in S \cup {m} |-> g[x]]
    OBVIOUS
  <2> HIDE DEF g
  <2>7. g = [x \in S \cup {m} |-> RoundStep(g, x)]
    BY <2>4, <2>5, <2>6
  <2> QED
    BY <1>3, <2>2, <2>7
<1>4. D \in B
  <2>1. B \in SUBSET (SUBSET DOMAIN entries) /\ \A S \in B : UpClosed(entries, S)
    OBVIOUS
  <2> HIDE DEF B
  <2> QED
    BY <1>1, <1>2, <1>3, <2>1, GrownWhole
<1> QED
  BY <1>4 DEF Rounds

\* What a row's providers are is done in an earlier round.
LEMMA RoundsGrow ==
  ASSUME SInv, Forest
  PROVE  /\ \A m \in DOMAIN entries : Rounds[m] \in Nat
         /\ \A m \in DOMAIN entries : \A p \in Providers(m) : Rounds[p] < Rounds[m]
<1> DEFINE D == DOMAIN entries
           B == {S \in SUBSET D : UpClosed(entries, S) /\ \A m \in S : Rounds[m] \in Nat}
<1>1. IsFiniteSet(D) /\ Acyclic(entries)
  BY FiniteRows DEF SInv, SurfaceTypeOK, Forest
<1>2. {} \in B
  BY DEF UpClosed
<1>3. ASSUME NEW m \in D, \A p \in Providers(m) : Rounds[p] \in Nat
      PROVE  Rounds[m] \in Nat /\ \A p \in Providers(m) : Rounds[p] < Rounds[m]
  <2>1. Rounds[m] = RoundStep(Rounds, m)
    BY RoundsDefined
  <2>2. CASE Providers(m) = {}
    BY <2>1, <2>2 DEF RoundStep
  <2>3. CASE Providers(m) # {}
    <3> DEFINE R == {Rounds[p] : p \in Providers(m)}
    <3>1. \E a, b : a \in R /\ R \subseteq {a, b} /\ b \in R
      <4>1. PICK x \in Providers(m) : TRUE
        BY <2>3
      <4>2. Providers(m) \subseteq {entries[m].parent, RootOf(entries, m)}
        BY DEF Providers
      <4>3. PICK y \in Providers(m) : Providers(m) \subseteq {x, y}
        BY <4>1, <4>2
      <4>4. Rounds[x] \in R /\ Rounds[y] \in R /\ R \subseteq {Rounds[x], Rounds[y]}
        BY <4>1, <4>3
      <4> QED
        BY <4>4
    <3>2. R \subseteq Nat
      BY <1>3
    <3> HIDE DEF R
    <3>3. \E x \in R : \A y \in R : x >= y
      BY <3>1, <3>2
    <3>4. PICK z : z = Max(R)
      OBVIOUS
    <3>5. z \in R /\ \A y \in R : z >= y
      BY <3>3, <3>4 DEF Max
    <3>6. Rounds[m] = 1 + z
      BY <2>1, <2>3, <3>4 DEF RoundStep, R
    <3>7. \A p \in Providers(m) : Rounds[p] \in R
      BY DEF R
    <3>8. z \in Nat /\ \A y \in R : y \in Nat /\ y < 1 + z
      BY <3>2, <3>5
    <3> QED
      BY <3>6, <3>7, <3>8
  <2> QED
    BY <2>2, <2>3
<1>4. ASSUME NEW S \in B, NEW m \in D \ S, UpClosed(entries, S \cup {m})
      PROVE  S \cup {m} \in B
  <2>1. S \in SUBSET D /\ \A x \in S : Rounds[x] \in Nat
    OBVIOUS
  <2>2. Chain(entries, m) \subseteq S \cup {m}
    BY <1>1, <1>4, ChainClosed
  <2>3. Providers(m) \subseteq S
    BY <2>2, ProvidersAbove
  <2>4. Rounds[m] \in Nat
    BY <1>3, <2>1, <2>3
  <2> QED
    BY <1>4, <2>1, <2>4
<1>5. D \in B
  <2>1. B \in SUBSET (SUBSET DOMAIN entries) /\ \A S \in B : UpClosed(entries, S)
    OBVIOUS
  <2> HIDE DEF B
  <2> QED
    BY <1>1, <1>2, <1>4, <2>1, GrownWhole
<1>6. \A m \in D : Rounds[m] \in Nat
  BY <1>5
<1>7. ASSUME NEW m \in D PROVE Providers(m) \subseteq D
  BY <1>1, ProvidersAbove, ChainClosed DEF UpClosed
<1> HIDE DEF B
<1> QED
  BY <1>3, <1>6, <1>7

LEMMA RoundIs ==
  ASSUME NEW op
  PROVE  Round(op) = IF op.kind \in {"create", "update"} THEN Rounds[op.id] ELSE 0
BY DEF Round, Rounds, RoundStep

\* In a finite set with a total order the numbers of smaller members are those
\* from 0 up, each of one member.
LEMMA RanksAreNumbers ==
  ASSUME NEW R, IsFiniteSet(R), NEW below \in [R -> SUBSET R],
         \A a \in R : a \notin below[a],
         \A a, b, c \in R : a \in below[b] /\ b \in below[c] => a \in below[c],
         \A a, b \in R : a = b \/ a \in below[b] \/ b \in below[a]
  PROVE  /\ \A r \in R : Cardinality(below[r]) \in 0..(Cardinality(R) - 1)
         /\ \A a, b \in R : a \in below[b] => Cardinality(below[a]) < Cardinality(below[b])
         /\ \A a, b \in R : Cardinality(below[a]) = Cardinality(below[b]) => a = b
         /\ \A i \in 0..(Cardinality(R) - 1) : \E r \in R : Cardinality(below[r]) = i
<1> DEFINE before(r) == Cardinality(below[r])
           n == Cardinality(R)
<1>1. n \in Nat
  BY FS_CardinalityType
<1>2. \A r \in R : IsFiniteSet(below[r]) /\ before(r) \in Nat
  BY FS_Subset, FS_CardinalityType
<1>3. ASSUME NEW S, NEW T, IsFiniteSet(T), S \subseteq T, NEW x \in T, x \notin S
      PROVE  Cardinality(S) < Cardinality(T)
  <2>1. S \in SUBSET T /\ S # T
    BY <1>3
  <2>2. /\ IsFiniteSet(S) /\ Cardinality(S) <= Cardinality(T)
        /\ Cardinality(T) = Cardinality(S) => T = S
    BY <1>3, <2>1, FS_Subset
  <2>3. Cardinality(S) \in Nat /\ Cardinality(T) \in Nat
    BY <1>3, <2>2, FS_CardinalityType
  <2> QED
    BY <2>1, <2>2, <2>3
<1>4. ASSUME NEW r \in R PROVE before(r) \in 0..(n - 1)
  <2>1. below[r] \subseteq R /\ r \notin below[r]
    OBVIOUS
  <2>2. before(r) < n
    BY <1>3, <2>1
  <2> HIDE DEF before, n
  <2> QED
    BY <1>1, <1>2, <2>2
<1>5. ASSUME NEW a \in R, NEW b \in R, a \in below[b] PROVE before(a) < before(b)
  <2>1. below[a] \subseteq below[b] /\ a \in below[b] /\ a \notin below[a]
    BY <1>5
  <2> QED
    BY <1>2, <1>3, <2>1
<1>6. ASSUME NEW a \in R, NEW b \in R, before(a) = before(b) PROVE a = b
  <2> SUFFICES ASSUME a # b PROVE FALSE
    OBVIOUS
  <2>1. a \in below[b] \/ b \in below[a]
    OBVIOUS
  <2>2. before(a) < before(b) \/ before(b) < before(a)
    BY <1>5, <2>1
  <2>3. before(a) \in Nat /\ before(b) \in Nat
    BY <1>2
  <2> HIDE DEF before
  <2> QED
    BY <1>6, <2>2, <2>3
<1>7. ASSUME NEW i \in 0..(n - 1) PROVE \E r \in R : before(r) = i
  <2> DEFINE f == [r \in R |-> before(r)]
             N == 0..(n - 1)
  <2>1. \A r \in R : f[r] = before(r)
    OBVIOUS
  <2>2. f \in Injection(R, N)
    <3>1. f \in [R -> N]
      BY <1>4
    <3>2. \A a, b \in R : f[a] = f[b] => a = b
      <4> HIDE DEF f, before
      <4> QED
        BY <1>6, <2>1
    <3> HIDE DEF f, N
    <3> QED
      BY <3>1, <3>2 DEF Injection, IsInjective
  <2>3. IsFiniteSet(N) /\ Cardinality(N) = n
    <3> HIDE DEF n
    <3>1. 0 \in Int /\ n - 1 \in Int
      BY <1>1
    <3>2. IsFiniteSet(0..(n - 1)) /\ Cardinality(0..(n - 1)) = IF 0 > n - 1 THEN 0 ELSE n - 1 - 0 + 1
      BY <3>1, FS_Interval
    <3> QED
      BY <1>1, <3>2
  <2> HIDE DEF f, N, before
  <2>4. f \in Surjection(R, N)
    BY <2>2, <2>3, FS_Injection
  <2>5. i \in N
    BY DEF N
  <2>6. \E r \in R : f[r] = i
    BY <2>4, <2>5 DEF Surjection
  <2> QED
    BY <2>1, <2>6
<1> QED
  BY <1>4, <1>5, <1>6, <1>7

\* What CommitPlan has to order: the operations, with their rounds.
Rounded == {[op |-> o, round |-> Round(o)] : o \in Operations}
Before(r) == Cardinality({q \in Rounded : Sooner(q, r)})

LEMMA OperationsTyped ==
  ASSUME SInv
  PROVE  /\ IsFiniteSet(Operations)
         /\ \A op \in Operations : Asked(op) /\ AnyOperation(op)
<1>1. CommitPlan.operations = Operations
  BY DEF CommitPlan
<1> QED
  BY <1>1, PlanOfPage, CommitPlanFits DEF Fits

LEMMA RoundedTyped ==
  ASSUME SInv, Forest, NEW r \in Rounded
  PROVE  /\ r.op \in Operations /\ r = [op |-> r.op, round |-> Round(r.op)]
         /\ r.round = Round(r.op) /\ r.round \in Nat
         /\ KindRank[r.op.kind] \in Nat /\ Rank[r.op.id] \in Nat
<1>1. r.op \in Operations /\ r = [op |-> r.op, round |-> Round(r.op)] /\ r.round = Round(r.op)
  BY DEF Rounded
<1>2. Asked(r.op) /\ AnyOperation(r.op)
  BY <1>1, OperationsTyped
<1>3. Round(r.op) \in Nat
  <2>1. r.op.kind \in {"create", "update"} => r.op.id \in DOMAIN entries
    BY <1>2 DEF Asked, InBoth
  <2> QED
    BY <2>1, RoundIs, RoundsGrow
<1>4. KindRank[r.op.kind] \in Nat
  BY <1>2 DEF AnyOperation, KindRank
<1>5. r.op.id \in Member \cup DraftUser
  BY <1>2 DEF AnyOperation, Member
<1> QED
  BY <1>1, <1>3, <1>4, <1>5, RankAssumption

\* Two operations of one kind are of different identities.
LEMMA SameRounded ==
  ASSUME SInv, Forest, NEW a \in Rounded, NEW b \in Rounded,
         KindRank[a.op.kind] = KindRank[b.op.kind], Rank[a.op.id] = Rank[b.op.id]
  PROVE  a = b
<1>1. /\ a.op \in Operations /\ a = [op |-> a.op, round |-> Round(a.op)]
      /\ b.op \in Operations /\ b = [op |-> b.op, round |-> Round(b.op)]
  BY RoundedTyped
<1>2. Asked(a.op) /\ AnyOperation(a.op) /\ Asked(b.op) /\ AnyOperation(b.op)
  BY <1>1, OperationsTyped
<1>3. a.op.kind = b.op.kind
  BY <1>2 DEF AnyOperation, KindRank
<1>4. a.op.id = b.op.id
  BY <1>2, RankAssumption DEF AnyOperation, Member
<1>5. a.op = b.op
  BY <1>2, <1>3, <1>4 DEF Asked
<1> QED
  BY <1>1, <1>5

LEMMA RoundedOrder ==
  ASSUME SInv, Forest
  PROVE  /\ IsFiniteSet(Rounded) /\ Cardinality(Rounded) = Cardinality(Operations)
         /\ \A r \in Rounded : Before(r) \in 0..(Cardinality(Rounded) - 1)
         /\ \A a, b \in Rounded : Sooner(a, b) => Before(a) < Before(b)
         /\ \A a, b \in Rounded : Before(a) = Before(b) => a = b
         /\ \A i \in 0..(Cardinality(Rounded) - 1) : \E r \in Rounded : Before(r) = i
<1>1. IsFiniteSet(Rounded) /\ Cardinality(Rounded) = Cardinality(Operations)
  <2> DEFINE f == [o \in Operations |-> [op |-> o, round |-> Round(o)]]
  <2>1. /\ f \in [Operations -> Rounded]
        /\ \A a, b \in Operations : f[a] = f[b] => a = b
        /\ \A r \in Rounded : \E o \in Operations : f[o] = r
    BY DEF Rounded
  <2> HIDE DEF f
  <2>2. f \in Bijection(Operations, Rounded)
    BY <2>1 DEF Bijection, Injection, IsInjective, Surjection
  <2> QED
    BY <2>2, OperationsTyped, FS_Bijection DEF ExistsBijection
<1>4. ASSUME NEW a \in Rounded PROVE ~Sooner(a, a)
  BY RoundedTyped DEF Sooner
<1>5. ASSUME NEW a \in Rounded, NEW b \in Rounded, NEW c \in Rounded, Sooner(a, b), Sooner(b, c)
      PROVE  Sooner(a, c)
  <2>1. \A r \in {a, b, c} :
          r.round \in Nat /\ KindRank[r.op.kind] \in Nat /\ Rank[r.op.id] \in Nat
    BY RoundedTyped
  <2> QED
    BY <1>5, <2>1 DEF Sooner
<1>6. ASSUME NEW a \in Rounded, NEW b \in Rounded, a # b PROVE Sooner(a, b) \/ Sooner(b, a)
  <2>1. \A r \in {a, b} :
          r.round \in Nat /\ KindRank[r.op.kind] \in Nat /\ Rank[r.op.id] \in Nat
    BY RoundedTyped
  <2>2. KindRank[a.op.kind] # KindRank[b.op.kind] \/ Rank[a.op.id] # Rank[b.op.id]
    BY <1>6, SameRounded
  <2> QED
    BY <2>1, <2>2 DEF Sooner
<1> DEFINE below == [r \in Rounded |-> {q \in Rounded : Sooner(q, r)}]
<1>7. /\ below \in [Rounded -> SUBSET Rounded]
      /\ \A r \in Rounded : Before(r) = Cardinality(below[r])
      /\ \A q, r \in Rounded : q \in below[r] <=> Sooner(q, r)
  BY DEF Before
<1> HIDE DEF below
<1>8. /\ \A a \in Rounded : a \notin below[a]
      /\ \A a, b, c \in Rounded : a \in below[b] /\ b \in below[c] => a \in below[c]
      /\ \A a, b \in Rounded : a = b \/ a \in below[b] \/ b \in below[a]
  BY <1>4, <1>5, <1>6, <1>7
<1>9. /\ \A r \in Rounded : Cardinality(below[r]) \in 0..(Cardinality(Rounded) - 1)
      /\ \A a, b \in Rounded : a \in below[b] => Cardinality(below[a]) < Cardinality(below[b])
      /\ \A a, b \in Rounded : Cardinality(below[a]) = Cardinality(below[b]) => a = b
      /\ \A i \in 0..(Cardinality(Rounded) - 1) : \E r \in Rounded : Cardinality(below[r]) = i
  BY <1>1, <1>7, <1>8, RanksAreNumbers
<1>10. ASSUME NEW a \in Rounded, NEW b \in Rounded, Sooner(a, b)
       PROVE  Before(a) < Before(b)
  <2>1. a \in below[b]
    BY <1>7, <1>10
  <2>2. Cardinality(below[a]) < Cardinality(below[b])
    BY <1>9, <2>1
  <2> QED
    BY <1>7, <2>2
<1>11. \A r \in Rounded : Before(r) \in 0..(Cardinality(Rounded) - 1)
  BY <1>7, <1>9
<1>12. \A i \in 0..(Cardinality(Rounded) - 1) : \E r \in Rounded : Before(r) = i
  BY <1>7, <1>9
<1>13. \A a, b \in Rounded : Before(a) = Before(b) => a = b
  BY <1>7, <1>9
<1> QED
  BY <1>1, <1>10, <1>11, <1>12, <1>13

\* The i-th operation is the one that i - 1 others go before.
LEMMA OrderedIs ==
  ASSUME SInv, Forest
  PROVE  /\ Cardinality(Operations) \in Nat
         /\ DOMAIN Ordered = 1..Cardinality(Operations)
         /\ \A r \in Rounded :
              /\ Before(r) + 1 \in DOMAIN Ordered
              /\ Ordered[Before(r) + 1] = r.op
         /\ \A i \in DOMAIN Ordered : \E r \in Rounded : i = Before(r) + 1
<1> DEFINE n == Cardinality(Operations)
           placed == {[op |-> r.op, before |-> Before(r)] : r \in Rounded}
<1>1. n \in Nat
  BY OperationsTyped, FS_CardinalityType
<1>2. Ordered = [i \in 1..n |-> (CHOOSE w \in placed : w.before = i - 1).op]
  BY DEF Ordered, Rounded, Before
<1>3. ASSUME NEW r \in Rounded
      PROVE  Before(r) \in Nat /\ Before(r) + 1 \in 1..n /\ Ordered[Before(r) + 1] = r.op
  <2>1. Before(r) \in 0..(n - 1)
    BY RoundedOrder
  <2> DEFINE i == Before(r) + 1
             w == CHOOSE w \in placed : w.before = i - 1
  <2>2. i \in 1..n /\ i - 1 = Before(r) /\ Before(r) \in Nat
    BY <1>1, <2>1
  <2>3. Ordered[i] = w.op
    BY <1>2, <2>2
  <2>4. \E v \in placed : v.before = i - 1
    <3> DEFINE v == [op |-> r.op, before |-> Before(r)]
    <3>1. v \in placed /\ v.before = i - 1
      BY <2>2
    <3> QED
      BY <3>1
  <2>5. w \in placed /\ w.before = i - 1
    <3> HIDE DEF placed, i
    <3> QED
      BY <2>4
  <2> HIDE DEF w
  <2>6. PICK q \in Rounded : w = [op |-> q.op, before |-> Before(q)]
    BY <2>5
  <2>7. Before(q) = Before(r) /\ w.op = q.op
    BY <2>2, <2>5, <2>6
  <2>8. q = r
    BY <2>7, RoundedOrder
  <2> QED
    BY <2>2, <2>3, <2>7, <2>8
<1>4. ASSUME NEW i \in 1..n PROVE \E r \in Rounded : i = Before(r) + 1
  <2>1. i - 1 \in 0..(n - 1)
    BY <1>1
  <2>2. PICK r \in Rounded : Before(r) = i - 1
    BY <2>1, RoundedOrder
  <2> QED
    BY <2>2
<1> HIDE DEF n
<1>5. DOMAIN Ordered = 1..n
  BY <1>2
<1> QED
  BY <1>1, <1>3, <1>4, <1>5 DEF n

\* A plan has each operation once, and the creation of a parent before what
\* refers to it.
ParentsFirst(order) ==
  /\ \A i, j \in DOMAIN order : order[i] = order[j] => i = j
  /\ \A i, j \in DOMAIN order :
       /\ order[i].kind \in {"create", "update"} /\ order[j].kind = "create"
       /\ entries[order[i].id].parent = order[j].id
       => j < i

LEMMA CommitPlanOrdered ==
  ASSUME SInv, Forest
  PROVE  /\ {CommitPlan.order[i] : i \in DOMAIN CommitPlan.order} = CommitPlan.operations
         /\ Len(CommitPlan.order) = Cardinality(CommitPlan.operations)
         /\ ParentsFirst(CommitPlan.order)
<1>1. CommitPlan.order = Ordered /\ CommitPlan.operations = Operations
  BY DEF CommitPlan
<1>2. {Ordered[i] : i \in DOMAIN Ordered} = Operations
  <2>1. ASSUME NEW i \in DOMAIN Ordered PROVE Ordered[i] \in Operations
    BY OrderedIs, RoundedTyped
  <2>2. ASSUME NEW op \in Operations PROVE \E i \in DOMAIN Ordered : Ordered[i] = op
    <3> DEFINE r == [op |-> op, round |-> Round(op)]
    <3>1. r \in Rounded /\ r.op = op
      BY DEF Rounded
    <3> HIDE DEF r
    <3> QED
      BY <3>1, OrderedIs
  <2> QED
    BY <2>1, <2>2
<1>3. Len(Ordered) = Cardinality(Operations)
  <2>1. DOMAIN Ordered = 1..Cardinality(Operations) /\ Cardinality(Operations) \in Nat
    BY OrderedIs
  <2>2. Ordered = [i \in 1..Cardinality(Operations) |-> Ordered[i]]
    BY DEF Ordered
  <2> QED
    BY <2>1, <2>2
<1>4. ASSUME NEW i \in DOMAIN Ordered, NEW j \in DOMAIN Ordered, Ordered[i] = Ordered[j]
      PROVE  i = j
  <2>1. PICK a \in Rounded : i = Before(a) + 1
    BY OrderedIs
  <2>2. PICK b \in Rounded : j = Before(b) + 1
    BY OrderedIs
  <2>3. a.op = b.op
    BY <1>4, <2>1, <2>2, OrderedIs
  <2>4. a = b
    BY <2>3, RoundedTyped
  <2> QED
    BY <2>1, <2>2, <2>4
<1>5. ASSUME NEW i \in DOMAIN Ordered, NEW j \in DOMAIN Ordered,
             Ordered[i].kind \in {"create", "update"}, Ordered[j].kind = "create",
             entries[Ordered[i].id].parent = Ordered[j].id
      PROVE  j < i
  <2>1. PICK a \in Rounded : i = Before(a) + 1
    BY OrderedIs
  <2>2. PICK b \in Rounded : j = Before(b) + 1
    BY OrderedIs
  <2>3. Ordered[i] = a.op /\ Ordered[j] = b.op
    BY <2>1, <2>2, OrderedIs
  <2>4. /\ a.op \in Operations /\ a.round = Round(a.op)
        /\ b.op \in Operations /\ b.round = Round(b.op)
    BY RoundedTyped
  <2>5. Asked(a.op) /\ AnyOperation(b.op)
    BY <2>4, OperationsTyped
  <2>6. a.op.id \in DOMAIN entries /\ b.op.id \in Draft
    BY <1>5, <2>3, <2>5 DEF Asked, AnyOperation, InBoth
  <2>7. b.op.id \in Providers(a.op.id)
    BY <1>5, <2>3, <2>6, ProvidersAbove
  <2>8. Rounds[b.op.id] < Rounds[a.op.id]
    BY <2>6, <2>7, RoundsGrow
  <2>9. Sooner(b, a)
    BY <1>5, <2>3, <2>4, <2>8, RoundIs DEF Sooner
  <2>10. Before(b) < Before(a)
    BY <2>9, RoundedOrder
  <2>11. Before(a) \in Nat /\ Before(b) \in Nat
    BY RoundedOrder
  <2> QED
    BY <2>1, <2>2, <2>10, <2>11
<1> QED
  BY <1>1, <1>2, <1>3, <1>4, <1>5 DEF ParentsFirst

-----------------------------------------------------------------------------
\* What an undisturbed page and store know of each other.

\* A stored user is linked to the member who has it, or to nobody before.
Own(c, m, u) == u \in User => \A p \in Stored : c[p].user = u => p = m
OwnUsers(c, rows) == \A m \in DOMAIN rows : Own(c, m, rows[m].user)
UsersAreOwn == OwnUsers(catalog, entries) /\ OwnUsers(catalog, recycleBin)

\* The rows edits are compared with are those the page has found.
Baseline ==
  phase # "accepted" => \A p \in DOMAIN originals : p \in Stored /\ originals[p] = catalog[p]

\* As long as nobody else writes and no outcome is unknown, the store is the
\* one the page has loaded, or will be after a rollback.
Untouched ==
  others = 0 /\ doubtful = {} =>
    /\ phase = "executed" =>
         DOMAIN open = {submits} /\ open[submits].db = catalog /\ open[submits].users = User
    /\ phase \notin {"executed", "finalized", "accepted"} =>
         db = catalog /\ users = User /\ DOMAIN open = {}

PlanOrdered == phase \notin {"editing", "accepted"} => Covered /\ ParentsFirst(plan.order)

LEMMA OwnWith ==
  ASSUME NEW c, NEW rows, OwnUsers(c, rows), NEW p, NEW row, Own(c, p, row.user)
  PROVE  OwnUsers(c, With(rows, p, row))
BY DEF OwnUsers, With

LEMMA OwnMoved ==
  ASSUME NEW c, NEW rows, IsRows(rows), OwnUsers(c, rows), NEW m, NEW up
  PROVE  OwnUsers(c, [rows EXCEPT ![m].parent = up])
<1> DEFINE new == [rows EXCEPT ![m].parent = up]
<1>1. DOMAIN new = DOMAIN rows /\ \A q \in DOMAIN rows : new[q].user = rows[q].user
  BY DEF IsRows, Row
<1> HIDE DEF new
<1> QED
  BY <1>1 DEF OwnUsers

LEMMA OwnPlaced ==
  ASSUME NEW c, IsRows(entries), OwnUsers(c, entries), NEW p, NEW row \in Row, NEW m, NEW relation,
         Own(c, p, row.user)
  PROVE  OwnUsers(c, Placed(p, row, m, relation))
<1> DEFINE new == [row EXCEPT !.parent = PlaceFor(m, relation)]
           old == IF relation = "parent" THEN [entries EXCEPT ![m].parent = p] ELSE entries
<1>1. new.user = row.user
  BY DEF Row
<1>2. OwnUsers(c, old)
  BY OwnMoved
<1> HIDE DEF new, old
<1>3. OwnUsers(c, With(old, p, new))
  BY <1>1, <1>2, OwnWith
<1> QED
  BY <1>3 DEF Placed, new, old

LEMMA OwnOfCatalog ==
  ASSUME catalog \in Catalogs
  PROVE  \A p \in Stored : catalog[p] \in Row /\ Own(catalog, p, catalog[p].user)
<1>1. /\ SoundCatalog(catalog) /\ DOMAIN catalog = Stored
      /\ \A p \in Stored : catalog[p] \in Row
  BY CatalogRows, SoundnessAssumption
<1> QED
  BY <1>1, NullAssumption DEF SoundCatalog, Own

LEMMA OwnInit == CommitInit => UsersAreOwn /\ Baseline /\ Untouched /\ PlanOrdered
<1> SUFFICES ASSUME CommitInit PROVE UsersAreOwn /\ Baseline /\ Untouched /\ PlanOrdered
  OBVIOUS
<1>1. /\ catalog \in Catalogs /\ DOMAIN catalog = Stored
      /\ DOMAIN recycleBin = {} /\ entries = originals
  BY CatalogRows DEF CommitInit, Init
<1>2. PICK S \in SUBSET Stored : originals = Restrict(catalog, S)
  BY DEF CommitInit, Init
<1>3. DOMAIN originals = S /\ \A m \in S : originals[m] = catalog[m]
  BY <1>1, <1>2 DEF Restrict
<1>4. UsersAreOwn
  BY <1>1, <1>3, OwnOfCatalog DEF UsersAreOwn, OwnUsers
<1>5. Baseline
  BY <1>3 DEF Baseline
<1>6. db = catalog /\ users = User /\ DOMAIN open = {} /\ phase = "editing"
  BY DEF CommitInit
<1> QED
  BY <1>4, <1>5, <1>6 DEF Untouched, PlanOrdered

LEMMA OwnCommand ==
  ASSUME SInv, UsersAreOwn, Baseline, phase # "accepted", Command
  PROVE  UsersAreOwn'
<1> DEFINE c == catalog
<1>0. /\ IsRows(entries) /\ IsRows(originals) /\ IsRows(recycleBin) /\ staged \subseteq DraftUser
      /\ OwnUsers(c, entries) /\ OwnUsers(c, recycleBin)
  BY DEF SInv, SurfaceTypeOK, UsersAreOwn
<1>1. \A p \in Stored : c[p] \in Row /\ Own(c, p, c[p].user)
  BY OwnOfCatalog DEF SInv, SurfaceTypeOK
<1>2. None \notin User /\ User \cap DraftUser = {}
  BY NullAssumption, UserAssumption
<1>3. \A m : Own(c, m, None)
  BY <1>2 DEF Own
<1>4. ASSUME UNCHANGED catalog, OwnUsers(c, entries'), OwnUsers(c, recycleBin')
      PROVE  UsersAreOwn'
  BY <1>4 DEF UsersAreOwn
<1>5. ASSUME NEW p \in Draft, NEW m \in Member, NEW relation \in Relation,
             AddNew(p, m, relation)
      PROVE  UsersAreOwn'
  <2> DEFINE row == [parent |-> None, user |-> None]
  <2>1. row \in Row /\ row.user = None
    BY DEF Row
  <2>2. entries' = Placed(p, row, m, relation) /\ UNCHANGED <<catalog, recycleBin>>
    BY <1>5 DEF AddNew
  <2> HIDE DEF row, c
  <2>3. OwnUsers(c, entries')
    BY <1>0, <1>3, <2>1, <2>2, OwnPlaced
  <2> QED
    BY <1>0, <1>4, <2>2, <2>3
<1>6. ASSUME NEW p \in Stored, NEW m \in Member, NEW relation \in Relation,
             AddExisting(p, m, relation)
      PROVE  UsersAreOwn'
  <2>1. entries' = Placed(p, c[p], m, relation) /\ UNCHANGED <<catalog, recycleBin>>
    BY <1>6 DEF AddExisting
  <2> HIDE DEF c
  <2>2. OwnUsers(c, entries')
    BY <1>0, <1>1, <2>1, OwnPlaced
  <2> QED
    BY <1>0, <1>4, <2>1, <2>2
<1>7. ASSUME NEW m \in Member, RemoveMember(m) PROVE UsersAreOwn'
  <2>1. /\ m \in DOMAIN entries /\ entries' = Without(entries, m) /\ recycleBin' = Kept(m)
        /\ UNCHANGED catalog
    BY <1>7 DEF RemoveMember
  <2> HIDE DEF c
  <2>2. OwnUsers(c, entries')
    BY <1>0, <2>1 DEF OwnUsers, Without, Restrict
  <2>3. Own(c, m, entries[m].user)
    BY <1>0, <2>1 DEF OwnUsers
  <2>4. OwnUsers(c, recycleBin')
    BY <1>0, <2>1, <2>3, OwnWith DEF Kept
  <2> QED
    BY <1>4, <2>1, <2>2, <2>4
<1>8. ASSUME NEW m \in Member, Restore(m) PROVE UsersAreOwn'
  <2>1. /\ m \in DOMAIN recycleBin /\ recycleBin[m] \in Row /\ UNCHANGED catalog
        /\ entries' = With(entries, m, RestoredRow(m)) /\ recycleBin' = Without(recycleBin, m)
    BY <1>0, <1>8 DEF Restore, IsRows
  <2> HIDE DEF c
  <2>2. Own(c, m, RestoredRow(m).user)
    BY <1>0, <2>1 DEF RestoredRow, Row, OwnUsers
  <2>3. OwnUsers(c, entries')
    BY <1>0, <2>1, <2>2, OwnWith
  <2>4. OwnUsers(c, recycleBin')
    BY <1>0, <2>1 DEF OwnUsers, Without, Restrict
  <2> QED
    BY <1>4, <2>1, <2>3, <2>4
<1>9. ASSUME NEW m, NEW up, entries' = [entries EXCEPT ![m].parent = up],
             UNCHANGED <<catalog, recycleBin>>
      PROVE  UsersAreOwn'
  <2> HIDE DEF c
  <2>1. OwnUsers(c, entries')
    BY <1>0, <1>9, OwnMoved
  <2> QED
    BY <1>0, <1>4, <1>9, <2>1
<1>10. ASSUME NEW m \in Member, NEW u, SaveEntry(m, u) PROVE UsersAreOwn'
  <2>1. /\ m \in DOMAIN entries /\ u \in Selectable(m) \cup {None}
        /\ entries' = [entries EXCEPT ![m].user = u] /\ UNCHANGED <<catalog, recycleBin>>
    BY <1>10 DEF SaveEntry
  <2>2. Own(c, m, u)
    BY <1>0, <1>2, <2>1 DEF Own, Selectable
  <2>3. /\ DOMAIN entries' = DOMAIN entries
        /\ \A q \in DOMAIN entries : entries'[q].user = IF q = m THEN u ELSE entries[q].user
    BY <1>0, <2>1 DEF IsRows, Row
  <2> HIDE DEF c
  <2>4. OwnUsers(c, entries')
    BY <1>0, <2>2, <2>3 DEF OwnUsers
  <2> QED
    BY <1>0, <1>4, <2>1, <2>4
<1>11. ASSUME NEW v \in DraftUser, StageUser(v) PROVE UsersAreOwn'
  BY <1>0, <1>4, <1>11 DEF StageUser
<1>12. ASSUME NEW v \in DraftUser, DiscardUser(v) PROVE UsersAreOwn'
  <2>1. /\ entries' = [m \in DOMAIN entries |-> [entries[m] EXCEPT !.user = UserBefore(m, v)]]
        /\ UNCHANGED <<catalog, recycleBin>>
    BY <1>12 DEF DiscardUser
  <2>2. \A m \in DOMAIN entries : entries'[m].user = UserBefore(m, v)
    BY <1>0, <2>1 DEF IsRows, Row
  <2>3. \A m \in DOMAIN originals : m \in Stored /\ originals[m] = c[m]
    BY DEF Baseline
  <2> HIDE DEF c
  <2>4. \A m \in DOMAIN entries : Own(c, m, UserBefore(m, v))
    BY <1>0, <1>1, <1>3, <2>3 DEF UserBefore, OwnUsers
  <2>5. OwnUsers(c, entries')
    BY <2>1, <2>2, <2>4 DEF OwnUsers
  <2> QED
    BY <1>0, <1>4, <2>1, <2>5
<1>13. ASSUME NEW m \in Member, NEW q \in Member,
              Move(m, q) \/ MoveBeside(m, q) \/ ClearParent(m)
       PROVE  UsersAreOwn'
  BY <1>9, <1>13 DEF Move, MoveBeside, ClearParent
<1> QED
  BY <1>5, <1>6, <1>7, <1>8, <1>10, <1>11, <1>12, <1>13 DEF Command

LEMMA EditedOnly ==
  ASSUME [CommitNext]_vars
  PROVE  \/ Command /\ phase = "editing" /\ UNCHANGED <<storeVars, commitVars>>
         \/ Accepted /\ phase' = "accepted"
         \/ UNCHANGED <<catalog, entries, originals, recycleBin, staged, minted>> /\ phase # "accepted"
         \/ UNCHANGED <<catalog, entries, originals, recycleBin, staged, minted, phase>>
<1>1. CASE EditWorkspace
  BY <1>1 DEF EditWorkspace
<1>2. CASE Accept
  BY <1>2 DEF Accept, Accepted
<1>3. CASE \/ Review \/ Dismiss \/ Execute \/ Refuse \/ Deny \/ LoseAnswer \/ LoseRollback \/ Finalize
           \/ LoseResponse \/ \E reached \in BOOLEAN : LoseFinalization(reached)
  BY <1>3 DEF Review, Dismiss, Execute, Refuse, Deny, Sends, LoseAnswer, LoseRollback, Finalize,
              LoseResponse, LoseFinalization, surfaceVars
<1>4. CASE Restart
  BY <1>4 DEF Restart, surfaceVars
<1>5. CASE \E n \in Attempt : Expire(n)
  BY <1>5 DEF Expire, surfaceVars
<1>6. \A s, b : WriteByOther(s, b) =>
        UNCHANGED <<catalog, entries, originals, recycleBin, staged, minted, phase>>
  BY DEF WriteByOther
<1>7. CASE \/ \E p \in Stored, up \in Stored \cup {None} : MoveByOther(p, up)
           \/ \E p \in Stored, u \in User \cup {None} : LinkByOther(p, u)
           \/ \E p \in Stored : DeleteByOther(p)
           \/ \E p \in Stored, up \in Stored \cup {None}, u \in User \cup {None} :
                AggregateByOther(p, up, u)
  BY <1>6, <1>7 DEF MoveByOther, LinkByOther, DeleteByOther, AggregateByOther
<1>8. CASE UNCHANGED vars
  BY <1>8 DEF vars, surfaceVars, commitVars
<1> QED
  BY <1>1, <1>2, <1>3, <1>4, <1>5, <1>7, <1>8 DEF CommitNext

LEMMA OwnNext ==
  ASSUME SInv, UsersAreOwn, Baseline, [CommitNext]_vars
  PROVE  UsersAreOwn' /\ Baseline'
<1>1. CASE Command /\ phase = "editing" /\ UNCHANGED <<storeVars, commitVars>>
  <2>1. \A p \in DOMAIN originals : p \in Stored /\ originals[p] = catalog[p]
    BY <1>1 DEF Baseline
  <2>2. ASSUME NEW p \in Stored, NEW m \in Member, NEW relation \in Relation,
               AddExisting(p, m, relation)
        PROVE  Baseline'
    <3>1. /\ originals' = IF p \in DOMAIN originals THEN originals
                                                    ELSE With(originals, p, catalog[p])
          /\ UNCHANGED catalog
      BY <2>2 DEF AddExisting
    <3> QED
      BY <2>1, <3>1 DEF With, Baseline
  <2>3. ASSUME UNCHANGED <<originals, catalog>> PROVE Baseline'
    BY <2>1, <2>3 DEF Baseline
  <2>4. Baseline'
    BY <1>1, <2>2, <2>3 DEF Command, AddNew, RemoveMember, Restore, Move, MoveBeside, ClearParent,
                            SaveEntry, StageUser, DiscardUser
  <2> QED
    BY <1>1, <2>4, OwnCommand
<1>2. CASE Accepted /\ phase' = "accepted"
  <2>1. DOMAIN recycleBin' = {}
    BY <1>2 DEF Accepted
  <2> QED
    BY <1>2, <2>1 DEF Accepted, UsersAreOwn, OwnUsers, Baseline
<1>3. CASE UNCHANGED <<catalog, entries, originals, recycleBin, staged, minted>> /\ phase # "accepted"
  BY <1>3 DEF UsersAreOwn, Baseline
<1>4. CASE UNCHANGED <<catalog, entries, originals, recycleBin, staged, minted, phase>>
  BY <1>4 DEF UsersAreOwn, Baseline
<1> QED
  BY <1>1, <1>2, <1>3, <1>4, EditedOnly

LEMMA UntouchedNext ==
  ASSUME CommitTypeOK, Untouched, [CommitNext]_vars
  PROVE  Untouched'
<1>0. others \in Nat
  BY DEF CommitTypeOK
<1>1. CASE EditWorkspace \/ UNCHANGED vars
  BY <1>1 DEF EditWorkspace, vars, surfaceVars, storeVars, commitVars, Command, AddNew, AddExisting,
              RemoveMember, Restore, Move, MoveBeside, ClearParent, SaveEntry, StageUser,
              DiscardUser, Untouched
<1>2. CASE Review \/ Dismiss \/ Refuse \/ Deny
  BY <1>2 DEF Review, Dismiss, Refuse, Deny, Sends, surfaceVars, storeVars, Untouched
<1>3. CASE Execute
  <2>1. /\ phase \in {"reviewed", "failed"} /\ phase' = "executed"
        /\ open' = With(open, submits', [db |-> db, users |-> users])
        /\ UNCHANGED <<catalog, others, doubtful>>
    BY <1>3 DEF Execute, Sends, surfaceVars
  <2> SUFFICES ASSUME others = 0, doubtful = {}
               PROVE  /\ DOMAIN open' = {submits'}
                      /\ open'[submits'].db = catalog /\ open'[submits'].users = User
    BY <2>1 DEF Untouched
  <2>2. db = catalog /\ users = User /\ DOMAIN open = {}
    BY <2>1 DEF Untouched
  <2> QED
    BY <2>1, <2>2 DEF With
<1>4. CASE LoseAnswer
  <2>1. /\ phase = "executed" /\ phase' = "failed" /\ RollBack(submits)
        /\ UNCHANGED <<catalog, others, doubtful>>
    BY <1>4 DEF LoseAnswer, surfaceVars
  <2> SUFFICES ASSUME others = 0, doubtful = {}
               PROVE  db' = catalog /\ users' = User /\ DOMAIN open' = {}
    BY <2>1 DEF Untouched
  <2>2. DOMAIN open = {submits} /\ open[submits].db = catalog /\ open[submits].users = User
    BY <2>1 DEF Untouched
  <2> QED
    BY <2>1, <2>2 DEF RollBack, Closed
<1>5. ASSUME NEW n \in Attempt, Expire(n) PROVE Untouched'
  <2>1. /\ n \in DOMAIN open /\ (phase = "executed" => n # submits)
        /\ UNCHANGED <<phase, others, doubtful>>
    BY <1>5 DEF Expire
  <2>2. others = 0 /\ doubtful = {} => phase \in {"finalized", "accepted"}
    BY <2>1 DEF Untouched
  <2> QED
    BY <2>1, <2>2 DEF Untouched
<1>6. CASE LoseRollback \/ LoseResponse \/ \E reached \in BOOLEAN : LoseFinalization(reached)
  <2>1. doubtful' # {}
    BY <1>6 DEF LoseRollback, LoseResponse, LoseFinalization
  <2> QED
    BY <2>1 DEF Untouched
<1>7. CASE Finalize \/ Accept
  BY <1>7 DEF Finalize, Accept, Untouched
<1>8. CASE Restart
  <2>1. /\ DOMAIN open' = {} /\ UNCHANGED <<catalog, db, users, others>>
        /\ \/ doubtful' = doubtful \cup {submits}
           \/ phase # "executed" /\ UNCHANGED <<phase, doubtful>>
    BY <1>8 DEF Restart, surfaceVars, storeVars
  <2> QED
    BY <2>1 DEF Untouched
<1>9. \A s, b : WriteByOther(s, b) => others' # 0
  BY <1>0 DEF WriteByOther
<1>10. CASE \/ \E p \in Stored, up \in Stored \cup {None} : MoveByOther(p, up)
            \/ \E p \in Stored, u \in User \cup {None} : LinkByOther(p, u)
            \/ \E p \in Stored : DeleteByOther(p)
            \/ \E p \in Stored, up \in Stored \cup {None}, u \in User \cup {None} :
                 AggregateByOther(p, up, u)
  <2>1. others' # 0
    BY <1>9, <1>10 DEF MoveByOther, LinkByOther, DeleteByOther, AggregateByOther
  <2> QED
    BY <2>1 DEF Untouched
<1> QED
  BY <1>1, <1>2, <1>3, <1>4, <1>5, <1>6, <1>7, <1>8, <1>10 DEF CommitNext

LEMMA PlanOrderedNext ==
  ASSUME SInv, Forest, PlanOrdered, [CommitNext]_vars
  PROVE  PlanOrdered'
<1>1. CASE Review
  <2>1. plan' = CommitPlan /\ UNCHANGED entries
    BY <1>1 DEF Review, surfaceVars
  <2>2. PICK p : p = CommitPlan
    OBVIOUS
  <2>3. /\ {p.order[i] : i \in DOMAIN p.order} = p.operations
        /\ Len(p.order) = Cardinality(p.operations)
        /\ ParentsFirst(p.order)
    BY <2>2, CommitPlanOrdered
  <2> QED
    BY <2>1, <2>2, <2>3 DEF PlanOrdered, Covered, ParentsFirst
<1>2. CASE phase' \in {"editing", "accepted"}
  BY <1>2 DEF PlanOrdered
<1>3. ASSUME UNCHANGED <<plan, entries>>,
             phase \notin {"editing", "accepted"} \/ phase' = phase
      PROVE  PlanOrdered'
  BY <1>3 DEF PlanOrdered, Covered, ParentsFirst
<1>4. CASE Dismiss \/ Accept
  BY <1>2, <1>4 DEF Dismiss, Accept
<1>5. CASE EditWorkspace
  BY <1>2, <1>5 DEF EditWorkspace, commitVars
<1>6. CASE Execute \/ Refuse \/ Deny
  BY <1>3, <1>6 DEF Execute, Refuse, Deny, Sends, surfaceVars
<1>7. CASE \/ LoseAnswer \/ LoseRollback \/ Finalize \/ LoseResponse
           \/ \E reached \in BOOLEAN : LoseFinalization(reached)
  BY <1>3, <1>7 DEF LoseAnswer, LoseRollback, Finalize, LoseResponse, LoseFinalization,
                    surfaceVars
<1>8. CASE Restart
  BY <1>3, <1>8 DEF Restart, surfaceVars
<1>9. CASE \E n \in Attempt : Expire(n)
  BY <1>3, <1>9 DEF Expire, surfaceVars
<1>10. \A s, b : WriteByOther(s, b) => UNCHANGED <<plan, entries, phase>>
  BY DEF WriteByOther
<1>11. CASE \/ \E p \in Stored, up \in Stored \cup {None} : MoveByOther(p, up)
            \/ \E p \in Stored, u \in User \cup {None} : LinkByOther(p, u)
            \/ \E p \in Stored : DeleteByOther(p)
            \/ \E p \in Stored, up \in Stored \cup {None}, u \in User \cup {None} :
                 AggregateByOther(p, up, u)
  BY <1>3, <1>10, <1>11 DEF MoveByOther, LinkByOther, DeleteByOther, AggregateByOther
<1>12. CASE UNCHANGED vars
  BY <1>3, <1>12 DEF vars, surfaceVars, commitVars
<1> QED
  BY <1>1, <1>4, <1>5, <1>6, <1>7, <1>8, <1>9, <1>11, <1>12 DEF CommitNext

-----------------------------------------------------------------------------
\* Every operation succeeds that the property gives no reason to refuse.

\* The n-th Commit is sent, of a page and a store nobody has disturbed, and
\* there is no such reason.
Undisturbed(n) ==
  /\ Sending(n) /\ Forest
  /\ Structured(catalog) /\ Placeable(entries) /\ PersonRows(entries)
  /\ catalog \in Catalogs /\ db = catalog /\ users = User
  /\ \A p \in DOMAIN originals : p \in Stored /\ originals[p] = catalog[p]
  /\ OwnUsers(catalog, entries)
  /\ (DOMAIN originals \ DOMAIN entries) \cap Licensed = {}
  /\ DraftLinks = {} /\ SharedUsers = {}
  /\ \A p, q \in Moved : p = q

\* It has done these operations.
Halfway(s, done, n) == Undisturbed(n) /\ Amid(s, done, n) /\ s.ok

\* The collection the page has found, and its store, are as the service keeps
\* them.
LEMMA CatalogBuilt ==
  ASSUME NEW n, Undisturbed(n)
  PROVE  Built(db, users)
<1>1. /\ DOMAIN db = Stored /\ db = catalog /\ users = User
      /\ SoundCatalog(catalog) /\ Structured(catalog)
  BY CatalogRows, SoundnessAssumption DEF Undisturbed
<1>2. \A p \in Stored : Origin(p) = p
  BY DEF Origin
<1>3. Suited(db)
  BY <1>1, <1>2 DEF Suited, Structured
<1>4. Parented(db)
  BY <1>1, <1>2 DEF Parented, Structured, SoundCatalog
<1>5. Linked(db, users)
  BY <1>1 DEF Linked, SoundCatalog
<1> QED
  BY <1>3, <1>4, <1>5 DEF Built

\* A member's row is stored as it is: its type may have what it has.
LEMMA PlainRow ==
  ASSUME NEW n, Undisturbed(n), NEW m \in DOMAIN entries, m \in Draft
  PROVE  NewRow(m, n) = [parent |-> IdOf(entries[m].parent, n), user |-> entries[m].user]
<1>1. Origin(<<m, n>>) = m /\ None \notin Draft
  BY SendingIds DEF Undisturbed
<1>2. entries[m].parent # None => m \in CanHaveParent
  BY DEF Undisturbed, Placeable
<1>3. entries[m].user # None => m \in Person
  BY DEF Undisturbed, PersonRows
<1>4. entries[m].parent = None => IdOf(entries[m].parent, n) = None
  BY <1>1 DEF IdOf
<1> QED
  BY <1>1, <1>2, <1>3, <1>4 DEF NewRow, Normalized

LEMMA PlainStored ==
  ASSUME NEW n, Undisturbed(n), NEW done, Updated(done) \subseteq InBoth, NEW p \in Stored
  PROVE  RowAfter(p, done, n) = Merged(p, done, n)
<1>1. /\ DOMAIN catalog = Stored /\ db = catalog /\ Structured(catalog)
      /\ Placeable(entries) /\ PersonRows(entries)
  BY CatalogRows DEF Undisturbed
<1>2. Origin(p) = p
  BY DEF Origin
<1>3. None \notin Draft
  BY SendingIds DEF Undisturbed
<1> SUFFICES ASSUME p \in Updated(done) PROVE Normalized(p, Merged(p, done, n)) = Merged(p, done, n)
  BY DEF RowAfter
<1>4. p \in DOMAIN entries
  BY DEF InBoth
<1>5. Merged(p, done, n).parent # None => p \in CanHaveParent
  <2>1. catalog[p].parent # None => p \in CanHaveParent
    BY <1>1 DEF Structured
  <2>2. entries[p].parent # None => p \in CanHaveParent
    BY <1>1, <1>4 DEF Placeable
  <2>3. entries[p].parent = None => IdOf(entries[p].parent, n) = None
    BY <1>3 DEF IdOf
  <2>4. Left(p, done) # None => catalog[p].parent # None
    BY <1>1 DEF Left
  <2> QED
    BY <2>1, <2>2, <2>3, <2>4 DEF Merged
<1>6. Merged(p, done, n).user # None => p \in Person
  <2>1. catalog[p].user # None => p \in Person
    BY <1>1 DEF Structured
  <2>2. entries[p].user # None => p \in Person
    BY <1>1, <1>4 DEF PersonRows
  <2> QED
    BY <1>1, <2>1, <2>2 DEF Merged
<1>7. Merged(p, done, n) = [parent |-> Merged(p, done, n).parent, user |-> Merged(p, done, n).user]
  BY DEF Merged
<1> QED
  BY <1>2, <1>5, <1>6, <1>7, NormalizedRow

LEMMA HalfwayStore ==
  ASSUME NEW n, NEW s, NEW done, Halfway(s, done, n)
  PROVE  /\ {"db", "users", "idMap", "ok"} \subseteq DOMAIN s
         /\ SoundStore(s.db) /\ Built(s.db, s.users) /\ User \subseteq s.users
         /\ DOMAIN s.db = (Stored \ Deleted(done)) \cup (Created(done) \X {n})
         /\ DOMAIN s.idMap = Created(done)
         /\ Created(done) \subseteq DOMAIN entries \cap Draft
         /\ Deleted(done) \subseteq DOMAIN originals \ InBoth
         /\ Updated(done) \subseteq InBoth
         /\ \A m \in Created(done) : s.idMap[m] = <<m, n>>
         /\ \A m \in Created(done) :
              s.db[<<m, n>>] = [parent |-> IdOf(entries[m].parent, n), user |-> entries[m].user]
         /\ \A p \in Stored \ Deleted(done) : s.db[p] = Merged(p, done, n)
<1>1. DOMAIN db = Stored /\ users = User
  BY CatalogRows DEF Halfway, Undisturbed
<1>2. /\ Sending(n) /\ (\A op \in done : Asked(op)) /\ Executing(s, n) /\ Progress(s, done, n) /\ s.ok
  BY DEF Halfway, Amid
<1>3. /\ Created(done) \subseteq DOMAIN entries \cap Draft
      /\ Deleted(done) \subseteq DOMAIN originals \ InBoth
      /\ Updated(done) \subseteq InBoth
  BY <1>2, DoneIds
<1>4. /\ {"db", "users", "idMap", "ok"} \subseteq DOMAIN s
      /\ SoundStore(s.db) /\ Built(s.db, s.users) /\ User \subseteq s.users
  BY <1>1, <1>2, CatalogBuilt DEF Executing, Halfway
<1>5. /\ DOMAIN s.db = (DOMAIN db \ Deleted(done)) \cup (Created(done) \X {n})
      /\ DOMAIN s.idMap = Created(done)
      /\ \A m \in Created(done) : s.idMap[m] = <<m, n>> /\ s.db[<<m, n>>] = NewRow(m, n)
      /\ \A p \in DOMAIN db \ Deleted(done) : s.db[p] = RowAfter(p, done, n)
  BY <1>2 DEF Progress
<1>6. \A m \in Created(done) :
        s.db[<<m, n>>] = [parent |-> IdOf(entries[m].parent, n), user |-> entries[m].user]
  BY <1>3, <1>5, PlainRow DEF Halfway
<1>7. \A p \in Stored \ Deleted(done) : s.db[p] = Merged(p, done, n)
  BY <1>1, <1>3, <1>5, PlainStored DEF Halfway
<1> QED
  BY <1>1, <1>3, <1>4, <1>5, <1>6, <1>7

\* What has members is a container.
LEMMA MembersFit ==
  ASSUME NEW n, NEW s, NEW done, Halfway(s, done, n), NEW p, p # None
  PROVE  MembersAllow(s, p)
BY HalfwayStore DEF MembersAllow, Built, Parented

LEMMA OriginOf ==
  ASSUME NEW n, Sending(n), NEW m \in DOMAIN entries
  PROVE  Origin(IdOf(m, n)) = m
<1>1. CASE m \in Draft
  BY <1>1, SendingIds DEF IdOf
<1>2. CASE m \notin Draft
  BY <1>2, SendingRows DEF IdOf, Origin
<1> QED
  BY <1>1, <1>2

\* Nobody else has the user of a member.
LEMMA UserFree ==
  ASSUME NEW n, NEW s, NEW done, Halfway(s, done, n),
         NEW m \in DOMAIN entries, entries[m].user # None
  PROVE  LinkAllowed(s, IdOf(m, n), entries[m].user)
<1> DEFINE u == entries[m].user
           id == IdOf(m, n)
<1>0. Sending(n) /\ db = catalog
  BY DEF Halfway, Undisturbed
<1>1. m \in Person /\ Origin(id) = m
  BY <1>0, OriginOf DEF Halfway, Undisturbed, PersonRows
<1>2. u \in User
  <2>1. entries[m] \in Row
    BY <1>0 DEF Sending, SInv, SurfaceTypeOK, IsRows
  <2>2. u \notin DraftUser
    BY DEF Halfway, Undisturbed, DraftLinks
  <2> QED
    BY <2>1, <2>2 DEF Row
<1>3. u \in s.users
  BY <1>2, HalfwayStore
<1>4. \A q \in DOMAIN entries : entries[q].user = u => q = m
  BY <1>2 DEF Halfway, Undisturbed, SharedUsers
<1>5. \A p \in Stored : catalog[p].user = u => p = m
  BY <1>2 DEF Halfway, Undisturbed, OwnUsers, Own
<1> HIDE DEF u
<1>6. ASSUME NEW q \in DOMAIN s.db, s.db[q].user = u PROVE q = id
  <2>1. CASE q \in Stored
    <3>1. q \notin Draft /\ q \notin Created(done) \X {n}
      BY <1>0, <2>1, SendingIds, HalfwayStore
    <3>2. q \in Stored \ Deleted(done)
      BY <3>1, HalfwayStore
    <3>3. s.db[q] = Merged(q, done, n)
      BY <3>2, HalfwayStore
    <3>4. q \in Updated(done) => q \in DOMAIN entries
      BY HalfwayStore DEF InBoth
    <3>5. s.db[q].user \in {catalog[q].user} \cup {entries[x].user : x \in {q} \cap DOMAIN entries}
      BY <1>0, <3>3, <3>4 DEF Merged
    <3>6. q = m
      BY <1>4, <1>5, <1>6, <2>1, <3>5
    <3> QED
      BY <3>1, <3>6 DEF IdOf
  <2>2. CASE q \notin Stored
    <3>1. PICK d \in Created(done) : q = <<d, n>>
      BY <2>2, HalfwayStore
    <3>2. s.db[q].user = entries[d].user /\ d \in DOMAIN entries /\ d \in Draft
      <4>1. /\ s.db[<<d, n>>] = [parent |-> IdOf(entries[d].parent, n), user |-> entries[d].user]
            /\ d \in DOMAIN entries /\ d \in Draft
        BY HalfwayStore
      <4> QED
        BY <3>1, <4>1
    <3>3. d = m
      BY <1>4, <1>6, <3>2
    <3> QED
      BY <3>1, <3>2, <3>3 DEF IdOf
  <2> QED
    BY <2>1, <2>2
<1>7. \A q \in DOMAIN s.db \ {id} : s.db[q].user # u
  BY <1>6
<1> HIDE DEF id
<1> QED
  BY <1>1, <1>3, <1>7 DEF LinkAllowed, u, id

\* The parent of a member is there once its creation is done.
LEMMA ParentFound ==
  ASSUME NEW n, NEW s, NEW done, Halfway(s, done, n),
         NEW m \in DOMAIN entries, entries[m].parent # None,
         entries[m].parent \in Draft => entries[m].parent \in Created(done)
  PROVE  /\ m \in CanHaveParent
         /\ Resolved(s, entries[m].parent) = IdOf(entries[m].parent, n)
         /\ IdOf(entries[m].parent, n) \in DOMAIN s.db
         /\ Origin(IdOf(entries[m].parent, n)) \in Container
         /\ entries[m].parent \in DOMAIN entries
<1> DEFINE up == entries[m].parent
<1>0. Sending(n) /\ Forest /\ Placeable(entries)
  BY DEF Halfway, Undisturbed
<1>1. up \in DOMAIN entries /\ up \in Container /\ m \in CanHaveParent
  BY <1>0 DEF Forest, Whole, Placeable
<1>2. Origin(IdOf(up, n)) = up
  BY <1>0, <1>1, OriginOf
<1>3. CASE up \in Draft
  <2>1. up \in Created(done) /\ IdOf(up, n) = <<up, n>>
    BY <1>3 DEF IdOf
  <2>2. up \in DOMAIN s.idMap /\ s.idMap[up] = <<up, n>>
    <3>1. DOMAIN s.idMap = Created(done) /\ \A x \in Created(done) : s.idMap[x] = <<x, n>>
      BY HalfwayStore
    <3> HIDE DEF up
    <3> QED
      BY <2>1, <3>1
  <2>3. <<up, n>> \in DOMAIN s.db
    <3>1. DOMAIN s.db = (Stored \ Deleted(done)) \cup (Created(done) \X {n})
      BY HalfwayStore
    <3>2. <<up, n>> \in Created(done) \X {n}
      BY <2>1
    <3> HIDE DEF up
    <3> QED
      BY <3>1, <3>2
  <2> QED
    BY <1>1, <1>2, <2>1, <2>2, <2>3 DEF Resolved
<1>4. CASE up \notin Draft
  <2>1. IdOf(up, n) = up
    BY <1>4 DEF IdOf
  <2>2. up \in Stored /\ up \in InBoth
    BY <1>0, <1>1, <1>4, SendingRows
  <2>3. up \notin Created(done) /\ up \in DOMAIN s.db
    BY <1>4, <2>2, HalfwayStore
  <2>4. Resolved(s, up) = up
    BY <2>3, HalfwayStore DEF Resolved
  <2> QED
    BY <1>1, <1>2, <2>1, <2>3, <2>4
<1> QED
  BY <1>3, <1>4

\* The chain of a row other than m leads to m through its parent.
LEMMA ChainAbove ==
  ASSUME NEW rows, IsFiniteSet(DOMAIN rows), NEW p, NEW m \in Chain(rows, p), m # p
  PROVE  rows[p].parent \in DOMAIN rows /\ m \in Chain(rows, rows[p].parent)
<1> DEFINE up == rows[p].parent
<1>1. \A T : UpClosed(rows, T) /\ {p} \cap DOMAIN rows \subseteq T => Chain(rows, p) \subseteq T
  BY ChainClosed
<1>2. p \in DOMAIN rows
  <2> SUFFICES ASSUME p \notin DOMAIN rows PROVE FALSE
    OBVIOUS
  <2>1. UpClosed(rows, {})
    BY DEF UpClosed
  <2> QED
    BY <1>1, <2>1
<1>3. up \in DOMAIN rows
  <2> SUFFICES ASSUME up \notin DOMAIN rows PROVE FALSE
    OBVIOUS
  <2>1. UpClosed(rows, {p})
    BY <1>2 DEF UpClosed
  <2> QED
    BY <1>1, <2>1
<1>4. UpClosed(rows, Chain(rows, up)) /\ up \in Chain(rows, up)
  BY <1>3, ChainClosed
<1>5. UpClosed(rows, Chain(rows, up) \cup {p})
  BY <1>2, <1>4 DEF UpClosed
<1> QED
  BY <1>1, <1>3, <1>5

\* The one member that was moved is not above its new parent on the way.
LEMMA NoCycleYet ==
  ASSUME NEW n, NEW s, NEW done, Halfway(s, done, n),
         NEW m \in Moved, entries[m].parent # None,
         entries[m].parent \in Draft => entries[m].parent \in Created(done)
  PROVE  m \notin Chain(s.db, IdOf(entries[m].parent, n))
<1> SUFFICES ASSUME m \in Chain(s.db, IdOf(entries[m].parent, n)) PROVE FALSE
  OBVIOUS
<1>0. /\ Sending(n) /\ Forest /\ db = catalog /\ SoundCatalog(catalog)
      /\ \A p, q \in Moved : p = q
      /\ \A p \in DOMAIN originals : p \in Stored /\ originals[p] = catalog[p]
  BY SoundnessAssumption DEF Halfway, Undisturbed
<1>1. /\ IsFiniteSet(DOMAIN s.db) /\ None \notin DOMAIN s.db
  BY HalfwayStore DEF SoundStore
<1>2. /\ m \in DOMAIN entries /\ m \in Stored /\ m \notin Draft /\ IdOf(m, n) = m
      /\ None \notin Stored \cup Draft
  BY <1>0, SendingIds, SendingRows DEF Moved, InBoth, IdOf
<1> DEFINE C == {x \in DOMAIN entries :
                   IdOf(x, n) \in DOMAIN s.db /\ m \in Chain(s.db, IdOf(x, n))}
<1>3. m \in C
  <2>1. m \in DOMAIN s.db
    BY <1>1, ChainClosed DEF UpClosed
  <2> QED
    BY <1>1, <1>2, <2>1, ChainClosed
<1>4. entries[m].parent \in C
  BY <1>2, ParentFound
<1>5. ASSUME NEW x \in C, x # m PROVE entries[x].parent \in C
  <2> DEFINE p == IdOf(x, n)
             y == s.db[p].parent
  <2>1. x \in DOMAIN entries /\ p \in DOMAIN s.db /\ m \in Chain(s.db, p)
    OBVIOUS
  <2>2. p # m
    BY <1>0, <1>2, <1>5, <2>1, OriginOf
  <2>3. y \in DOMAIN s.db /\ m \in Chain(s.db, y)
    BY <1>1, <2>1, <2>2, ChainAbove
  <2>4. CASE x \in Draft
    <3>1. p = <<x, n>> /\ x \in Created(done)
      <4>1. p = <<x, n>> /\ <<x, n>> \notin Stored
        BY <1>0, <2>4, SendingIds DEF IdOf
      <4> QED
        BY <2>1, <4>1, HalfwayStore
    <3>2. y = IdOf(entries[x].parent, n)
      <4>1. s.db[<<x, n>>] = [parent |-> IdOf(entries[x].parent, n), user |-> entries[x].user]
        BY <3>1, HalfwayStore
      <4> QED
        BY <3>1, <4>1
    <3>3. entries[x].parent # None
      BY <1>1, <1>2, <2>3, <3>2 DEF IdOf
    <3>4. entries[x].parent \in DOMAIN entries
      BY <1>0, <2>1, <3>3 DEF Forest, Whole
    <3> QED
      BY <2>3, <3>2, <3>4
  <2>5. CASE x \notin Draft
    <3>1. p = x /\ x \in Stored /\ x \in InBoth
      BY <1>0, <2>1, <2>5, SendingRows DEF IdOf
    <3>2. s.db[x] = Merged(x, done, n)
      <4>1. x \in Stored \ Deleted(done)
        BY <3>1, HalfwayStore
      <4> QED
        BY <4>1, HalfwayStore
    <3>3. entries[x].parent = originals[x].parent /\ originals[x] = catalog[x]
      <4>1. x \notin Moved
        BY <1>0, <1>5
      <4> QED
        BY <1>0, <3>1, <4>1 DEF Moved, InBoth
    <3>4. y \in {None, catalog[x].parent}
      BY <1>0, <3>1, <3>2, <3>3 DEF Merged, Left
    <3>5. y = entries[x].parent /\ y # None
      BY <1>1, <2>3, <3>3, <3>4
    <3>6. y \in DOMAIN entries
      BY <1>0, <2>1, <3>5 DEF Forest, Whole
    <3>7. y \in Stored
      BY <1>0, <3>1, <3>3, <3>5 DEF SoundCatalog
    <3>8. IdOf(y, n) = y
      BY <1>0, <3>7, SendingIds DEF IdOf
    <3> HIDE DEF y
    <3> QED
      BY <2>3, <3>5, <3>6, <3>8
  <2> QED
    BY <2>4, <2>5
<1>6. C \in SUBSET DOMAIN entries /\ C # {}
  BY <1>3
<1> HIDE DEF C
<1> QED
  BY <1>0, <1>4, <1>5, <1>6 DEF Forest, Acyclic

LEMMA WriteOk ==
  ASSUME NEW s, {"db", "users", "idMap", "ok"} \subseteq DOMAIN s, NEW p, NEW row, NEW fields,
         "parent" \in fields => ParentAllowed(s, p, Normalized(p, row).parent),
         "user" \in fields => LinkAllowed(s, p, Normalized(p, row).user),
         MembersAllow(s, p)
  PROVE  Write(s, p, row, fields).ok = s.ok /\ DOMAIN Write(s, p, row, fields) = DOMAIN s
<1>1. Write(s, p, row, fields) = [s EXCEPT !.db = With(s.db, p, Normalized(p, row))]
  BY DEF Write
<1> QED
  BY <1>1

LEMMA CreateSucceeds ==
  ASSUME NEW n, NEW s, NEW done, Halfway(s, done, n),
         NEW op, Asked(op), op.kind = "create", op.id \notin Created(done),
         entries[op.id].parent \in Draft => entries[op.id].parent \in Created(done)
  PROVE  Perform(s, op, n).ok
<1> DEFINE m == op.id
           id == <<m, n>>
           row == [parent |-> Resolved(s, plan.rows[m].parent), user |-> plan.rows[m].user]
           w == Write(s, id, row, {"parent", "user"})
<1>0. Sending(n) /\ plan.rows = entries /\ s.ok
  BY DEF Halfway, Undisturbed, Sending, Fits
<1>1. m \in DOMAIN entries /\ m \in Draft
  BY <1>0, SendingRows DEF Asked
<1>2. IdOf(m, n) = id /\ Origin(id) = m /\ id \notin DOMAIN s.db
  BY <1>0, <1>1, SendingIds, HalfwayStore DEF IdOf
<1>3. /\ Normalized(id, row).parent = IF m \in CanHaveParent THEN Resolved(s, entries[m].parent)
                                                              ELSE None
      /\ Normalized(id, row).user = IF m \in Person THEN entries[m].user ELSE None
  BY <1>0, <1>2 DEF Normalized
<1>4. entries[m].parent = None => Resolved(s, entries[m].parent) = None
  BY <1>0, SendingIds, HalfwayStore DEF Resolved
<1> HIDE DEF row
<1>5. ParentAllowed(s, id, Normalized(id, row).parent)
  <2> SUFFICES ASSUME Normalized(id, row).parent # None
               PROVE  ParentAllowed(s, id, Normalized(id, row).parent)
    BY DEF ParentAllowed
  <2> DEFINE up == IdOf(entries[m].parent, n)
  <2>1. Normalized(id, row).parent = up /\ up \in DOMAIN s.db /\ Origin(up) \in Container
    BY <1>1, <1>3, <1>4, ParentFound
  <2>2. Chain(s.db, up) \subseteq DOMAIN s.db
    BY HalfwayStore, ChainClosed DEF SoundStore, UpClosed
  <2> HIDE DEF up
  <2> QED
    BY <1>2, <2>1, <2>2 DEF ParentAllowed
<1>6. LinkAllowed(s, id, Normalized(id, row).user)
  <2>1. CASE Normalized(id, row).user = None
    BY <2>1 DEF LinkAllowed
  <2>2. CASE Normalized(id, row).user # None
    BY <1>1, <1>2, <1>3, <2>2, UserFree
  <2> QED
    BY <2>1, <2>2
<1>7. w.ok = s.ok /\ DOMAIN w = DOMAIN s
  <2>1. MembersAllow(s, id)
    BY <1>0, <1>1, SendingIds, MembersFit
  <2> QED
    BY <1>5, <1>6, <2>1, HalfwayStore, WriteOk
<1>8. Perform(s, op, n) = [w EXCEPT !.idMap = With(w.idMap, m, id)]
  BY <1>0 DEF Perform, row
<1> HIDE DEF w
<1> QED
  BY <1>0, <1>7, <1>8, HalfwayStore

LEMMA UpdateSucceeds ==
  ASSUME NEW n, NEW s, NEW done, Halfway(s, done, n),
         NEW op, Asked(op), op.kind = "update",
         entries[op.id].parent \in Draft => entries[op.id].parent \in Created(done)
  PROVE  Perform(s, op, n).ok
<1> DEFINE m == op.id
           row == [parent |-> Resolved(s, plan.rows[m].parent), user |-> plan.rows[m].user]
           fields == plan.fields[m]
           merged == [parent |-> IF "parent" \in fields THEN row.parent ELSE s.db[m].parent,
                      user |-> IF "user" \in fields THEN row.user ELSE s.db[m].user]
<1>0. Sending(n) /\ plan.rows = entries /\ s.ok /\ Fits(plan)
  BY DEF Halfway, Undisturbed, Sending, Fits
<1>1. m \in InBoth /\ m \in DOMAIN entries /\ m \in Stored /\ m \notin Draft
  BY <1>0, SendingRows, SendingIds DEF Asked
<1>2. IdOf(m, n) = m /\ Origin(m) = m /\ m \in DOMAIN s.db
  BY <1>1, HalfwayStore DEF IdOf, Origin
<1>3. /\ "parent" \in fields <=> entries[m].parent # originals[m].parent
      /\ "user" \in fields <=> entries[m].user # originals[m].user
  BY <1>0, <1>1 DEF Fits
<1>4. /\ "parent" \in fields =>
           Normalized(m, merged).parent = IF m \in CanHaveParent
                                          THEN Resolved(s, entries[m].parent) ELSE None
      /\ "user" \in fields =>
           Normalized(m, merged).user = IF m \in Person THEN entries[m].user ELSE None
  BY <1>0, <1>2 DEF Normalized
<1>5. entries[m].parent = None => Resolved(s, entries[m].parent) = None
  BY <1>0, SendingIds, HalfwayStore DEF Resolved
<1>6. Perform(s, op, n) = Write(s, m, merged, fields)
  BY <1>0, <1>2 DEF Perform
<1> HIDE DEF merged, fields
<1>7. ASSUME "parent" \in fields PROVE ParentAllowed(s, m, Normalized(m, merged).parent)
  <2> SUFFICES ASSUME Normalized(m, merged).parent # None
               PROVE  ParentAllowed(s, m, Normalized(m, merged).parent)
    BY DEF ParentAllowed
  <2> DEFINE up == IdOf(entries[m].parent, n)
  <2>1. entries[m].parent # None /\ Normalized(m, merged).parent = Resolved(s, entries[m].parent)
    BY <1>4, <1>5, <1>7
  <2>2. Normalized(m, merged).parent = up /\ up \in DOMAIN s.db /\ Origin(up) \in Container
    BY <1>1, <2>1, ParentFound
  <2>3. m \in Moved
    BY <1>1, <1>3, <1>7 DEF Moved, InBoth
  <2>4. m \notin Chain(s.db, up)
    BY <2>1, <2>3, NoCycleYet
  <2> HIDE DEF up
  <2> QED
    BY <2>2, <2>4 DEF ParentAllowed
<1>8. ASSUME "user" \in fields PROVE LinkAllowed(s, m, Normalized(m, merged).user)
  <2>1. CASE Normalized(m, merged).user = None
    BY <2>1 DEF LinkAllowed
  <2>2. CASE Normalized(m, merged).user # None
    BY <1>1, <1>2, <1>4, <1>8, <2>2, UserFree
  <2> QED
    BY <2>1, <2>2
<1>9. MembersAllow(s, m)
  BY <1>0, <1>1, SendingIds, MembersFit
<1> QED
  BY <1>0, <1>6, <1>7, <1>8, <1>9, HalfwayStore, WriteOk

LEMMA PerformSucceeds ==
  ASSUME NEW n, NEW s, NEW done, Halfway(s, done, n), NEW op, Asked(op),
         op.kind = "create" => op.id \notin Created(done),
         /\ op.kind \in {"create", "update"}
         /\ entries[op.id].parent \in Draft
         => entries[op.id].parent \in Created(done)
  PROVE  Halfway(Perform(s, op, n), done \cup {op}, n)
<1>1. Undisturbed(n) /\ Amid(s, done, n) /\ s.ok
  BY DEF Halfway
<1>2. Amid(Perform(s, op, n), done \cup {op}, n)
  BY <1>1, PerformDone
<1>3. Perform(s, op, n).ok
  <2>1. CASE op.kind = "mutation"
    <3>1. Perform(s, op, n) = [s EXCEPT !.users = s.users \cup {<<op.id, n>>}]
      BY <1>1, <2>1 DEF Perform
    <3> QED
      BY <1>1, <3>1, HalfwayStore
  <2>2. CASE op.kind = "delete"
    <3>0. op.id \notin Licensed
      BY <1>1, <2>2 DEF Undisturbed, Asked, InBoth
    <3>1. Perform(s, op, n) = [s EXCEPT !.db = Unlinked(s.db, op.id)]
      BY <1>1, <2>2, <3>0 DEF Perform, Delete
    <3> QED
      BY <1>1, <3>1, HalfwayStore
  <2>3. CASE op.kind = "create"
    BY <2>3, CreateSucceeds
  <2>4. CASE op.kind = "update"
    BY <2>4, UpdateSucceeds
  <2> QED
    BY <2>1, <2>2, <2>3, <2>4 DEF Asked
<1> QED
  BY <1>1, <1>2, <1>3 DEF Halfway

LEMMA ExecutedSucceeds ==
  ASSUME NEW n, Undisturbed(n), PlanTyped, phase # "editing", Covered, ParentsFirst(plan.order)
  PROVE  Executed(n).ok
<1>0. Sending(n) /\ Forest /\ db = catalog /\ DOMAIN db = Stored /\ DOMAIN originals \subseteq Stored
  BY CatalogRows DEF Undisturbed, Sending
<1>1. /\ \A op \in plan.operations : Asked(op)
      /\ Asks(plan.operations)
      /\ {plan.order[i] : i \in DOMAIN plan.order} = plan.operations
  BY <1>0 DEF Sending, Fits, Covered
<1>2. PICK k \in Nat : DOMAIN plan.order = 1..k
  BY DEF PlanTyped
<1>3. PICK state :
        /\ state[0] = Start
        /\ \A i \in 1..k : state[i] = Perform(state[i - 1], plan.order[i], n)
        /\ Executed(n) = state[k]
  BY <1>2, ExecutionSteps
<1>4. Valid
  <2>1. ASSUME NEW op \in plan.operations, op.kind \in {"update", "delete"}
        PROVE  op.id \in DOMAIN originals
    BY <1>1, <2>1 DEF Asked, InBoth
  <2> QED
    BY <1>0, <2>1 DEF Valid
<1> DEFINE done(i) == {plan.order[j] : j \in 1..i}
<1>5. Halfway(Start, {}, n)
  <2>1. Amid(Start, {}, n)
    BY <1>0, AmidStart
  <2> QED
    BY <1>4, <2>1 DEF Halfway, Start
<1>6. ASSUME NEW i \in 1..k PROVE Asked(plan.order[i])
  BY <1>1, <1>2
<1>7. ASSUME NEW i \in 1..k, Halfway(state[i - 1], done(i - 1), n)
      PROVE  Halfway(state[i], done(i), n)
  <2> DEFINE op == plan.order[i]
  <2>1. 1..i = (1..(i - 1)) \cup {i} /\ 1..(i - 1) \subseteq 1..k /\ i \notin 1..(i - 1)
    OBVIOUS
  <2>2. done(i) = done(i - 1) \cup {op}
    BY <2>1
  <2>3. Asked(op) /\ state[i] = Perform(state[i - 1], op, n)
    BY <1>3, <1>6
  <2>4. ASSUME op.kind = "create", op.id \in Created(done(i - 1)) PROVE FALSE
    <3>1. PICK o \in done(i - 1) : o.kind = "create" /\ o.id = op.id
      BY <2>4 DEF Created
    <3>2. PICK j \in 1..(i - 1) : o = plan.order[j]
      OBVIOUS
    <3>3. Asked(o) /\ j \in 1..k
      BY <1>6, <2>1, <3>2
    <3>4. o = op
      BY <2>3, <2>4, <3>1, <3>3 DEF Asked
    <3>5. j = i
      BY <1>2, <3>2, <3>3, <3>4 DEF ParentsFirst
    <3> QED
      BY <2>1, <3>5
  <2>5. ASSUME op.kind \in {"create", "update"}, entries[op.id].parent \in Draft
        PROVE  entries[op.id].parent \in Created(done(i - 1))
    <3> DEFINE d == entries[op.id].parent
    <3>1. op.id \in DOMAIN entries
      BY <2>3, <2>5 DEF Asked, InBoth
    <3>2. d \in DOMAIN entries /\ d \notin InBoth
      BY <1>0, <2>5, <3>1, SendingIds, SendingRows
    <3>3. [kind |-> "create", id |-> d] \in plan.operations
      BY <1>1, <3>2 DEF Asks, Operation
    <3>4. PICK j \in 1..k : plan.order[j] = [kind |-> "create", id |-> d]
      BY <1>1, <1>2, <3>3
    <3>5. plan.order[j].kind = "create" /\ plan.order[j].id = d
      BY <3>4
    <3>6. j < i
      BY <1>2, <2>5, <3>5 DEF ParentsFirst
    <3>7. j \in 1..(i - 1)
      BY <3>6
    <3>8. [kind |-> "create", id |-> d] \in done(i - 1)
      BY <3>4, <3>7
    <3> QED
      BY <3>8, OperationDone
  <2> HIDE DEF done, op
  <2> QED
    BY <1>7, <2>2, <2>3, <2>4, <2>5, PerformSucceeds
<1>8. done(0) = {}
  OBVIOUS
<1> HIDE DEF done
<1> DEFINE Bad == {i \in 0..k : ~Halfway(state[i], done(i), n)}
<1>9. Bad = {}
  <2> SUFFICES ASSUME Bad # {} PROVE FALSE
    OBVIOUS
  <2>1. Bad \in SUBSET Nat
    OBVIOUS
  <2>2. PICK i \in Bad : \A j \in Bad : i <= j
    <3> HIDE DEF Bad
    <3> QED
      BY <2>1, LeastNumber
  <2>3. i \in 0..k /\ ~Halfway(state[i], done(i), n)
    OBVIOUS
  <2>4. i # 0
    BY <1>3, <1>5, <1>8, <2>3
  <2>5. i \in 1..k /\ i - 1 \in 0..k /\ i - 1 \notin Bad
    <3> HIDE DEF Bad
    <3> QED
      BY <2>1, <2>2, <2>3, <2>4
  <2>6. Halfway(state[i - 1], done(i - 1), n)
    BY <2>5
  <2> QED
    BY <1>7, <2>3, <2>5, <2>6
<1>10. Halfway(state[k], done(k), n)
  BY <1>9
<1> QED
  BY <1>3, <1>10 DEF Halfway

LEMMA OneMoved ==
  ASSUME SInv, ~(Cardinality(Moved) > 1)
  PROVE  \A p, q \in Moved : p = q
<1> SUFFICES ASSUME NEW p \in Moved, NEW q \in Moved, p # q PROVE FALSE
  OBVIOUS
<1>1. IsFiniteSet(Moved)
  <2>1. IsFiniteSet(DOMAIN entries)
    BY FiniteRows DEF SInv, SurfaceTypeOK
  <2>2. Moved \in SUBSET DOMAIN entries
    BY DEF Moved
  <2> QED
    BY <2>1, <2>2, FS_Subset
<1>2. IsFiniteSet({p}) /\ Cardinality({p}) = 1
  BY FS_Singleton
<1>3. Cardinality({p} \cup {q}) = 2
  BY <1>2, FS_AddElement
<1>4. Cardinality({p} \cup {q}) <= Cardinality(Moved) /\ Cardinality(Moved) \in Nat
  <2>1. {p} \cup {q} \in SUBSET Moved
    OBVIOUS
  <2> QED
    BY <1>1, <2>1, FS_Subset, FS_CardinalityType
<1> QED
  BY <1>3, <1>4

\* The page and the store when a plan is sent that may be refused.
ReadyToRefuse ==
  /\ Ready /\ Forest /\ StaysStructured
  /\ UsersAreOwn /\ Baseline /\ Untouched /\ PlanOrdered

\* The members that would be deleted and have a license.
LicensedRemoved == (DOMAIN originals \ DOMAIN entries) \cap Licensed

LEMMA RefuseExplained ==
  ASSUME ReadyToRefuse, Refuse, others = 0, doubtful = {}, Structured(catalog)
  PROVE  LicensedRemoved # {} \/ DraftLinks # {} \/ SharedUsers # {} \/ Cardinality(Moved) > 1
<1> SUFFICES ASSUME LicensedRemoved = {}, DraftLinks = {}, SharedUsers = {},
                    ~(Cardinality(Moved) > 1)
             PROVE  FALSE
  OBVIOUS
<1> DEFINE n == submits'
<1>1. /\ phase \in {"reviewed", "failed"} /\ n = submits + 1 /\ n \in Attempt
      /\ submits \in Nat /\ ~Executed(n).ok
  BY BoundsAssumption DEF Refuse, Sends, Attempt, ReadyToRefuse, Ready, CommitTypeOK
<1>2. n - 1 = submits
  BY <1>1
<1> HIDE DEF n
<1>3. Sending(n)
  <2>1. Fits(plan) /\ DOMAIN originals \subseteq Stored
    BY <1>1 DEF ReadyToRefuse, Ready, PlanFits, OriginalsStored
  <2>2. Known(db, n - 1)
    BY <1>2 DEF ReadyToRefuse, Ready, Numbered
  <2> QED
    BY <1>1, <2>1, <2>2 DEF ReadyToRefuse, Ready, Records, Sending
<1>4. db = catalog /\ users = User
  BY <1>1 DEF ReadyToRefuse, Untouched
<1>5. Undisturbed(n)
  <2>1. catalog \in Catalogs /\ \A p, q \in Moved : p = q
    BY OneMoved DEF ReadyToRefuse, Ready, SInv, SurfaceTypeOK
  <2>2. Placeable(entries) /\ PersonRows(entries)
    BY DEF ReadyToRefuse, StaysStructured, RowsOfPersons
  <2> QED
    BY <1>1, <1>3, <1>4, <2>1, <2>2
       DEF Undisturbed, ReadyToRefuse, Baseline, UsersAreOwn, LicensedRemoved
<1>6. PlanTyped /\ Covered /\ ParentsFirst(plan.order)
  BY <1>1 DEF ReadyToRefuse, Ready, PlanOrdered
<1> QED
  BY <1>1, <1>5, <1>6, ExecutedSucceeds

LEMMA RefusedStays ==
  ASSUME CommitTypeOK, [CommitNext]_vars, phase' = "refused"
  PROVE  \/ Refuse
         \/ others' # 0
         \/ phase = "refused" /\ UNCHANGED <<entries, originals, others, doubtful>>
<1>0. others \in Nat
  BY DEF CommitTypeOK
<1>1. CASE EditWorkspace
  BY <1>1 DEF EditWorkspace, commitVars
<1>2. CASE \/ Review \/ Dismiss \/ Execute \/ Deny \/ LoseAnswer \/ LoseRollback \/ Finalize \/ Accept
           \/ LoseResponse \/ \E reached \in BOOLEAN : LoseFinalization(reached)
  BY <1>2 DEF Review, Dismiss, Execute, Deny, LoseAnswer, LoseRollback, Finalize, Accept, LoseResponse,
              LoseFinalization
<1>3. CASE Refuse
  BY <1>3
<1>4. CASE Restart
  BY <1>4 DEF Restart, surfaceVars
<1>5. CASE \E n \in Attempt : Expire(n)
  BY <1>5 DEF Expire, surfaceVars
<1>6. \A s, b : WriteByOther(s, b) => others' # 0
  BY <1>0 DEF WriteByOther
<1>7. CASE \/ \E p \in Stored, up \in Stored \cup {None} : MoveByOther(p, up)
           \/ \E p \in Stored, u \in User \cup {None} : LinkByOther(p, u)
           \/ \E p \in Stored : DeleteByOther(p)
           \/ \E p \in Stored, up \in Stored \cup {None}, u \in User \cup {None} :
                AggregateByOther(p, up, u)
  BY <1>6, <1>7 DEF MoveByOther, LinkByOther, DeleteByOther, AggregateByOther
<1>8. CASE UNCHANGED vars
  BY <1>8 DEF vars, surfaceVars, commitVars
<1> QED
  BY <1>1, <1>2, <1>3, <1>4, <1>5, <1>7, <1>8 DEF CommitNext

LEMMA ExplainedNext ==
  ASSUME ReadyToRefuse, RefusalsAreExplained, [CommitNext]_vars
  PROVE  RefusalsAreExplained'
<1> SUFFICES ASSUME phase' = "refused", others' = 0, doubtful' = {},
                    Structured(catalog)'
             PROVE  (\/ LicensedRemoved # {} \/ DraftLinks # {}
                     \/ SharedUsers # {} \/ Cardinality(Moved) > 1)'
  BY DEF RefusalsAreExplained, LicensedRemoved
<1>0. Structured(catalog)
  BY CatalogStays
<1>1. UNCHANGED <<entries, originals, others, doubtful>> /\ (Refuse \/ phase = "refused")
  <2>1. CommitTypeOK
    BY DEF ReadyToRefuse, Ready
  <2>2. CASE Refuse
    BY <2>2 DEF Refuse, surfaceVars
  <2> QED
    BY <2>1, <2>2, RefusedStays
<1>2. LicensedRemoved # {} \/ DraftLinks # {} \/ SharedUsers # {} \/ Cardinality(Moved) > 1
  BY <1>0, <1>1, RefuseExplained DEF RefusalsAreExplained, LicensedRemoved
<1>3. /\ LicensedRemoved' = LicensedRemoved /\ DraftLinks' = DraftLinks
      /\ SharedUsers' = SharedUsers /\ Moved' = Moved
  BY <1>1 DEF LicensedRemoved, DraftLinks, SharedUsers, Moved
<1> QED
  BY <1>2, <1>3

\* Where the collection has the structure of the service, the rows of a Commit
\* nobody has disturbed are refused only if a removed member has a license, if
\* a member is linked to a user created with it, if two members share a user,
\* or if several were moved: the plan's order puts every parent before what
\* refers to it.
THEOREM RefusalsExplained == Spec => []RefusalsAreExplained
<1>1. CommitInit => UsersAreOwn /\ Baseline /\ Untouched /\ PlanOrdered /\ RefusalsAreExplained
  BY OwnInit DEF CommitInit, RefusalsAreExplained
<1>2. /\ SInv /\ CommitTypeOK /\ Forest
      /\ UsersAreOwn /\ Baseline /\ Untouched /\ PlanOrdered
      /\ [CommitNext]_vars
      => UsersAreOwn' /\ Baseline' /\ Untouched' /\ PlanOrdered'
  BY OwnNext, UntouchedNext, PlanOrderedNext
<1>3. /\ SInv /\ CommitTypeOK /\ Forest /\ WorkspaceIsForest /\ Records
      /\ StaysStructured /\ OriginalsStored /\ PlanTyped /\ PlanFits /\ Numbered
      /\ UsersAreOwn /\ Baseline /\ Untouched /\ PlanOrdered
      => ReadyToRefuse
  BY DEF ReadyToRefuse, Ready
<1>4. ReadyToRefuse /\ RefusalsAreExplained /\ [CommitNext]_vars => RefusalsAreExplained'
  BY ExplainedNext
<1> QED
  BY <1>1, <1>2, <1>3, <1>4, Invariance, ForestHolds, StructureHolds, WorkspaceStaysForest,
     RecordsHold, PlanHolds, PTL DEF Spec
================================================================================
