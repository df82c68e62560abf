-------------------------- MODULE DataStoreProofs --------------------------
(***************************************************************************)
(* What TLAPS proves of DataStore for every set of records and operations: *)
(* its types always, and with one operation in flight at a time that       *)
(* database.json is whole, that the Maps match it, and that the store      *)
(* implements AtomicStore through failures, crashes and restarts.          *)
(***************************************************************************)
EXTENDS DataStore, TLAPS

-----------------------------------------------------------------------------
\* Type correctness.

LEMMA StateFacts ==
  /\ Initially \in State
  /\ Empty \notin State /\ Torn \notin State
  /\ None \notin Inode
BY OpAssumption, FileAssumption DEF Initially, State, Inode

\* Every variable keeps its type, whatever operations overlap.
THEOREM TypeCorrect == Spec => []TypeOK
<1> USE DEF TypeOK, Inode, Stages
<1>1. Init => TypeOK
  BY StateFacts DEF Init
<1>2. TypeOK /\ [Next]_vars => TypeOK'
  <2> SUFFICES ASSUME TypeOK, [Next]_vars PROVE TypeOK'
    OBVIOUS
  <2> USE DEF storeVars, opVars, Goto
  <2>1. ASSUME NEW op \in Op, NEW S \in SUBSET Key, Begin(op, S) PROVE TypeOK'
    BY <2>1 DEF Begin
  <2>2. ASSUME NEW op \in Op, NEW k \in Key, Mutate(op, k) PROVE TypeOK'
    BY <2>2 DEF Mutate, State
  <2>3. ASSUME NEW op \in Op, StartSave(op) PROVE TypeOK'
    BY <2>3 DEF StartSave
  <2>4. ASSUME NEW op \in Op, OpenTmp(op) PROVE TypeOK'
    BY <2>4 DEF OpenTmp, OpensTemporary
  <2>5. ASSUME NEW op \in Op, WriteTmp(op) PROVE TypeOK'
    BY <2>5 DEF WriteTmp
  <2>6. ASSUME NEW op \in Op, RenameTmp(op) PROVE TypeOK'
    BY <2>6 DEF RenameTmp
  <2>7. ASSUME NEW op \in Op, Return(op) PROVE TypeOK'
    BY <2>7 DEF Return
  <2>8. ASSUME NEW op \in Op, FailOp(op) PROVE TypeOK'
    BY <2>8 DEF FailOp, RestoredState
  <2>12. ASSUME NEW op \in Op, FailSavedOp(op) PROVE TypeOK'
    BY <2>12 DEF FailSavedOp, RestoredState
  <2>9. CASE Crash
    BY <2>9 DEF Crash, InFlight
  <2>10. CASE Restart
    BY <2>10 DEF Restart
  <2>11. CASE UNCHANGED vars
    BY <2>11 DEF vars
  <2> QED
    BY <2>1, <2>2, <2>3, <2>4, <2>5, <2>6, <2>7, <2>8, <2>9, <2>10, <2>11, <2>12
    DEF Next, OpNext
<1> QED
  BY <1>1, <1>2, PTL DEF Spec

-----------------------------------------------------------------------------
(***************************************************************************)
(* The inductive invariant of the serial store.                            *)
(***************************************************************************)

\* At most one operation is in flight, and none while the process is down.
OneAtATime ==
  /\ \A a, b \in InFlight : a = b
  /\ ~up => InFlight = {}

\* The temporary file is never the database, and an operation's own inode is
\* not in use before it opens the file.
FreshInodes ==
  /\ tmp # disk
  /\ \A op \in Op : pc[op] \in {"idle", "mutating", "saving"} => op # disk /\ op # tmp

\* What the open file of the operation in flight holds.
FileOfTheOperation ==
  \A op \in Op :
    /\ pc[op] \in {"opened", "written"} => fd[op] = tmp /\ tmp \in Inode
    /\ pc[op] = "opened" => content[tmp] = Empty
    /\ pc[op] = "written" => content[tmp] = image[op]

\* Until the rename the snapshot is what is on disk, an uncertain operation
\* apart, and the Maps differ from the snapshot only in records the operation
\* wrote; the rename brings them to the disk.
Uncommitted == {"mutating", "saving", "opened", "written"}

MapsOfTheOperation ==
  \A op \in Op :
    /\ pc[op] \in Uncommitted =>
         /\ Agrees(snapshot[op])
    /\ pc[op] \in Uncommitted \cup {"renamed"} =>
         \A k \in Key : memory[k] \in {op, snapshot[op][k]}
    /\ pc[op] \in {"saving", "opened", "written"} => image[op] = memory
    /\ pc[op] = "renamed" => memory = content[disk]

ResultFollowsPc ==
  \A op \in Op : pc[op] # "done" => result[op] = "none"

SerialInv ==
  /\ OneAtATime
  /\ DatabaseIsWhole
  /\ FreshInodes
  /\ FileOfTheOperation
  /\ MapsOfTheOperation
  /\ MemoryMatchesDisk
  /\ ResultFollowsPc

LEMMA SerialInit == Init => SerialInv
BY StateFacts, OpAssumption
   DEF Init, SerialInv, OneAtATime, DatabaseIsWhole, FreshInodes, FileOfTheOperation,
       MapsOfTheOperation, MemoryMatchesDisk, Agrees, ResultFollowsPc, InFlight, Stages,
       Uncommitted, Inode

\* One operation at a time: a new one starts only when none is in flight.
LEMMA OneAtATimeStep ==
  ASSUME Serial = TRUE, TypeOK, OneAtATime, [Next]_vars
  PROVE  OneAtATime'
<1> USE DEF TypeOK, OneAtATime, InFlight, Stages, Goto, storeVars, opVars
<1>1. ASSUME NEW op \in Op, NEW S \in SUBSET Key, Begin(op, S) PROVE OneAtATime'
  BY <1>1 DEF Begin
<1>2. ASSUME NEW op \in Op, NEW k \in Key, Mutate(op, k) PROVE OneAtATime'
  BY <1>2 DEF Mutate
<1>3. ASSUME NEW op \in Op,
             \/ StartSave(op) \/ OpenTmp(op) \/ WriteTmp(op) \/ RenameTmp(op)
             \/ Return(op) \/ FailOp(op) \/ FailSavedOp(op)
      PROVE OneAtATime'
  BY <1>3 DEF StartSave, OpenTmp, WriteTmp, RenameTmp, Return, FailOp, FailSavedOp
<1>4. CASE Crash
  BY <1>4 DEF Crash
<1>5. CASE Restart
  BY <1>5 DEF Restart
<1>6. CASE UNCHANGED vars
  BY <1>6 DEF vars
<1> QED
  BY <1>1, <1>2, <1>3, <1>4, <1>5, <1>6 DEF Next, OpNext

\* Every step keeps the rest of the invariant; the operation that steps is
\* the only one in flight.
LEMMA SerialStep ==
  ASSUME Serial = TRUE, TypeOK, SerialInv, [Next]_vars
  PROVE  SerialInv'
<1>0. OneAtATime'
  BY OneAtATimeStep DEF SerialInv
<1> USE DEF TypeOK, SerialInv, OneAtATime, DatabaseIsWhole, FreshInodes, FileOfTheOperation,
            MapsOfTheOperation, MemoryMatchesDisk, Agrees, ResultFollowsPc, Uncommitted,
            InFlight, Stages, Goto, storeVars, opVars
<1>1. ASSUME NEW op \in Op, NEW S \in SUBSET Key, Begin(op, S) PROVE SerialInv'
  BY <1>0, <1>1 DEF Begin, State
<1>2. ASSUME NEW op \in Op, NEW k \in Key, Mutate(op, k) PROVE SerialInv'
  BY <1>0, <1>2 DEF Mutate, State
<1>3. ASSUME NEW op \in Op, StartSave(op) PROVE SerialInv'
  BY <1>0, <1>3 DEF StartSave
<1>4. ASSUME NEW op \in Op, OpenTmp(op) PROVE SerialInv'
  BY <1>0, <1>4, StateFacts DEF OpenTmp, OpensTemporary, Inode
<1>5. ASSUME NEW op \in Op, WriteTmp(op) PROVE SerialInv'
  BY <1>0, <1>5, StateFacts DEF WriteTmp, Inode
<1>6. ASSUME NEW op \in Op, RenameTmp(op) PROVE SerialInv'
  BY <1>0, <1>6, StateFacts DEF RenameTmp, Inode
<1>7. ASSUME NEW op \in Op, Return(op) PROVE SerialInv'
  BY <1>0, <1>7 DEF Return
<1>8. ASSUME NEW op \in Op, FailOp(op) PROVE SerialInv'
  BY <1>0, <1>8 DEF FailOp, RestoredState
<1>12. ASSUME NEW op \in Op, FailSavedOp(op) PROVE SerialInv'
  BY <1>0, <1>12 DEF FailSavedOp, RestoredState
<1>9. CASE Crash
  BY <1>0, <1>9 DEF Crash
<1>10. CASE Restart
  BY <1>0, <1>10 DEF Restart
<1>11. CASE UNCHANGED vars
  BY <1>0, <1>11 DEF vars
<1> QED
  BY <1>1, <1>2, <1>3, <1>4, <1>5, <1>6, <1>7, <1>8, <1>9, <1>10, <1>11, <1>12
  DEF Next, OpNext

-----------------------------------------------------------------------------
\* The serial store keeps its invariant.
LEMMA SerialInvariance ==
  ASSUME Serial = TRUE
  PROVE  Spec => [](TypeOK /\ SerialInv)
<1>1. TypeOK /\ SerialInv /\ TypeOK' /\ [Next]_vars => SerialInv'
  BY SerialStep
<1> QED
  BY <1>1, SerialInit, TypeCorrect, PTL DEF Spec

\* With one operation in flight, database.json parses at every moment: no
\* failure and no crash between two steps of a save leaves it half written.
THEOREM DatabaseStaysWhole ==
  ASSUME Serial = TRUE
  PROVE  Spec => []DatabaseIsWhole
BY SerialInvariance, PTL DEF SerialInv

\* With one operation in flight, the Maps between operations are what a
\* restart would load, whatever failed before, but for the records of at most
\* one operation whose save was reported failed after it had reached the disk.
THEOREM MapsStayOnDisk ==
  ASSUME Serial = TRUE
  PROVE  Spec => []MemoryMatchesDisk
BY SerialInvariance, PTL DEF SerialInv

-----------------------------------------------------------------------------
\* The refinement.

MappedStatus == [op \in Op |-> IF pc[op] = "renamed" THEN "applied" ELSE result[op]]

\* What clients see while op is in flight, and while nothing is.
LEMMA SeenInFlight ==
  ASSUME OneAtATime, up, NEW op \in InFlight
  PROVE  Seen = snapshot[op]
<1>1. (CHOOSE a \in InFlight : TRUE) \in InFlight
  OBVIOUS
<1>2. (CHOOSE a \in InFlight : TRUE) = op
  BY <1>1 DEF OneAtATime
<1>3. InFlight # {}
  OBVIOUS
<1> QED
  BY <1>2, <1>3 DEF Seen

LEMMA SeenInFlightNext ==
  ASSUME OneAtATime', up', NEW op, op \in InFlight'
  PROVE  Seen' = snapshot'[op]
<1>1. (CHOOSE a \in InFlight' : TRUE) \in InFlight'
  OBVIOUS
<1>2. (CHOOSE a \in InFlight' : TRUE) = op
  BY <1>1 DEF OneAtATime
<1>3. InFlight' # {}
  OBVIOUS
<1> QED
  BY <1>2, <1>3 DEF Seen

LEMMA InitRefines == Init => Atomic!Init
<1> SUFFICES ASSUME Init PROVE Atomic!Init
  OBVIOUS
<1>1. content[disk] = [k \in Key |-> Base]
  BY DEF Init, Initially, Inode
<1>2. MappedStatus = [op \in Op |-> "none"]
  BY DEF Init, MappedStatus
<1>3. Seen = [k \in Key |-> Base]
  BY DEF Init, Seen, InFlight, Stages, Initially
<1> QED
  BY <1>1, <1>2, <1>3 DEF Atomic!Init, MappedStatus

\* The rename is the step that applies the whole write set.
LEMMA RenameApplies ==
  ASSUME TypeOK, SerialInv, OneAtATime', NEW op \in Op, RenameTmp(op)
  PROVE  \E S \in SUBSET Key : Atomic!Apply(op, S)
<1> DEFINE S == {k \in Key : image[op][k] = op}
<1>1. content'[disk'] = image[op] /\ image[op] = memory
  BY DEF RenameTmp, Goto, TypeOK, SerialInv, FileOfTheOperation, MapsOfTheOperation, storeVars
<1>2. /\ op \in InFlight /\ up
      /\ op \in InFlight' /\ up'
      /\ snapshot' = snapshot
  BY DEF RenameTmp, Goto, TypeOK, InFlight, Stages
<1>3. Seen = snapshot[op] /\ Seen' = snapshot[op]
  BY <1>2, SeenInFlight, SeenInFlightNext DEF SerialInv
<1>4. \A k \in Key : memory[k] \in {op, snapshot[op][k]}
  BY DEF RenameTmp, Goto, TypeOK, SerialInv, MapsOfTheOperation, Uncommitted
<1>5. content'[disk'] = [k \in Key |-> IF k \in S THEN op ELSE snapshot[op][k]]
  BY <1>1, <1>4 DEF TypeOK, State
<1>6. MappedStatus[op] = "none" /\ MappedStatus' = [MappedStatus EXCEPT ![op] = "applied"]
  BY DEF RenameTmp, Goto, TypeOK, MappedStatus, SerialInv, ResultFollowsPc
<1>7. S \in SUBSET Key
  OBVIOUS
<1> HIDE DEF S
<1> QED
  BY <1>3, <1>5, <1>6, <1>7 DEF Atomic!Apply, MappedStatus

\* A step that leaves the operation in flight and its snapshot alone, or that
\* starts one, changes nothing clients see.
LEMMA BeginUnseen ==
  ASSUME Serial = TRUE, TypeOK, SerialInv, OneAtATime', NEW op \in Op, NEW S \in SUBSET Key, Begin(op, S)
  PROVE  Seen' = Seen
<1>1. InFlight = {} /\ up /\ op \in InFlight' /\ up' /\ snapshot'[op] = memory
  BY DEF Begin, Goto, TypeOK, InFlight, Stages, storeVars
<1> QED
  BY <1>1, SeenInFlightNext DEF Seen

LEMMA FlightUnseen ==
  ASSUME SerialInv, OneAtATime', up, up', NEW op \in InFlight, op \in InFlight', snapshot' = snapshot
  PROVE  Seen' = Seen
BY SeenInFlight, SeenInFlightNext DEF SerialInv

\* When the operation in flight ends, clients see the Maps.
LEMMA NothingInFlight ==
  ASSUME TypeOK, SerialInv, NEW op \in InFlight, pc' = [pc EXCEPT ![op] = "done"], up'
  PROVE  Seen' = memory'
<1>1. InFlight' = {}
  BY DEF TypeOK, SerialInv, OneAtATime, InFlight, Stages
<1> QED
  BY <1>1 DEF Seen

\* Every step of the serial store is a step of the atomic one, or none.
LEMMA StepRefines ==
  ASSUME Serial = TRUE, TypeOK, SerialInv, [Next]_vars
  PROVE  [Atomic!Next]_(Atomic!atomicVars)
<1>a. OneAtATime'
  BY OneAtATimeStep DEF SerialInv
<1> DEFINE Unseen == content'[disk'] = content[disk] /\ MappedStatus' = MappedStatus /\ Seen' = Seen
<1>0. ASSUME Unseen PROVE UNCHANGED Atomic!atomicVars
  BY <1>0 DEF Atomic!atomicVars, MappedStatus
<1> USE DEF TypeOK, Goto, storeVars, opVars, MappedStatus
<1>1. ASSUME NEW op \in Op, NEW S \in SUBSET Key, Begin(op, S) PROVE Unseen
  BY <1>1, <1>a, BeginUnseen DEF Begin
<1>2. ASSUME NEW op \in Op, NEW k \in Key, Mutate(op, k) PROVE Unseen
  <2>1. Seen' = Seen
    BY <1>2, <1>a, FlightUnseen DEF Mutate, InFlight, Stages
  <2> QED
    BY <1>2, <2>1 DEF Mutate
<1>3. ASSUME NEW op \in Op, StartSave(op) PROVE Unseen
  <2>1. Seen' = Seen
    BY <1>3, <1>a, FlightUnseen DEF StartSave, InFlight, Stages
  <2> QED
    BY <1>3, <2>1 DEF StartSave
<1>4. ASSUME NEW op \in Op, OpenTmp(op) PROVE Unseen
  <2>1. Seen' = Seen
    BY <1>4, <1>a, FlightUnseen DEF OpenTmp, InFlight, Stages
  <2> QED
    BY <1>4, <2>1, StateFacts DEF OpenTmp, OpensTemporary, SerialInv, FreshInodes, Inode
<1>5. ASSUME NEW op \in Op, WriteTmp(op) PROVE Unseen
  <2>1. Seen' = Seen
    BY <1>5, <1>a, FlightUnseen DEF WriteTmp, InFlight, Stages
  <2> QED
    BY <1>5, <2>1, StateFacts DEF WriteTmp, SerialInv, FreshInodes, FileOfTheOperation, Inode
<1>6. ASSUME NEW op \in Op, RenameTmp(op) PROVE Atomic!Next
  BY <1>6, <1>a, RenameApplies DEF Atomic!Next
<1>7. ASSUME NEW op \in Op, Return(op) PROVE Atomic!Next
  <2>1. Seen' = memory /\ memory = content[disk]
    BY <1>7, NothingInFlight DEF Return, InFlight, Stages, SerialInv, MapsOfTheOperation
  <2>2. Atomic!Succeed(op)
    BY <1>7, <2>1 DEF Return, Atomic!Succeed
  <2> QED
    BY <2>2 DEF Atomic!Next
<1>8. ASSUME NEW op \in Op, FailOp(op) PROVE Atomic!Next
  <2>1. op \in InFlight /\ up
    BY <1>8 DEF FailOp, InFlight, Stages
  <2>2. Seen' = memory'
    BY <1>8, <2>1, NothingInFlight DEF FailOp
  <2>3. Seen' = Seen
    BY <1>8, <2>1, <2>2, SeenInFlight DEF FailOp, RestoredState, SerialInv
  <2>4. Atomic!Fail(op)
    BY <1>8, <2>3 DEF FailOp, Atomic!Fail, SerialInv, ResultFollowsPc
  <2> QED
    BY <2>4 DEF Atomic!Next
<1>12. ASSUME NEW op \in Op, FailSavedOp(op) PROVE Atomic!Next
  <2>1. op \in InFlight /\ up
    BY <1>12 DEF FailSavedOp, InFlight, Stages
  <2>2. Seen' = memory'
    BY <1>12, <2>1, NothingInFlight DEF FailSavedOp
  <2>3. Seen' = Seen
    BY <1>12, <2>1, <2>2, SeenInFlight DEF FailSavedOp, RestoredState, SerialInv
  <2>4. Atomic!Doubt(op)
    BY <1>12, <2>3 DEF FailSavedOp, Atomic!Doubt
  <2> QED
    BY <2>4 DEF Atomic!Next
<1>9. CASE Crash
  <2>1. \A op \in InFlight : MappedStatus[op] \in {"none", "applied"}
    BY DEF InFlight, Stages, SerialInv, ResultFollowsPc
  <2>2. MappedStatus' = [op \in Op |-> IF op \in InFlight THEN "lost" ELSE MappedStatus[op]]
    BY <1>9 DEF Crash, InFlight, Stages
  <2>3. Seen' = content[disk]
    BY <1>9 DEF Crash, Seen
  <2>4. Atomic!Crash
    BY <1>9, <2>1, <2>2, <2>3 DEF Atomic!Crash, Crash, InFlight
  <2> QED
    BY <2>4 DEF Atomic!Next
<1>10. CASE Restart
  <2>1. InFlight' = {} /\ up' /\ ~up
    BY <1>10 DEF Restart, SerialInv, OneAtATime, InFlight, Stages
  <2>2. Seen' = Seen
    BY <1>10, <2>1 DEF Restart, Seen
  <2> QED
    BY <1>0, <1>10, <2>2 DEF Restart
<1>11. CASE UNCHANGED vars
  BY <1>0, <1>11 DEF vars, Seen, InFlight
<1> QED
  BY <1>0, <1>1, <1>2, <1>3, <1>4, <1>5, <1>6, <1>7, <1>8, <1>9, <1>10, <1>11, <1>12
  DEF Next, OpNext

\* With one operation in flight the store implements the atomic one: each
\* operation's records become persistent together, before it is reported done
\* and never if it failed earlier; those of a failure behind the rename are
\* found whole or not at all after a crash, and not once another succeeded.
THEOREM StoreImplementsAtomic ==
  ASSUME Serial = TRUE
  PROVE  Spec => AtomicSpec
<1>1. TypeOK /\ SerialInv /\ [Next]_vars => [Atomic!Next]_(Atomic!atomicVars)
  BY StepRefines
<1> QED
  BY <1>1, InitRefines, SerialInvariance, PTL DEF Spec, AtomicSpec, Atomic!Spec
=============================================================================
