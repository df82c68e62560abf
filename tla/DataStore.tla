------------------------------ MODULE DataStore ------------------------------
(***************************************************************************)
(* InMemoryDataStore.executeTransaction and JsonFilePersistence: records   *)
(* live in Maps and every mutating operation saves the whole state through *)
(* one temporary file, database.json.tmp, that is renamed over the JSON    *)
(* file.  An action is what runs between two awaits of real I/O; files are *)
(* inodes, since a rename moves a file another writer may still hold open. *)
(***************************************************************************)
CONSTANTS
  Key,       \* records of the database
  Op,        \* mutating operations, each run once, outermost boundary
  Base,      \* the JSON file as it was at start
  None,      \* no temporary file
  Empty,     \* a file truncated by open(path, 'w')
  Torn,      \* a file two writers wrote into
  Serial     \* whether an operation starts only when no other is in flight

ASSUME OpAssumption == Base \notin Op /\ None \notin Op \cup {Base}
ASSUME FileAssumption == \A f \in [Key -> Op \cup {Base}] : Empty # f /\ Torn # f
ASSUME SerialAssumption == Serial \in BOOLEAN

VARIABLES
  memory,    \* the state Maps: the operation that wrote each record last
  disk,      \* inode behind database.json
  tmp,       \* inode behind database.json.tmp, or None
  content,   \* content of each inode
  up,        \* whether the process runs
  pc,        \* operation: where it is in executeTransaction and save
  snapshot,  \* operation: its structuredClone of the state
  todo,      \* operation: records its callback has still to write
  image,     \* operation: the persisted records captured by save
  fd,        \* operation: the inode its writeFile holds open
  result     \* operation: "none", "ok", "failed", "uncertain", "lost" by a crash

storeVars == <<memory, disk, tmp, content, up>>
opVars == <<pc, snapshot, todo, image, fd, result>>
vars == <<storeVars, opVars>>

State == [Key -> Op \cup {Base}]
Inode == Op \cup {Base}
Initially == [k \in Key |-> Base]

Init ==
  /\ memory = Initially
  /\ disk = Base
  /\ tmp = None
  /\ content = [i \in Inode |-> IF i = Base THEN Initially ELSE Empty]
  /\ up = TRUE
  /\ pc = [op \in Op |-> "idle"]
  /\ snapshot = [op \in Op |-> Initially]
  /\ todo = [op \in Op |-> {}]
  /\ image = [op \in Op |-> Initially]
  /\ fd = [op \in Op |-> None]
  /\ result = [op \in Op |-> "none"]

Stages == {"mutating", "saving", "opened", "written", "renamed"}
InFlight == {op \in Op : pc[op] \in Stages}

Goto(op, from, to) ==
  /\ up
  /\ pc[op] = from
  /\ pc' = [pc EXCEPT ![op] = to]

-----------------------------------------------------------------------------
\* executeTransaction: clone the whole state, then run the callback.  A
\* callback without records to write is flush().
Begin(op, S) ==
  /\ Serial => InFlight = {}
  /\ Goto(op, "idle", "mutating")
  /\ snapshot' = [snapshot EXCEPT ![op] = memory]
  /\ todo' = [todo EXCEPT ![op] = S]
  /\ UNCHANGED <<storeVars, image, fd, result>>

\* The callback writes one record; it may await between two of them.
Mutate(op, k) ==
  /\ up
  /\ pc[op] = "mutating"
  /\ k \in todo[op]
  /\ memory' = [memory EXCEPT ![k] = op]
  /\ todo' = [todo EXCEPT ![op] = @ \ {k}]
  /\ UNCHANGED <<disk, tmp, content, up, pc, snapshot, image, fd, result>>

\* The callback returns: save() captures the Maps before its first await.
StartSave(op) ==
  /\ todo[op] = {}
  /\ Goto(op, "mutating", "saving")
  /\ image' = [image EXCEPT ![op] = memory]
  /\ UNCHANGED <<storeVars, snapshot, todo, fd, result>>

\* Mutant: the JSON file is written in place.
OpensDatabase(op) == disk

\* open(tmp, 'w') creates the file or truncates the one that is there.
OpensTemporary(op) == IF tmp = None THEN op ELSE tmp

OpenTmp(op) ==
  /\ Goto(op, "saving", "opened")
  /\ fd' = [fd EXCEPT ![op] = OpensTemporary(op)]
  /\ content' = [content EXCEPT ![OpensTemporary(op)] = Empty]
  /\ tmp' = OpensTemporary(op)
  /\ UNCHANGED <<memory, disk, up, snapshot, todo, image, result>>

\* The file is written whole, unless another writer's bytes are in it.
WriteTmp(op) ==
  /\ Goto(op, "opened", "written")
  /\ content' = [content EXCEPT ![fd[op]] = IF @ \in {Empty, image[op]} THEN image[op] ELSE Torn]
  /\ UNCHANGED <<memory, disk, tmp, up, snapshot, todo, image, fd, result>>

RenameTmp(op) ==
  /\ tmp # None
  /\ Goto(op, "written", "renamed")
  /\ disk' = tmp
  /\ tmp' = None
  /\ UNCHANGED <<memory, content, up, snapshot, todo, image, fd, result>>

Return(op) ==
  /\ Goto(op, "renamed", "done")
  /\ result' = [result EXCEPT ![op] = "ok"]
  /\ UNCHANGED <<storeVars, snapshot, todo, image, fd>>

\* Mutant: the state is left as the failed callback had it.
KeptState(op) == memory

\* restoreState: every Map is refilled from the operation's snapshot.
RestoredState(op) == snapshot[op]

\* The callback, mkdir, open, write or rename throws, or another writer has
\* renamed the temporary file away (ENOENT): restore the Maps and rethrow.
FailOp(op) ==
  /\ \/ Goto(op, "mutating", "done")
     \/ Goto(op, "saving", "done")
     \/ Goto(op, "opened", "done")
     \/ Goto(op, "written", "done")
  /\ memory' = RestoredState(op)
  /\ result' = [result EXCEPT ![op] = "failed"]
  /\ UNCHANGED <<disk, tmp, content, up, snapshot, todo, image, fd>>

\* "Its exact on-disk outcome may be uncertain": the save is reported failed
\* although it reached the disk, or enlisting the operation's rollback throws
\* behind it, in the same try.  The Maps are restored under the new file.
FailSavedOp(op) ==
  /\ Goto(op, "renamed", "done")
  /\ memory' = RestoredState(op)
  /\ result' = [result EXCEPT ![op] = "uncertain"]
  /\ UNCHANGED <<disk, tmp, content, up, snapshot, todo, image, fd>>

-----------------------------------------------------------------------------
\* The process dies; what it had not answered stays unanswered.
Crash ==
  /\ up
  /\ up' = FALSE
  /\ pc' = [op \in Op |-> IF op \in InFlight THEN "done" ELSE pc[op]]
  /\ result' = [op \in Op |-> IF op \in InFlight THEN "lost" ELSE result[op]]
  /\ UNCHANGED <<memory, disk, tmp, content, snapshot, todo, image, fd>>

\* load(): a file that does not parse keeps the process from starting.
Restart ==
  /\ ~up
  /\ content[disk] \notin {Empty, Torn}
  /\ up' = TRUE
  /\ memory' = content[disk]
  /\ UNCHANGED <<disk, tmp, content, opVars>>

OpNext(op) ==
  \/ \E S \in SUBSET Key : Begin(op, S)
  \/ \E k \in Key : Mutate(op, k)
  \/ StartSave(op)
  \/ OpenTmp(op)
  \/ WriteTmp(op)
  \/ RenameTmp(op)
  \/ Return(op)
  \/ FailOp(op)
  \/ FailSavedOp(op)

Next == (\E op \in Op : OpNext(op)) \/ Crash \/ Restart

Spec == Init /\ [][Next]_vars

-----------------------------------------------------------------------------
TypeOK ==
  /\ memory \in State
  /\ disk \in Inode
  /\ tmp \in Inode \cup {None}
  /\ content \in [Inode -> State \cup {Empty, Torn}]
  /\ up \in BOOLEAN
  /\ pc \in [Op -> Stages \cup {"idle", "done"}]
  /\ snapshot \in [Op -> State]
  /\ todo \in [Op -> SUBSET Key]
  /\ image \in [Op -> State]
  /\ fd \in [Op -> Inode \cup {None}]
  /\ result \in [Op -> {"none", "ok", "failed", "uncertain", "lost"}]

\* Whatever step fails and whenever the process dies, database.json parses:
\* the next start never finds the file half written.
DatabaseIsWhole == content[disk] \in State

\* m is what a restart would load, unless an operation's outcome is uncertain:
\* then the file may be ahead by records of that one operation.
Agrees(m) ==
  \/ content[disk] = m
  \/ \E op \in Op : result[op] = "uncertain" /\ \A k \in Key : content[disk][k] \in {op, m[k]}

\* Between operations the Maps the services read are what a restart would
\* load, after failed saves too; only one whose failure was reported after it
\* reached the disk may be found there, until the next save writes over it.
MemoryMatchesDisk == up /\ InFlight = {} => Agrees(memory)

\* An operation that failed before its save reached the disk has left no record
\* behind in database.json ("or persisted state remains unchanged",
\* docs/storage/Data-and-Storage-Architecture.md:105).
FailedWritesLeaveNoTrace ==
  \A op \in Op :
    result[op] = "failed" /\ content[disk] \in State
      => \A k \in Key : content[disk][k] # op

\* What clients see while operations run one at a time: the state before the
\* one in flight, and after a crash what the next start will load.
Seen ==
  IF ~up THEN content[disk]
  ELSE IF InFlight = {} THEN memory
  ELSE snapshot[CHOOSE op \in InFlight : TRUE]

\* The store implements the atomic one: each operation's records reach
\* database.json together, before its success is reported and never after
\* its failure is; of an uncertain one either all or none are found after a
\* crash, and none once another operation has succeeded.
Atomic == INSTANCE AtomicStore WITH
  db <- content[disk],
  seen <- Seen,
  status <- [op \in Op |-> IF pc[op] = "renamed" THEN "applied" ELSE result[op]]
AtomicSpec == Atomic!Spec
=============================================================================
