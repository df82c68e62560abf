---------------------------- MODULE PictureField ----------------------------
(***************************************************************************)
(* Picture fields: the record holds references, the bytes are files of     *)
(* their own.  writePicture, replacePictureItems, clearPicture and delete  *)
(* (api/src/services/sysbo/generic-service.ts) coordinate the files, the   *)
(* data store and, in an explicit transaction, its compensation journal.   *)
(*                                                                         *)
(* One record; requests run one after the other, as the lease makes those  *)
(* of a transaction.  A dropped connection releases the lease, though: the *)
(* transaction may be finalized under the handler, which goes on.          *)
(* clearPicture is the replacement by no picture, a single picture field   *)
(* the one whose collections have one member.                              *)
(***************************************************************************)
EXTENDS Naturals, Sequences, FiniteSets, SequencesExt

CONSTANTS
  Pic,       \* picture revisions, each written at most once
  First,     \* the pictures of the record at start
  Gone,      \* the record is deleted
  Modes,     \* kinds of request made: subset of {"standalone", "explicit"}
  MaxRequests, \* bound: requests made
  Failing    \* steps that may fail, a subset of Faults

\* "uncertain" is a save that threw and yet replaced database.json while its
\* transaction lives, "unenlisted" the same outside one; "disconnect" is a
\* finalization under a handler whose connection was dropped.
Faults == {"write", "mutate", "save", "uncertain", "unenlisted", "supersede", "unlink",
           "restore", "crash", "disconnect"}

ASSUME PicAssumption == IsFiniteSet(Pic)
ASSUME FirstAssumption == First \subseteq Pic
ASSUME GoneAssumption == \A S \in SUBSET Pic : S # Gone
ASSUME ModesAssumption == Modes \subseteq {"standalone", "explicit"}
ASSUME MaxRequestsAssumption == MaxRequests \in Nat
ASSUME FailingAssumption == Failing \subseteq Faults

VARIABLES
  ref,        \* the field in the Maps: a set of pictures, or Gone
  saved,      \* the field in database.json
  files,      \* picture files on disk
  used,       \* revisions generated so far (randomUUID)
  requests,   \* requests made so far
  pc,         \* the running request: "idle", "writing", "saving", "saved", "cleanup"
  target,     \* the value it writes
  prev,       \* the value it read before its first await
  written,    \* files it has written
  snapshot,   \* executeTransaction's clone
  enlisted,   \* whether it carries the transaction's header
  tx,         \* "none", "open", "commit", "rollback", "committed", "rolledBack", "lost"
  commits,    \* registered commit actions
  rollbacks,  \* registered rollback actions
  todo,       \* actions the finalization has still to run
  atBegin,    \* history: the field when the transaction opened
  failed,     \* history: whether a request of the transaction failed
  faults      \* history: the kinds of fault, of those in Lasting, that happened

dataVars == <<ref, saved, files>>
localVars == <<target, prev, written, snapshot, enlisted>>
requestVars == <<used, requests, localVars>>
journalVars == <<tx, commits, rollbacks, todo, atBegin>>
vars == <<dataVars, pc, requestVars, journalVars, failed, faults>>

Value == (SUBSET Pic) \cup {Gone}
Pictures(v) == IF v = Gone THEN {} ELSE v

\* Actions of the journal.
Unlink(p) == [kind |-> "unlink", of |-> p]
Restore(v) == [kind |-> "restore", of |-> v]
Resave == [kind |-> "resave", of |-> Gone]
Unlinks(S) == SetToSeq({Unlink(p) : p \in S})

Init ==
  /\ ref = First /\ saved = First /\ files = First /\ used = First /\ requests = 0
  /\ pc = "idle" /\ target = {} /\ prev = {} /\ written = {} /\ snapshot = {}
  /\ enlisted = FALSE
  /\ tx = "none" /\ commits = <<>> /\ rollbacks = <<>> /\ todo = <<>>
  /\ atBegin = {} /\ failed = FALSE /\ faults = {}

Explicit == tx = "open"

Finalizing == tx \in {"commit", "rollback"}

\* The context is in the journal's map until its last action has settled.
Live == Explicit \/ (Finalizing /\ todo # <<>>)

\* register() throws: the transaction has ended under the request.
Ended == enlisted /\ ~Live

\* registerExplicitTransactionActions, which does nothing outside a transaction.
\* A commit iterates over the list itself and meets what is pushed meanwhile, a
\* rollback over a copy.
Register(committing, undoing) ==
  IF enlisted /\ Live
  THEN /\ commits' = commits \o committing
       /\ rollbacks' = rollbacks \o undoing
       /\ todo' = IF tx = "commit" THEN todo \o committing ELSE todo
  ELSE UNCHANGED <<commits, rollbacks, todo>>

\* Faults the code does not make good.
Lasting == {"write", "unenlisted", "supersede", "unlink", "restore", "crash", "disconnect"}

\* A step fails in the given way.
Fault(f) ==
  /\ f \in Failing
  /\ faults' = faults \cup ({f} \cap Lasting)

NoneWritten == {}

\* The request answers; its local variables are gone.
EndRequest ==
  /\ pc' = "idle"
  /\ target' = {} /\ prev' = {} /\ written' = NoneWritten /\ snapshot' = {}
  /\ enlisted' = FALSE
  /\ UNCHANGED <<used, requests>>

-----------------------------------------------------------------------------
\* The request reads the record.  Its new pictures have fresh revisions, those
\* kept from the collection too: their bytes are written again.
StartRequest(v) ==
  /\ pc = "idle"
  /\ ref # Gone
  /\ \/ Explicit
     \/ "standalone" \in Modes /\ ~Finalizing
  /\ Pictures(v) \cap used = {}
  /\ requests < MaxRequests
  /\ pc' = "writing"
  /\ target' = v
  /\ prev' = ref
  /\ enlisted' = Explicit
  /\ used' = used \cup Pictures(v)
  /\ requests' = requests + 1
  /\ UNCHANGED <<dataVars, written, snapshot, journalVars, failed, faults>>

\* One file is written; its removal is enlisted at once.
WriteFile(p) ==
  /\ pc = "writing"
  /\ p \in Pictures(target) \ written
  /\ files' = files \cup {p}
  /\ written' = written \cup {p}
  /\ Register(<<>>, <<Unlink(p)>>)
  /\ pc' = IF Ended THEN "cleanup" ELSE pc
  /\ UNCHANGED <<ref, saved, used, requests, target, prev, snapshot, enlisted, tx,
                 atBegin, failed, faults>>

\* It fails, perhaps half way: the file may be there, and is nobody's.
FailWrite(p) ==
  /\ pc = "writing"
  /\ p \in Pictures(target) \ written
  /\ Fault("write")
  /\ files' \in {files, files \cup {p}}
  /\ pc' = "cleanup"
  /\ UNCHANGED <<ref, saved, requestVars, journalVars, failed>>

\* executeTransaction's callback: repository.update, or repository.delete.
Mutate ==
  /\ pc = "writing"
  /\ written = Pictures(target)
  /\ snapshot' = ref
  /\ ref' = target
  /\ pc' = "saving"
  /\ UNCHANGED <<saved, files, used, requests, target, prev, written, enlisted,
                 journalVars, failed, faults>>

\* The callback throws: a uniqueness or delete rule refuses the change.
FailMutate ==
  /\ pc = "writing"
  /\ written = Pictures(target)
  /\ Fault("mutate")
  /\ pc' = "cleanup"
  /\ UNCHANGED <<dataVars, requestVars, journalVars, failed>>

\* save() succeeds with the Maps as the callback left them: enlist the
\* restoration of the snapshot.  If that throws, the catch restores the Maps.
Save ==
  /\ pc = "saving"
  /\ saved' = target
  /\ Register(<<>>, <<Restore(snapshot)>>)
  /\ IF Ended THEN ref' = snapshot /\ pc' = "cleanup"
              ELSE pc' = "saved" /\ UNCHANGED ref
  /\ UNCHANGED <<files, requestVars, tx, atBegin, failed, faults>>

\* Mutant: a failed save enlists nothing.
NothingEnlisted == <<>>

Recovery == <<Resave>>

\* save() fails: restore the Maps, enlist another attempt.  What is on disk
\* may be uncertain.
FailSave ==
  /\ pc = "saving"
  /\ \/ Fault("save") /\ UNCHANGED saved
     \/ Fault(IF enlisted /\ Live THEN "uncertain" ELSE "unenlisted") /\ saved' = target
  /\ ref' = snapshot
  /\ Register(<<>>, Recovery)
  /\ pc' = "cleanup"
  /\ UNCHANGED <<files, requestVars, tx, atBegin, failed>>

\* Mutant: only the first superseded picture is enlisted.
FirstSuperseded == IF Pictures(prev) = {} THEN <<>> ELSE <<Head(Unlinks(Pictures(prev)))>>

Superseded == Unlinks(Pictures(prev))

\* The superseded files: deleted by the commit, or now.
Supersede ==
  /\ pc = "saved"
  /\ ~Ended
  /\ Register(Superseded, <<>>)
  /\ files' = IF enlisted THEN files ELSE files \ Pictures(prev)
  /\ EndRequest
  /\ UNCHANGED <<ref, saved, tx, atBegin, failed, faults>>

\* Nobody is left to enlist their deletion with.
KeepSuperseded ==
  /\ pc = "saved"
  /\ Ended
  /\ pc' = "cleanup"
  /\ UNCHANGED <<dataVars, requestVars, journalVars, failed, faults>>

\* Deleting one of them now fails: the catch of writePicture and of
\* replacePictureItems takes it for a failure of the update.
FailSupersede ==
  /\ pc = "saved"
  /\ ~enlisted
  /\ Pictures(prev) # {}
  /\ Fault("supersede")
  /\ \E kept \in SUBSET Pictures(prev) \ {{}} : files' = files \ (Pictures(prev) \ kept)
  /\ pc' = "cleanup"
  /\ UNCHANGED <<ref, saved, requestVars, journalVars, failed>>

Discarded == written

\* The catch: outside a transaction the request deletes what it wrote.
Cleanup ==
  /\ pc = "cleanup"
  /\ IF enlisted
     THEN UNCHANGED <<files, faults>>
     ELSE \/ files' = files \ Discarded /\ UNCHANGED faults
          \/ \E kept \in SUBSET Discarded \ {{}} :
               Fault("unlink") /\ files' = files \ (Discarded \ kept)
  /\ failed' = (failed \/ enlisted)
  /\ EndRequest
  /\ UNCHANGED <<ref, saved, journalVars>>

-----------------------------------------------------------------------------
Begin ==
  /\ "explicit" \in Modes
  /\ tx = "none"
  /\ pc = "idle"
  /\ tx' = "open"
  /\ atBegin' = ref
  /\ UNCHANGED <<dataVars, pc, requestVars, commits, rollbacks, todo, failed, faults>>

\* Mutant: the actions run in the order of registration.
Forwards(list) == list

Undoing(list) == Reverse(list)

\* The client commits or rolls back, or the idle timer rolls back: when nobody
\* holds the lease, or under a handler whose connection was dropped.
Finalize(phase) ==
  /\ Explicit
  /\ IF pc = "idle" THEN UNCHANGED faults ELSE Fault("disconnect")
  /\ tx' = phase
  /\ todo' = IF phase = "commit" THEN commits ELSE Undoing(rollbacks)
  /\ UNCHANGED <<dataVars, pc, requestVars, commits, rollbacks, atBegin, failed>>

\* executeAction; a restoration refills the Maps before it saves them.
RunAction ==
  /\ Finalizing
  /\ todo # <<>>
  /\ LET a == Head(todo)
     IN  CASE a.kind = "unlink" -> files' = files \ {a.of} /\ UNCHANGED <<ref, saved>>
           [] a.kind = "restore" -> ref' = a.of /\ saved' = a.of /\ UNCHANGED files
           [] a.kind = "resave" -> saved' = ref /\ UNCHANGED <<ref, files>>
  /\ todo' = Tail(todo)
  /\ UNCHANGED <<pc, requestVars, tx, commits, rollbacks, atBegin, failed, faults>>

\* The action throws; the finalization goes on with the next.
FailAction ==
  /\ Finalizing
  /\ todo # <<>>
  /\ LET a == Head(todo)
     IN  /\ Fault(IF a.kind = "unlink" THEN "unlink" ELSE "restore")
         /\ ref' = IF a.kind = "restore" THEN a.of ELSE ref
  /\ todo' = Tail(todo)
  /\ UNCHANGED <<saved, files, pc, requestVars, tx, commits, rollbacks, atBegin, failed>>

Finalized ==
  /\ Finalizing
  /\ todo = <<>>
  /\ tx' = IF tx = "commit" THEN "committed" ELSE "rolledBack"
  /\ commits' = <<>> /\ rollbacks' = <<>>
  /\ UNCHANGED <<dataVars, pc, requestVars, todo, atBegin, failed, faults>>

\* The process dies and starts again: the Maps are loaded, the journal is lost.
Crash ==
  /\ Fault("crash")
  /\ ref' = saved
  /\ EndRequest
  /\ tx' = IF tx \in {"open", "commit", "rollback"} THEN "lost" ELSE tx
  /\ todo' = <<>> /\ commits' = <<>> /\ rollbacks' = <<>>
  /\ UNCHANGED <<saved, files, atBegin, failed>>

Request ==
  \/ \E v \in Value : StartRequest(v)
  \/ \E p \in Pic : WriteFile(p) \/ FailWrite(p)
  \/ Mutate
  \/ FailMutate
  \/ Save
  \/ FailSave
  \/ Supersede
  \/ KeepSuperseded
  \/ FailSupersede
  \/ Cleanup

Transaction ==
  \/ Begin
  \/ \E phase \in {"commit", "rollback"} : Finalize(phase)
  \/ RunAction
  \/ FailAction
  \/ Finalized

Next == Request \/ Transaction \/ Crash

Spec == Init /\ [][Next]_vars

-----------------------------------------------------------------------------
Action == [kind : {"unlink"}, of : Pic] \cup [kind : {"restore"}, of : Value] \cup {Resave}

TypeOK ==
  /\ ref \in Value /\ saved \in Value /\ snapshot \in Value
  /\ target \in Value /\ prev \in SUBSET Pic
  /\ written \subseteq Pictures(target)
  /\ files \subseteq Pic /\ used \subseteq Pic
  /\ pc \in {"idle", "writing", "saving", "saved", "cleanup"}
  /\ tx \in {"none", "open", "commit", "rollback", "committed", "rolledBack", "lost"}
  /\ commits \in Seq(Action) /\ rollbacks \in Seq(Action) /\ todo \in Seq(Action)
  /\ atBegin \in Value
  /\ enlisted \in BOOLEAN
  /\ failed \in BOOLEAN
  /\ requests \in 0..MaxRequests
  /\ faults \subseteq Failing

\* At every moment, in the Maps and in database.json alike, the picture a
\* record refers to has its file: replacing, clearing, deleting, undoing and
\* dying halfway never leave a reference to bytes that are gone.
\* (generic-service.ts:123-125: "reverse rollback restores JSON before
\* removing the file that JSON may still reference".)
ReferencedFilesExist == Pictures(ref) \cup Pictures(saved) \subseteq files

\* Four faults lose a file, and no other: the deletion of a superseded file or
\* an uncertain save outside a transaction, the failed save of a rollback, and
\* a finalization under the handler of a dropped connection.  No failed write,
\* other failed save or deletion, refused change or crash is enough, in any
\* order of requests inside and outside a transaction.
Unrepaired == {"supersede", "unenlisted", "restore", "disconnect"}
OnlyUnrepairedFaultsLoseFiles == faults \cap Unrepaired = {} => ReferencedFilesExist

\* A rollback whose actions succeed brings back the field as it was when the
\* transaction opened, in the Maps and on disk, after requests that failed
\* halfway too, unless it ran under one of them.
RollbackUndoes ==
  tx = "rollback" /\ todo = <<>>
  /\ faults \cap {"restore", "crash", "unenlisted", "disconnect"} = {} =>
    ref = atBegin /\ saved = atBegin

\* When no file operation failed, no finalization overtook a request and nothing
\* is running, no file is left that no record refers to; a transaction with a
\* failed request is rolled back.
NoFileIsLeaked ==
  /\ pc = "idle"
  /\ tx \in {"none", "committed", "rolledBack"}
  /\ failed => tx = "rolledBack"
  /\ faults \cap {"write", "supersede", "unlink", "crash", "disconnect"} = {}
  => files = Pictures(ref)
=============================================================================
