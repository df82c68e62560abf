------------------------- MODULE PictureFieldProofs -------------------------
(***************************************************************************)
(* What TLAPS proves of PictureField for any number of pictures, requests  *)
(* and faults: its types, that only four kinds of fault lose a file, that  *)
(* a rollback brings the field back, and that no file is left over.        *)
(*                                                                         *)
(* As long as no finalization runs under a handler, the lease makes        *)
(* requests and the finalization take turns (Shape); what is said of files *)
(* and records rests on that.                                              *)
(*                                                                         *)
(* The argument is about the list of actions a rollback has still to run,  *)
(* in the order in which it runs them.  A request puts the removals of its *)
(* files and then a restoration in front of it, a rollback takes actions   *)
(* from the front: so each fact about the list is a lemma about one action *)
(* followed by a list.                                                     *)
(***************************************************************************)
EXTENDS PictureField, FiniteSetTheorems, SequenceTheorems, TLAPS

-----------------------------------------------------------------------------
\* Lists of rollback actions, in the order in which they run.
Kind(L, k) == {i \in 1..Len(L) : L[i].kind = k}
Removed(L) == {L[i].of : i \in Kind(L, "unlink")}

\* No removal is of a picture of the value restored last before it, nor of one
\* that a later restoration brings back.
Consistent(L) ==
  \A i \in Kind(L, "unlink"), j \in Kind(L, "restore") :
    (\A k \in Kind(L, "restore") : ~(j < k /\ k < i)) => L[i].of \notin Pictures(L[j].of)

\* The removals before any restoration are not of pictures of v, the field in
\* the Maps; those before anything is saved not of the one in database.json.
Spares(L, v) ==
  \A i \in Kind(L, "unlink") :
    (\A j \in Kind(L, "restore") : i < j) => L[i].of \notin Pictures(v)
SparesSaved(L, v) ==
  \A i \in Kind(L, "unlink") :
    (\A j \in Kind(L, "restore") \cup Kind(L, "resave") : i < j) => L[i].of \notin Pictures(v)

\* The files of what is restored are in F.
Present(L, F) == \A j \in Kind(L, "restore") : Pictures(L[j].of) \subseteq F

\* The list ends with the field b, in the Maps and in database.json.
Ends(L, v, b) ==
  /\ Kind(L, "restore") = {} => v = b
  /\ \A j \in Kind(L, "restore") : (\A k \in Kind(L, "restore") : k <= j) => L[j].of = b
EndsSaved(L, v, b) == Kind(L, "restore") \cup Kind(L, "resave") = {} => v = b

-----------------------------------------------------------------------------
\* registerExplicitTransactionActions, as long as they take turns.
Registered(list, actions) == IF Explicit THEN list \o actions ELSE list

\* The invariant.
Own == Pictures(target)
Old == used \ Own

\* The field as a rollback would find it.
Base == IF pc = "saving" THEN snapshot ELSE ref

\* What a rollback has still to run, were it to begin now.
Undo == IF tx = "open" THEN Reverse(rollbacks)
        ELSE IF tx = "rollback" THEN todo ELSE <<>>

\* What a commit has still to run.
Due == IF tx = "commit" THEN todo
       ELSE IF tx = "rollback" THEN <<>> ELSE commits
DueSet == {Due[i].of : i \in 1..Len(Due)}

\* Nothing is left of a request that has answered.
AtRest == pc = "idle" => written = {}

\* Requests and the finalization take turns.
Shape ==
  /\ tx \notin {"open", "commit", "rollback"} =>
       commits = <<>> /\ rollbacks = <<>> /\ todo = <<>>
  /\ tx = "open" => todo = <<>>
  /\ tx \in {"commit", "rollback"} => pc = "idle"
  /\ tx = "none" => ~failed
  /\ tx = "lost" => "crash" \in faults
  /\ \A i \in 1..Len(commits) : commits[i].kind = "unlink"
  /\ tx = "commit" => \A i \in 1..Len(todo) : todo[i].kind = "unlink"
  /\ pc = "idle" => target = {} /\ written = {} /\ prev = {}
  /\ pc # "idle" => (enlisted <=> Explicit)

\* The running request.
Running ==
  /\ pc # "idle" => Own \subseteq used /\ prev \subseteq Old
  /\ pc = "writing" => ref = prev
  /\ pc = "saving" => ref = target /\ snapshot = prev /\ written = Own
  /\ pc = "saved" => ref = target /\ saved = target /\ snapshot = prev /\ written = Own
  /\ pc = "cleanup" => ref = prev \/ (~Explicit /\ "supersede" \in faults)

\* Its revisions are new to everything else.
Fresh ==
  /\ Pictures(ref) \subseteq used /\ Pictures(saved) \subseteq used
  /\ files \subseteq used
  /\ Pictures(atBegin) \subseteq Old
  /\ pc \in {"idle", "writing", "saving"} => Pictures(saved) \subseteq Old
  /\ pc = "cleanup" => \/ Pictures(saved) \subseteq Old
                       \/ Explicit
                       \/ faults \cap {"unenlisted", "supersede"} # {}
  /\ \A j \in Kind(Undo, "restore") : Pictures(Undo[j].of) \subseteq Old
  /\ Removed(Undo) \subseteq used \ Pictures(atBegin)

\* A commit removes nothing that is still referred to.
CommitSpares ==
  DueSet \subseteq Old \ (Pictures(ref) \cup Pictures(saved) \cup prev)

UndoSpares ==
  /\ Consistent(Undo)
  /\ Spares(Undo, Base)
  /\ tx \in {"open", "rollback"} => Ends(Undo, Base, atBegin)

FilesKept ==
  /\ written \subseteq files
  /\ faults \cap Unrepaired = {} =>
       /\ Pictures(ref) \cup Pictures(saved) \cup prev \subseteq files
       /\ Present(Undo, files)
       /\ SparesSaved(Undo, saved)

SavedEnds ==
  faults \cap {"restore", "crash", "unenlisted"} = {} =>
    /\ tx = "none" => saved = Base
    /\ tx \in {"open", "rollback"} => EndsSaved(Undo, saved, atBegin)

Current == IF pc = "idle" THEN Pictures(ref) ELSE prev \cup written

Tidy ==
  faults \cap {"write", "supersede", "unlink", "crash"} = {} =>
    /\ tx \in {"none", "open", "commit", "committed", "rolledBack"}
       /\ (failed => tx = "rolledBack") /\ (Explicit => pc # "cleanup")
         => Current \subseteq files /\ files \subseteq Current \cup DueSet
    /\ tx \in {"open", "rollback"} =>
         Pictures(atBegin) \subseteq files /\ files \subseteq Pictures(atBegin) \cup Removed(Undo)

Rest == /\ Running /\ Fresh /\ CommitSpares
        /\ UndoSpares /\ FilesKept /\ SavedEnds /\ Tidy

InTurn == "disconnect" \notin faults

PInv == TypeOK /\ AtRest /\ (InTurn => Shape /\ Rest)
-----------------------------------------------------------------------------
\* L is the action a followed by M.
Pushed(L, a, M) ==
  /\ L \in Seq(Action) /\ M \in Seq(Action) /\ a \in Action
  /\ Len(L) = Len(M) + 1
  /\ L[1] = a
  /\ \A i \in 1..Len(M) : L[i + 1] = M[i]

LEMMA PushedKinds ==
  ASSUME NEW L, NEW a, NEW M, Pushed(L, a, M), NEW k
  PROVE  /\ Kind(M, k) \subseteq Nat \ {0}
         /\ \A i \in Kind(M, k) : i + 1 \in Kind(L, k) /\ L[i + 1] = M[i]
         /\ \A i \in Kind(L, k) :
              \/ i = 1 /\ a.kind = k
              \/ i - 1 \in Kind(M, k) /\ L[i] = M[i - 1] /\ i \in Nat /\ i > 1
         /\ a.kind = k => 1 \in Kind(L, k)
<1>1. Len(M) \in Nat /\ Len(L) = Len(M) + 1 /\ L[1] = a /\ \A i \in 1..Len(M) : L[i + 1] = M[i]
  BY DEF Pushed
<1>2. \A i \in 1..Len(L) : i = 1 \/ (i - 1 \in 1..Len(M) /\ L[i] = M[i - 1] /\ i > 1)
  <2> SUFFICES ASSUME NEW i \in 1..Len(L), i # 1
               PROVE  i - 1 \in 1..Len(M) /\ L[i] = M[i - 1] /\ i > 1
    OBVIOUS
  <2>1. i - 1 \in 1..Len(M) /\ i > 1 /\ (i - 1) + 1 = i
    BY <1>1
  <2> QED
    BY <1>1, <2>1
<1> QED
  BY <1>1, <1>2 DEF Kind

\* A removal in front, of p.
LEMMA UnlinkFirst ==
  ASSUME NEW L, NEW M, NEW p \in Pic, Pushed(L, Unlink(p), M), NEW v, NEW w, NEW b, NEW F
  PROVE  /\ Consistent(L) => Consistent(M)
         /\ Spares(L, v) => Spares(M, v) /\ p \notin Pictures(v)
         /\ SparesSaved(L, w) => SparesSaved(M, w) /\ p \notin Pictures(w)
         /\ Consistent(L) /\ Present(L, F) => Present(M, F \ {p})
         /\ Ends(L, v, b) <=> Ends(M, v, b)
         /\ EndsSaved(L, w, b) <=> EndsSaved(M, w, b)
         /\ Removed(L) = Removed(M) \cup {p}
         /\ \A j \in Kind(M, "restore") : \E i \in Kind(L, "restore") : L[i] = M[j]
<1> DEFINE UL == Kind(L, "unlink")
           UM == Kind(M, "unlink")
           RL == Kind(L, "restore")
           RM == Kind(M, "restore")
           SL == Kind(L, "resave")
           SM == Kind(M, "resave")
<1>1. /\ UM \subseteq Nat \ {0} /\ RM \subseteq Nat \ {0} /\ SM \subseteq Nat \ {0}
      /\ \A i \in UM : i + 1 \in UL /\ L[i + 1] = M[i]
      /\ \A i \in RM : i + 1 \in RL /\ L[i + 1] = M[i]
      /\ \A i \in SM : i + 1 \in SL
      /\ \A i \in UL : i = 1 \/ (i - 1 \in UM /\ L[i] = M[i - 1] /\ i \in Nat /\ i > 1)
      /\ \A i \in RL : i - 1 \in RM /\ L[i] = M[i - 1] /\ i \in Nat /\ i > 1
      /\ \A i \in SL : i - 1 \in SM /\ i \in Nat /\ i > 1
      /\ 1 \in UL /\ L[1] = Unlink(p)
  <2>1. /\ UM \subseteq Nat \ {0}
        /\ \A i \in UM : i + 1 \in UL /\ L[i + 1] = M[i]
        /\ \A i \in UL : i = 1 \/ (i - 1 \in UM /\ L[i] = M[i - 1] /\ i \in Nat /\ i > 1)
        /\ 1 \in UL
    BY PushedKinds DEF Unlink
  <2>2. /\ RM \subseteq Nat \ {0}
        /\ \A i \in RM : i + 1 \in RL /\ L[i + 1] = M[i]
        /\ \A i \in RL : i - 1 \in RM /\ L[i] = M[i - 1] /\ i \in Nat /\ i > 1
    BY PushedKinds DEF Unlink
  <2>3. /\ SM \subseteq Nat \ {0}
        /\ \A i \in SM : i + 1 \in SL
        /\ \A i \in SL : i - 1 \in SM /\ i \in Nat /\ i > 1
    BY PushedKinds DEF Unlink
  <2> QED
    BY <2>1, <2>2, <2>3 DEF Pushed
<1>2. L[1].of = p
  BY <1>1 DEF Unlink
<1> HIDE DEF UL, UM, RL, RM, SL, SM
<1>3. \A i \in UM, j \in RM : (\A k \in RM : ~(j < k /\ k < i))
        => (\A k \in RL : ~(j + 1 < k /\ k < i + 1))
  BY <1>1
<1>4. Consistent(L) => Consistent(M)
  <2> SUFFICES ASSUME Consistent(L), NEW i \in UM, NEW j \in RM,
                      \A k \in RM : ~(j < k /\ k < i)
               PROVE  M[i].of \notin Pictures(M[j].of)
    BY DEF Consistent, UM, RM
  <2>1. L[i + 1].of \notin Pictures(L[j + 1].of)
    BY <1>1, <1>3 DEF Consistent, UL, RL
  <2> QED
    BY <1>1, <2>1
<1>5. Spares(L, v) => Spares(M, v) /\ p \notin Pictures(v)
  <2>1. ASSUME Spares(L, v), NEW i \in UM, \A j \in RM : i < j PROVE M[i].of \notin Pictures(v)
    <3>1. \A j \in RL : i + 1 < j
      BY <1>1, <2>1
    <3> QED
      BY <1>1, <2>1, <3>1 DEF Spares, UL, RL
  <2>2. ASSUME Spares(L, v) PROVE p \notin Pictures(v)
    BY <1>1, <1>2, <2>2 DEF Spares, UL, RL
  <2> QED
    BY <2>1, <2>2 DEF Spares, UM, RM
<1>6. SparesSaved(L, w) => SparesSaved(M, w) /\ p \notin Pictures(w)
  <2>1. ASSUME SparesSaved(L, w), NEW i \in UM, \A j \in RM \cup SM : i < j
        PROVE  M[i].of \notin Pictures(w)
    <3>1. \A j \in RL \cup SL : i + 1 < j
      BY <1>1, <2>1
    <3> QED
      BY <1>1, <2>1, <3>1 DEF SparesSaved, UL, RL, SL
  <2>2. ASSUME SparesSaved(L, w) PROVE p \notin Pictures(w)
    BY <1>1, <1>2, <2>2 DEF SparesSaved, UL, RL, SL
  <2> QED
    BY <2>1, <2>2 DEF SparesSaved, UM, RM, SM
<1>7. Consistent(L) /\ Present(L, F) => Present(M, F \ {p})
  <2> SUFFICES ASSUME Consistent(L), Present(L, F), NEW j \in RM
               PROVE  Pictures(M[j].of) \subseteq F \ {p}
    BY DEF Present, RM
  <2>1. Pictures(L[j + 1].of) \subseteq F
    BY <1>1 DEF Present, RL
  <2>2. \A k \in RL : ~(j + 1 < k /\ k < 1)
    BY <1>1
  <2>3. p \notin Pictures(L[j + 1].of)
    BY <1>1, <1>2, <2>2 DEF Consistent, UL, RL
  <2> QED
    BY <1>1, <2>1, <2>3
<1>8. Ends(L, v, b) <=> Ends(M, v, b)
  <2>1. RL = {} <=> RM = {}
    BY <1>1
  <2>2. ASSUME Ends(L, v, b), NEW j \in RM, \A k \in RM : k <= j PROVE M[j].of = b
    <3>1. \A k \in RL : k <= j + 1
      BY <1>1, <2>2
    <3> QED
      BY <1>1, <2>2, <3>1 DEF Ends, RL
  <2>3. ASSUME Ends(M, v, b), NEW j \in RL, \A k \in RL : k <= j PROVE L[j].of = b
    <3>1. \A k \in RM : k <= j - 1
      BY <1>1, <2>3
    <3> QED
      BY <1>1, <2>3, <3>1 DEF Ends, RM
  <2> QED
    BY <2>1, <2>2, <2>3 DEF Ends, RL, RM
<1>9. EndsSaved(L, w, b) <=> EndsSaved(M, w, b)
  <2>1. RL \cup SL = {} <=> RM \cup SM = {}
    BY <1>1
  <2> QED
    BY <2>1 DEF EndsSaved, RL, SL, RM, SM
<1>10. Removed(L) = Removed(M) \cup {p}
  <2>1. \A x \in Removed(M) : x \in Removed(L)
    BY <1>1 DEF Removed, UL, UM
  <2>2. p \in Removed(L)
    BY <1>1, <1>2 DEF Removed, UL
  <2>3. \A x \in Removed(L) : x = p \/ x \in Removed(M)
    BY <1>1, <1>2 DEF Removed, UL, UM
  <2> QED
    BY <2>1, <2>2, <2>3
<1>11. \A j \in RM : \E i \in RL : L[i] = M[j]
  BY <1>1
<1> QED
  BY <1>4, <1>5, <1>6, <1>7, <1>8, <1>9, <1>10, <1>11 DEF RL, RM

\* The same, put in front of M.
LEMMA UnlinkPut ==
  ASSUME NEW L, NEW M, NEW p \in Pic, Pushed(L, Unlink(p), M), NEW v, NEW w, NEW F,
         \A j \in Kind(M, "restore") : p \notin Pictures(M[j].of)
  PROVE  /\ Consistent(M) => Consistent(L)
         /\ Spares(M, v) /\ p \notin Pictures(v) => Spares(L, v)
         /\ SparesSaved(M, w) /\ p \notin Pictures(w) => SparesSaved(L, w)
         /\ Present(M, F) => Present(L, F)
         /\ \A i \in Kind(L, "restore") : \E j \in Kind(M, "restore") : L[i] = M[j]
<1> DEFINE UL == Kind(L, "unlink")
           UM == Kind(M, "unlink")
           RL == Kind(L, "restore")
           RM == Kind(M, "restore")
           SL == Kind(L, "resave")
           SM == Kind(M, "resave")
<1>1. /\ UM \subseteq Nat \ {0} /\ RM \subseteq Nat \ {0} /\ SM \subseteq Nat \ {0}
      /\ \A i \in UM : i + 1 \in UL /\ L[i + 1] = M[i]
      /\ \A i \in UL : i = 1 \/ (i - 1 \in UM /\ L[i] = M[i - 1] /\ i \in Nat /\ i > 1)
      /\ 1 \in UL
      /\ \A i \in RM : i + 1 \in RL /\ L[i + 1] = M[i]
      /\ \A i \in RL : i - 1 \in RM /\ L[i] = M[i - 1] /\ i \in Nat /\ i > 1
      /\ \A i \in SM : i + 1 \in SL /\ L[i + 1] = M[i]
      /\ \A i \in SL : i - 1 \in SM /\ L[i] = M[i - 1] /\ i \in Nat /\ i > 1
      /\ L[1] = Unlink(p)
  <2>1. /\ UM \subseteq Nat \ {0}
        /\ \A i \in UM : i + 1 \in UL /\ L[i + 1] = M[i]
        /\ \A i \in UL : i = 1 \/ (i - 1 \in UM /\ L[i] = M[i - 1] /\ i \in Nat /\ i > 1)
        /\ 1 \in UL
    BY PushedKinds DEF Unlink
  <2>2. /\ RM \subseteq Nat \ {0}
        /\ \A i \in RM : i + 1 \in RL /\ L[i + 1] = M[i]
        /\ \A i \in RL : i - 1 \in RM /\ L[i] = M[i - 1] /\ i \in Nat /\ i > 1
    BY PushedKinds DEF Unlink
  <2>3. /\ SM \subseteq Nat \ {0}
        /\ \A i \in SM : i + 1 \in SL /\ L[i + 1] = M[i]
        /\ \A i \in SL : i - 1 \in SM /\ L[i] = M[i - 1] /\ i \in Nat /\ i > 1
    BY PushedKinds DEF Unlink
  <2> QED
    BY <2>1, <2>2, <2>3 DEF Pushed
<1>2. L[1].of = p /\ \A j \in RM : p \notin Pictures(M[j].of)
  BY <1>1 DEF Unlink
<1> HIDE DEF UL, UM, RL, RM, SL, SM
<1>3. Consistent(M) => Consistent(L)
  <2> SUFFICES ASSUME Consistent(M), NEW i \in UL, NEW j \in RL,
                      \A k \in RL : ~(j < k /\ k < i)
               PROVE  L[i].of \notin Pictures(L[j].of)
    BY DEF Consistent, UL, RL
  <2>1. CASE i = 1
    BY <1>1, <1>2, <2>1
  <2>2. CASE i # 1
    <3>1. i - 1 \in UM /\ j - 1 \in RM
      BY <1>1, <2>2
    <3>2. \A k \in RM : ~(j - 1 < k /\ k < i - 1)
      BY <1>1, <2>2
    <3>3. M[i - 1].of \notin Pictures(M[j - 1].of)
      BY <3>1, <3>2 DEF Consistent, UM, RM
    <3> QED
      BY <1>1, <2>2, <3>3
  <2> QED
    BY <2>1, <2>2
<1>4. Spares(M, v) /\ p \notin Pictures(v) => Spares(L, v)
  <2> SUFFICES ASSUME Spares(M, v), p \notin Pictures(v), NEW i \in UL,
                      \A j \in RL : i < j
               PROVE  L[i].of \notin Pictures(v)
    BY DEF Spares, UL, RL
  <2>1. CASE i # 1
    <3>1. i - 1 \in UM /\ \A j \in RM : i - 1 < j
      BY <1>1, <2>1
    <3> QED
      BY <1>1, <2>1, <3>1 DEF Spares, UM, RM
  <2> QED
    BY <1>2, <2>1
<1>5. SparesSaved(M, w) /\ p \notin Pictures(w) => SparesSaved(L, w)
  <2> SUFFICES ASSUME SparesSaved(M, w), p \notin Pictures(w), NEW i \in UL,
                      \A j \in RL \cup SL : i < j
               PROVE  L[i].of \notin Pictures(w)
    BY DEF SparesSaved, UL, RL, SL
  <2>1. CASE i # 1
    <3>1. i - 1 \in UM /\ \A j \in RM \cup SM : i - 1 < j
      BY <1>1, <2>1
    <3> QED
      BY <1>1, <2>1, <3>1 DEF SparesSaved, UM, RM, SM
  <2> QED
    BY <1>2, <2>1
<1>6. \A i \in RL : \E j \in RM : L[i] = M[j]
  BY <1>1
<1>7. Present(M, F) => Present(L, F)
  BY <1>6 DEF Present, RL, RM
<1> QED
  BY <1>3, <1>4, <1>5, <1>6, <1>7 DEF RL, RM

\* A restoration in front, of the field x.
LEMMA RestoreFirst ==
  ASSUME NEW L, NEW M, NEW x \in Value, Pushed(L, Restore(x), M), NEW v, NEW w, NEW b, NEW F
  PROVE  /\ Consistent(L) <=> Consistent(M) /\ Spares(M, x)
         /\ Consistent(L) => SparesSaved(M, x)
         /\ Spares(L, v) /\ SparesSaved(L, w)
         /\ Present(L, F) <=> Present(M, F) /\ Pictures(x) \subseteq F
         /\ Ends(L, v, b) <=> Ends(M, x, b)
         /\ Ends(L, v, b) => EndsSaved(M, x, b)
         /\ EndsSaved(L, w, b)
         /\ Removed(L) = Removed(M)
         /\ \A i \in Kind(L, "restore") : L[i].of = x \/ \E j \in Kind(M, "restore") : L[i] = M[j]
         /\ \A j \in Kind(M, "restore") : \E i \in Kind(L, "restore") : L[i] = M[j]
<1> DEFINE UL == Kind(L, "unlink")
           UM == Kind(M, "unlink")
           RL == Kind(L, "restore")
           RM == Kind(M, "restore")
           SL == Kind(L, "resave")
           SM == Kind(M, "resave")
<1>1. /\ UM \subseteq Nat \ {0} /\ RM \subseteq Nat \ {0} /\ SM \subseteq Nat \ {0}
      /\ \A i \in UM : i + 1 \in UL /\ L[i + 1] = M[i]
      /\ \A i \in UL : i - 1 \in UM /\ L[i] = M[i - 1] /\ i \in Nat /\ i > 1
      /\ \A i \in RM : i + 1 \in RL /\ L[i + 1] = M[i]
      /\ \A i \in RL : i = 1 \/ (i - 1 \in RM /\ L[i] = M[i - 1] /\ i \in Nat /\ i > 1)
      /\ 1 \in RL
      /\ \A i \in SM : i + 1 \in SL /\ L[i + 1] = M[i]
      /\ \A i \in SL : i - 1 \in SM /\ L[i] = M[i - 1] /\ i \in Nat /\ i > 1
      /\ L[1] = Restore(x)
  <2>1. /\ UM \subseteq Nat \ {0}
        /\ \A i \in UM : i + 1 \in UL /\ L[i + 1] = M[i]
        /\ \A i \in UL : i - 1 \in UM /\ L[i] = M[i - 1] /\ i \in Nat /\ i > 1
    BY PushedKinds DEF Restore
  <2>2. /\ RM \subseteq Nat \ {0}
        /\ \A i \in RM : i + 1 \in RL /\ L[i + 1] = M[i]
        /\ \A i \in RL : i = 1 \/ (i - 1 \in RM /\ L[i] = M[i - 1] /\ i \in Nat /\ i > 1)
        /\ 1 \in RL
    BY PushedKinds DEF Restore
  <2>3. /\ SM \subseteq Nat \ {0}
        /\ \A i \in SM : i + 1 \in SL /\ L[i + 1] = M[i]
        /\ \A i \in SL : i - 1 \in SM /\ L[i] = M[i - 1] /\ i \in Nat /\ i > 1
    BY PushedKinds DEF Restore
  <2> QED
    BY <2>1, <2>2, <2>3 DEF Pushed
<1>2. L[1].of = x
  BY <1>1 DEF Restore
<1> HIDE DEF UL, UM, RL, RM, SL, SM
<1>3. Consistent(L) => Consistent(M)
  <2> SUFFICES ASSUME Consistent(L), NEW i \in UM, NEW j \in RM,
                      \A k \in RM : ~(j < k /\ k < i)
               PROVE  M[i].of \notin Pictures(M[j].of)
    BY DEF Consistent, UM, RM
  <2>1. \A k \in RL : ~(j + 1 < k /\ k < i + 1)
    BY <1>1
  <2>2. L[i + 1].of \notin Pictures(L[j + 1].of)
    BY <1>1, <2>1 DEF Consistent, UL, RL
  <2> QED
    BY <1>1, <2>2
<1>4. Consistent(L) => Spares(M, x)
  <2> SUFFICES ASSUME Consistent(L), NEW i \in UM, \A j \in RM : i < j
               PROVE  M[i].of \notin Pictures(x)
    BY DEF Spares, UM, RM
  <2>1. \A k \in RL : ~(1 < k /\ k < i + 1)
    BY <1>1
  <2>2. L[i + 1].of \notin Pictures(L[1].of)
    BY <1>1, <2>1 DEF Consistent, UL, RL
  <2> QED
    BY <1>1, <1>2, <2>2
<1>5. Spares(M, x) => SparesSaved(M, x)
  BY DEF Spares, SparesSaved
<1>6. Consistent(M) /\ Spares(M, x) => Consistent(L)
  <2> SUFFICES ASSUME Consistent(M), Spares(M, x), NEW i \in UL, NEW j \in RL,
                      \A k \in RL : ~(j < k /\ k < i)
               PROVE  L[i].of \notin Pictures(L[j].of)
    BY DEF Consistent, UL, RL
  <2>0. i - 1 \in UM /\ L[i] = M[i - 1] /\ i \in Nat /\ i > 1
    BY <1>1
  <2>1. CASE j = 1
    <3>1. \A k \in RM : i - 1 < k \/ i - 1 = k
      BY <1>1, <2>0, <2>1
    <3>2. i - 1 \notin RM
      BY <2>0 DEF UM, RM, Kind
    <3>3. M[i - 1].of \notin Pictures(x)
      BY <2>0, <3>1, <3>2 DEF Spares, UM, RM
    <3> QED
      BY <1>2, <2>0, <2>1, <3>3
  <2>2. CASE j # 1
    <3>1. j - 1 \in RM /\ L[j] = M[j - 1] /\ \A k \in RM : ~(j - 1 < k /\ k < i - 1)
      BY <1>1, <2>0, <2>2
    <3>2. M[i - 1].of \notin Pictures(M[j - 1].of)
      BY <2>0, <3>1 DEF Consistent, UM, RM
    <3> QED
      BY <2>0, <3>1, <3>2
  <2> QED
    BY <2>1, <2>2
<1>7. Spares(L, v) /\ SparesSaved(L, w)
  BY <1>1 DEF Spares, SparesSaved, UL, RL
<1>8. /\ \A i \in RL : L[i].of = x \/ \E j \in RM : L[i] = M[j]
      /\ \A j \in RM : \E i \in RL : L[i] = M[j]
      /\ \E i \in RL : L[i].of = x
  BY <1>1, <1>2
<1>9. Present(L, F) <=> Present(M, F) /\ Pictures(x) \subseteq F
  BY <1>8 DEF Present, RL, RM
<1>10. Ends(L, v, b) <=> Ends(M, x, b)
  <2>1. ASSUME Ends(L, v, b), RM = {} PROVE x = b
    <3>1. \A k \in RL : k <= 1
      BY <1>1, <2>1
    <3> QED
      BY <1>1, <1>2, <2>1, <3>1 DEF Ends, RL
  <2>2. ASSUME Ends(L, v, b), NEW j \in RM, \A k \in RM : k <= j PROVE M[j].of = b
    <3>1. \A k \in RL : k <= j + 1
      BY <1>1, <2>2
    <3> QED
      BY <1>1, <2>2, <3>1 DEF Ends, RL
  <2>3. ASSUME Ends(M, x, b), NEW j \in RL, \A k \in RL : k <= j PROVE L[j].of = b
    <3>1. CASE RM = {}
      BY <1>1, <1>2, <2>3, <3>1 DEF Ends, RM
    <3>2. CASE RM # {}
      <4>0. PICK m \in RM : m + 1 \in RL /\ m \in Nat /\ m > 0
        <5>1. PICK m \in RM : TRUE
          BY <3>2
        <5>2. m + 1 \in RL /\ m \in Nat \ {0}
          BY <1>1, <5>1
        <5> QED
          BY <5>2
      <4>1. j # 1
        BY <2>3, <4>0
      <4>2. j - 1 \in RM /\ L[j] = M[j - 1] /\ \A k \in RM : k <= j - 1
        BY <1>1, <2>3, <4>1
      <4> QED
        BY <2>3, <4>2 DEF Ends, RM
    <3> QED
      BY <3>1, <3>2
  <2>4. RL # {}
    BY <1>1
  <2> QED
    BY <2>1, <2>2, <2>3, <2>4 DEF Ends, RL, RM
<1>11. Ends(M, x, b) => EndsSaved(M, x, b)
  BY DEF Ends, EndsSaved
<1>12. EndsSaved(L, w, b)
  BY <1>1 DEF EndsSaved, RL
<1>13. Removed(L) = Removed(M)
  <2>1. \A y \in Removed(M) : y \in Removed(L)
    BY <1>1 DEF Removed, UL, UM
  <2>2. \A y \in Removed(L) : y \in Removed(M)
    BY <1>1 DEF Removed, UL, UM
  <2> QED
    BY <2>1, <2>2
<1> QED
  BY <1>3, <1>4, <1>5, <1>6, <1>7, <1>8, <1>9, <1>10, <1>11, <1>12, <1>13 DEF RL, RM

\* A save of the Maps in front.
LEMMA ResaveFirst ==
  ASSUME NEW L, NEW M, Pushed(L, Resave, M), NEW v, NEW w, NEW b, NEW F
  PROVE  /\ Consistent(L) <=> Consistent(M)
         /\ Spares(L, v) <=> Spares(M, v)
         /\ Spares(L, v) => SparesSaved(M, v)
         /\ SparesSaved(L, w)
         /\ Present(L, F) <=> Present(M, F)
         /\ Ends(L, v, b) <=> Ends(M, v, b)
         /\ Ends(L, v, b) => EndsSaved(M, v, b)
         /\ EndsSaved(L, w, b)
         /\ Removed(L) = Removed(M)
         /\ \A i \in Kind(L, "restore") : \E j \in Kind(M, "restore") : L[i] = M[j]
         /\ \A j \in Kind(M, "restore") : \E i \in Kind(L, "restore") : L[i] = M[j]
<1> DEFINE UL == Kind(L, "unlink")
           UM == Kind(M, "unlink")
           RL == Kind(L, "restore")
           RM == Kind(M, "restore")
           SL == Kind(L, "resave")
           SM == Kind(M, "resave")
<1>1. /\ UM \subseteq Nat \ {0} /\ RM \subseteq Nat \ {0} /\ SM \subseteq Nat \ {0}
      /\ \A i \in UM : i + 1 \in UL /\ L[i + 1] = M[i]
      /\ \A i \in UL : i - 1 \in UM /\ L[i] = M[i - 1] /\ i \in Nat /\ i > 1
      /\ \A i \in RM : i + 1 \in RL /\ L[i + 1] = M[i]
      /\ \A i \in RL : i - 1 \in RM /\ L[i] = M[i - 1] /\ i \in Nat /\ i > 1
      /\ \A i \in SM : i + 1 \in SL /\ L[i + 1] = M[i]
      /\ \A i \in SL : i = 1 \/ (i - 1 \in SM /\ L[i] = M[i - 1] /\ i \in Nat /\ i > 1)
      /\ 1 \in SL
      /\ L[1] = Resave
  <2>1. /\ UM \subseteq Nat \ {0}
        /\ \A i \in UM : i + 1 \in UL /\ L[i + 1] = M[i]
        /\ \A i \in UL : i - 1 \in UM /\ L[i] = M[i - 1] /\ i \in Nat /\ i > 1
    BY PushedKinds DEF Resave
  <2>2. /\ RM \subseteq Nat \ {0}
        /\ \A i \in RM : i + 1 \in RL /\ L[i + 1] = M[i]
        /\ \A i \in RL : i - 1 \in RM /\ L[i] = M[i - 1] /\ i \in Nat /\ i > 1
    BY PushedKinds DEF Resave
  <2>3. /\ SM \subseteq Nat \ {0}
        /\ \A i \in SM : i + 1 \in SL /\ L[i + 1] = M[i]
        /\ \A i \in SL : i = 1 \/ (i - 1 \in SM /\ L[i] = M[i - 1] /\ i \in Nat /\ i > 1)
        /\ 1 \in SL
    BY PushedKinds DEF Resave
  <2> QED
    BY <2>1, <2>2, <2>3 DEF Pushed
<1> HIDE DEF UL, UM, RL, RM, SL, SM
<1>2. Consistent(L) => Consistent(M)
  <2> SUFFICES ASSUME Consistent(L), NEW i \in UM, NEW j \in RM,
                      \A k \in RM : ~(j < k /\ k < i)
               PROVE  M[i].of \notin Pictures(M[j].of)
    BY DEF Consistent, UM, RM
  <2>1. \A k \in RL : ~(j + 1 < k /\ k < i + 1)
    BY <1>1
  <2>2. L[i + 1].of \notin Pictures(L[j + 1].of)
    BY <1>1, <2>1 DEF Consistent, UL, RL
  <2> QED
    BY <1>1, <2>2
<1>3. Consistent(M) => Consistent(L)
  <2> SUFFICES ASSUME Consistent(M), NEW i \in UL, NEW j \in RL,
                      \A k \in RL : ~(j < k /\ k < i)
               PROVE  L[i].of \notin Pictures(L[j].of)
    BY DEF Consistent, UL, RL
  <2>1. i - 1 \in UM /\ L[i] = M[i - 1] /\ j - 1 \in RM /\ L[j] = M[j - 1]
    BY <1>1
  <2>2. \A k \in RM : ~(j - 1 < k /\ k < i - 1)
    BY <1>1
  <2>3. M[i - 1].of \notin Pictures(M[j - 1].of)
    BY <2>1, <2>2 DEF Consistent, UM, RM
  <2> QED
    BY <2>1, <2>3
<1>4. Spares(L, v) => Spares(M, v)
  <2> SUFFICES ASSUME Spares(L, v), NEW i \in UM, \A j \in RM : i < j
               PROVE  M[i].of \notin Pictures(v)
    BY DEF Spares, UM, RM
  <2>1. \A j \in RL : i + 1 < j
    BY <1>1
  <2> QED
    BY <1>1, <2>1 DEF Spares, UL, RL
<1>5. Spares(M, v) => Spares(L, v)
  <2> SUFFICES ASSUME Spares(M, v), NEW i \in UL, \A j \in RL : i < j
               PROVE  L[i].of \notin Pictures(v)
    BY DEF Spares, UL, RL
  <2>1. i - 1 \in UM /\ \A j \in RM : i - 1 < j
    BY <1>1
  <2> QED
    BY <1>1, <2>1 DEF Spares, UM, RM
<1>6. Spares(M, v) => SparesSaved(M, v)
  BY DEF Spares, SparesSaved
<1>7. SparesSaved(L, w)
  BY <1>1 DEF SparesSaved, UL, SL
<1>8. /\ \A i \in RL : \E j \in RM : L[i] = M[j]
      /\ \A j \in RM : \E i \in RL : L[i] = M[j]
  BY <1>1
<1>9. Present(L, F) <=> Present(M, F)
  BY <1>8 DEF Present, RL, RM
<1>10. Ends(L, v, b) <=> Ends(M, v, b)
  <2>1. RL = {} <=> RM = {}
    BY <1>1
  <2>2. ASSUME Ends(L, v, b), NEW j \in RM, \A k \in RM : k <= j PROVE M[j].of = b
    <3>1. \A k \in RL : k <= j + 1
      BY <1>1, <2>2
    <3> QED
      BY <1>1, <2>2, <3>1 DEF Ends, RL
  <2>3. ASSUME Ends(M, v, b), NEW j \in RL, \A k \in RL : k <= j PROVE L[j].of = b
    <3>1. \A k \in RM : k <= j - 1
      BY <1>1, <2>3
    <3> QED
      BY <1>1, <2>3, <3>1 DEF Ends, RM
  <2> QED
    BY <2>1, <2>2, <2>3 DEF Ends, RL, RM
<1>11. Ends(M, v, b) => EndsSaved(M, v, b)
  BY DEF Ends, EndsSaved
<1>12. EndsSaved(L, w, b)
  BY <1>1 DEF EndsSaved, SL
<1>13. Removed(L) = Removed(M)
  <2>1. \A y \in Removed(M) : y \in Removed(L)
    BY <1>1 DEF Removed, UL, UM
  <2>2. \A y \in Removed(L) : y \in Removed(M)
    BY <1>1 DEF Removed, UL, UM
  <2> QED
    BY <2>1, <2>2
<1> QED
  BY <1>2, <1>3, <1>4, <1>5, <1>6, <1>7, <1>8, <1>9, <1>10, <1>11, <1>12, <1>13 DEF RL, RM

\* Registering an action puts it in front, running one takes it from there.
LEMMA RegisterFirst ==
  ASSUME NEW R \in Seq(Action), NEW a \in Action
  PROVE  /\ R \o <<a>> \in Seq(Action)
         /\ Pushed(Reverse(R \o <<a>>), a, Reverse(R))
<1> DEFINE S == R \o <<a>>
<1>1. S \in Seq(Action) /\ Len(S) = Len(R) + 1 /\ S[Len(R) + 1] = a
      /\ \A i \in 1..Len(R) : S[i] = R[i]
  OBVIOUS
<1>2. Len(R) \in Nat
  OBVIOUS
<1> HIDE DEF S
<1>3. /\ Reverse(S) \in Seq(Action) /\ Len(Reverse(S)) = Len(R) + 1
      /\ Reverse(S)[1] = a
  BY <1>1, <1>2 DEF Reverse
<1>4. Reverse(R) \in Seq(Action) /\ Len(Reverse(R)) = Len(R)
  BY DEF Reverse
<1>5. ASSUME NEW i \in 1..Len(R) PROVE Reverse(S)[i + 1] = Reverse(R)[i]
  <2>1. i + 1 \in 1..Len(S) /\ Len(S) - (i + 1) + 1 = Len(R) - i + 1
        /\ Len(R) - i + 1 \in 1..Len(R)
    BY <1>1, <1>2
  <2>2. Reverse(S)[i + 1] = S[Len(S) - (i + 1) + 1]
    BY <2>1 DEF Reverse
  <2>3. Reverse(R)[i] = R[Len(R) - i + 1]
    BY DEF Reverse
  <2> QED
    BY <1>1, <2>1, <2>2, <2>3
<1> QED
  BY <1>1, <1>2, <1>3, <1>4, <1>5 DEF Pushed, S

LEMMA RunFirst ==
  ASSUME NEW L \in Seq(Action), L # <<>>
  PROVE  Pushed(L, Head(L), Tail(L))
BY DEF Pushed

-----------------------------------------------------------------------------
\* The types.

\* The removals of the pictures of a collection, in some order.
LEMMA UnlinksType ==
  ASSUME NEW S \in SUBSET Pic
  PROVE  /\ Unlinks(S) \in Seq(Action)
         /\ \A i \in 1..Len(Unlinks(S)) : Unlinks(S)[i].kind = "unlink" /\ Unlinks(S)[i].of \in S
         /\ \A p \in S : \E i \in 1..Len(Unlinks(S)) : Unlinks(S)[i].of = p
<1> DEFINE T == {Unlink(p) : p \in S}
           g == [p \in S |-> Unlink(p)]
<1>1. IsFiniteSet(T)
  <2>1. IsFiniteSet(S)
    BY PicAssumption, FS_Subset
  <2>2. g \in Surjection(S, T)
    BY DEF Surjection
  <2> QED
    BY <2>1, <2>2, FS_Surjection
<1>2. Cardinality(T) \in Nat /\ ExistsBijection(1..Cardinality(T), T)
  BY <1>1, FS_CardinalityType
<1>3. PICK n \in Nat : n = Cardinality(T)
  BY <1>2
<1>4. \E f \in [1..n -> T] : IsInjective(f)
  BY <1>2, <1>3 DEF ExistsBijection, Bijection, Injection
<1>5. Unlinks(S) = CHOOSE f \in [1..n -> T] : IsInjective(f)
  BY <1>3 DEF Unlinks, SetToSeq
<1>6. Unlinks(S) \in [1..n -> T] /\ IsInjective(Unlinks(S))
  BY <1>4, <1>5
<1>7. Unlinks(S) \in Surjection(1..n, T)
  <2>1. Unlinks(S) \in Injection(1..n, T)
    BY <1>6 DEF Injection
  <2>2. Cardinality(1..n) = n
    BY FS_Interval
  <2> QED
    BY <1>1, <1>3, <2>1, <2>2, FS_Injection
<1>8. \A t \in T : t \in Action /\ t.kind = "unlink" /\ t.of \in S
  BY DEF Unlink, Action
<1>9. Unlinks(S) \in Seq(T) /\ Len(Unlinks(S)) = n
  BY <1>6
<1>10. Unlinks(S) \in Seq(Action)
  BY <1>8, <1>9, SeqMonotonic
<1>11. ASSUME NEW p \in S PROVE \E i \in 1..n : Unlinks(S)[i].of = p
  <2>1. PICK i \in 1..n : Unlinks(S)[i] = Unlink(p)
    BY <1>7 DEF Surjection
  <2> QED
    BY <2>1 DEF Unlink
<1>12. \A i \in 1..n : Unlinks(S)[i] \in T
  BY <1>6
<1> QED
  BY <1>8, <1>9, <1>10, <1>11, <1>12

LEMMA ActionTypes ==
  /\ Resave \in Action
  /\ \A v \in Value : Restore(v) \in Action
  /\ \A p \in Pic : Unlink(p) \in Action
<1>1. Resave \in {Resave}
  OBVIOUS
<1>2. \A v \in Value : Restore(v) \in [kind : {"restore"}, of : Value]
  BY DEF Restore
<1>3. \A p \in Pic : Unlink(p) \in [kind : {"unlink"}, of : Pic]
  BY DEF Unlink
<1> QED
  BY <1>1, <1>2, <1>3 DEF Action

LEMMA RegisteredType ==
  ASSUME NEW list \in Seq(Action), NEW actions \in Seq(Action)
  PROVE  Registered(list, actions) \in Seq(Action)
BY ConcatProperties DEF Registered

LEMMA PicturesType ==
  /\ \A v \in Value : Pictures(v) \in SUBSET Pic
  /\ \A S \in SUBSET Pic : S \in Value /\ Pictures(S) = S
  /\ {} \in SUBSET Pic
  /\ \A v \in Value : v # Gone => v \in SUBSET Pic
<1>1. \A v \in Value : v = Gone \/ v \in SUBSET Pic
  BY DEF Value
<1>2. \A S \in SUBSET Pic : S \in Value /\ Pictures(S) = S
  BY GoneAssumption DEF Value, Pictures
<1>3. Pictures(Gone) = {}
  BY DEF Pictures
<1> QED
  BY <1>1, <1>2, <1>3

LEMMA InitTyped == Init => TypeOK /\ AtRest /\ Shape
<1> SUFFICES ASSUME Init PROVE TypeOK /\ AtRest /\ Shape
  OBVIOUS
<1>1. First \in Value /\ {} \in Value /\ Pictures({}) = {} /\ First \subseteq Pic
  BY PicturesType, FirstAssumption
<1>2. <<>> \in Seq(Action) /\ Len(<<>>) = 0 /\ \A i \in 1..0 : FALSE
  BY EmptySeq
<1>3. requests \in 0..MaxRequests
  BY MaxRequestsAssumption DEF Init
<1>4. TypeOK
  BY <1>1, <1>2, <1>3 DEF Init, TypeOK
<1>5. AtRest /\ Shape
  BY <1>2 DEF Init, AtRest, Shape
<1> QED
  BY <1>4, <1>5

\* What a registration does, to lists of whatever length.
LEMMA RegisterTyped ==
  ASSUME TypeOK, NEW c \in Seq(Action), NEW r \in Seq(Action), Register(c, r)
  PROVE  commits' \in Seq(Action) /\ rollbacks' \in Seq(Action) /\ todo' \in Seq(Action)
<1>1. CASE enlisted /\ Live
  BY <1>1, ConcatProperties DEF Register, TypeOK
<1>2. CASE ~(enlisted /\ Live)
  BY <1>2 DEF Register, TypeOK
<1> QED
  BY <1>1, <1>2

\* A removal of the superseded pictures is a removal of pictures.
LEMMA SupersededType ==
  ASSUME TypeOK
  PROVE  /\ Superseded \in Seq(Action)
         /\ \A i \in 1..Len(Superseded) : Superseded[i].kind = "unlink"
<1>1. Pictures(prev) \in SUBSET Pic
  BY PicturesType DEF TypeOK
<1> QED
  BY <1>1, UnlinksType DEF Superseded

\* The first action of a finalization, and the rest.
LEMMA ActionTaken ==
  ASSUME TypeOK, todo # <<>>, todo' = Tail(todo)
  PROVE  /\ todo' \in Seq(Action) /\ Head(todo) \in Action
         /\ (\A i \in 1..Len(todo) : todo[i].kind = "unlink")
               => \A i \in 1..Len(todo') : todo'[i].kind = "unlink"
         /\ Head(todo).kind \in {"unlink", "restore", "resave"}
         /\ Head(todo).kind = "unlink" => Head(todo).of \in Pic
         /\ Head(todo).kind # "unlink" => Head(todo).of \in Value
<1>1. todo \in Seq(Action)
  BY DEF TypeOK
<1>2. Pushed(todo, Head(todo), Tail(todo))
  BY <1>1, RunFirst
<1>3. Len(Tail(todo)) \in Nat /\ Tail(todo) \in Seq(Action) /\ Head(todo) \in Action
  BY <1>2 DEF Pushed
<1>4. \A i \in 1..Len(Tail(todo)) : i + 1 \in 1..Len(todo) /\ Tail(todo)[i] = todo[i + 1]
  BY <1>2, <1>3 DEF Pushed
<1>5. (\A i \in 1..Len(todo) : todo[i].kind = "unlink")
        => \A i \in 1..Len(Tail(todo)) : Tail(todo)[i].kind = "unlink"
  BY <1>4
<1>6. /\ Head(todo).kind \in {"unlink", "restore", "resave"}
      /\ Head(todo).kind = "unlink" => Head(todo).of \in Pic
      /\ Head(todo).kind # "unlink" => Head(todo).of \in Value
  <2>1. PICK a \in Action : a = Head(todo)
    BY <1>3
  <2>2. /\ a.kind \in {"unlink", "restore", "resave"}
        /\ a.kind = "unlink" => a.of \in Pic
        /\ a.kind # "unlink" => a.of \in Value
    <3>1. Gone \in Value
      BY DEF Value
    <3> QED
      BY <3>1 DEF Action, Resave
  <2> QED
    BY <2>1, <2>2
<1> QED
  BY <1>3, <1>5, <1>6

\* One step; every variable keeps its type, also when a finalization runs
\* under a handler.
LEMMA NextTyped ==
  ASSUME TypeOK, AtRest, [Next]_vars
  PROVE  TypeOK' /\ AtRest'
<1> USE DEF dataVars, localVars, requestVars, journalVars, AtRest
<1>0. /\ {} \in Value /\ Pictures({}) = {} /\ NoneWritten = {} /\ {} \in SUBSET Pic
      /\ \A v \in Value : Pictures(v) \in SUBSET Pic
      /\ <<>> \in Seq(Action)
  BY PicturesType, EmptySeq DEF NoneWritten
<1>1. ASSUME NEW v \in Value, StartRequest(v) PROVE TypeOK' /\ AtRest'
  <2>1. ref \in SUBSET Pic /\ Pictures(v) \in SUBSET Pic /\ Explicit \in BOOLEAN
    BY <1>1, PicturesType DEF StartRequest, TypeOK, Explicit
  <2> QED
    BY <1>1, <2>1, MaxRequestsAssumption DEF StartRequest, TypeOK
<1>2. ASSUME NEW p \in Pic, WriteFile(p) PROVE TypeOK' /\ AtRest'
  <2>1. <<Unlink(p)>> \in Seq(Action) /\ Register(<<>>, <<Unlink(p)>>)
    BY <1>2, ActionTypes DEF WriteFile
  <2>2. commits' \in Seq(Action) /\ rollbacks' \in Seq(Action) /\ todo' \in Seq(Action)
    BY <1>0, <2>1, RegisterTyped
  <2> QED
    BY <1>2, <2>2 DEF WriteFile, TypeOK
<1>3. ASSUME NEW p \in Pic, FailWrite(p) PROVE TypeOK' /\ AtRest'
  BY <1>3 DEF FailWrite, TypeOK, Fault
<1>4. CASE Mutate
  BY <1>4 DEF Mutate, TypeOK
<1>5. CASE FailMutate
  BY <1>5 DEF FailMutate, TypeOK, Fault
<1>6. CASE Save
  <2>1. <<Restore(snapshot)>> \in Seq(Action) /\ Register(<<>>, <<Restore(snapshot)>>)
    BY <1>6, ActionTypes DEF Save, TypeOK
  <2>2. commits' \in Seq(Action) /\ rollbacks' \in Seq(Action) /\ todo' \in Seq(Action)
    BY <1>0, <2>1, RegisterTyped
  <2>3. ref' \in Value /\ saved' \in Value /\ pc' \in {"saved", "cleanup"}
    BY <1>6 DEF Save, TypeOK
  <2> QED
    BY <1>6, <2>2, <2>3 DEF Save, TypeOK
<1>7. CASE FailSave
  <2>1. Recovery \in Seq(Action) /\ Register(<<>>, Recovery)
    BY <1>7, ActionTypes DEF Recovery, FailSave
  <2>2. commits' \in Seq(Action) /\ rollbacks' \in Seq(Action) /\ todo' \in Seq(Action)
    BY <1>0, <2>1, RegisterTyped
  <2>3. saved' \in Value /\ faults' \subseteq Failing /\ ref' \in Value
    BY <1>7 DEF FailSave, Fault, TypeOK
  <2> QED
    BY <1>7, <2>2, <2>3 DEF FailSave, TypeOK
<1>8. CASE Supersede
  <2>1. Register(Superseded, <<>>)
    BY <1>8 DEF Supersede
  <2>2. commits' \in Seq(Action) /\ rollbacks' \in Seq(Action) /\ todo' \in Seq(Action)
    BY <1>0, <2>1, SupersededType, RegisterTyped
  <2> QED
    BY <1>0, <1>8, <2>2 DEF Supersede, EndRequest, TypeOK
<1>19. CASE KeepSuperseded
  BY <1>19 DEF KeepSuperseded, TypeOK
<1>9. CASE FailSupersede
  <2>1. files' \subseteq files /\ faults' \subseteq Failing
    BY <1>9 DEF FailSupersede, Fault, TypeOK
  <2> QED
    BY <1>9, <2>1 DEF FailSupersede, TypeOK
<1>10. CASE Cleanup
  <2>1. files' \subseteq files /\ faults' \subseteq Failing
    BY <1>10 DEF Cleanup, Fault, TypeOK
  <2>2. failed' \in BOOLEAN
    BY <1>10 DEF Cleanup, TypeOK
  <2> QED
    BY <1>0, <1>10, <2>1, <2>2 DEF Cleanup, EndRequest, TypeOK
<1>11. CASE Begin
  BY <1>11 DEF Begin, TypeOK
<1>12. ASSUME NEW phase \in {"commit", "rollback"}, Finalize(phase) PROVE TypeOK' /\ AtRest'
  <2>1. Undoing(rollbacks) \in Seq(Action)
    BY DEF Undoing, Reverse, TypeOK
  <2>2. todo' \in Seq(Action) /\ faults' \subseteq Failing
    BY <1>12, <2>1 DEF Finalize, TypeOK, Fault
  <2> QED
    BY <1>12, <2>2 DEF Finalize, TypeOK
<1>14. CASE RunAction
  <2> DEFINE a == Head(todo)
  <2>1. /\ a.kind \in {"unlink", "restore", "resave"} /\ todo' \in Seq(Action)
        /\ a.kind # "unlink" => a.of \in Value
    BY <1>14, ActionTaken DEF RunAction
  <2>2. ref' \in Value /\ saved' \in Value /\ files' \subseteq Pic
    BY <1>14, <2>1 DEF RunAction, TypeOK
  <2> QED
    BY <1>14, <2>1, <2>2 DEF RunAction, TypeOK
<1>15. CASE FailAction
  <2>1. ref' \in Value /\ todo' \in Seq(Action)
    BY <1>15, ActionTaken DEF FailAction, TypeOK
  <2>2. faults' \subseteq Failing
    BY <1>15 DEF FailAction, Fault, TypeOK
  <2> QED
    BY <1>15, <2>1, <2>2 DEF FailAction, TypeOK
<1>16. CASE Finalized
  BY <1>0, <1>16 DEF Finalized, TypeOK
<1>17. CASE Crash
  <2>1. faults' \subseteq Failing
    BY <1>17 DEF Crash, Fault, TypeOK
  <2> QED
    BY <1>0, <1>17, <2>1 DEF Crash, EndRequest, TypeOK
<1>18. CASE UNCHANGED vars
  BY <1>18 DEF vars, TypeOK
<1> QED
  BY <1>1, <1>2, <1>3, <1>4, <1>5, <1>6, <1>7, <1>8, <1>9, <1>10, <1>11, <1>12, <1>14,
     <1>15, <1>16, <1>17, <1>18, <1>19 DEF Next, Request, Transaction

\* In turn, a registration is what it is in a transaction or nothing.
LEMMA InTurnRegister ==
  ASSUME TypeOK, Shape, pc # "idle", NEW c \in Seq(Action), NEW r \in Seq(Action), Register(c, r)
  PROVE  /\ commits' = Registered(commits, c) /\ rollbacks' = Registered(rollbacks, r)
         /\ c = <<>> => commits' = commits
         /\ r = <<>> => rollbacks' = rollbacks
         /\ todo' = todo
<1>1. (enlisted /\ Live) <=> Explicit
  BY DEF Shape, Live, Finalizing, Explicit
<1>2. Explicit => tx # "commit"
  BY DEF Explicit
<1>3. commits \in Seq(Action) /\ rollbacks \in Seq(Action)
  BY DEF TypeOK
<1>4. commits \o <<>> = commits /\ rollbacks \o <<>> = rollbacks
  BY <1>3
<1>5. CASE Explicit
  <2>1. commits' = commits \o c /\ rollbacks' = rollbacks \o r /\ todo' = todo
    BY <1>1, <1>2, <1>5 DEF Register
  <2> QED
    BY <1>4, <1>5, <2>1 DEF Registered
<1>6. CASE ~Explicit
  BY <1>1, <1>6 DEF Register, Registered
<1> QED
  BY <1>5, <1>6

LEMMA NotEnded ==
  ASSUME Shape, pc # "idle"
  PROVE  ~Ended /\ (enlisted <=> Explicit) /\ (enlisted /\ Live <=> Explicit)
BY DEF Shape, Ended, Live, Explicit, Finalizing

\* The steps of a request that register, in turn.
LEMMA WriteInTurn ==
  ASSUME TypeOK, Shape, NEW p \in Pic, WriteFile(p)
  PROVE  rollbacks' = Registered(rollbacks, <<Unlink(p)>>) /\ UNCHANGED <<pc, commits, todo>>
<1>1. pc # "idle" /\ <<Unlink(p)>> \in Seq(Action) /\ <<>> \in Seq(Action)
  BY ActionTypes DEF WriteFile
<1> QED
  BY <1>1, InTurnRegister, NotEnded DEF WriteFile

LEMMA SaveInTurn ==
  ASSUME TypeOK, Shape, Save
  PROVE  /\ rollbacks' = Registered(rollbacks, <<Restore(snapshot)>>)
         /\ UNCHANGED <<ref, commits, todo>> /\ pc' = "saved"
<1>1. pc # "idle" /\ <<Restore(snapshot)>> \in Seq(Action) /\ <<>> \in Seq(Action)
  BY ActionTypes DEF Save, TypeOK
<1> QED
  BY <1>1, InTurnRegister, NotEnded DEF Save

LEMMA FailSaveInTurn ==
  ASSUME TypeOK, Shape, FailSave
  PROVE  rollbacks' = Registered(rollbacks, <<Resave>>) /\ UNCHANGED <<commits, todo>>
<1>1. pc # "idle" /\ <<Resave>> \in Seq(Action) /\ <<>> \in Seq(Action)
  BY ActionTypes DEF FailSave
<1> QED
  BY <1>1, InTurnRegister DEF FailSave, Recovery

LEMMA SupersedeInTurn ==
  ASSUME TypeOK, Shape, Supersede
  PROVE  commits' = Registered(commits, Superseded) /\ UNCHANGED <<rollbacks, todo>>
<1>1. pc # "idle" /\ <<>> \in Seq(Action)
  BY DEF Supersede
<1> QED
  BY <1>1, InTurnRegister, SupersededType DEF Supersede

\* What a request does not do, and a finalization does, keep them in turn.
LEMMA ShapeStep ==
  ASSUME TypeOK, AtRest, Shape, [Next]_vars, InTurn'
  PROVE  Shape'
<1> USE DEF dataVars, localVars, requestVars, journalVars
<1>0. /\ Pictures({}) = {} /\ NoneWritten = {}
      /\ <<>> \in Seq(Action) /\ \A i \in 1..Len(<<>>) : FALSE
  BY PicturesType, EmptySeq DEF NoneWritten
<1>1. ASSUME NEW v \in Value, StartRequest(v) PROVE Shape'
  <2>1. CASE Explicit
    BY <1>1, <2>1 DEF StartRequest, Shape, Explicit, Finalizing
  <2>2. CASE ~Explicit
    BY <1>1, <2>2 DEF StartRequest, Shape, Explicit, Finalizing
  <2> QED
    BY <2>1, <2>2
<1>2. ASSUME NEW p \in Pic, WriteFile(p) PROVE Shape'
  <2>1. rollbacks' = Registered(rollbacks, <<Unlink(p)>>) /\ UNCHANGED <<pc, commits, todo>>
    BY <1>2, WriteInTurn
  <2>2. tx # "open" => rollbacks' = rollbacks
    BY <2>1 DEF Registered, Explicit
  <2> QED
    BY <1>2, <2>1, <2>2 DEF WriteFile, Shape, Explicit
<1>3. ASSUME NEW p \in Pic, FailWrite(p) PROVE Shape'
  BY <1>3 DEF FailWrite, Shape, Fault, Explicit
<1>4. CASE Mutate
  BY <1>4 DEF Mutate, Shape, Explicit
<1>5. CASE FailMutate
  BY <1>5 DEF FailMutate, Shape, Fault, Explicit
<1>6. CASE Save
  <2>1. rollbacks' = Registered(rollbacks, <<Restore(snapshot)>>) /\ UNCHANGED <<commits, todo>>
        /\ pc' = "saved"
    BY <1>6, SaveInTurn
  <2>2. tx # "open" => rollbacks' = rollbacks
    BY <2>1 DEF Registered, Explicit
  <2> QED
    BY <1>6, <2>1, <2>2 DEF Save, Shape, Explicit
<1>7. CASE FailSave
  <2>1. rollbacks' = Registered(rollbacks, <<Resave>>) /\ UNCHANGED <<commits, todo>>
    BY <1>7, FailSaveInTurn
  <2>2. tx # "open" => rollbacks' = rollbacks
    BY <2>1 DEF Registered, Explicit
  <2>3. faults \subseteq faults'
    BY <1>7 DEF FailSave, Fault
  <2> QED
    BY <1>7, <2>1, <2>2, <2>3 DEF FailSave, Shape, Explicit
<1>8. CASE Supersede
  <2>1. commits' = Registered(commits, Superseded) /\ UNCHANGED <<rollbacks, todo>>
    BY <1>8, SupersedeInTurn
  <2>2. \A i \in 1..Len(commits') : commits'[i].kind = "unlink"
    <3>1. CASE Explicit
      <4>1. commits' = commits \o Superseded
        BY <2>1, <3>1 DEF Registered
      <4>2. commits \in Seq(Action) /\ Len(commits) \in Nat /\ Len(Superseded) \in Nat
        BY SupersededType DEF TypeOK
      <4>3. /\ Len(commits') = Len(commits) + Len(Superseded)
            /\ \A i \in 1..Len(commits') :
                 commits'[i] = IF i <= Len(commits) THEN commits[i]
                               ELSE Superseded[i - Len(commits)]
        BY SupersededType, <4>1, <4>2, ConcatProperties
      <4>4. \A i \in 1..Len(commits) : commits[i].kind = "unlink"
        BY DEF Shape
      <4>5. \A i \in 1..Len(commits') : i <= Len(commits) => i \in 1..Len(commits)
        BY <4>2
      <4>6. \A i \in 1..Len(commits') : i > Len(commits) => i - Len(commits) \in 1..Len(Superseded)
        BY <4>2, <4>3
      <4>7. \A i \in 1..Len(commits') : i <= Len(commits) => commits'[i].kind = "unlink"
        BY <4>3, <4>4, <4>5
      <4>8. \A i \in 1..Len(commits') : i > Len(commits) => commits'[i].kind = "unlink"
        <5> SUFFICES ASSUME NEW i \in 1..Len(commits'), i > Len(commits)
                     PROVE  commits'[i].kind = "unlink"
          OBVIOUS
        <5>1. commits'[i] = Superseded[i - Len(commits)]
          BY <4>2, <4>3
        <5>2. i - Len(commits) \in 1..Len(Superseded)
          BY <4>6
        <5> QED
          BY SupersededType, <5>1, <5>2
      <4> QED
        BY <4>2, <4>3, <4>7, <4>8
    <3>2. CASE ~Explicit
      BY <2>1, <3>2 DEF Registered, Shape
    <3> QED
      BY <3>1, <3>2
  <2>3. tx # "open" => commits' = commits
    BY <2>1 DEF Registered, Explicit
  <2> QED
    BY <1>0, <1>8, <2>1, <2>2, <2>3 DEF Supersede, EndRequest, Shape
<1>19. CASE KeepSuperseded
  BY <1>19, NotEnded DEF KeepSuperseded
<1>9. CASE FailSupersede
  <2>1. faults \subseteq faults'
    BY <1>9 DEF FailSupersede, Fault
  <2> QED
    BY <1>9, <2>1 DEF FailSupersede, Shape, Explicit
<1>10. CASE Cleanup
  <2>1. faults \subseteq faults'
    BY <1>10 DEF Cleanup, Fault
  <2>2. ~Explicit => failed' = failed
    BY <1>10, NotEnded DEF Cleanup, TypeOK
  <2> QED
    BY <1>0, <1>10, <2>1, <2>2 DEF Cleanup, EndRequest, Shape, Explicit
<1>11. CASE Begin
  BY <1>11 DEF Begin, Shape
<1>12. ASSUME NEW phase \in {"commit", "rollback"}, Finalize(phase) PROVE Shape'
  <2>1. pc = "idle"
    BY <1>12 DEF Finalize, Fault, InTurn, Lasting
  <2> QED
    BY <1>12, <2>1 DEF Finalize, Shape, Explicit
<1>14. CASE RunAction
  BY <1>14, ActionTaken DEF RunAction, Shape, Finalizing
<1>15. CASE FailAction
  <2>1. faults \subseteq faults'
    BY <1>15 DEF FailAction, Fault
  <2> QED
    BY <1>15, <2>1, ActionTaken DEF FailAction, Shape, Finalizing
<1>16. CASE Finalized
  BY <1>0, <1>16 DEF Finalized, Finalizing, Shape
<1>17. CASE Crash
  <2>1. "crash" \in faults'
    BY <1>17 DEF Crash, Fault, Lasting
  <2> QED
    BY <1>0, <1>17, <2>1 DEF Crash, EndRequest, Shape, TypeOK
<1>18. CASE UNCHANGED vars
  BY <1>18 DEF vars, Shape, Explicit
<1> QED
  BY <1>1, <1>2, <1>3, <1>4, <1>5, <1>6, <1>7, <1>8, <1>9, <1>10, <1>11, <1>12, <1>14,
     <1>15, <1>16, <1>17, <1>18, <1>19 DEF Next, Request, Transaction

\* The field, its files and the journal always have their types.
THEOREM TypeCorrect == Spec => []TypeOK
BY InitTyped, NextTyped, PTL DEF Spec

-----------------------------------------------------------------------------
\* How a step changes the two lists.
LEMMA EmptyList ==
  /\ Consistent(<<>>) /\ Removed(<<>>) = {}
  /\ \A v : Spares(<<>>, v) /\ SparesSaved(<<>>, v)
  /\ \A F : Present(<<>>, F)
  /\ \A v, b : (Ends(<<>>, v, b) <=> v = b) /\ (EndsSaved(<<>>, v, b) <=> v = b)
  /\ Kind(<<>>, "restore") = {}
  /\ Reverse(<<>>) = <<>>
<1>1. \A k : Kind(<<>>, k) = {}
  BY DEF Kind
<1>2. Reverse(<<>>) = <<>>
  BY DEF Reverse
<1> QED
  BY <1>1, <1>2 DEF Consistent, Removed, Spares, SparesSaved, Present, Ends, EndsSaved

LEMMA MoreFiles ==
  ASSUME NEW L, NEW F, NEW G, F \subseteq G, Present(L, F)
  PROVE  Present(L, G)
BY DEF Present

\* Outside a transaction nothing is registered.
LEMMA NothingToUndo ==
  ASSUME Shape, pc # "idle", ~Explicit
  PROVE  Undo = <<>> /\ Due = <<>> /\ DueSet = {} /\ tx \notin {"open", "commit", "rollback"}
<1>1. tx \notin {"open", "commit", "rollback"} /\ commits = <<>>
  BY DEF Shape, Explicit
<1>2. Undo = <<>> /\ Due = <<>>
  BY <1>1 DEF Undo, Due
<1> QED
  BY <1>1, <1>2 DEF DueSet

\* A step of a request that registers nothing.
LEMMA ListsKept ==
  ASSUME UNCHANGED <<tx, commits, rollbacks, todo>>
  PROVE  Undo' = Undo /\ Due' = Due /\ DueSet' = DueSet
BY DEF Undo, Due, DueSet

\* One that registers the rollback action a, in a transaction.
LEMMA ActionRegistered ==
  ASSUME TypeOK, Shape, pc # "idle", NEW a \in Action,
         rollbacks' = Registered(rollbacks, <<a>>), UNCHANGED <<tx, commits, todo>>
  PROVE  /\ DueSet' = DueSet
         /\ Explicit => Pushed(Undo', a, Undo)
         /\ ~Explicit => Undo' = <<>> /\ Undo = <<>>
<1>1. DueSet' = DueSet
  BY DEF Due, DueSet
<1>2. CASE Explicit
  <2>1. rollbacks' = rollbacks \o <<a>> /\ Undo = Reverse(rollbacks) /\ Undo' = Reverse(rollbacks')
    BY <1>2 DEF Registered, Explicit, Undo
  <2>2. rollbacks \in Seq(Action)
    BY DEF TypeOK
  <2> QED
    BY <1>1, <1>2, <2>1, <2>2, RegisterFirst
<1>3. CASE ~Explicit
  <2>1. Undo = <<>> /\ tx \notin {"open", "commit", "rollback"}
    BY <1>3, NothingToUndo
  <2> QED
    BY <1>1, <1>3, <2>1 DEF Undo
<1> QED
  BY <1>2, <1>3

LEMMA FaultKinds ==
  ASSUME NEW f, Fault(f)
  PROVE  /\ faults \subseteq faults'
         /\ f \in Lasting => f \in faults'
         /\ f \notin Lasting => faults' = faults
         /\ \A g : g \in faults' => g \in faults \/ g = f
BY DEF Fault

-----------------------------------------------------------------------------
\* One step of a request.
LEMMA StartRest ==
  ASSUME TypeOK, Shape, Rest, NEW v \in Value, StartRequest(v)
  PROVE  Rest'
<1> USE DEF dataVars, localVars, requestVars, journalVars
<1>1. /\ pc = "idle" /\ pc' = "writing" /\ target' = v /\ prev' = ref
      /\ used' = used \cup Pictures(v) /\ Pictures(v) \cap used = {}
      /\ UNCHANGED <<ref, saved, files, written, snapshot, tx, commits, rollbacks, todo,
                     atBegin, failed, faults>>
  BY DEF StartRequest
<1>2. Undo' = Undo /\ DueSet' = DueSet
  BY <1>1, ListsKept
<1>3. target = {} /\ written = {} /\ prev = {}
  BY <1>1 DEF Shape
<1>4. Pictures(ref) = ref /\ ref # Gone /\ Pictures(target) = {}
  BY <1>3, PicturesType DEF StartRequest, TypeOK
<1>5. Own = {} /\ Old = used /\ Own' = Pictures(v) /\ Old' = used
  BY <1>1, <1>4 DEF Own, Old
<1>6. Base' = Base
  BY <1>1 DEF Base
<1> HIDE DEF dataVars, localVars, requestVars, journalVars
<1>7. Running'
  BY <1>1, <1>4, <1>5 DEF Rest, Running, Fresh
<1>8. Fresh'
  BY <1>1, <1>2, <1>5 DEF Rest, Fresh
<1>9. CommitSpares'
  BY <1>1, <1>2, <1>4, <1>5 DEF Rest, CommitSpares
<1>10. UndoSpares'
  BY <1>1, <1>2, <1>6 DEF Rest, UndoSpares
<1>11. FilesKept'
  BY <1>1, <1>2, <1>4 DEF Rest, FilesKept
<1>12. SavedEnds'
  BY <1>1, <1>2, <1>6 DEF Rest, SavedEnds
<1>13. Tidy'
  BY <1>1, <1>2, <1>3, <1>4 DEF Rest, Tidy, Current, Explicit
<1> QED
  BY <1>7, <1>8, <1>9, <1>10, <1>11, <1>12, <1>13 DEF Rest

LEMMA WriteRest ==
  ASSUME TypeOK, Shape, Rest, NEW p \in Pic, WriteFile(p)
  PROVE  Rest'
<1> USE DEF dataVars, localVars, requestVars, journalVars
<1>1. /\ pc = "writing" /\ files' = files \cup {p} /\ written' = written \cup {p} /\ p \in Own
      /\ rollbacks' = Registered(rollbacks, <<Unlink(p)>>)
      /\ UNCHANGED <<ref, saved, pc, used, target, prev, snapshot, tx, commits, todo,
                     atBegin, failed, faults>>
  BY WriteInTurn DEF WriteFile, Own
<1>2. /\ DueSet' = DueSet
      /\ Explicit => Pushed(Undo', Unlink(p), Undo)
      /\ ~Explicit => Undo' = <<>> /\ Undo = <<>>
  BY <1>1, ActionRegistered, ActionTypes
<1>3. /\ Own' = Own /\ Old' = Old /\ Base' = Base /\ Base = ref /\ (Explicit' <=> Explicit)
      /\ Pictures(ref) \subseteq Old /\ Pictures(saved) \subseteq Old /\ Own \subseteq used
      /\ p \notin Old /\ p \in used
  <2>1. ref = prev /\ prev \subseteq Old /\ prev \in SUBSET Pic
    BY <1>1 DEF Rest, Running, TypeOK
  <2>2. Pictures(ref) = prev
    BY <2>1, PicturesType
  <2> QED
    BY <1>1, <2>1, <2>2 DEF Rest, Running, Fresh, Own, Old, Base, Explicit
<1> HIDE DEF dataVars, localVars, requestVars, journalVars
<1>4. Running'
  BY <1>1, <1>3 DEF Rest, Running
<1>5. CommitSpares'
  BY <1>1, <1>2, <1>3 DEF Rest, CommitSpares
<1>6. Present(Undo, files) => Present(Undo, files')
  BY <1>1, MoreFiles
<1>7. \A j \in Kind(Undo, "restore") : p \notin Pictures(Undo[j].of)
  BY <1>3 DEF Rest, Fresh
<1>8. /\ Fresh'
      /\ UndoSpares'
      /\ Present(Undo, files') => Present(Undo', files')
      /\ SparesSaved(Undo, saved) => SparesSaved(Undo', saved)
      /\ EndsSaved(Undo, saved, atBegin) => EndsSaved(Undo', saved, atBegin)
      /\ Explicit => Removed(Undo') = Removed(Undo) \cup {p}
      /\ ~Explicit => Removed(Undo') = Removed(Undo)
  <2>1. CASE Explicit
    <3>1. /\ Consistent(Undo) => Consistent(Undo')
          /\ Spares(Undo, ref) /\ p \notin Pictures(ref) => Spares(Undo', ref)
          /\ SparesSaved(Undo, saved) /\ p \notin Pictures(saved) => SparesSaved(Undo', saved)
          /\ Present(Undo, files') => Present(Undo', files')
          /\ \A i \in Kind(Undo', "restore") : \E j \in Kind(Undo, "restore") : Undo'[i] = Undo[j]
      BY <1>2, <1>7, <2>1, UnlinkPut
    <3>2. /\ Ends(Undo', ref, atBegin) <=> Ends(Undo, ref, atBegin)
          /\ EndsSaved(Undo', saved, atBegin) <=> EndsSaved(Undo, saved, atBegin)
          /\ Removed(Undo') = Removed(Undo) \cup {p}
      BY <1>2, <2>1, UnlinkFirst
    <3>3. Fresh'
      BY <1>1, <1>3, <3>1, <3>2 DEF Rest, Fresh
    <3>4. UndoSpares'
      BY <1>1, <1>3, <3>1, <3>2 DEF Rest, UndoSpares
    <3> QED
      BY <1>3, <2>1, <3>1, <3>2, <3>3, <3>4
  <2>2. CASE ~Explicit
    BY <1>1, <1>2, <1>3, <2>2 DEF Rest, Fresh, UndoSpares
  <2> QED
    BY <2>1, <2>2
<1>9. FilesKept'
  BY <1>1, <1>6, <1>8 DEF Rest, FilesKept
<1>10. SavedEnds'
  BY <1>1, <1>3, <1>8 DEF Rest, SavedEnds
<1>11. Tidy'
  <2>1. tx = "open" <=> Explicit
    BY DEF Explicit
  <2>2. tx # "rollback"
    BY <1>1 DEF Shape
  <2> QED
    BY <1>1, <1>2, <1>3, <1>8, <2>1, <2>2 DEF Rest, Tidy, Current
<1> QED
  BY <1>4, <1>5, <1>8, <1>9, <1>10, <1>11 DEF Rest

LEMMA FailWriteRest ==
  ASSUME TypeOK, Shape, Rest, NEW p \in Pic, FailWrite(p)
  PROVE  Rest'
<1> USE DEF dataVars, localVars, requestVars, journalVars
<1>1. /\ pc = "writing" /\ pc' = "cleanup" /\ p \in Own
      /\ files \subseteq files' /\ files' \subseteq files \cup {p}
      /\ UNCHANGED <<ref, saved, used, target, prev, written, snapshot, tx, commits, rollbacks,
                     todo, atBegin, failed>>
  BY DEF FailWrite, Own
<1>2. /\ "write" \in faults'
      /\ faults' \cap Unrepaired = faults \cap Unrepaired
      /\ faults' \cap {"restore", "crash", "unenlisted"}
           = faults \cap {"restore", "crash", "unenlisted"}
  BY DEF FailWrite, Fault, Lasting, Unrepaired
<1>3. Undo' = Undo /\ DueSet' = DueSet
  BY <1>1, ListsKept
<1>4. Own' = Own /\ Old' = Old /\ Base' = Base
  BY <1>1 DEF Own, Old, Base
<1> HIDE DEF dataVars, localVars, requestVars, journalVars
<1>5. Running'
  BY <1>1, <1>4 DEF Rest, Running
<1>6. Fresh'
  BY <1>1, <1>3, <1>4 DEF Rest, Fresh, Running
<1>7. CommitSpares'
  BY <1>1, <1>3, <1>4 DEF Rest, CommitSpares
<1>8. UndoSpares'
  BY <1>1, <1>3, <1>4 DEF Rest, UndoSpares
<1>9. Present(Undo, files) => Present(Undo, files')
  BY <1>1, MoreFiles
<1>10. FilesKept'
  BY <1>1, <1>2, <1>3, <1>9 DEF Rest, FilesKept
<1>11. SavedEnds'
  BY <1>1, <1>2, <1>3, <1>4 DEF Rest, SavedEnds
<1>12. Tidy'
  BY <1>2 DEF Tidy
<1> QED
  BY <1>5, <1>6, <1>7, <1>8, <1>10, <1>11, <1>12 DEF Rest

LEMMA MutateRest ==
  ASSUME TypeOK, Shape, Rest, Mutate
  PROVE  Rest'
<1> USE DEF dataVars, localVars, requestVars, journalVars
<1>1. /\ pc = "writing" /\ pc' = "saving" /\ ref' = target /\ snapshot' = ref /\ written = Own
      /\ UNCHANGED <<saved, files, used, target, prev, written, tx, commits, rollbacks,
                     todo, atBegin, failed, faults>>
  BY DEF Mutate, Own
<1>2. Undo' = Undo /\ DueSet' = DueSet
  BY <1>1, ListsKept
<1>3. Own' = Own /\ Old' = Old /\ Base' = Base /\ Pictures(ref') = Own /\ (Explicit' <=> Explicit)
  BY <1>1 DEF Own, Old, Base, Explicit
<1>4. Own \cap Old = {}
  BY DEF Old
<1> HIDE DEF dataVars, localVars, requestVars, journalVars
<1>5. Running'
  BY <1>1, <1>3 DEF Rest, Running
<1>6. Fresh'
  BY <1>1, <1>2, <1>3 DEF Rest, Fresh, Running
<1>7. CommitSpares'
  BY <1>1, <1>2, <1>3, <1>4 DEF Rest, CommitSpares
<1>8. UndoSpares'
  BY <1>1, <1>2, <1>3 DEF Rest, UndoSpares
<1>9. FilesKept'
  BY <1>1, <1>2, <1>3 DEF Rest, FilesKept
<1>10. SavedEnds'
  BY <1>1, <1>2, <1>3 DEF Rest, SavedEnds
<1>11. Tidy'
  BY <1>1, <1>2, <1>3 DEF Rest, Tidy, Current
<1> QED
  BY <1>5, <1>6, <1>7, <1>8, <1>9, <1>10, <1>11 DEF Rest

LEMMA FailMutateRest ==
  ASSUME TypeOK, Shape, Rest, FailMutate
  PROVE  Rest'
<1> USE DEF dataVars, localVars, requestVars, journalVars
<1>1. /\ pc = "writing" /\ pc' = "cleanup"
      /\ UNCHANGED <<ref, saved, files, used, target, prev, written, snapshot, tx, commits,
                     rollbacks, todo, atBegin, failed>>
  BY DEF FailMutate
<1>2. faults' = faults
  BY DEF FailMutate, Fault, Lasting
<1>3. Undo' = Undo /\ DueSet' = DueSet
  BY <1>1, ListsKept
<1>4. Own' = Own /\ Old' = Old /\ Base' = Base /\ (Explicit' <=> Explicit)
  BY <1>1 DEF Own, Old, Base, Explicit
<1> HIDE DEF dataVars, localVars, requestVars, journalVars
<1>5. Running'
  BY <1>1, <1>4 DEF Rest, Running
<1>6. Fresh'
  BY <1>1, <1>3, <1>4 DEF Rest, Fresh
<1>7. CommitSpares'
  BY <1>1, <1>3, <1>4 DEF Rest, CommitSpares
<1>8. UndoSpares'
  BY <1>1, <1>3, <1>4 DEF Rest, UndoSpares
<1>9. FilesKept'
  BY <1>1, <1>2, <1>3 DEF Rest, FilesKept
<1>10. SavedEnds'
  BY <1>1, <1>2, <1>3, <1>4 DEF Rest, SavedEnds
<1>11. Tidy'
  BY <1>1, <1>2, <1>3, <1>4 DEF Rest, Tidy, Current
<1> QED
  BY <1>5, <1>6, <1>7, <1>8, <1>9, <1>10, <1>11 DEF Rest

LEMMA SaveRest ==
  ASSUME TypeOK, Shape, Rest, Save
  PROVE  Rest'
<1> USE DEF dataVars, localVars, requestVars, journalVars
<1>0. target = ref
  BY DEF Save, Rest, Running
<1>1. /\ pc = "saving" /\ pc' = "saved" /\ saved' = ref
      /\ rollbacks' = Registered(rollbacks, <<Restore(snapshot)>>)
      /\ UNCHANGED <<ref, files, used, target, prev, written, snapshot, tx, commits, todo,
                     atBegin, failed, faults>>
  BY <1>0, SaveInTurn DEF Save
<1>2. snapshot \in Value /\ Restore(snapshot) \in Action
  BY ActionTypes DEF TypeOK
<1>3. /\ DueSet' = DueSet
      /\ Explicit => Pushed(Undo', Restore(snapshot), Undo)
      /\ ~Explicit => Undo' = <<>> /\ Undo = <<>>
  BY <1>1, <1>2, ActionRegistered
<1>4. /\ Own' = Own /\ Old' = Old /\ Base' = ref /\ Base = snapshot /\ (Explicit' <=> Explicit)
      /\ Pictures(ref) = Own /\ Pictures(snapshot) = prev /\ prev \subseteq Old
      /\ ref = target /\ snapshot = prev /\ written = Own /\ Own \subseteq used /\ Own \cap Old = {}
  <2>1. ref = target /\ snapshot = prev /\ written = Own /\ prev \in SUBSET Pic
    BY <1>1 DEF Rest, Running, TypeOK
  <2>2. Pictures(snapshot) = prev
    BY <2>1, PicturesType
  <2> QED
    BY <1>1, <2>1, <2>2 DEF Rest, Running, Own, Old, Base, Explicit
<1> HIDE DEF dataVars, localVars, requestVars, journalVars
<1>5. Running'
  BY <1>1, <1>4 DEF Rest, Running
<1>6. CommitSpares'
  BY <1>1, <1>3, <1>4 DEF Rest, CommitSpares
<1>7. /\ Fresh'
      /\ UndoSpares'
      /\ Pictures(snapshot) \subseteq files /\ Present(Undo, files) => Present(Undo', files)
      /\ SparesSaved(Undo', ref)
      /\ Explicit => EndsSaved(Undo', ref, atBegin)
      /\ Removed(Undo') = Removed(Undo)
  <2>1. CASE Explicit
    <3>1. Consistent(Undo') <=> Consistent(Undo) /\ Spares(Undo, snapshot)
      BY <1>2, <1>3, <2>1, RestoreFirst
    <3>2. Spares(Undo', ref) /\ SparesSaved(Undo', ref) /\ EndsSaved(Undo', ref, atBegin)
      BY <1>2, <1>3, <2>1, RestoreFirst
    <3>3. Present(Undo', files) <=> Present(Undo, files) /\ Pictures(snapshot) \subseteq files
      BY <1>2, <1>3, <2>1, RestoreFirst
    <3>4. Ends(Undo', ref, atBegin) <=> Ends(Undo, snapshot, atBegin)
      BY <1>2, <1>3, <2>1, RestoreFirst
    <3>5. Removed(Undo') = Removed(Undo)
      BY <1>2, <1>3, <2>1, RestoreFirst
    <3>6. \A i \in Kind(Undo', "restore") :
            Undo'[i].of = snapshot \/ \E j \in Kind(Undo, "restore") : Undo'[i] = Undo[j]
      BY <1>2, <1>3, <2>1, RestoreFirst
    <3>7. tx = "open"
      BY <2>1 DEF Explicit
    <3>8. \A i \in Kind(Undo', "restore") : Pictures(Undo'[i].of) \subseteq Old
      BY <1>4, <3>6 DEF Rest, Fresh
    <3>9. Fresh'
      BY <1>1, <1>4, <3>5, <3>8 DEF Rest, Fresh
    <3>10. UndoSpares'
      BY <1>1, <1>4, <3>1, <3>2, <3>4, <3>7 DEF Rest, UndoSpares
    <3> QED
      BY <2>1, <3>2, <3>3, <3>5, <3>9, <3>10
  <2>2. CASE ~Explicit
    <3>1. tx \notin {"open", "rollback"}
      BY <1>1, <2>2, NothingToUndo
    <3>2. Fresh'
      BY <1>1, <1>3, <1>4, <2>2 DEF Rest, Fresh
    <3>3. UndoSpares'
      BY <1>1, <1>3, <2>2, <3>1, EmptyList DEF UndoSpares
    <3> QED
      BY <1>3, <2>2, <3>2, <3>3, EmptyList
  <2> QED
    BY <2>1, <2>2
<1>8. FilesKept'
  BY <1>1, <1>4, <1>7 DEF Rest, FilesKept
<1>9. SavedEnds'
  <2>1. tx # "rollback" /\ (tx = "open" => Explicit)
    BY <1>1 DEF Shape, Explicit
  <2> QED
    BY <1>1, <1>4, <1>7, <2>1 DEF Rest, SavedEnds
<1>10. Tidy'
  BY <1>1, <1>3, <1>4, <1>7 DEF Rest, Tidy, Current
<1> QED
  BY <1>5, <1>6, <1>7, <1>8, <1>9, <1>10 DEF Rest

LEMMA FailSaveRest ==
  ASSUME TypeOK, Shape, Rest, FailSave
  PROVE  Rest'
<1> USE DEF dataVars, localVars, requestVars, journalVars
<1>0. target = ref /\ pc # "idle"
  BY DEF FailSave, Rest, Running
<1>1. /\ pc = "saving" /\ pc' = "cleanup" /\ ref' = snapshot /\ saved' \in {saved, ref}
      /\ rollbacks' = Registered(rollbacks, <<Resave>>)
      /\ UNCHANGED <<files, used, target, prev, written, snapshot, tx, commits, todo,
                     atBegin, failed>>
  BY <1>0, FailSaveInTurn DEF FailSave
<1>2. /\ faults \subseteq faults'
      /\ faults' \cap {"write", "supersede", "unlink", "crash"}
           = faults \cap {"write", "supersede", "unlink", "crash"}
      /\ saved' = saved \/ Explicit \/ "unenlisted" \in faults'
  BY <1>0, NotEnded DEF FailSave, Fault, Lasting
<1>3. /\ DueSet' = DueSet
      /\ Explicit => Pushed(Undo', Resave, Undo)
      /\ ~Explicit => Undo' = <<>> /\ Undo = <<>>
  BY <1>1, ActionRegistered, ActionTypes
<1>4. /\ Own' = Own /\ Old' = Old /\ Base' = snapshot /\ Base = snapshot /\ (Explicit' <=> Explicit)
      /\ Pictures(ref) = Own /\ Pictures(snapshot) = prev /\ prev \subseteq Old
      /\ ref = target /\ snapshot = prev /\ written = Own /\ Own \subseteq used /\ Own \cap Old = {}
      /\ Pictures(saved) \subseteq Old
  <2>1. ref = target /\ snapshot = prev /\ written = Own /\ prev \in SUBSET Pic
    BY <1>1 DEF Rest, Running, TypeOK
  <2>2. Pictures(snapshot) = prev
    BY <2>1, PicturesType
  <2> QED
    BY <1>1, <2>1, <2>2 DEF Rest, Running, Fresh, Own, Old, Base, Explicit
<1> HIDE DEF dataVars, localVars, requestVars, journalVars
<1>5. Running'
  BY <1>1, <1>4 DEF Rest, Running
<1>6. CommitSpares'
  <2>1. Pictures(saved') \subseteq Pictures(saved) \cup Own /\ Pictures(ref') = prev
    BY <1>1, <1>4
  <2> QED
    BY <1>1, <1>3, <1>4, <2>1 DEF Rest, CommitSpares
<1>7. /\ \A i \in Kind(Undo', "restore") : \E j \in Kind(Undo, "restore") : Undo'[i] = Undo[j]
      /\ UndoSpares'
      /\ Present(Undo, files) => Present(Undo', files)
      /\ SparesSaved(Undo', saved')
      /\ Explicit => EndsSaved(Undo', saved', atBegin)
      /\ Removed(Undo') = Removed(Undo)
  <2>1. CASE Explicit
    <3>1. Consistent(Undo') <=> Consistent(Undo)
      BY <1>3, <2>1, ResaveFirst
    <3>2. Spares(Undo', snapshot) <=> Spares(Undo, snapshot)
      BY <1>3, <2>1, ResaveFirst
    <3>3. SparesSaved(Undo', saved') /\ EndsSaved(Undo', saved', atBegin)
      BY <1>3, <2>1, ResaveFirst
    <3>4. Present(Undo', files) <=> Present(Undo, files)
      BY <1>3, <2>1, ResaveFirst
    <3>5. Ends(Undo', snapshot, atBegin) <=> Ends(Undo, snapshot, atBegin)
      BY <1>3, <2>1, ResaveFirst
    <3>6. Removed(Undo') = Removed(Undo)
      BY <1>3, <2>1, ResaveFirst
    <3>7. \A i \in Kind(Undo', "restore") : \E j \in Kind(Undo, "restore") : Undo'[i] = Undo[j]
      BY <1>3, <2>1, ResaveFirst
    <3>8. UndoSpares'
      BY <1>1, <1>4, <3>1, <3>2, <3>5 DEF Rest, UndoSpares
    <3> QED
      BY <3>3, <3>4, <3>6, <3>7, <3>8
  <2>2. CASE ~Explicit
    <3>1. tx \notin {"open", "rollback"}
      BY <1>1, <2>2, NothingToUndo
    <3>2. UndoSpares'
      BY <1>1, <1>3, <2>2, <3>1, EmptyList DEF UndoSpares
    <3> QED
      BY <1>3, <2>2, <3>2, EmptyList
  <2> QED
    BY <2>1, <2>2
<1>8. Fresh'
  <2>1. \A i \in Kind(Undo', "restore") : Pictures(Undo'[i].of) \subseteq Old
    BY <1>7 DEF Rest, Fresh
  <2>2. /\ Pictures(ref') \subseteq used /\ Pictures(saved') \subseteq used
        /\ Pictures(saved') \subseteq Old \/ Explicit' \/ "unenlisted" \in faults'
    BY <1>1, <1>2, <1>4 DEF Rest, Fresh, Old
  <2> QED
    BY <1>1, <1>4, <1>7, <2>1, <2>2 DEF Rest, Fresh
<1>9. FilesKept'
  <2>1. Pictures(saved') \subseteq Pictures(saved) \cup written /\ Pictures(ref') = prev
    BY <1>1, <1>4
  <2>2. faults' \cap Unrepaired = {} => faults \cap Unrepaired = {}
    BY <1>2
  <2> QED
    BY <1>1, <1>7, <2>1, <2>2 DEF Rest, FilesKept
<1>10. SavedEnds'
  <2>1. tx # "rollback" /\ (tx = "open" <=> Explicit)
    BY <1>1 DEF Shape, Explicit
  <2>2. faults' \cap {"restore", "crash", "unenlisted"} = {} =>
          /\ faults \cap {"restore", "crash", "unenlisted"} = {}
          /\ saved' = saved \/ Explicit
    BY <1>2
  <2> QED
    BY <1>1, <1>4, <1>7, <2>1, <2>2 DEF Rest, SavedEnds
<1>11. Tidy'
  BY <1>1, <1>2, <1>3, <1>4, <1>7 DEF Rest, Tidy, Current
<1> QED
  BY <1>5, <1>6, <1>7, <1>8, <1>9, <1>10, <1>11 DEF Rest

LEMMA SupersedeRest ==
  ASSUME TypeOK, Shape, Rest, Supersede
  PROVE  Rest'
<1> USE DEF dataVars, localVars, requestVars, journalVars
<1>1. /\ pc = "saved" /\ pc' = "idle" /\ target' = {} /\ prev' = {} /\ written' = {}
      /\ commits' = Registered(commits, Unlinks(Pictures(prev)))
      /\ files' = IF Explicit THEN files ELSE files \ Pictures(prev)
      /\ UNCHANGED <<ref, saved, used, tx, rollbacks, todo, atBegin, failed, faults>>
  BY SupersedeInTurn, NotEnded DEF Supersede, EndRequest, NoneWritten, Superseded
<1>2. /\ prev \in SUBSET Pic /\ Pictures(prev) = prev /\ Pictures({}) = {}
      /\ commits \in Seq(Action)
  BY PicturesType DEF TypeOK
<1>3. /\ ref = target /\ saved = target /\ written = Own /\ Own \subseteq used
      /\ Pictures(ref) = Own /\ Pictures(saved) = Own /\ prev \subseteq Old /\ Old \cap Own = {}
      /\ Own' = {} /\ Old' = used /\ Old \subseteq used /\ Base' = Base /\ Base = ref
      /\ (Explicit' <=> Explicit)
  BY <1>1, <1>2 DEF Rest, Running, Own, Old, Base, Explicit
<1>4. Undo' = Undo /\ (tx # "open" => ~Explicit)
  BY <1>1 DEF Undo, Explicit
<1>5. DueSet' = IF Explicit THEN DueSet \cup prev ELSE {}
  <2>1. CASE Explicit
    <3>1. commits' = commits \o Unlinks(prev) /\ Due = commits /\ Due' = commits'
      BY <1>1, <1>2, <2>1 DEF Registered, Due, Explicit
    <3>2. /\ Unlinks(prev) \in Seq(Action)
          /\ \A i \in 1..Len(Unlinks(prev)) : Unlinks(prev)[i].of \in prev
          /\ \A p \in prev : \E i \in 1..Len(Unlinks(prev)) : Unlinks(prev)[i].of = p
      BY <1>2, UnlinksType
    <3> DEFINE U == Unlinks(prev)
               n == Len(commits)
               m == Len(U)
    <3> HIDE DEF U, n, m
    <3>3. /\ n \in Nat /\ m \in Nat /\ Len(commits') = n + m
          /\ \A i \in 1..n : commits'[i] = commits[i]
          /\ \A i \in 1..m : commits'[n + i] = U[i]
      <4>1. n \in Nat /\ m \in Nat /\ U \in Seq(Action)
        BY <1>2, <3>2 DEF U, n, m
      <4>2. /\ Len(commits \o U) = Len(commits) + Len(U)
            /\ \A i \in 1..Len(commits) + Len(U) :
                 (commits \o U)[i] = IF i <= Len(commits) THEN commits[i] ELSE U[i - Len(commits)]
        BY <1>2, <4>1, ConcatProperties
      <4>3. commits' = commits \o U
        BY <3>1 DEF U
      <4>4. /\ Len(commits') = n + m
            /\ \A i \in 1..n + m :
                 commits'[i] = IF i <= n THEN commits[i] ELSE U[i - n]
        BY <4>2, <4>3 DEF n, m
      <4>5. \A i \in 1..n : i \in 1..n + m /\ i <= n
        BY <4>1
      <4>6. \A i \in 1..m : n + i \in 1..n + m /\ ~(n + i <= n) /\ (n + i) - n = i
        BY <4>1
      <4> QED
        BY <4>1, <4>4, <4>5, <4>6
    <3>4. \A i \in 1..n + m : i \in 1..n \/ (i - n \in 1..m /\ n + (i - n) = i)
      BY <3>3
    <3>5. /\ \A i \in 1..m : U[i].of \in prev
          /\ \A p \in prev : \E i \in 1..m : U[i].of = p
      BY <3>2 DEF U, m
    <3>6. DueSet = {commits[i].of : i \in 1..n} /\ DueSet' = {commits'[i].of : i \in 1..n + m}
      BY <3>1, <3>3 DEF DueSet, n
    <3>7. \A x \in DueSet' : x \in DueSet \cup prev
      <4> SUFFICES ASSUME NEW i \in 1..n + m PROVE commits'[i].of \in DueSet \cup prev
        BY <3>6
      <4>1. CASE i \in 1..n
        BY <3>3, <3>6, <4>1
      <4>2. CASE i - n \in 1..m /\ n + (i - n) = i
        BY <3>3, <3>5, <4>2
      <4> QED
        BY <3>4, <4>1, <4>2
    <3>8. \A i \in 1..n : i \in 1..n + m
      BY <3>3
    <3>9. \A i \in 1..m : n + i \in 1..n + m
      BY <3>3
    <3>10. DueSet \subseteq DueSet'
      BY <3>3, <3>6, <3>8
    <3>11. prev \subseteq DueSet'
      <4> SUFFICES ASSUME NEW p \in prev PROVE p \in DueSet'
        OBVIOUS
      <4>1. PICK i \in 1..m : U[i].of = p
        BY <3>5
      <4> QED
        BY <3>3, <3>6, <3>9, <4>1
    <3> QED
      BY <2>1, <3>7, <3>10, <3>11
  <2>2. CASE ~Explicit
    <3>1. DueSet = {} /\ commits' = commits
      BY <1>1, <2>2, NothingToUndo DEF Registered
    <3> QED
      BY <1>1, <2>2, <3>1 DEF Due, DueSet
  <2> QED
    BY <2>1, <2>2
<1> HIDE DEF dataVars, localVars, requestVars, journalVars
<1>6. files' \subseteq files /\ Own \subseteq files' /\ (Explicit => files' = files)
  BY <1>1, <1>2, <1>3 DEF Rest, FilesKept
<1>7. ~Explicit => DueSet = {} /\ Undo = <<>>
  BY <1>1, NothingToUndo
<1>8. Running'
  BY <1>1 DEF Running
<1>9. Fresh'
  BY <1>1, <1>3, <1>4, <1>6 DEF Rest, Fresh
<1>10. CommitSpares'
  BY <1>1, <1>3, <1>5 DEF Rest, CommitSpares
<1>11. UndoSpares'
  BY <1>1, <1>3, <1>4 DEF Rest, UndoSpares
<1>12. FilesKept'
  <2>1. Present(Undo, files) => Present(Undo, files')
    BY <1>6, <1>7, EmptyList
  <2> QED
    BY <1>1, <1>3, <1>4, <1>6, <2>1 DEF Rest, FilesKept
<1>13. SavedEnds'
  BY <1>1, <1>3, <1>4 DEF Rest, SavedEnds
<1>14. Tidy'
  <2> SUFFICES ASSUME faults \cap {"write", "supersede", "unlink", "crash"} = {} PROVE Tidy'
    BY <1>1 DEF Tidy
  <2>1. ASSUME tx \in {"none", "open", "commit", "committed", "rolledBack"},
               failed => tx = "rolledBack"
        PROVE  Own \subseteq files' /\ files' \subseteq Own \cup DueSet'
    <3>1. files \subseteq prev \cup Own \cup DueSet
      BY <1>1, <1>3, <2>1 DEF Rest, Tidy, Current
    <3> QED
      BY <1>1, <1>2, <1>5, <1>6, <1>7, <3>1
  <2>2. ASSUME tx \in {"open", "rollback"}
        PROVE  /\ Pictures(atBegin) \subseteq files'
               /\ files' \subseteq Pictures(atBegin) \cup Removed(Undo)
    <3>1. Explicit
      BY <1>1, <2>2, NothingToUndo
    <3> QED
      BY <1>6, <2>2, <3>1 DEF Rest, Tidy
  <2> QED
    BY <1>1, <1>3, <1>4, <2>1, <2>2 DEF Tidy, Current
<1> QED
  BY <1>8, <1>9, <1>10, <1>11, <1>12, <1>13, <1>14 DEF Rest

LEMMA FailSupersedeRest ==
  ASSUME TypeOK, Shape, Rest, FailSupersede
  PROVE  Rest'
<1> USE DEF dataVars, localVars, requestVars, journalVars
<1>1. /\ pc = "saved" /\ pc' = "cleanup" /\ ~Explicit
      /\ "supersede" \in faults' /\ faults \subseteq faults'
      /\ files' \subseteq files /\ files \ Pictures(prev) \subseteq files'
      /\ UNCHANGED <<ref, saved, used, target, prev, written, snapshot, tx, commits, rollbacks,
                     todo, atBegin, failed>>
  BY NotEnded DEF FailSupersede, Fault, Lasting
<1>2. /\ faults' \cap {"restore", "crash", "unenlisted"}
           = faults \cap {"restore", "crash", "unenlisted"}
      /\ faults' \cap Unrepaired # {}
  BY <1>1 DEF FailSupersede, Fault, Unrepaired
<1>3. Undo' = Undo /\ DueSet' = DueSet
  BY <1>1, ListsKept
<1>4. Own' = Own /\ Old' = Old /\ Base' = Base /\ (Explicit' <=> Explicit)
  BY <1>1 DEF Own, Old, Base, Explicit
<1>5. prev \subseteq Old /\ Pictures(prev) = prev /\ written = Own /\ Old \cap Own = {}
  <2>1. prev \in SUBSET Pic
    BY DEF TypeOK
  <2> QED
    BY <1>1, <2>1, PicturesType DEF Rest, Running, Old
<1> HIDE DEF dataVars, localVars, requestVars, journalVars
<1>6. Running'
  BY <1>1, <1>4 DEF Rest, Running
<1>7. Fresh'
  BY <1>1, <1>3, <1>4 DEF Rest, Fresh
<1>8. CommitSpares'
  BY <1>1, <1>3, <1>4 DEF Rest, CommitSpares
<1>9. UndoSpares'
  BY <1>1, <1>3, <1>4 DEF Rest, UndoSpares
<1>10. FilesKept'
  BY <1>1, <1>2, <1>5 DEF Rest, FilesKept
<1>11. SavedEnds'
  BY <1>1, <1>2, <1>3, <1>4 DEF Rest, SavedEnds
<1>12. Tidy'
  BY <1>1 DEF Tidy
<1> QED
  BY <1>6, <1>7, <1>8, <1>9, <1>10, <1>11, <1>12 DEF Rest

LEMMA CleanupRest ==
  ASSUME TypeOK, Shape, Rest, Cleanup
  PROVE  Rest'
<1> USE DEF dataVars, localVars, requestVars, journalVars
<1>1. /\ pc = "cleanup" /\ pc' = "idle" /\ target' = {} /\ prev' = {} /\ written' = {}
      /\ UNCHANGED <<ref, saved, used, tx, commits, rollbacks, todo, atBegin>>
  BY DEF Cleanup, EndRequest, NoneWritten
<1>2. /\ faults \subseteq faults' /\ files' \subseteq files /\ files \ written \subseteq files'
      /\ faults' \cap Unrepaired = faults \cap Unrepaired
      /\ faults' \cap {"restore", "crash", "unenlisted"}
           = faults \cap {"restore", "crash", "unenlisted"}
      /\ "unlink" \notin faults' => files' = files \ written \/ Explicit
      /\ Explicit => files' = files /\ failed'
      /\ ~Explicit => (failed' <=> failed)
  <2>0. enlisted <=> Explicit
    BY NotEnded DEF Cleanup
  <2>1. CASE Explicit
    BY <2>0, <2>1 DEF Cleanup
  <2>2. CASE ~Explicit
    <3>1. \/ files' = files \ written /\ faults' = faults
          \/ /\ \E kept \in SUBSET written \ {{}} : files' = files \ (written \ kept)
             /\ faults' = faults \cup {"unlink"}
      BY <2>0, <2>2 DEF Cleanup, Discarded, Fault, Lasting
    <3> QED
      BY <2>0, <2>2, <3>1 DEF Cleanup, Unrepaired, TypeOK
  <2> QED
    BY <2>1, <2>2
<1>3. Undo' = Undo /\ DueSet' = DueSet
  BY <1>1 DEF Undo, Due, DueSet
<1>4. /\ Own' = {} /\ Old' = used /\ Old \subseteq used /\ Base' = Base /\ Base = ref
      /\ (Explicit' <=> Explicit)
  BY <1>1, PicturesType DEF Own, Old, Base, Explicit
<1>5. /\ written \subseteq Own /\ prev \subseteq Old /\ Old \cap Own = {}
      /\ Explicit \/ "supersede" \notin faults => ref = prev /\ Pictures(ref) = prev
  <2>1. prev \in SUBSET Pic
    BY DEF TypeOK
  <2> QED
    BY <1>1, <2>1, PicturesType DEF Rest, Running, Old, Own, TypeOK
<1>6. ~Explicit => DueSet = {} /\ Undo = <<>> /\ tx \notin {"open", "rollback"}
  BY <1>1, NothingToUndo
<1> HIDE DEF dataVars, localVars, requestVars, journalVars
<1>7. Running'
  BY <1>1 DEF Running
<1>8. Fresh'
  BY <1>1, <1>2, <1>3, <1>4 DEF Rest, Fresh
<1>9. CommitSpares'
  BY <1>1, <1>3, <1>4 DEF Rest, CommitSpares
<1>10. UndoSpares'
  BY <1>1, <1>3, <1>4 DEF Rest, UndoSpares
<1>11. FilesKept'
  <2> SUFFICES ASSUME faults \cap Unrepaired = {}
               PROVE  /\ Pictures(ref) \cup Pictures(saved) \subseteq files'
                      /\ Present(Undo, files') /\ SparesSaved(Undo, saved)
    BY <1>1, <1>2, <1>3 DEF FilesKept
  <2>1. /\ Pictures(ref) \cup Pictures(saved) \subseteq files
        /\ Present(Undo, files) /\ SparesSaved(Undo, saved)
    BY DEF Rest, FilesKept
  <2>2. CASE Explicit
    BY <1>2, <2>1, <2>2
  <2>3. CASE ~Explicit
    <3>1. "supersede" \notin faults /\ "unenlisted" \notin faults
      BY DEF Unrepaired
    <3>2. Pictures(ref) \subseteq Old /\ Pictures(saved) \subseteq Old
      BY <1>1, <1>5, <2>3, <3>1 DEF Rest, Fresh
    <3> QED
      BY <1>2, <1>5, <1>6, <2>1, <2>3, <3>2, EmptyList
  <2> QED
    BY <2>2, <2>3
<1>12. SavedEnds'
  BY <1>1, <1>2, <1>3, <1>4 DEF Rest, SavedEnds
<1>13. Tidy'
  <2> SUFFICES ASSUME faults' \cap {"write", "supersede", "unlink", "crash"} = {} PROVE Tidy'
    BY DEF Tidy
  <2>1. /\ faults \cap {"write", "supersede", "unlink", "crash"} = {}
        /\ "supersede" \notin faults /\ "unlink" \notin faults'
    BY <1>2
  <2>2. CASE Explicit
    <3>1. tx = "open"
      BY <2>2 DEF Explicit
    <3> QED
      BY <1>1, <1>2, <1>3, <2>1, <2>2, <3>1 DEF Rest, Tidy
  <2>3. CASE ~Explicit
    <3>1. Current' = prev /\ Current = prev \cup written
      BY <1>1, <1>5, <2>1 DEF Current
    <3>2. prev \cap written = {}
      BY <1>5
    <3> QED
      BY <1>1, <1>2, <1>3, <1>4, <1>6, <2>1, <2>3, <3>1, <3>2 DEF Rest, Tidy
  <2> QED
    BY <2>2, <2>3
<1> QED
  BY <1>7, <1>8, <1>9, <1>10, <1>11, <1>12, <1>13 DEF Rest

-----------------------------------------------------------------------------
\* One step of the transaction.
LEMMA BeginRest ==
  ASSUME TypeOK, Shape, Rest, Begin
  PROVE  Rest'
<1> USE DEF dataVars, localVars, requestVars, journalVars
<1>1. /\ pc = "idle" /\ pc' = "idle" /\ tx = "none" /\ tx' = "open" /\ atBegin' = ref
      /\ UNCHANGED <<ref, saved, files, used, target, prev, written, snapshot, commits,
                     rollbacks, todo, failed, faults>>
  BY DEF Begin
<1>2. /\ commits = <<>> /\ rollbacks = <<>> /\ todo = <<>> /\ ~failed
      /\ target = {} /\ written = {} /\ prev = {}
  BY <1>1 DEF Shape
<1>3. Undo = <<>> /\ Undo' = <<>> /\ DueSet = {} /\ DueSet' = {}
  <2>1. Undo = <<>> /\ Due = <<>> /\ Due' = <<>> /\ Undo' = Reverse(<<>>)
    BY <1>1, <1>2 DEF Undo, Due
  <2> QED
    BY <2>1, EmptyList DEF DueSet
<1>4. Own' = Own /\ Own = {} /\ Old' = used /\ Old = used /\ Base = ref /\ Base' = ref
  BY <1>1, <1>2, PicturesType DEF Own, Old, Base
<1> HIDE DEF dataVars, localVars, requestVars, journalVars
<1>5. Running'
  BY <1>1 DEF Running
<1>6. Fresh'
  BY <1>1, <1>3, <1>4, EmptyList DEF Rest, Fresh
<1>7. CommitSpares'
  BY <1>3 DEF CommitSpares
<1>8. UndoSpares'
  BY <1>1, <1>3, <1>4, EmptyList DEF UndoSpares
<1>9. FilesKept'
  BY <1>1, <1>3 DEF Rest, FilesKept
<1>10. SavedEnds'
  BY <1>1, <1>3, <1>4, EmptyList DEF Rest, SavedEnds
<1>11. Tidy'
  <2>1. ~Explicit
    BY <1>1 DEF Explicit
  <2>2. faults \cap {"write", "supersede", "unlink", "crash"} = {} =>
          Pictures(ref) \subseteq files /\ files \subseteq Pictures(ref)
    BY <1>1, <1>2, <1>3, <2>1 DEF Rest, Tidy, Current
  <2> QED
    BY <1>1, <1>3, <2>2 DEF Tidy, Current
<1> QED
  BY <1>5, <1>6, <1>7, <1>8, <1>9, <1>10, <1>11 DEF Rest

LEMMA FinalizeRest ==
  ASSUME TypeOK, Shape, Rest, InTurn', NEW phase \in {"commit", "rollback"}, Finalize(phase)
  PROVE  Rest'
<1> USE DEF dataVars, localVars, requestVars, journalVars
<1>1. /\ pc = "idle" /\ pc' = "idle" /\ tx = "open" /\ tx' = phase
      /\ todo' = IF phase = "commit" THEN commits ELSE Reverse(rollbacks)
      /\ UNCHANGED <<ref, saved, files, used, target, prev, written, snapshot, commits,
                     rollbacks, atBegin, failed, faults>>
  BY DEF Finalize, Explicit, Undoing, InTurn, Fault, Lasting
<1>2. Own' = Own /\ Old' = Old /\ Base' = Base
  BY <1>1 DEF Own, Old, Base
<1> HIDE DEF dataVars, localVars, requestVars, journalVars
<1>3. Running'
  BY <1>1 DEF Running
<1>4. CASE phase = "rollback"
  <2>1. Undo' = Undo /\ DueSet' = {}
    BY <1>1, <1>4 DEF Undo, Due, DueSet
  <2>2. Fresh'
    BY <1>1, <1>2, <2>1 DEF Rest, Fresh
  <2>3. CommitSpares' /\ UndoSpares' /\ FilesKept' /\ SavedEnds'
    BY <1>1, <1>2, <1>4, <2>1 DEF Rest, CommitSpares, UndoSpares, FilesKept, SavedEnds
  <2>4. Tidy'
    BY <1>1, <1>4, <2>1 DEF Rest, Tidy
  <2> QED
    BY <1>3, <2>2, <2>3, <2>4 DEF Rest
<1>5. CASE phase = "commit"
  <2>1. Undo' = <<>> /\ DueSet' = DueSet
    BY <1>1, <1>5 DEF Undo, Due, DueSet
  <2>2. Fresh'
    BY <1>1, <1>2, <2>1, EmptyList DEF Rest, Fresh
  <2>3. CommitSpares'
    BY <1>1, <1>2, <2>1 DEF Rest, CommitSpares
  <2>4. UndoSpares' /\ FilesKept' /\ SavedEnds'
    BY <1>1, <1>2, <1>5, <2>1, EmptyList DEF Rest, UndoSpares, FilesKept, SavedEnds
  <2>5. Tidy'
    BY <1>1, <1>5, <2>1 DEF Rest, Tidy, Current, Explicit
  <2> QED
    BY <1>3, <2>2, <2>3, <2>4, <2>5 DEF Rest
<1> QED
  BY <1>4, <1>5

\* The finalization takes the first action.
LEMMA FirstTaken ==
  ASSUME TypeOK, Shape, Finalizing, todo # <<>>, todo' = Tail(todo),
         UNCHANGED <<tx, commits, rollbacks, pc>>
  PROVE  /\ pc = "idle" /\ target = {} /\ written = {} /\ prev = {}
         /\ Own = {} /\ Old = used /\ Base = ref
         /\ Head(todo) \in Action
         /\ Pushed(todo, Head(todo), todo')
         /\ tx = "commit" =>
              /\ Undo = <<>> /\ Undo' = <<>>
              /\ Head(todo).kind = "unlink" /\ Head(todo).of \in DueSet
              /\ DueSet' \subseteq DueSet /\ DueSet \subseteq DueSet' \cup {Head(todo).of}
<1>1. pc = "idle" /\ target = {} /\ written = {} /\ prev = {}
  BY DEF Shape, Finalizing
<1>2. Own = {} /\ Old = used /\ Base = ref
  BY <1>1, PicturesType DEF Own, Old, Base
<1>3. Pushed(todo, Head(todo), todo')
  BY RunFirst DEF TypeOK
<1>4. Head(todo) \in Action
  BY <1>3 DEF Pushed
<1>5. ASSUME tx = "commit"
      PROVE  /\ Undo = <<>> /\ Undo' = <<>>
             /\ Head(todo).kind = "unlink" /\ Head(todo).of \in DueSet
             /\ DueSet' \subseteq DueSet /\ DueSet \subseteq DueSet' \cup {Head(todo).of}
  <2> DEFINE M == todo'
             a == Head(todo)
  <2>1. Undo = <<>> /\ Undo' = <<>> /\ Due = todo /\ Due' = M
    BY <1>5 DEF Undo, Due
  <2>2. /\ Len(M) \in Nat /\ Len(todo) = Len(M) + 1 /\ todo[1] = a
        /\ \A i \in 1..Len(M) : todo[i + 1] = M[i]
    BY <1>3 DEF Pushed, M, a
  <2>3. DueSet = {todo[i].of : i \in 1..Len(todo)} /\ DueSet' = {M[i].of : i \in 1..Len(M)}
    BY <2>1 DEF DueSet
  <2> HIDE DEF M, a
  <2>4. 1 \in 1..Len(todo) /\ \A i \in 1..Len(M) : i + 1 \in 1..Len(todo)
    BY <2>2
  <2>5. a.kind = "unlink"
    BY <1>5, <2>2, <2>4 DEF Shape
  <2>6. \A i \in 1..Len(todo) : i = 1 \/ (i - 1 \in 1..Len(M) /\ (i - 1) + 1 = i)
    BY <2>2
  <2>7. a.of \in DueSet /\ DueSet' \subseteq DueSet
    BY <2>2, <2>3, <2>4
  <2>8. DueSet \subseteq DueSet' \cup {a.of}
    <3> SUFFICES ASSUME NEW i \in 1..Len(todo) PROVE todo[i].of \in DueSet' \cup {a.of}
      BY <2>3
    <3>1. CASE i = 1
      BY <2>2, <3>1
    <3>2. CASE i - 1 \in 1..Len(M) /\ (i - 1) + 1 = i
      BY <2>2, <2>3, <3>2
    <3> QED
      BY <2>6, <3>1, <3>2
  <2> QED
    BY <2>1, <2>5, <2>7, <2>8 DEF a
<1> QED
  BY <1>1, <1>2, <1>3, <1>4, <1>5

\* The invariant while a rollback runs its actions.
RollingFresh ==
  /\ Pictures(ref) \subseteq used /\ Pictures(saved) \subseteq used /\ files \subseteq used
  /\ \A j \in Kind(todo, "restore") : Pictures(todo[j].of) \subseteq used
  /\ Pictures(atBegin) \subseteq used /\ Removed(todo) \subseteq used \ Pictures(atBegin)
RollingLists == Consistent(todo) /\ Spares(todo, ref) /\ Ends(todo, ref, atBegin)
RollingFiles ==
  faults \cap Unrepaired = {} =>
    /\ Pictures(ref) \cup Pictures(saved) \subseteq files
    /\ Present(todo, files) /\ SparesSaved(todo, saved)
RollingEnds ==
  faults \cap {"restore", "crash", "unenlisted"} = {} => EndsSaved(todo, saved, atBegin)
RollingTidy ==
  faults \cap {"write", "supersede", "unlink", "crash"} = {} =>
    /\ Pictures(atBegin) \subseteq files
    /\ files \subseteq Pictures(atBegin) \cup Removed(todo)
Rolling == /\ RollingFresh /\ RollingLists /\ RollingFiles
           /\ RollingEnds /\ RollingTidy

LEMMA RestRolling ==
  ASSUME Shape, Rest, tx = "rollback"
  PROVE  Rolling
<1>1. pc = "idle" /\ Undo = todo /\ Base = ref /\ Old \subseteq used
  BY DEF Shape, Undo, Base, Old
<1> QED
  BY <1>1
     DEF Rest, Fresh, UndoSpares, FilesKept, SavedEnds, Tidy, Rolling, RollingFresh,
         RollingLists, RollingFiles,
             RollingEnds, RollingTidy

LEMMA RollingRest ==
  ASSUME Shape', tx' = "rollback", Rolling'
  PROVE  Rest'
<1>1. /\ pc' = "idle" /\ target' = {} /\ prev' = {} /\ written' = {}
      /\ Undo' = todo' /\ Base' = ref' /\ DueSet' = {} /\ Old' = used'
  <2>1. pc' = "idle" /\ target' = {} /\ prev' = {} /\ written' = {} /\ Due' = <<>>
    BY DEF Shape, Due
  <2>2. Own' = {}
    BY <2>1, PicturesType DEF Own
  <2> QED
    BY <2>1, <2>2 DEF Undo, Base, Old, DueSet
<1>2. Running' /\ CommitSpares' /\ UndoSpares'
  BY <1>1 DEF Running, CommitSpares, UndoSpares, Rolling, RollingLists
<1>3. Fresh'
  BY <1>1 DEF Fresh, Rolling, RollingFresh
<1>4. FilesKept' /\ SavedEnds' /\ Tidy'
  BY <1>1 DEF FilesKept, SavedEnds, Tidy, Rolling, RollingFiles, RollingEnds, RollingTidy
<1> QED
  BY <1>2, <1>3, <1>4 DEF Rest

LEMMA RunActionRest ==
  ASSUME TypeOK, AtRest, Shape, Rest, InTurn', RunAction
  PROVE  Rest'
<1> USE DEF dataVars, localVars, requestVars, journalVars
<1>1. /\ Finalizing /\ todo # <<>> /\ todo' = Tail(todo)
      /\ UNCHANGED <<used, target, prev, written, snapshot, tx, commits, rollbacks, pc,
                     atBegin, failed, faults>>
  BY DEF RunAction
<1>2. /\ pc = "idle" /\ target = {} /\ written = {} /\ prev = {}
      /\ Own = {} /\ Old = used /\ Base = ref
      /\ Head(todo) \in Action /\ Pushed(todo, Head(todo), todo')
      /\ tx = "commit" =>
           /\ Undo = <<>> /\ Undo' = <<>>
           /\ Head(todo).kind = "unlink" /\ Head(todo).of \in DueSet
           /\ DueSet' \subseteq DueSet /\ DueSet \subseteq DueSet' \cup {Head(todo).of}
  BY <1>1, FirstTaken
<1>3. Own' = {} /\ Old' = used /\ Base' = ref' /\ pc' = "idle"
  BY <1>1, <1>2, PicturesType DEF Own, Old, Base
<1>4. tx \in {"commit", "rollback"}
  BY <1>1 DEF Finalizing
<1>5. PICK a \in Action : a = Head(todo)
  BY <1>2
<1>6. /\ a.kind = "unlink" => files' = files \ {a.of} /\ ref' = ref /\ saved' = saved
      /\ a.kind = "restore" => ref' = a.of /\ saved' = a.of /\ files' = files
      /\ a.kind = "resave" => saved' = ref /\ ref' = ref /\ files' = files
  BY <1>5 DEF RunAction
<1> HIDE DEF dataVars, localVars, requestVars, journalVars
<1>7. CASE tx = "commit"
  <2>1. files' = files \ {a.of} /\ ref' = ref /\ saved' = saved /\ a.of \in DueSet
    BY <1>2, <1>5, <1>6, <1>7
  <2>2. a.of \notin Pictures(ref) /\ a.of \notin Pictures(saved)
    BY <2>1 DEF Rest, CommitSpares
  <2>3. Running' /\ Fresh'
    BY <1>1, <1>2, <1>3, <1>7, <2>1, EmptyList DEF Rest, Running, Fresh
  <2>4. CommitSpares'
    BY <1>1, <1>2, <1>3, <1>7, <2>1 DEF Rest, CommitSpares
  <2>5. UndoSpares' /\ SavedEnds'
    BY <1>1, <1>2, <1>7, EmptyList DEF UndoSpares, SavedEnds
  <2>6. FilesKept'
    BY <1>1, <1>2, <1>7, <2>1, <2>2, EmptyList DEF Rest, FilesKept
  <2>7. Tidy'
    BY <1>1, <1>2, <1>3, <1>5, <1>7, <2>1, <2>2 DEF Rest, Tidy, Current, Explicit
  <2> QED
    BY <2>3, <2>4, <2>5, <2>6, <2>7 DEF Rest
<1>8. CASE tx = "rollback"
  <2>0. Pushed(todo, a, todo')
    BY <1>2, <1>5
  <2>1. Rolling
    BY <1>8, RestRolling
  <2>2. ASSUME a.kind = "unlink" PROVE Rolling'
    <3>1. PICK p \in Pic : a = Unlink(p)
      BY <2>2 DEF Action, Unlink, Resave
    <3>2. files' = files \ {p} /\ ref' = ref /\ saved' = saved
      BY <1>6, <2>2, <3>1 DEF Unlink
    <3>3. Pushed(todo, Unlink(p), todo')
      BY <2>0, <3>1
    <3>4. /\ Consistent(todo) => Consistent(todo')
          /\ Spares(todo, ref) => Spares(todo', ref) /\ p \notin Pictures(ref)
          /\ SparesSaved(todo, saved) => SparesSaved(todo', saved) /\ p \notin Pictures(saved)
      BY <3>3, UnlinkFirst
    <3>5. /\ Consistent(todo) /\ Present(todo, files) => Present(todo', files')
          /\ Ends(todo, ref, atBegin) => Ends(todo', ref, atBegin)
          /\ EndsSaved(todo, saved, atBegin) => EndsSaved(todo', saved, atBegin)
      BY <3>2, <3>3, UnlinkFirst
    <3>6. Removed(todo) = Removed(todo') \cup {p}
      BY <3>3, UnlinkFirst
    <3>11. \A j \in Kind(todo', "restore") : \E i \in Kind(todo, "restore") : todo[i] = todo'[j]
      BY <3>3, PushedKinds
    <3>7. p \notin Pictures(atBegin)
      BY <2>1, <3>6 DEF Rolling, RollingFresh
    <3>8. \A j \in Kind(todo', "restore") : Pictures(todo'[j].of) \subseteq used
      BY <2>1, <3>11 DEF Rolling, RollingFresh
    <3>9. faults \cap Unrepaired = {} =>
            /\ Pictures(ref) \cup Pictures(saved) \subseteq files'
            /\ Present(todo', files') /\ SparesSaved(todo', saved)
      BY <2>1, <3>2, <3>4, <3>5 DEF Rolling, RollingLists, RollingFiles
    <3>10. faults \cap {"write", "supersede", "unlink", "crash"} = {} =>
             /\ Pictures(atBegin) \subseteq files'
             /\ files' \subseteq Pictures(atBegin) \cup Removed(todo')
      BY <2>1, <3>2, <3>6, <3>7 DEF Rolling, RollingTidy
    <3>20. RollingFresh'
      BY <1>1, <2>1, <3>2, <3>4, <3>5, <3>6, <3>8, <3>9, <3>10 DEF Rolling, RollingFresh
    <3>21. RollingLists'
      BY <1>1, <2>1, <3>2, <3>4, <3>5, <3>6, <3>8, <3>9, <3>10 DEF Rolling, RollingLists
    <3>22. RollingFiles'
      BY <1>1, <2>1, <3>2, <3>4, <3>5, <3>6, <3>8, <3>9, <3>10
         DEF Rolling, RollingFiles, RollingLists
    <3>23. RollingEnds'
      BY <1>1, <2>1, <3>2, <3>4, <3>5, <3>6, <3>8, <3>9, <3>10
         DEF Rolling, RollingEnds, RollingLists
    <3>24. RollingTidy'
      BY <1>1, <2>1, <3>2, <3>4, <3>5, <3>6, <3>8, <3>9, <3>10 DEF Rolling, RollingTidy
    <3> QED
      BY <3>20, <3>21, <3>22, <3>23, <3>24 DEF Rolling
  <2>3. ASSUME a.kind = "restore" PROVE Rolling'
    <3>1. PICK x \in Value : a = Restore(x)
      BY <2>3 DEF Action, Restore, Resave
    <3>2. ref' = x /\ saved' = x /\ files' = files
      BY <1>6, <2>3, <3>1 DEF Restore
    <3>3. Pushed(todo, Restore(x), todo')
      BY <2>0, <3>1
    <3>4. /\ Consistent(todo) => Consistent(todo') /\ Spares(todo', x)
          /\ Consistent(todo) => SparesSaved(todo', x)
      BY <3>3, RestoreFirst
    <3>5. /\ Present(todo, files) => Present(todo', files) /\ Pictures(x) \subseteq files
          /\ Ends(todo, ref, atBegin) => Ends(todo', x, atBegin)
          /\ Ends(todo, ref, atBegin) => EndsSaved(todo', x, atBegin)
      BY <3>3, RestoreFirst
    <3>6. /\ Removed(todo) = Removed(todo')
          /\ \A j \in Kind(todo', "restore") : \E i \in Kind(todo, "restore") : todo[i] = todo'[j]
      BY <3>3, RestoreFirst
    <3>7. \A j \in Kind(todo', "restore") : Pictures(todo'[j].of) \subseteq used
      BY <2>1, <3>6 DEF Rolling, RollingFresh
    <3>8. Pictures(x) \subseteq used
      <4>1. todo[1] = a /\ 1 \in 1..Len(todo)
        BY <2>0 DEF Pushed
      <4>2. 1 \in Kind(todo, "restore") /\ todo[1].of = x
        BY <2>3, <3>1, <4>1 DEF Kind, Restore
      <4> QED
        BY <2>1, <4>2 DEF Rolling, RollingFresh
    <3>20. RollingFresh'
      BY <1>1, <2>1, <3>2, <3>4, <3>5, <3>6, <3>7, <3>8 DEF Rolling, RollingFresh
    <3>21. RollingLists'
      BY <1>1, <2>1, <3>2, <3>4, <3>5, <3>6, <3>7, <3>8 DEF Rolling, RollingLists
    <3>22. RollingFiles'
      BY <1>1, <2>1, <3>2, <3>4, <3>5, <3>6, <3>7, <3>8 DEF Rolling, RollingFiles, RollingLists
    <3>23. RollingEnds'
      BY <1>1, <2>1, <3>2, <3>4, <3>5, <3>6, <3>7, <3>8 DEF Rolling, RollingEnds, RollingLists
    <3>24. RollingTidy'
      BY <1>1, <2>1, <3>2, <3>4, <3>5, <3>6, <3>7, <3>8 DEF Rolling, RollingTidy
    <3> QED
      BY <3>20, <3>21, <3>22, <3>23, <3>24 DEF Rolling
  <2>4. ASSUME a.kind = "resave" PROVE Rolling'
    <3>1. a = Resave
      BY <2>4 DEF Action
    <3>2. ref' = ref /\ saved' = ref /\ files' = files
      BY <1>6, <2>4
    <3>3. Pushed(todo, Resave, todo')
      BY <2>0, <3>1
    <3>4. /\ Consistent(todo) => Consistent(todo')
          /\ Spares(todo, ref) => Spares(todo', ref) /\ SparesSaved(todo', ref)
      BY <3>3, ResaveFirst
    <3>5. /\ Present(todo, files) => Present(todo', files)
          /\ Ends(todo, ref, atBegin) => Ends(todo', ref, atBegin) /\ EndsSaved(todo', ref, atBegin)
      BY <3>3, ResaveFirst
    <3>6. /\ Removed(todo) = Removed(todo')
          /\ \A j \in Kind(todo', "restore") : \E i \in Kind(todo, "restore") : todo[i] = todo'[j]
      BY <3>3, ResaveFirst
    <3>7. \A j \in Kind(todo', "restore") : Pictures(todo'[j].of) \subseteq used
      BY <2>1, <3>6 DEF Rolling, RollingFresh
    <3>20. RollingFresh'
      BY <1>1, <2>1, <3>2, <3>4, <3>5, <3>6, <3>7 DEF Rolling, RollingFresh
    <3>21. RollingLists'
      BY <1>1, <2>1, <3>2, <3>4, <3>5, <3>6, <3>7 DEF Rolling, RollingLists
    <3>22. RollingFiles'
      BY <1>1, <2>1, <3>2, <3>4, <3>5, <3>6, <3>7 DEF Rolling, RollingFiles, RollingLists
    <3>23. RollingEnds'
      BY <1>1, <2>1, <3>2, <3>4, <3>5, <3>6, <3>7 DEF Rolling, RollingEnds, RollingLists
    <3>24. RollingTidy'
      BY <1>1, <2>1, <3>2, <3>4, <3>5, <3>6, <3>7 DEF Rolling, RollingTidy
    <3> QED
      BY <3>20, <3>21, <3>22, <3>23, <3>24 DEF Rolling
  <2>5. Rolling'
    <3>1. a.kind \in {"unlink", "restore", "resave"}
      BY DEF Action, Resave
    <3> QED
      BY <2>2, <2>3, <2>4, <3>1
  <2>6. Shape'
    <3>1. [Next]_vars
      BY DEF Next, Transaction
    <3> QED
      BY <3>1, ShapeStep
  <2> QED
    BY <1>1, <1>8, <2>5, <2>6, RollingRest
<1> QED
  BY <1>4, <1>7, <1>8

LEMMA FailActionRest ==
  ASSUME TypeOK, AtRest, Shape, Rest, InTurn', FailAction
  PROVE  Rest'
<1> USE DEF dataVars, localVars, requestVars, journalVars
<1>1. /\ Finalizing /\ todo # <<>> /\ todo' = Tail(todo)
      /\ UNCHANGED <<saved, files, used, target, prev, written, snapshot, tx, commits,
                     rollbacks, pc, atBegin, failed>>
  BY DEF FailAction
<1>2. /\ pc = "idle" /\ target = {} /\ written = {} /\ prev = {}
      /\ Own = {} /\ Old = used /\ Base = ref
      /\ Head(todo) \in Action /\ Pushed(todo, Head(todo), todo')
      /\ tx = "commit" =>
           /\ Undo = <<>> /\ Undo' = <<>>
           /\ Head(todo).kind = "unlink" /\ Head(todo).of \in DueSet
           /\ DueSet' \subseteq DueSet /\ DueSet \subseteq DueSet' \cup {Head(todo).of}
  BY <1>1, FirstTaken
<1>3. Own' = {} /\ Old' = used /\ Base' = ref' /\ pc' = "idle"
  BY <1>1, <1>2, PicturesType DEF Own, Old, Base
<1>4. tx \in {"commit", "rollback"}
  BY <1>1 DEF Finalizing
<1>5. PICK a \in Action : a = Head(todo)
  BY <1>2
<1>6. /\ ref' = IF a.kind = "restore" THEN a.of ELSE ref
      /\ faults \subseteq faults'
      /\ a.kind = "unlink" =>
           /\ "unlink" \in faults'
           /\ faults' \cap Unrepaired = faults \cap Unrepaired
           /\ faults' \cap {"restore", "crash", "unenlisted"}
                = faults \cap {"restore", "crash", "unenlisted"}
      /\ a.kind # "unlink" =>
           /\ "restore" \in faults'
           /\ faults' \cap Unrepaired # {}
           /\ faults' \cap {"write", "supersede", "unlink", "crash"}
                = faults \cap {"write", "supersede", "unlink", "crash"}
  BY <1>5 DEF FailAction, Fault, Lasting, Unrepaired
<1> HIDE DEF dataVars, localVars, requestVars, journalVars
<1>7. CASE tx = "commit"
  <2>1. ref' = ref /\ a.kind = "unlink"
    BY <1>2, <1>5, <1>6, <1>7
  <2>2. Running' /\ Fresh'
    BY <1>1, <1>2, <1>3, <1>7, <2>1, EmptyList DEF Rest, Running, Fresh
  <2>3. CommitSpares'
    BY <1>1, <1>2, <1>3, <1>7, <2>1 DEF Rest, CommitSpares
  <2>4. UndoSpares' /\ SavedEnds' /\ Tidy'
    BY <1>1, <1>2, <1>6, <1>7, <2>1, EmptyList DEF UndoSpares, SavedEnds, Tidy
  <2>5. FilesKept'
    BY <1>1, <1>2, <1>6, <1>7, <2>1, EmptyList DEF Rest, FilesKept
  <2> QED
    BY <2>2, <2>3, <2>4, <2>5 DEF Rest
<1>8. CASE tx = "rollback"
  <2>0. Pushed(todo, a, todo')
    BY <1>2, <1>5
  <2>1. Rolling
    BY <1>8, RestRolling
  <2>2. ASSUME a.kind = "unlink" PROVE Rolling'
    <3>1. PICK p \in Pic : a = Unlink(p)
      BY <2>2 DEF Action, Unlink, Resave
    <3>2. ref' = ref
      BY <1>6, <2>2
    <3>3. Pushed(todo, Unlink(p), todo')
      BY <2>0, <3>1
    <3>4. /\ Consistent(todo) => Consistent(todo')
          /\ Spares(todo, ref) => Spares(todo', ref)
          /\ SparesSaved(todo, saved) => SparesSaved(todo', saved)
      BY <3>3, UnlinkFirst
    <3>5. /\ Consistent(todo) /\ Present(todo, files) => Present(todo', files \ {p})
          /\ Ends(todo, ref, atBegin) => Ends(todo', ref, atBegin)
          /\ EndsSaved(todo, saved, atBegin) => EndsSaved(todo', saved, atBegin)
      BY <3>3, UnlinkFirst
    <3>6. Removed(todo) = Removed(todo') \cup {p}
      BY <3>3, UnlinkFirst
    <3>11. \A j \in Kind(todo', "restore") : \E i \in Kind(todo, "restore") : todo[i] = todo'[j]
      BY <3>3, PushedKinds
    <3>7. Present(todo', files \ {p}) => Present(todo', files)
      BY MoreFiles
    <3>8. \A j \in Kind(todo', "restore") : Pictures(todo'[j].of) \subseteq used
      BY <2>1, <3>11 DEF Rolling, RollingFresh
    <3>20. RollingFresh'
      BY <1>1, <1>6, <2>1, <2>2, <3>2, <3>4, <3>5, <3>6, <3>7, <3>8 DEF Rolling, RollingFresh
    <3>21. RollingLists'
      BY <1>1, <1>6, <2>1, <2>2, <3>2, <3>4, <3>5, <3>6, <3>7, <3>8 DEF Rolling, RollingLists
    <3>22. RollingFiles'
      BY <1>1, <1>6, <2>1, <2>2, <3>2, <3>4, <3>5, <3>6, <3>7, <3>8
         DEF Rolling, RollingFiles, RollingLists
    <3>23. RollingEnds'
      BY <1>1, <1>6, <2>1, <2>2, <3>2, <3>4, <3>5, <3>6, <3>7, <3>8
         DEF Rolling, RollingEnds, RollingLists
    <3>24. RollingTidy'
      BY <1>1, <1>6, <2>1, <2>2, <3>2, <3>4, <3>5, <3>6, <3>7, <3>8 DEF Rolling, RollingTidy
    <3> QED
      BY <3>20, <3>21, <3>22, <3>23, <3>24 DEF Rolling
  <2>3. ASSUME a.kind = "restore" PROVE Rolling'
    <3>1. PICK x \in Value : a = Restore(x)
      BY <2>3 DEF Action, Restore, Resave
    <3>2. ref' = x
      BY <1>6, <2>3, <3>1 DEF Restore
    <3>3. Pushed(todo, Restore(x), todo')
      BY <2>0, <3>1
    <3>4. Consistent(todo) => Consistent(todo') /\ Spares(todo', x)
      BY <3>3, RestoreFirst
    <3>5. Ends(todo, ref, atBegin) => Ends(todo', x, atBegin)
      BY <3>3, RestoreFirst
    <3>6. /\ Removed(todo) = Removed(todo')
          /\ \A j \in Kind(todo', "restore") : \E i \in Kind(todo, "restore") : todo[i] = todo'[j]
      BY <3>3, RestoreFirst
    <3>7. \A j \in Kind(todo', "restore") : Pictures(todo'[j].of) \subseteq used
      BY <2>1, <3>6 DEF Rolling, RollingFresh
    <3>8. Pictures(x) \subseteq used
      <4>1. todo[1] = a /\ 1 \in 1..Len(todo)
        BY <2>0 DEF Pushed
      <4>2. 1 \in Kind(todo, "restore") /\ todo[1].of = x
        BY <2>3, <3>1, <4>1 DEF Kind, Restore
      <4> QED
        BY <2>1, <4>2 DEF Rolling, RollingFresh
    <3>20. RollingFresh'
      BY <1>1, <1>6, <2>1, <2>3, <3>2, <3>4, <3>5, <3>6, <3>7, <3>8 DEF Rolling, RollingFresh
    <3>21. RollingLists'
      BY <1>1, <1>6, <2>1, <2>3, <3>2, <3>4, <3>5, <3>6, <3>7, <3>8 DEF Rolling, RollingLists
    <3>22. RollingFiles'
      BY <1>1, <1>6, <2>1, <2>3, <3>2, <3>4, <3>5, <3>6, <3>7, <3>8
         DEF Rolling, RollingFiles, RollingLists
    <3>23. RollingEnds'
      BY <1>1, <1>6, <2>1, <2>3, <3>2, <3>4, <3>5, <3>6, <3>7, <3>8
         DEF Rolling, RollingEnds, RollingLists
    <3>24. RollingTidy'
      BY <1>1, <1>6, <2>1, <2>3, <3>2, <3>4, <3>5, <3>6, <3>7, <3>8 DEF Rolling, RollingTidy
    <3> QED
      BY <3>20, <3>21, <3>22, <3>23, <3>24 DEF Rolling
  <2>4. ASSUME a.kind = "resave" PROVE Rolling'
    <3>1. a = Resave
      BY <2>4 DEF Action
    <3>2. ref' = ref
      BY <1>6, <2>4
    <3>3. Pushed(todo, Resave, todo')
      BY <2>0, <3>1
    <3>4. /\ Consistent(todo) => Consistent(todo')
          /\ Spares(todo, ref) => Spares(todo', ref)
          /\ Ends(todo, ref, atBegin) => Ends(todo', ref, atBegin)
      BY <3>3, ResaveFirst
    <3>5. /\ Removed(todo) = Removed(todo')
          /\ \A j \in Kind(todo', "restore") : \E i \in Kind(todo, "restore") : todo[i] = todo'[j]
      BY <3>3, ResaveFirst
    <3>6. \A j \in Kind(todo', "restore") : Pictures(todo'[j].of) \subseteq used
      BY <2>1, <3>5 DEF Rolling, RollingFresh
    <3>20. RollingFresh'
      BY <1>1, <1>6, <2>1, <2>4, <3>2, <3>4, <3>5, <3>6 DEF Rolling, RollingFresh
    <3>21. RollingLists'
      BY <1>1, <1>6, <2>1, <2>4, <3>2, <3>4, <3>5, <3>6 DEF Rolling, RollingLists
    <3>22. RollingFiles'
      BY <1>1, <1>6, <2>1, <2>4, <3>2, <3>4, <3>5, <3>6 DEF Rolling, RollingFiles, RollingLists
    <3>23. RollingEnds'
      BY <1>1, <1>6, <2>1, <2>4, <3>2, <3>4, <3>5, <3>6 DEF Rolling, RollingEnds, RollingLists
    <3>24. RollingTidy'
      BY <1>1, <1>6, <2>1, <2>4, <3>2, <3>4, <3>5, <3>6 DEF Rolling, RollingTidy
    <3> QED
      BY <3>20, <3>21, <3>22, <3>23, <3>24 DEF Rolling
  <2>5. Rolling'
    <3>1. a.kind \in {"unlink", "restore", "resave"}
      BY DEF Action, Resave
    <3> QED
      BY <2>2, <2>3, <2>4, <3>1
  <2>6. Shape'
    <3>1. [Next]_vars
      BY DEF Next, Transaction
    <3> QED
      BY <3>1, ShapeStep
  <2> QED
    BY <1>1, <1>8, <2>5, <2>6, RollingRest
<1> QED
  BY <1>4, <1>7, <1>8

LEMMA FinalizedRest ==
  ASSUME TypeOK, Shape, Rest, Finalized
  PROVE  Rest'
<1> USE DEF dataVars, localVars, requestVars, journalVars
<1>1. /\ todo = <<>> /\ tx \in {"commit", "rollback"} /\ pc = "idle"
      /\ tx' = IF tx = "commit" THEN "committed" ELSE "rolledBack"
      /\ commits' = <<>>
      /\ UNCHANGED <<ref, saved, files, used, target, prev, written, snapshot, todo, pc,
                     atBegin, failed, faults>>
  BY DEF Finalized, Finalizing, Shape
<1>2. target = {} /\ written = {} /\ prev = {}
  BY <1>1 DEF Shape
<1>3. Undo = <<>> /\ Undo' = <<>> /\ DueSet = {} /\ DueSet' = {}
  <2>1. Undo = <<>> /\ Due = <<>> /\ Due' = <<>> /\ Undo' = <<>>
    BY <1>1 DEF Undo, Due
  <2> QED
    BY <2>1 DEF DueSet
<1>4. Own' = Own /\ Old' = Old /\ Base' = Base /\ Base = ref
  BY <1>1 DEF Own, Old, Base
<1> HIDE DEF dataVars, localVars, requestVars, journalVars
<1>5. Running' /\ CommitSpares' /\ SavedEnds'
  BY <1>1, <1>3 DEF Running, CommitSpares, SavedEnds
<1>6. Fresh'
  BY <1>1, <1>3, <1>4 DEF Rest, Fresh
<1>7. UndoSpares'
  BY <1>1, <1>3, EmptyList DEF UndoSpares
<1>8. FilesKept'
  BY <1>1, <1>2, <1>3 DEF Rest, FilesKept
<1>9. Tidy'
  <2> SUFFICES ASSUME faults \cap {"write", "supersede", "unlink", "crash"} = {},
                      failed => tx = "rollback"
               PROVE  Pictures(ref) \subseteq files /\ files \subseteq Pictures(ref)
    BY <1>1, <1>3 DEF Tidy, Current
  <2>1. CASE tx = "commit"
    BY <1>1, <1>3, <2>1 DEF Rest, Tidy, Current, Explicit
  <2>2. CASE tx = "rollback"
    <3>1. Ends(<<>>, ref, atBegin)
      BY <1>3, <1>4, <2>2 DEF Rest, UndoSpares
    <3>2. ref = atBegin
      BY <3>1, EmptyList
    <3> QED
      BY <1>3, <2>2, <3>2, EmptyList DEF Rest, Tidy
  <2> QED
    BY <1>1, <2>1, <2>2
<1> QED
  BY <1>5, <1>6, <1>7, <1>8, <1>9 DEF Rest

LEMMA CrashRest ==
  ASSUME TypeOK, Shape, Rest, Crash
  PROVE  Rest'
<1> USE DEF dataVars, localVars, requestVars, journalVars
<1>1. /\ pc' = "idle" /\ target' = {} /\ prev' = {} /\ written' = {} /\ ref' = saved
      /\ todo' = <<>> /\ commits' = <<>> /\ tx' \notin {"open", "commit", "rollback"}
      /\ UNCHANGED <<saved, files, used, atBegin>>
      /\ "crash" \in faults' /\ faults \subseteq faults'
  BY DEF Crash, EndRequest, NoneWritten, Fault, Lasting, TypeOK
<1>2. Undo' = <<>> /\ DueSet' = {}
  BY <1>1 DEF Undo, Due, DueSet
<1>3. Own' = {} /\ Old' = used /\ Old \subseteq used
  BY <1>1, PicturesType DEF Own, Old
<1> HIDE DEF dataVars, localVars, requestVars, journalVars
<1>4. Running' /\ CommitSpares' /\ SavedEnds' /\ Tidy'
  BY <1>1, <1>2 DEF Running, CommitSpares, SavedEnds, Tidy
<1>5. Fresh'
  BY <1>1, <1>2, <1>3, EmptyList DEF Rest, Fresh
<1>6. UndoSpares'
  BY <1>1, <1>2, EmptyList DEF UndoSpares
<1>7. FilesKept'
  BY <1>1, <1>2, EmptyList DEF Rest, FilesKept, Unrepaired
<1> QED
  BY <1>4, <1>5, <1>6, <1>7 DEF Rest

-----------------------------------------------------------------------------
\* PInv is inductive.
LEMMA InitRest == Init => Rest
<1> SUFFICES ASSUME Init PROVE Rest
  OBVIOUS
<1>1. /\ Pictures(First) = First /\ Pictures({}) = {}
      /\ ref = First /\ saved = First /\ files = First /\ used = First
      /\ pc = "idle" /\ target = {} /\ prev = {} /\ written = {} /\ tx = "none"
      /\ commits = <<>> /\ atBegin = {} /\ failed = FALSE
  BY PicturesType, FirstAssumption DEF Init
<1>2. Undo = <<>> /\ Due = <<>> /\ Own = {} /\ Old = First /\ Base = First
  BY <1>1 DEF Undo, Due, Own, Old, Base
<1>3. DueSet = {}
  BY <1>2 DEF DueSet
<1>4. Running /\ Fresh /\ CommitSpares
  BY <1>1, <1>2, <1>3, EmptyList DEF Running, Fresh, CommitSpares
<1>5. UndoSpares /\ FilesKept /\ SavedEnds
  BY <1>1, <1>2, EmptyList DEF UndoSpares, FilesKept, SavedEnds
<1>6. Tidy
  BY <1>1, <1>3 DEF Tidy, Current
<1> QED
  BY <1>4, <1>5, <1>6 DEF Rest

LEMMA StutterRest ==
  ASSUME Rest, UNCHANGED vars
  PROVE  Rest'
<1>1. UNCHANGED <<ref, saved, files, used, pc, target, prev, written, snapshot, tx,
                  commits, rollbacks, todo, atBegin, failed, faults>>
  BY DEF vars, dataVars, localVars, requestVars, journalVars
<1>2. /\ Undo' = Undo /\ DueSet' = DueSet /\ Own' = Own /\ Old' = Old /\ Base' = Base
      /\ Current' = Current /\ (Explicit' <=> Explicit)
  BY <1>1 DEF Undo, Due, DueSet, Own, Old, Base, Current, Explicit
<1>3. Running' /\ Fresh'
  BY <1>1, <1>2 DEF Rest, Running, Fresh
<1>4. CommitSpares' /\ UndoSpares'
  BY <1>1, <1>2 DEF Rest, CommitSpares, UndoSpares
<1>5. FilesKept' /\ SavedEnds' /\ Tidy'
  BY <1>1, <1>2 DEF Rest, FilesKept, SavedEnds, Tidy
<1> QED
  BY <1>3, <1>4, <1>5 DEF Rest

\* A fault that lasts is remembered.
LEMMA FaultsStay ==
  ASSUME [Next]_vars
  PROVE  faults \subseteq faults'
<1> USE DEF dataVars, localVars, requestVars, journalVars, Fault
<1>1. ASSUME Request PROVE faults \subseteq faults'
  <2> USE <1>1 DEF Request
  <2>1. ASSUME NEW v \in Value, StartRequest(v) PROVE faults \subseteq faults'
    BY <2>1 DEF StartRequest
  <2>2. ASSUME NEW p \in Pic, WriteFile(p) \/ FailWrite(p) PROVE faults \subseteq faults'
    BY <2>2 DEF WriteFile, FailWrite
  <2>3. CASE Mutate \/ FailMutate \/ Save \/ FailSave
    BY <2>3 DEF Mutate, FailMutate, Save, FailSave
  <2>4. CASE Supersede \/ KeepSuperseded \/ FailSupersede \/ Cleanup
    BY <2>4 DEF Supersede, KeepSuperseded, FailSupersede, Cleanup
  <2> QED
    BY <2>1, <2>2, <2>3, <2>4
<1>2. ASSUME Transaction PROVE faults \subseteq faults'
  BY <1>2 DEF Transaction, Begin, Finalize, RunAction, FailAction, Finalized
<1>3. CASE Crash
  BY <1>3 DEF Crash
<1>4. CASE UNCHANGED vars
  BY <1>4 DEF vars
<1> QED
  BY <1>1, <1>2, <1>3, <1>4 DEF Next

LEMMA Inductive ==
  /\ Init => PInv
  /\ PInv /\ [Next]_vars => PInv'
<1>1. Init => PInv
  BY InitTyped, InitRest DEF PInv
<1>2. ASSUME PInv, [Next]_vars PROVE PInv'
  <2>1. TypeOK' /\ AtRest'
    BY <1>2, NextTyped DEF PInv
  <2>2. ASSUME InTurn' PROVE Shape' /\ Rest'
    <3>0. InTurn
      BY <1>2, <2>2, FaultsStay DEF InTurn
    <3>1. TypeOK /\ AtRest /\ Shape /\ Rest
      BY <1>2, <3>0 DEF PInv
    <3>4. Shape'
      BY <1>2, <2>2, <3>1, ShapeStep
    <3>5. ~KeepSuperseded
      BY <3>1, NotEnded DEF KeepSuperseded
    <3>2. ASSUME Request PROVE Rest'
      BY <3>1, <3>2, <3>5, StartRest, WriteRest, FailWriteRest, MutateRest, FailMutateRest,
         SaveRest, FailSaveRest, SupersedeRest, FailSupersedeRest, CleanupRest DEF Request
    <3>3. ASSUME Transaction PROVE Rest'
      BY <2>2, <3>1, <3>3, BeginRest, FinalizeRest, RunActionRest, FailActionRest, FinalizedRest
         DEF Transaction
    <3> QED
      BY <1>2, <3>1, <3>2, <3>3, <3>4, CrashRest, StutterRest DEF Next
  <2> QED
    BY <2>1, <2>2 DEF PInv
<1> QED
  BY <1>1, <1>2

\* PInv is an invariant.
THEOREM Invariance == Spec => []PInv
BY Inductive, PTL DEF Spec

\* However many pictures, requests and transactions there are, a reference in
\* the Maps or in database.json loses its file only after one of the four
\* faults the code does not repair; one of them is a finalization under the
\* handler of a dropped connection.
THEOREM OnlyFourFaultsLoseFiles == Spec => []OnlyUnrepairedFaultsLoseFiles
<1>1. PInv => OnlyUnrepairedFaultsLoseFiles
  BY DEF PInv, InTurn, Rest, FilesKept, OnlyUnrepairedFaultsLoseFiles, ReferencedFilesExist, Unrepaired
<1> QED
  BY Invariance, <1>1, PTL

\* A rollback that has run its actions, all of them with success, has put the
\* field back as it was when the transaction opened, in the Maps and on disk.
THEOREM RollbackRestores == Spec => []RollbackUndoes
<1>1. PInv => RollbackUndoes
  <2> SUFFICES ASSUME PInv, tx = "rollback", todo = <<>>,
                      faults \cap {"restore", "crash", "unenlisted", "disconnect"} = {}
               PROVE  ref = atBegin /\ saved = atBegin
    BY DEF RollbackUndoes
  <2>1. Rolling
    BY RestRolling DEF PInv, InTurn
  <2>2. Ends(<<>>, ref, atBegin) /\ EndsSaved(<<>>, saved, atBegin)
    BY <2>1 DEF Rolling, RollingLists, RollingEnds
  <2> QED
    BY <2>2, EmptyList
<1> QED
  BY Invariance, <1>1, PTL

\* With no failed file operation behind it, a record at rest has exactly the
\* files it refers to.
THEOREM NothingIsLeftOver == Spec => []NoFileIsLeaked
<1>1. PInv => NoFileIsLeaked
  <2> SUFFICES ASSUME PInv, pc = "idle", tx \in {"none", "committed", "rolledBack"},
                      failed => tx = "rolledBack",
                      faults \cap {"write", "supersede", "unlink", "crash", "disconnect"} = {}
               PROVE  files = Pictures(ref)
    BY DEF NoFileIsLeaked
  <2>1. Due = <<>> /\ Shape /\ Rest
    BY DEF PInv, InTurn, Shape, Due
  <2>2. DueSet = {}
    BY <2>1 DEF DueSet
  <2> QED
    BY <2>1, <2>2 DEF Rest, Tidy, Current, Explicit
<1> QED
  BY Invariance, <1>1, PTL

=============================================================================
