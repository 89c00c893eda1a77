-------------------------- MODULE TaskIndex_proofs --------------------------
(***************************************************************************)
(* What holds of TaskIndex for every vault: any number of files, ids,      *)
(* lines and edits.                                                        *)
(***************************************************************************)
EXTENDS TaskIndex, TLAPS, WellFoundedInduction

-----------------------------------------------------------------------------
(* The operators *)

\* A file that holds an id has a first line with it.
LEMMA LineOfFirst ==
  ASSUME NEW f \in Seq(Lines), NEW id \in IdsOf(f)
  PROVE  /\ LineOf(f, id) \in DOMAIN f
         /\ f[LineOf(f, id)].id = id
         /\ IsFirst(f, LineOf(f, id))
<1> DEFINE T == {i \in DOMAIN f : f[i].id = id}
<1>1. T \subseteq Nat /\ T # {} /\ DOMAIN f = 1 .. Len(f) /\ Len(f) \in Nat
  BY DEF IdsOf
<1>2. PICK x \in T : \A y \in T : ~ (<<y, x>> \in OpToRel(<, Nat))
  BY <1>1, NatLessThanWellFounded, WFMin, Zenon
<1>3. ASSUME NEW j \in 1 .. x - 1 PROVE f[j].id # f[x].id
  <2>1. x \in 1 .. Len(f) /\ f[x].id = id
    BY <1>1, <1>2
  <2>2. j \in DOMAIN f /\ j \in Nat /\ x \in Nat /\ j < x
    BY <1>1, <1>3, <2>1
  <2>3. <<j, x>> \in {ss \in Nat \X Nat : ss[1] < ss[2]}
    BY <2>2
  <2>4. j \notin T
    BY <1>2, <2>3 DEF OpToRel
  <2>5. QED BY <2>1, <2>2, <2>4
<1>4. x \in DOMAIN f /\ f[x].id = id /\ IsFirst(f, x)
  BY <1>2, <1>3 DEF IsFirst
<1>5. QED BY <1>4 DEF LineOf

LEMMA LineTypes ==
  ASSUME NEW f \in Files
  PROVE  /\ f \in Seq(Lines) /\ f # Gone /\ f # Unreadable
         /\ \A i \in DOMAIN f : i \in Nat \ {0} /\ f[i] \in Lines
BY FilesAssumption, DistinctAssumption

\* A task of a file is a task, names its file and is not the absent task.
LEMMA TaskAtType ==
  ASSUME NEW p \in Paths, NEW f \in Files, NEW id \in IdsOf(f)
  PROVE  /\ TaskAt(p, f, LineOf(f, id)) \in Tasks
         /\ TaskAt(p, f, LineOf(f, id)) # NoTask
         /\ TaskAt(p, f, LineOf(f, id)).path = p
<1>1. LineOf(f, id) \in Nat \ {0} /\ f[LineOf(f, id)] \in Lines
  BY LineTypes, LineOfFirst
<1>2. ParseSpan(f[LineOf(f, id)].sched) \in Schedules \union {None}
  BY DEF ParseSpan
<1>3. p # None
  BY DistinctAssumption
<1>4. QED BY <1>1, <1>2, <1>3 DEF TaskAt, Tasks, NoTask

\* Every diagnostic of a file is about a line of it.
LEMMA DiagTypes ==
  ASSUME NEW p \in Paths, NEW f \in Files, NEW t
  PROVE  ValidateFile(f) \union CrossFileDiags(t, p, f) \in SUBSET Diags
<1>1. ASSUME NEW i \in DOMAIN f, NEW kind \in DiagKinds
      PROVE  Diag(f, i, kind) \in Diags
  BY <1>1, LineTypes DEF Diag, Diags, Lines
<1>2. {"invalid_id", "empty_value", "duplicate_here", "duplicate_elsewhere"} \subseteq DiagKinds
  BY DEF DiagKinds
<1>3. ValidateFile(f) \subseteq Diags
  BY <1>1, <1>2 DEF ValidateFile
<1>4. CrossFileDiags(t, p, f) \subseteq Diags
  BY <1>1, <1>2 DEF CrossFileDiags
<1>5. QED BY <1>3, <1>4

\* NoTask is nobody's task.
LEMMA NoTaskPath == NoTask.path = None /\ None \notin Paths /\ NoTask \notin Tasks
BY DistinctAssumption DEF NoTask, Tasks

-----------------------------------------------------------------------------
(* Types *)

LEMMA IndexFileType ==
  ASSUME TypeOK, NEW p \in Paths, NEW f \in Files \union {Gone}, IndexFile(p, f)
  PROVE  /\ tasks' \in [Ids -> Tasks \union {NoTask}]
         /\ idsByPath' \in [Paths -> SUBSET Ids]
         /\ diagsByPath' \in [Paths -> SUBSET Diags]
         /\ read' \in [Paths -> Files \union {Gone, Unreadable}]
<1> USE DEF TypeOK
<1> DEFINE t == Without(p)
<1>1. t \in [Ids -> Tasks \union {NoTask}]
  BY DEF Without
<1>2. Accepted(t, p, f) \subseteq Ids
  BY DEF Accepted, IdsOf
<1>3. f # Gone => WithFile(t, p, f) \in [Ids -> Tasks \union {NoTask}]
  <2> SUFFICES ASSUME f \in Files, NEW id \in Ids
               PROVE  WithFile(t, p, f)[id] \in Tasks \union {NoTask}
    BY DEF WithFile
  <2>1. CASE id \in Accepted(t, p, f)
    BY <2>1, TaskAtType DEF WithFile, Accepted
  <2>2. CASE id \notin Accepted(t, p, f)
    BY <1>1, <2>2 DEF WithFile
  <2>3. QED BY <2>1, <2>2
<1>4. f # Gone => ValidateFile(f) \union CrossFileDiags(t, p, f) \in SUBSET Diags
  BY DiagTypes
<1> HIDE DEF t
<1>5. /\ tasks' = IF f = Gone THEN t ELSE WithFile(t, p, f)
      /\ idsByPath' = [idsByPath EXCEPT ![p] = IF f = Gone THEN {} ELSE Accepted(t, p, f)]
      /\ diagsByPath' = [diagsByPath EXCEPT ![p] =
           IF f = Gone THEN {} ELSE ValidateFile(f) \union CrossFileDiags(t, p, f)]
      /\ read' = [read EXCEPT ![p] = f]
  BY DEF IndexFile, t
<1>6. QED BY <1>1, <1>2, <1>3, <1>4, <1>5

LEMMA IndexNothingType ==
  ASSUME TypeOK, NEW p \in Paths, IndexNothing(p)
  PROVE  /\ tasks' \in [Ids -> Tasks \union {NoTask}]
         /\ idsByPath' \in [Paths -> SUBSET Ids]
         /\ diagsByPath' \in [Paths -> SUBSET Diags]
         /\ read' \in [Paths -> Files \union {Gone, Unreadable}]
BY DEF TypeOK, IndexNothing, Without

LEMMA TypeStep == TypeOK /\ [Next]_vars => TypeOK'
<1> SUFFICES ASSUME TypeOK, [Next]_vars PROVE TypeOK'
  OBVIOUS
<1>0. /\ {Gone, Unreadable} \intersect Files = {} /\ Gone # Unreadable
      /\ MaxEdits \in Nat
  BY DistinctAssumption, PathsAssumption
<1>1. ASSUME NEW p \in Paths, BuildFile(p) PROVE TypeOK'
  <2>1. disk[p] \in Files \union {Gone} /\ IndexFile(p, disk[p])
    BY <1>1 DEF BuildFile, TypeOK
  <2>2. QED BY <1>1, <2>1, IndexFileType DEF BuildFile, TypeOK
<1>2. ASSUME NEW p \in Paths, Reconcile(p) PROVE TypeOK'
  <2>1. disk[p] \in Files \union {Gone} /\ IndexFile(p, disk[p])
    BY <1>2 DEF Reconcile, TypeOK
  <2>2. /\ tasks' \in [Ids -> Tasks \union {NoTask}]
        /\ idsByPath' \in [Paths -> SUBSET Ids]
        /\ diagsByPath' \in [Paths -> SUBSET Diags]
        /\ read' \in [Paths -> Files \union {Gone, Unreadable}]
    BY <2>1, IndexFileType
  <2>3. mirror' \in [Ids -> Tasks \union {NoTask}] /\ seenDiags' \in [Paths -> SUBSET Diags]
    BY <1>2, <2>2 DEF Reconcile, Announce, Folded, TypeOK
  <2>4. QED BY <1>2, <2>2, <2>3 DEF Reconcile, TypeOK
<1>3. ASSUME NEW p \in Paths, ReconcileFails(p) PROVE TypeOK'
  BY <1>3, IndexNothingType DEF ReconcileFails, TypeOK
<1>4. ASSUME NEW p \in Paths, NEW f \in Files \union {Gone, Unreadable}, Change(p, f)
      PROVE  TypeOK'
  BY <1>0, <1>4 DEF Change, indexVars, TypeOK
<1>5. CASE UNCHANGED vars
  BY <1>5 DEF vars, indexVars, TypeOK
<1>6. QED
  BY <1>1, <1>2, <1>3, <1>4, <1>5 DEF Next, Edit, BecomeUnreadable

-----------------------------------------------------------------------------
(* What reading one file does to everybody *)

\* The file gets ids that nobody else has, gives up the others, and leaves the
\* other files' ids, diagnostics and readings alone.
Rehomes(p) ==
  /\ \A id \in idsByPath'[p] : /\ tasks[id] = NoTask \/ tasks[id].path = p
                               /\ tasks'[id] # NoTask
                               /\ tasks'[id].path = p
  /\ \A id \in Ids \ idsByPath'[p] :
       tasks'[id] = IF id \in idsByPath[p] THEN NoTask ELSE tasks[id]
  /\ \A q \in Paths \ {p} : /\ idsByPath'[q] = idsByPath[q]
                            /\ diagsByPath'[q] = diagsByPath[q]
                            /\ read'[q] = read[q]

\* The file's own part: its ids are its tasks, or somebody else's with a diagnostic.
Accounts(p, f) ==
  /\ read'[p] = f
  /\ f = Gone => idsByPath'[p] = {}
  /\ f \in Files =>
       /\ idsByPath'[p] \subseteq IdsOf(f)
       /\ \A id \in idsByPath'[p] : tasks'[id] = TaskAt(p, f, LineOf(f, id))
       /\ \A id \in IdsOf(f) \ idsByPath'[p] :
            /\ Diag(f, LineOf(f, id), "duplicate_elsewhere") \in diagsByPath'[p]
            /\ id \notin idsByPath[p] /\ tasks[id] # NoTask

LEMMA IndexFileEffect ==
  ASSUME TypeOK, OwnersAgree, NEW p \in Paths, NEW f \in Files \union {Gone},
         IndexFile(p, f)
  PROVE  Rehomes(p) /\ Accounts(p, f)
<1> DEFINE t == Without(p)
<1>1. /\ tasks' = IF f = Gone THEN t ELSE WithFile(t, p, f)
      /\ idsByPath'[p] = IF f = Gone THEN {} ELSE Accepted(t, p, f)
      /\ f # Gone => CrossFileDiags(t, p, f) \subseteq diagsByPath'[p]
      /\ read'[p] = f
      /\ \A q \in Paths \ {p} : /\ idsByPath'[q] = idsByPath[q]
                                /\ diagsByPath'[q] = diagsByPath[q]
                                /\ read'[q] = read[q]
  BY DEF IndexFile, TypeOK
<1>2. \A id \in Ids : t[id] = IF id \in idsByPath[p] THEN NoTask ELSE tasks[id]
  BY DEF Without
<1>3. \A id \in Ids : t[id] # NoTask =>
                        t[id] = tasks[id] /\ id \notin idsByPath[p] /\ tasks[id].path # p
  BY <1>2 DEF OwnersAgree
<1> HIDE DEF t
<1>4. CASE f = Gone
  <2>1. f \notin Files
    BY <1>4, DistinctAssumption
  <2>2. QED BY <1>1, <1>2, <1>4, <2>1 DEF Rehomes, Accounts
<1>5. CASE f \in Files
  <2>0. f # Gone
    BY <1>5, LineTypes
  <2>1. idsByPath'[p] = Accepted(t, p, f) /\ Accepted(t, p, f) \subseteq IdsOf(f)
    BY <1>1, <2>0 DEF Accepted
  <2>2. \A id \in IdsOf(f) : id \in Ids
    BY DEF IdsOf
  <2>3. \A id \in idsByPath'[p] : tasks'[id] = TaskAt(p, f, LineOf(f, id))
    BY <1>1, <2>0, <2>1, <2>2 DEF WithFile
  <2>4. \A id \in Ids \ idsByPath'[p] : tasks'[id] = t[id]
    BY <1>1, <2>0, <2>1 DEF WithFile
  <2>5. \A id \in idsByPath'[p] : tasks[id] = NoTask \/ tasks[id].path = p
    BY <1>2, <2>1, <2>2 DEF Accepted, Claimed, OwnersAgree
  <2>6. \A id \in idsByPath'[p] : tasks'[id] # NoTask /\ tasks'[id].path = p
    BY <1>5, <2>1, <2>3, TaskAtType
  <2>7. Rehomes(p)
    BY <1>1, <1>2, <2>4, <2>5, <2>6 DEF Rehomes
  <2>8. ASSUME NEW id \in IdsOf(f) \ idsByPath'[p]
        PROVE  /\ Diag(f, LineOf(f, id), "duplicate_elsewhere") \in diagsByPath'[p]
               /\ id \notin idsByPath[p] /\ tasks[id] # NoTask
    <3>1. Claimed(t, p, id)
      BY <2>1, <2>8 DEF Accepted
    <3>2. LineOf(f, id) \in DOMAIN f /\ f[LineOf(f, id)].id = id
      BY <1>5, <2>8, LineTypes, LineOfFirst
    <3>3. Diag(f, LineOf(f, id), "duplicate_elsewhere") \in CrossFileDiags(t, p, f)
      BY <2>2, <2>8, <3>1, <3>2 DEF CrossFileDiags
    <3>4. id \notin idsByPath[p] /\ tasks[id] # NoTask
      BY <1>3, <2>2, <2>8, <3>1 DEF Claimed
    <3>5. QED BY <1>1, <2>0, <3>3, <3>4
  <2>9. Accounts(p, f)
    BY <1>1, <2>0, <2>1, <2>3, <2>8 DEF Accounts
  <2>10. QED BY <2>7, <2>9
<1>6. QED BY <1>4, <1>5

LEMMA IndexNothingEffect ==
  ASSUME TypeOK, NEW p \in Paths, IndexNothing(p)
  PROVE  Rehomes(p) /\ read'[p] = Unreadable /\ idsByPath'[p] = {}
BY DEF TypeOK, IndexNothing, Without, Rehomes

\* Every step of the index rereads one file or leaves the maps alone.
LEMMA Steps ==
  ASSUME TypeOK, OwnersAgree, [Next]_vars
  PROVE  \/ \E p \in Paths : /\ Rehomes(p)
                             /\ \/ \E f \in Files \union {Gone} : Accounts(p, f)
                                \/ read'[p] = Unreadable /\ idsByPath'[p] = {}
         \/ UNCHANGED <<tasks, idsByPath, diagsByPath, read>>
<1>1. ASSUME NEW p \in Paths, BuildFile(p) \/ Reconcile(p)
      PROVE  Rehomes(p) /\ \E f \in Files \union {Gone} : Accounts(p, f)
  <2>1. disk[p] \in Files \union {Gone} /\ IndexFile(p, disk[p])
    BY <1>1 DEF BuildFile, Reconcile, TypeOK
  <2>2. QED BY <2>1, IndexFileEffect
<1>2. ASSUME NEW p \in Paths, ReconcileFails(p)
      PROVE  Rehomes(p) /\ read'[p] = Unreadable /\ idsByPath'[p] = {}
  BY <1>2, IndexNothingEffect DEF ReconcileFails
<1>3. ASSUME NEW p \in Paths, Edit(p) \/ BecomeUnreadable(p)
      PROVE  UNCHANGED <<tasks, idsByPath, diagsByPath, read>>
  BY <1>3 DEF Edit, BecomeUnreadable, Change, indexVars
<1>4. CASE UNCHANGED vars
  BY <1>4 DEF vars, indexVars
<1>5. QED BY <1>1, <1>2, <1>3, <1>4 DEF Next

-----------------------------------------------------------------------------
(* The inductive invariant *)

IndexInv == TypeOK /\ OwnersAgree /\ EveryIdAccounted

LEMMA IndexInit == Init => IndexInv
<1> SUFFICES ASSUME Init PROVE IndexInv
  OBVIOUS
<1>1. TypeOK
  BY PathsAssumption DEF Init, TypeOK
<1>2. OwnersAgree
  BY DEF Init, OwnersAgree
<1>3. EveryIdAccounted
  BY DistinctAssumption DEF Init, EveryIdAccounted
<1>4. QED BY <1>1, <1>2, <1>3 DEF IndexInv

LEMMA OwnersStep ==
  ASSUME TypeOK, OwnersAgree, [Next]_vars
  PROVE  OwnersAgree'
<1>1. ASSUME NEW p \in Paths, Rehomes(p), NEW q \in Paths, NEW id \in Ids
      PROVE  id \in idsByPath'[q] <=> tasks'[id] # NoTask /\ tasks'[id].path = q
  <2>1. id \in idsByPath[q] <=> tasks[id] # NoTask /\ tasks[id].path = q
    BY DEF OwnersAgree
  <2>2. id \in idsByPath[p] <=> tasks[id] # NoTask /\ tasks[id].path = p
    BY DEF OwnersAgree
  <2>3. CASE q = p
    BY <1>1, <2>2, <2>3 DEF Rehomes
  <2>4. CASE q # p
    BY <1>1, <2>1, <2>2, <2>4 DEF Rehomes
  <2>5. QED BY <2>3, <2>4
<1>2. CASE UNCHANGED <<tasks, idsByPath>>
  BY <1>2 DEF OwnersAgree
<1>3. QED BY <1>1, <1>2, Steps DEF OwnersAgree

LEMMA AccountedStep ==
  ASSUME TypeOK, OwnersAgree, EveryIdAccounted, [Next]_vars
  PROVE  EveryIdAccounted'
<1>1. ASSUME NEW p \in Paths, Rehomes(p),
             NEW q \in Paths \ {p}, read'[q] \in Files, NEW id \in IdsOf(read'[q])
      PROVE  \/ /\ id \in idsByPath'[q]
                /\ tasks'[id] = TaskAt(q, read'[q], LineOf(read'[q], id))
             \/ Diag(read'[q], LineOf(read'[q], id), "duplicate_elsewhere") \in diagsByPath'[q]
  <2>1. /\ read'[q] = read[q] /\ idsByPath'[q] = idsByPath[q]
        /\ diagsByPath'[q] = diagsByPath[q]
    BY <1>1 DEF Rehomes
  <2>2. CASE id \in idsByPath[q] /\ tasks[id] = TaskAt(q, read[q], LineOf(read[q], id))
    <3>1. id \in Ids /\ tasks[id] # NoTask /\ tasks[id].path = q
      BY <2>2 DEF OwnersAgree, TypeOK
    <3>2. id \notin idsByPath'[p] /\ id \notin idsByPath[p]
      BY <1>1, <3>1 DEF Rehomes, OwnersAgree
    <3>3. tasks'[id] = tasks[id]
      BY <1>1, <3>1, <3>2 DEF Rehomes
    <3>4. QED BY <2>1, <2>2, <3>3
  <2>3. CASE Diag(read[q], LineOf(read[q], id), "duplicate_elsewhere") \in diagsByPath[q]
    BY <2>1, <2>3
  <2>4. QED BY <1>1, <2>1, <2>2, <2>3 DEF EveryIdAccounted
<1>2. ASSUME NEW p \in Paths, NEW f \in Files \union {Gone}, Accounts(p, f),
             read'[p] \in Files, NEW id \in IdsOf(read'[p])
      PROVE  \/ /\ id \in idsByPath'[p]
                /\ tasks'[id] = TaskAt(p, read'[p], LineOf(read'[p], id))
             \/ Diag(read'[p], LineOf(read'[p], id), "duplicate_elsewhere") \in diagsByPath'[p]
  BY <1>2, DistinctAssumption DEF Accounts
<1>3. Unreadable \notin Files
  BY DistinctAssumption
<1>4. CASE UNCHANGED <<tasks, idsByPath, diagsByPath, read>>
  BY <1>4 DEF EveryIdAccounted
<1>5. CASE \E p \in Paths : /\ Rehomes(p)
                            /\ \/ \E f \in Files \union {Gone} : Accounts(p, f)
                               \/ read'[p] = Unreadable
  BY <1>1, <1>2, <1>3, <1>5 DEF EveryIdAccounted
<1>6. QED BY <1>4, <1>5, Steps

-----------------------------------------------------------------------------
(* The theorems *)

\* The inductive invariant of the index.
THEOREM IndexInvariant == Spec => []IndexInv
<1>1. IndexInv /\ [Next]_vars => IndexInv'
  BY TypeStep, OwnersStep, AccountedStep DEF IndexInv
<1>2. QED BY IndexInit, <1>1, PTL DEF Spec

\* Values stay in their types.
THEOREM IndexTypes == Spec => []TypeOK
<1>1. IndexInv => TypeOK
  BY DEF IndexInv
<1>2. QED BY <1>1, IndexInvariant, PTL

\* Index.tasks and Index.idsByPath name the same owner of every id, read errors
\* included.
THEOREM OwnersAlwaysAgree == Spec => []OwnersAgree
<1>1. IndexInv => OwnersAgree
  BY DEF IndexInv
<1>2. QED BY <1>1, IndexInvariant, PTL

\* An id that was read is indexed at its first line, or its line says why not.
THEOREM IdsAlwaysAccounted == Spec => []EveryIdAccounted
<1>1. IndexInv => EveryIdAccounted
  BY DEF IndexInv
<1>2. QED BY <1>1, IndexInvariant, PTL

\* The index implements the single-owner discipline of IdOwnership: no file ever
\* takes an id away from another.
THEOREM IndexImplementsOwnership == Spec => OwnershipSpec
<1> DEFINE owner == [id \in Ids |-> tasks[id].path]
<1>1. Init => Ownership!Init
  BY NoTaskPath DEF Init, Ownership!Init
<1>2. ASSUME TypeOK, OwnersAgree, [Next]_vars
      PROVE  [Ownership!Next]_owner
  <2>1. ASSUME NEW p \in Paths, Rehomes(p), NEW S \in SUBSET Ids, S = idsByPath'[p]
        PROVE  Ownership!Rehome(p, S)
    <3>1. \A id \in S : owner[id] \in {None, p}
      BY <2>1, NoTaskPath DEF Rehomes
    <3>2. ASSUME NEW id \in Ids
          PROVE  tasks'[id].path = IF id \in S THEN p
                                   ELSE IF owner[id] = p THEN None ELSE owner[id]
      <4>1. CASE id \in S
        BY <2>1, <4>1 DEF Rehomes
      <4>2. CASE id \notin S /\ id \in idsByPath[p]
        BY <1>2, <2>1, <4>2, NoTaskPath DEF Rehomes, OwnersAgree
      <4>3. CASE id \notin S /\ id \notin idsByPath[p]
        <5>1. tasks'[id] = tasks[id]
          BY <2>1, <4>3 DEF Rehomes
        <5>2. tasks[id].path # p
          BY <1>2, <4>3, NoTaskPath DEF OwnersAgree
        <5>3. QED BY <4>3, <5>1, <5>2
      <4>4. QED BY <4>1, <4>2, <4>3
    <3>3. QED BY <3>1, <3>2 DEF Ownership!Rehome
  <2>2. ASSUME NEW p \in Paths, Rehomes(p) PROVE Ownership!Next
    <3>1. PICK S \in SUBSET Ids : S = idsByPath'[p]
      BY <1>2, TypeStep DEF TypeOK
    <3>2. Ownership!Rehome(p, S)
      BY <2>1, <2>2, <3>1
    <3>3. QED BY <3>2 DEF Ownership!Next
  <2>3. QED BY <1>2, <2>2, Steps
<1>3. IndexInv /\ [Next]_vars => [Ownership!Next]_owner
  BY <1>2 DEF IndexInv
<1>4. QED BY <1>1, <1>3, IndexInvariant, PTL DEF Spec, OwnershipSpec, Ownership!Spec

-----------------------------------------------------------------------------
(* Subscribers *)

\* What a subscriber knows, during Build as well: the index, but for the phantoms
\* and the diagnostics of files that failed to be read.
MirrorInv ==
  /\ \A id \in Ids : \/ mirror[id] = tasks[id]
                     \/ tasks[id] = NoTask /\ mirror[id].path \in unread
  /\ \A p \in Paths \ unread : seenDiags[p] = diagsByPath[p]

\* A task that is neither added nor updated is as it was, unless it is removed.
LEMMA NotInChange ==
  ASSUME TypeOK, OwnersAgree, NEW p \in Paths, Reconcile(p),
         NEW id \in Ids, id \notin Added(p) \union Updated(p)
  PROVE  tasks'[id] = IF id \in Removed(p) THEN NoTask ELSE tasks[id]
<1>1. Rehomes(p)
  BY IndexFileEffect DEF Reconcile, TypeOK
<1>2. CASE id \in idsByPath'[p]
  <2>1. id \in idsByPath[p] /\ tasks'[id] = tasks[id]
    BY <1>2 DEF Added, Updated
  <2>2. QED BY <1>2, <2>1 DEF Removed
<1>3. CASE id \notin idsByPath'[p]
  BY <1>1, <1>3 DEF Rehomes, Removed
<1>4. QED BY <1>2, <1>3

\* Folding the published change in, or not being told, leaves the subscriber no
\* farther from the index than it was.
LEMMA FoldedFollows ==
  ASSUME TypeOK, OwnersAgree, MirrorInv, NEW p \in Paths, Reconcile(p)
  PROVE  MirrorInv'
<1>1. TypeOK' /\ unread' = unread
  BY TypeStep DEF Next, Reconcile
<1>2. CASE IsEmptyChange(p) /\ diagsByPath' = diagsByPath
  <2>1. mirror' = mirror /\ seenDiags' = seenDiags
    BY <1>2 DEF Reconcile, Announce
  <2>2. \A id \in Ids : tasks'[id] = tasks[id]
    BY <1>2, NotInChange DEF IsEmptyChange
  <2>3. QED BY <1>1, <1>2, <2>1, <2>2 DEF MirrorInv
<1>3. CASE ~(IsEmptyChange(p) /\ diagsByPath' = diagsByPath)
  <2>1. mirror' = Folded(p) /\ seenDiags' = diagsByPath'
    BY <1>3 DEF Reconcile, Announce
  <2>2. ASSUME NEW id \in Ids
        PROVE  \/ mirror'[id] = tasks'[id]
               \/ tasks'[id] = NoTask /\ mirror'[id].path \in unread'
    <3>1. CASE id \in Added(p) \union Updated(p)
      BY <2>1, <3>1 DEF Folded
    <3>2. CASE id \notin Added(p) \union Updated(p) /\ id \in Removed(p)
      BY <2>1, <3>2, NotInChange DEF Folded
    <3>3. CASE id \notin Added(p) \union Updated(p) /\ id \notin Removed(p)
      <4>1. mirror'[id] = mirror[id] /\ tasks'[id] = tasks[id]
        BY <2>1, <3>3, NotInChange DEF Folded
      <4>2. QED BY <1>1, <4>1 DEF MirrorInv
    <3>4. QED BY <3>1, <3>2, <3>3
  <2>3. QED BY <2>1, <2>2 DEF MirrorInv
<1>4. QED BY <1>2, <1>3

LEMMA MirrorStep ==
  ASSUME TypeOK, OwnersAgree, MirrorInv, [Next]_vars
  PROVE  MirrorInv'
<1>1. ASSUME NEW p \in Paths, BuildFile(p) PROVE MirrorInv'
  BY <1>1 DEF BuildFile, MirrorInv
<1>2. ASSUME NEW p \in Paths, Reconcile(p) PROVE MirrorInv'
  BY <1>2, FoldedFollows
<1>3. ASSUME NEW p \in Paths, ReconcileFails(p) PROVE MirrorInv'
  <2>1. /\ mirror' = mirror /\ seenDiags' = seenDiags
        /\ unread' = unread \union {p}
        /\ IndexNothing(p)
    BY <1>3 DEF ReconcileFails
  <2>2. ASSUME NEW id \in Ids
        PROVE  \/ mirror'[id] = tasks'[id]
               \/ tasks'[id] = NoTask /\ mirror'[id].path \in unread'
    <3>1. CASE id \in idsByPath[p]
      <4>1. tasks[id] # NoTask /\ tasks[id].path = p
        BY <3>1 DEF OwnersAgree
      <4>2. mirror[id].path = p
        BY <4>1 DEF MirrorInv
      <4>3. tasks'[id] = NoTask
        BY <2>1, <3>1 DEF IndexNothing, Without
      <4>4. QED BY <2>1, <4>2, <4>3
    <3>2. CASE id \notin idsByPath[p]
      <4>1. tasks'[id] = tasks[id]
        BY <2>1, <3>2 DEF IndexNothing, Without
      <4>2. QED BY <2>1, <4>1 DEF MirrorInv
    <3>3. QED BY <3>1, <3>2
  <2>3. ASSUME NEW q \in Paths \ unread' PROVE seenDiags'[q] = diagsByPath'[q]
    <3>1. q # p /\ q \notin unread
      BY <2>1
    <3>2. diagsByPath'[q] = diagsByPath[q]
      BY <2>1, <3>1 DEF IndexNothing, TypeOK
    <3>3. QED BY <2>1, <3>1, <3>2 DEF MirrorInv
  <2>4. QED BY <2>2, <2>3 DEF MirrorInv
<1>4. ASSUME NEW p \in Paths, Edit(p) \/ BecomeUnreadable(p) PROVE MirrorInv'
  BY <1>4 DEF Edit, BecomeUnreadable, Change, indexVars, MirrorInv
<1>5. CASE UNCHANGED vars
  BY <1>5 DEF vars, indexVars, MirrorInv
<1>6. QED BY <1>1, <1>2, <1>3, <1>4, <1>5 DEF Next

LEMMA MirrorInvariant == Spec => []MirrorInv
<1>1. Init => MirrorInv
  BY DEF Init, MirrorInv
<1>2. IndexInv /\ MirrorInv /\ [Next]_vars => MirrorInv'
  BY MirrorStep DEF IndexInv
<1>3. QED BY <1>1, <1>2, IndexInvariant, PTL DEF Spec

\* Snapshot plus published changes is the index, phantoms of unreadable files
\* apart: a reconciliation that publishes nothing changed nothing (engine.go
\* isEmpty).
THEOREM MirrorAlwaysIsIndex == Spec => []MirrorIsIndex
<1>1. MirrorInv => MirrorIsIndex
  BY DEF MirrorInv, MirrorIsIndex
<1>2. QED BY <1>1, MirrorInvariant, PTL

\* No diagnostic of a file that was always readable changes without an event.
THEOREM DiagsAlwaysAnnounced == Spec => []DiagsAnnounced
<1>1. MirrorInv => DiagsAnnounced
  BY DEF MirrorInv, DiagsAnnounced
<1>2. QED BY <1>1, MirrorInvariant, PTL

-----------------------------------------------------------------------------
(* Build *)

\* While Build runs, the files already read come before the others, no other file
\* has ids, and every id is with the first of the read files that holds it.
BuildInv ==
  toBuild # {} =>
    /\ toBuild \subseteq Paths
    /\ \A p \in Paths \ toBuild, q \in toBuild : p < q
    /\ \A q \in toBuild : idsByPath[q] = {}
    /\ \A id \in Ids :
         \/ tasks[id] = NoTask /\ Holders(id) \subseteq toBuild
         \/ \E p \in Holders(id) \ toBuild :
              /\ \A r \in Holders(id) : p <= r
              /\ tasks[id] = TaskAt(p, disk[p], LineOf(disk[p], id))

\* The same, for the moment Build ends.
Won ==
  \A id \in Ids :
    \/ tasks[id] = NoTask /\ Holders(id) = {}
    \/ \E p \in Holders(id) :
         /\ \A r \in Holders(id) : p <= r
         /\ tasks[id] = TaskAt(p, disk[p], LineOf(disk[p], id))

LEMMA BuildStep ==
  ASSUME TypeOK, OwnersAgree, BuildInv, NEW p \in Paths, BuildFile(p)
  PROVE  BuildInv' /\ (toBuild' = {} => Won')
<1>1. /\ disk' = disk /\ toBuild' = toBuild \ {p} /\ p \in toBuild /\ toBuild \subseteq Paths
      /\ Paths \subseteq Nat
      /\ \A q \in toBuild : p <= q
      /\ disk[p] \in Files \union {Gone} /\ IndexFile(p, disk[p])
  BY PathsAssumption DEF BuildFile, TypeOK
<1>2. Rehomes(p) /\ Accounts(p, disk[p])
  BY <1>1, IndexFileEffect
<1>3. \A id \in Ids : Holders(id)' = Holders(id)
  BY <1>1 DEF Holders
<1>4. \A id \in Ids : Holders(id) \subseteq Paths
  BY DEF Holders
<1>5. idsByPath[p] = {}
  BY <1>1 DEF BuildInv
<1>6. ASSUME NEW id \in Ids
      PROVE  \/ tasks'[id] = NoTask /\ Holders(id) \subseteq toBuild'
             \/ \E q \in Holders(id) \ toBuild' :
                  /\ \A r \in Holders(id) : q <= r
                  /\ tasks'[id] = TaskAt(q, disk[q], LineOf(disk[q], id))
  <2>1. CASE tasks[id] = NoTask /\ Holders(id) \subseteq toBuild
    <3>1. CASE p \in Holders(id)
      <4>1. disk[p] \in Files /\ id \in IdsOf(disk[p])
        BY <1>1, <3>1 DEF Holders
      <4>2. id \in idsByPath'[p]
        BY <1>2, <2>1, <4>1 DEF Accounts
      <4>3. tasks'[id] = TaskAt(p, disk[p], LineOf(disk[p], id))
        BY <1>2, <4>1, <4>2 DEF Accounts
      <4>4. QED BY <1>1, <2>1, <3>1, <4>3
    <3>2. CASE p \notin Holders(id)
      <4>1. id \notin idsByPath'[p]
        <5>1. CASE disk[p] = Gone
          BY <1>2, <5>1 DEF Accounts
        <5>2. CASE disk[p] \in Files
          <6>1. id \notin IdsOf(disk[p])
            BY <3>2, <5>2, LineTypes DEF Holders
          <6>2. QED BY <1>2, <5>2, <6>1 DEF Accounts
        <5>3. QED BY <1>1, <5>1, <5>2
      <4>2. tasks'[id] = NoTask
        BY <1>2, <2>1, <4>1 DEF Rehomes
      <4>3. QED BY <1>1, <2>1, <3>2, <4>2
    <3>3. QED BY <3>1, <3>2
  <2>2. ASSUME NEW q \in Holders(id) \ toBuild,
               \A r \in Holders(id) : q <= r,
               tasks[id] = TaskAt(q, disk[q], LineOf(disk[q], id))
        PROVE  tasks'[id] = tasks[id]
    <3>1. disk[q] \in Files /\ id \in IdsOf(disk[q]) /\ q \in Paths /\ q # p
      BY <1>1, <2>2 DEF Holders, TypeOK
    <3>2. tasks[id] # NoTask /\ tasks[id].path = q
      BY <2>2, <3>1, TaskAtType
    <3>3. id \notin idsByPath'[p]
      BY <1>2, <3>1, <3>2 DEF Rehomes
    <3>4. QED BY <1>2, <1>5, <3>3 DEF Rehomes
  <2>3. QED
    <3>1. toBuild # {} /\ toBuild' \subseteq toBuild
      BY <1>1
    <3>2. QED BY <2>1, <2>2, <3>1 DEF BuildInv
<1>7. ASSUME toBuild' # {} PROVE BuildInv'
  <2>1. \A r \in Paths \ toBuild', q \in toBuild' : r < q
    <3>1. \A r \in Paths \ toBuild, q \in toBuild : r < q
      BY <1>1 DEF BuildInv
    <3>2. \A q \in toBuild' : p < q
      BY <1>1
    <3>3. QED BY <1>1, <3>1, <3>2
  <2>2. \A q \in toBuild' : idsByPath'[q] = {}
    BY <1>1, <1>2 DEF BuildInv, Rehomes
  <2>3. QED BY <1>1, <1>3, <1>6, <2>1, <2>2 DEF BuildInv
<1>8. ASSUME toBuild' = {} PROVE Won'
  <2> SUFFICES ASSUME NEW id \in Ids
               PROVE  \/ tasks'[id] = NoTask /\ Holders(id) = {}
                      \/ \E q \in Holders(id) :
                           /\ \A r \in Holders(id) : q <= r
                           /\ tasks'[id] = TaskAt(q, disk[q], LineOf(disk[q], id))
    BY <1>1 DEF Won, Holders
  <2>1. QED BY <1>6, <1>8
<1>9. BuildInv'
  BY <1>7 DEF BuildInv
<1>10. QED BY <1>8, <1>9

\* Won leaves only one possibility, the reference FirstWins.
LEMMA WonIsFirstWins == TypeOK /\ Won => tasks = FirstWins
<1> SUFFICES ASSUME TypeOK, Won, NEW id \in Ids PROVE tasks[id] = FirstWins[id]
  BY DEF TypeOK, FirstWins
<1>1. Holders(id) \subseteq Nat
  BY PathsAssumption DEF Holders
<1>2. CASE Holders(id) = {}
  BY <1>2 DEF Won, FirstWins
<1>3. CASE Holders(id) # {}
  <2>1. PICK p \in Holders(id) : /\ \A r \in Holders(id) : p <= r
                                 /\ tasks[id] = TaskAt(p, disk[p], LineOf(disk[p], id))
    BY <1>3 DEF Won
  <2> DEFINE q == CHOOSE x \in Holders(id) : \A r \in Holders(id) : x <= r
  <2>2. q \in Holders(id) /\ \A r \in Holders(id) : q <= r
    BY <2>1
  <2>3. q = p
    BY <1>1, <2>1, <2>2
  <2>4. QED BY <1>3, <2>1, <2>3 DEF FirstWins
<1>4. QED BY <1>2, <1>3

\* Build gives every id to the first file, in lexical order, that holds it.
THEOREM BuildFirstWins == Spec => BuildIsFirstWins
<1>1. Init => BuildInv
  <2> SUFFICES ASSUME Init PROVE BuildInv
    OBVIOUS
  <2>1. \A id \in Ids : Holders(id) \subseteq toBuild
    BY DEF Init, Holders
  <2>2. QED BY <2>1 DEF Init, BuildInv
<1>2. IndexInv /\ BuildInv /\ [Next]_vars => BuildInv'
  <2> SUFFICES ASSUME TypeOK, OwnersAgree, BuildInv, [Next]_vars PROVE BuildInv'
    BY DEF IndexInv
  <2>1. ASSUME NEW p \in Paths, BuildFile(p) PROVE BuildInv'
    BY <2>1, BuildStep
  <2>2. ASSUME toBuild' = {} PROVE BuildInv'
    BY <2>2 DEF BuildInv
  <2>3. CASE UNCHANGED vars
    BY <2>3 DEF vars, indexVars, BuildInv, Holders
  <2>4. QED
    BY <2>1, <2>2, <2>3
    DEF Next, Reconcile, ReconcileFails, Edit, BecomeUnreadable, Change
<1>3. IndexInv /\ BuildInv /\ [Next]_vars
        => [toBuild # {} /\ toBuild' = {} => tasks' = FirstWins]_vars
  <2> SUFFICES ASSUME TypeOK, OwnersAgree, BuildInv, Next, toBuild # {}, toBuild' = {}
               PROVE  tasks' = FirstWins
    BY DEF IndexInv
  <2>1. PICK p \in Paths : BuildFile(p)
    BY DEF Next, Reconcile, ReconcileFails, Edit, BecomeUnreadable, Change
  <2>2. Won' /\ TypeOK' /\ disk' = disk
    BY <2>1, BuildStep, TypeStep DEF BuildFile
  <2>3. (tasks = FirstWins)'
    BY <2>2, WonIsFirstWins, PTL
  <2>4. FirstWins' = FirstWins
    BY <2>2 DEF FirstWins, Holders
  <2>5. QED BY <2>3, <2>4
<1>4. QED BY <1>1, <1>2, <1>3, IndexInvariant, PTL DEF Spec, BuildIsFirstWins

-----------------------------------------------------------------------------
(* The debug trigger *)

\* What a path contributes to the index stands in the file as it was read last.
Listed(p) ==
  \A id \in idsByPath[p] :
    /\ read[p] \in Files /\ id \in IdsOf(read[p])
    /\ tasks[id] = TaskAt(p, read[p], LineOf(read[p], id))

AllListed == \A p \in Paths : Listed(p)

LEMMA ListedStep ==
  ASSUME IndexInv, AllListed, [Next]_vars PROVE AllListed'
<1>1. ASSUME NEW p \in Paths, Rehomes(p), NEW q \in Paths \ {p}
      PROVE  Listed(q)'
  <2>1. SUFFICES ASSUME NEW id \in idsByPath'[q]
                 PROVE  /\ read'[q] \in Files /\ id \in IdsOf(read'[q])
                        /\ tasks'[id] = TaskAt(q, read'[q], LineOf(read'[q], id))
    BY DEF Listed
  <2>2. id \in idsByPath[q] /\ read'[q] = read[q]
    BY <1>1, <2>1 DEF Rehomes
  <2>3. id \in Ids /\ tasks[id] # NoTask /\ tasks[id].path = q
    BY <2>2 DEF IndexInv, OwnersAgree, TypeOK
  <2>4. id \notin idsByPath'[p] /\ id \notin idsByPath[p]
    BY <1>1, <2>3 DEF Rehomes, IndexInv, OwnersAgree
  <2>5. tasks'[id] = tasks[id]
    BY <1>1, <2>3, <2>4 DEF Rehomes
  <2>6. QED BY <2>2, <2>5 DEF Listed, AllListed
<1>2. ASSUME NEW p \in Paths,
             \/ \E f \in Files \union {Gone} : Accounts(p, f)
             \/ read'[p] = Unreadable /\ idsByPath'[p] = {}
      PROVE  Listed(p)'
  BY <1>2 DEF Accounts, Listed
<1>3. CASE UNCHANGED <<tasks, idsByPath, diagsByPath, read>>
  BY <1>3 DEF Listed, AllListed
<1>4. QED BY <1>1, <1>2, <1>3, Steps DEF IndexInv, AllListed

\* A trigger fires the line the index schedules, where one file has the id.
THEOREM TriggerAlwaysAgrees == Spec => []TriggerAgrees
<1>1. Init => AllListed
  BY DEF Init, Listed, AllListed
<1>2. IndexInv /\ AllListed /\ [Next]_vars => AllListed'
  BY ListedStep
<1>3. IndexInv /\ AllListed => TriggerAgrees
  <2> SUFFICES ASSUME IndexInv, AllListed, read = disk,
                      NEW id \in Ids, tasks[id] # NoTask
               PROVE  /\ Triggered(id) # NoTask
                      /\ \/ Triggered(id) \in {tasks[id], Unreadable}
                         \/ \E p, q \in Holders(id) : p # q
    BY DEF TriggerAgrees
  <2> DEFINE p == tasks[id].path
  <2>1. p \in Paths /\ id \in idsByPath[p]
    BY DEF IndexInv, TypeOK, Tasks, OwnersAgree
  <2>2. /\ disk[p] \in Files /\ id \in IdsOf(disk[p])
        /\ tasks[id] = TaskAt(p, disk[p], LineOf(disk[p], id))
    BY <2>1 DEF Listed, AllListed
  <2>3. p \in Holders(id)
    BY <2>1, <2>2, LineTypes DEF Holders
  <2>4. ASSUME NEW q \in Holders(id)
        PROVE  TaskAt(q, disk[q], LineOf(disk[q], id)) # NoTask
    <3>1. q \in Paths /\ disk[q] \in Files /\ id \in IdsOf(disk[q])
      BY <2>4 DEF Holders, IndexInv, TypeOK
    <3>2. QED BY <3>1, TaskAtType
  <2>5. PICK q \in Holders(id) : \A r \in Holders(id) : Rank[q] <= Rank[r]
    <3> DEFINE ranks == {Rank[r] : r \in Holders(id)}
    <3>1. ranks \subseteq Nat /\ ranks # {}
      BY <2>3, RankAssumption DEF Holders
    <3>2. PICK n \in ranks : \A m \in ranks : ~ (<<m, n>> \in OpToRel(<, Nat))
      BY <3>1, NatLessThanWellFounded, WFMin, Zenon
    <3>3. \A m \in ranks : n <= m
      <4>1. TAKE m \in ranks
      <4>2. m \in Nat /\ n \in Nat
        BY <3>1
      <4>3. ~ (m < n)
        BY <3>2, <4>2 DEF OpToRel
      <4>4. QED BY <4>2, <4>3
    <3>4. QED BY <3>3
  <2> DEFINE w == CHOOSE x \in Holders(id) : \A r \in Holders(id) : Rank[x] <= Rank[r]
  <2>6. w \in Holders(id)
    BY <2>5
  <2>7. Walk(id) = TaskAt(w, disk[w], LineOf(disk[w], id))
    BY <2>3 DEF Walk
  <2> HIDE DEF w, p
  <2>8. Walk(id) # NoTask
    BY <2>4, <2>6, <2>7
  <2>9. w = p => Walk(id) = tasks[id]
    BY <2>2, <2>7
  <2>10. Triggered(id) \in {Walk(id), Unreadable} /\ Triggered(id) # NoTask
    BY <2>8, NoTaskAssumption DEF Triggered
  <2>11. QED
    <3>1. CASE w = p
      BY <2>9, <2>10, <3>1
    <3>2. CASE w # p
      BY <2>3, <2>6, <2>10, <3>2
    <3>3. QED BY <3>1, <3>2
<1>4. QED BY <1>1, <1>2, <1>3, IndexInvariant, PTL DEF Spec

=============================================================================
