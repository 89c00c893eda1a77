----------------------------- MODULE TaskIndex -----------------------------
(***************************************************************************)
(* internal/engine/index: the tasks of every file, kept up to date one     *)
(* file at a time, and the part of internal/engine/engine.go that turns a  *)
(* reconciliation into a published change.                                 *)
(*                                                                         *)
(* A file is a sequence of task lines.  A line has an @id (a member of     *)
(* Ids, or BadId when it does not match the pattern) and an @schedule (a   *)
(* member of Schedules, or Unparsable text, or Empty parentheses).  Lines  *)
(* without @id never reach the index and are left out.  Paths are numbers, *)
(* in lexical order.                                                       *)
(***************************************************************************)
EXTENDS Integers, Sequences, FiniteSets

CONSTANTS Paths,       \* files, ordered as sort.Strings orders their names
          Ids,         \* valid @id values
          Schedules,   \* parsable schedule texts
          Files,       \* what a file can hold: sequences of lines
          BadId, Unparsable, Empty, None, Gone, Unreadable,
          Rank,        \* the order in which filepath.WalkDir visits the files
          MaxEdits     \* bound: changes of the vault

Lines == [id : Ids \union {BadId}, sched : Schedules \union {Unparsable, Empty}]

ASSUME PathsAssumption == Paths \subseteq Nat /\ MaxEdits \in Nat
ASSUME RankAssumption ==
  /\ Rank \in [Paths -> Nat]
  /\ \A p, q \in Paths : Rank[p] = Rank[q] => p = q
ASSUME FilesAssumption == Files \subseteq Seq(Lines)
ASSUME DistinctAssumption ==
  /\ BadId \notin Ids
  /\ {Unparsable, Empty, None} \intersect Schedules = {}
  /\ None \notin Paths
  /\ Gone # Unreadable
  /\ {Gone, Unreadable} \intersect Files = {}

VARIABLES disk,         \* the vault
          tasks,        \* Index.tasks; None where the map has no entry
          idsByPath,    \* Index.idsByPath
          diagsByPath,  \* Index.diagsByPath
          toBuild,      \* files Build has still to read; {} once it is done
          mirror,       \* a subscriber's tasks: the snapshot it took, and the changes
          seenDiags,    \* the diagnostics a subscriber read at the last event
          read,         \* history: what each file held when it was indexed last
          unread,       \* history: files that failed to be read after Build
          edits

indexVars == <<tasks, idsByPath, diagsByPath>>
vars == <<disk, indexVars, toBuild, mirror, seenDiags, read, unread, edits>>

NoTask == [path |-> None, line |-> 0, raw |-> None, value |-> None]
ASSUME NoTaskAssumption == Unreadable # NoTask

Tasks == [path : Paths, line : Nat \ {0}, raw : Lines,
          value : Schedules \union {None}]
DiagKinds == {"invalid_id", "empty_value", "duplicate_here", "duplicate_elsewhere"}
Diags == [line : Nat \ {0}, id : Ids \union {BadId}, kind : DiagKinds]

TypeOK ==
  /\ disk \in [Paths -> Files \union {Gone, Unreadable}]
  /\ tasks \in [Ids -> Tasks \union {NoTask}]
  /\ idsByPath \in [Paths -> SUBSET Ids]
  /\ diagsByPath \in [Paths -> SUBSET Diags]
  /\ toBuild \subseteq Paths
  /\ mirror \in [Ids -> Tasks \union {NoTask}]
  /\ seenDiags \in [Paths -> SUBSET Diags]
  /\ read \in [Paths -> Files \union {Gone, Unreadable}]
  /\ unread \subseteq Paths
  /\ edits \in 0 .. MaxEdits

Init ==
  /\ disk \in [Paths -> Files \union {Gone}]
  /\ tasks = [id \in Ids |-> NoTask]
  /\ idsByPath = [p \in Paths |-> {}]
  /\ diagsByPath = [p \in Paths |-> {}]
  /\ toBuild = Paths
  /\ mirror = tasks
  /\ seenDiags = diagsByPath
  /\ read = [p \in Paths |-> Gone]
  /\ unread = {}
  /\ edits = 0

-----------------------------------------------------------------------------
(* Reading one file: ReconcileFile and indexFileLocked *)

IdsOf(f) == {id \in Ids : \E i \in DOMAIN f : f[i].id = id}

IsFirst(f, i) == \A j \in 1 .. i - 1 : f[j].id # f[i].id

LineOf(f, id) == CHOOSE i \in DOMAIN f : f[i].id = id /\ IsFirst(f, i)

\* Only a directive that parses becomes a value of the task.
ParseSpan(s) == IF s \in Schedules THEN s ELSE None

TaskAt(p, f, i) ==
  [path |-> p, line |-> i, raw |-> f[i], value |-> ParseSpan(f[i].sched)]

Diag(f, i, kind) == [line |-> i, id |-> f[i].id, kind |-> kind]

\* directive.ValidateFile: what can be said of a file on its own.  Text that is
\* there but does not parse as a schedule raises nothing.
ValidateFile(f) ==
  {Diag(f, i, "invalid_id") : i \in {j \in DOMAIN f : f[j].id = BadId}}
  \union {Diag(f, i, "duplicate_here") :
            i \in {j \in DOMAIN f : f[j].id \in Ids /\ ~IsFirst(f, j)}}
  \union {Diag(f, i, "empty_value") : i \in {j \in DOMAIN f : f[j].sched = Empty}}

\* Mutant: the tasks an earlier reading left stay where they are.
WithoutNothing(p) == tasks

\* The tasks left when everything the file contributed before is deleted.
Without(p) == [id \in Ids |-> IF id \in idsByPath[p] THEN NoTask ELSE tasks[id]]

\* Mutant: nobody's id is respected.
NeverClaimed(t, p, id) == FALSE

\* An id some other file has: its line raises a diagnostic and is passed over.
Claimed(t, p, id) == t[id] # NoTask /\ t[id].path # p

Accepted(t, p, f) == {id \in IdsOf(f) : ~Claimed(t, p, id)}

\* Mutant: a line whose id another file has is passed over in silence.
NoCrossFileDiags(t, p, f) == {}

CrossFileDiags(t, p, f) ==
  {Diag(f, i, "duplicate_elsewhere") :
     i \in {j \in DOMAIN f : f[j].id \in Ids /\ Claimed(t, p, f[j].id)}}

WithFile(t, p, f) ==
  [id \in Ids |-> IF id \in Accepted(t, p, f)
                  THEN TaskAt(p, f, LineOf(f, id)) ELSE t[id]]

\* The state of the index after reading file f at p; a missing file has nothing.
IndexFile(p, f) ==
  LET t == Without(p)
      absent == f = Gone
  IN
  /\ tasks' = IF absent THEN t ELSE WithFile(t, p, f)
  /\ idsByPath' = [idsByPath EXCEPT ![p] = IF absent THEN {} ELSE Accepted(t, p, f)]
  /\ diagsByPath' = [diagsByPath EXCEPT ![p] =
                       IF absent THEN {} ELSE ValidateFile(f) \union CrossFileDiags(t, p, f)]
  /\ read' = [read EXCEPT ![p] = f]

\* The deletions happen before the file is opened, and an error returns then.
IndexNothing(p) ==
  /\ tasks' = Without(p)
  /\ idsByPath' = [idsByPath EXCEPT ![p] = {}]
  /\ diagsByPath' = [diagsByPath EXCEPT ![p] = {}]
  /\ read' = [read EXCEPT ![p] = Unreadable]

-----------------------------------------------------------------------------
(* Build, and the engine's loop around ReconcileFile *)

\* Mutant: Build reads the files in any order.
BuildAnyFile(p) ==
  /\ p \in toBuild
  /\ disk[p] # Unreadable
  /\ IndexFile(p, disk[p])
  /\ toBuild' = toBuild \ {p}
  /\ mirror' = tasks'
  /\ seenDiags' = diagsByPath'
  /\ UNCHANGED <<disk, unread, edits>>

\* Build reads the files in lexical order.  A file that cannot be read makes
\* engine.New fail, so the daemon does not start at all; whoever starts after
\* Build (subscribers, scheduler) takes a snapshot of the tasks.
BuildFile(p) ==
  /\ p \in toBuild
  /\ \A q \in toBuild : p <= q
  /\ disk[p] # Unreadable
  /\ IndexFile(p, disk[p])
  /\ toBuild' = toBuild \ {p}
  /\ mirror' = tasks'
  /\ seenDiags' = diagsByPath'
  /\ UNCHANGED <<disk, unread, edits>>

\* ReconcileFile's Change, as the ids it names.
Added(p) == idsByPath'[p] \ idsByPath[p]
Removed(p) == idsByPath[p] \ idsByPath'[p]
\* Mutant: only tasks that moved to another line are updated.
UpdatedIfMoved(p) ==
  {id \in idsByPath[p] \intersect idsByPath'[p] : tasks'[id].line # tasks[id].line}

Updated(p) == {id \in idsByPath[p] \intersect idsByPath'[p] : tasks'[id] # tasks[id]}

IsEmptyChange(p) == Added(p) \union Updated(p) \union Removed(p) = {}

\* A subscriber folds a change into what it has.
Folded(p) ==
  [id \in Ids |-> IF id \in Added(p) \union Updated(p) THEN tasks'[id]
                  ELSE IF id \in Removed(p) THEN NoTask
                  ELSE mirror[id]]

\* Mutant: subscribers are woken for a change of tasks only.
AnnounceTasks(p) ==
  IF IsEmptyChange(p)
  THEN UNCHANGED <<mirror, seenDiags>>
  ELSE mirror' = Folded(p) /\ seenDiags' = diagsByPath'

\* Subscribers are woken for a change of tasks or of diagnostics.
Announce(p) ==
  IF IsEmptyChange(p) /\ diagsByPath' = diagsByPath
  THEN UNCHANGED <<mirror, seenDiags>>
  ELSE mirror' = Folded(p) /\ seenDiags' = diagsByPath'

\* The watcher reports p: after an edit, or once more for no reason.
Reconcile(p) ==
  /\ toBuild = {}
  /\ disk[p] # Unreadable
  /\ IndexFile(p, disk[p])
  /\ Announce(p)
  /\ UNCHANGED <<disk, toBuild, unread, edits>>

\* ReconcileFile returns an error: the engine goes on to the next path.
ReconcileFails(p) ==
  /\ toBuild = {}
  /\ disk[p] = Unreadable
  /\ IndexNothing(p)
  /\ unread' = unread \union {p}
  /\ UNCHANGED <<disk, toBuild, mirror, seenDiags, edits>>

-----------------------------------------------------------------------------
(* The debug trigger: TriggerHandler over vault.Walk *)

\* Files with a line for the id.  A line with a bad or a repeated id becomes a Problem,
\* which the trigger discards.
Holders(id) == {p \in Paths : disk[p] \notin {Gone, Unreadable} /\ id \in IdsOf(disk[p])}

\* Walk passes through the disk itself and gives an id to the first line it comes by:
\* the files of a directory "a" come before "a.md", which sort.Strings puts first.
Walk(id) ==
  IF Holders(id) = {} THEN NoTask
  ELSE LET p == CHOOSE q \in Holders(id) : \A r \in Holders(id) : Rank[q] <= Rank[r]
       IN TaskAt(p, disk[p], LineOf(disk[p], id))

\* A file that cannot be read fails every trigger.
Triggered(id) == IF \E p \in Paths : disk[p] = Unreadable THEN Unreadable ELSE Walk(id)

-----------------------------------------------------------------------------
(* The vault changes *)

Change(p, f) ==
  /\ toBuild = {}
  /\ edits < MaxEdits
  /\ f # disk[p]
  /\ disk' = [disk EXCEPT ![p] = f]
  /\ edits' = edits + 1
  /\ UNCHANGED <<indexVars, toBuild, mirror, seenDiags, read, unread>>

Edit(p) == \E f \in Files \union {Gone} : Change(p, f)

BecomeUnreadable(p) == Change(p, Unreadable)

Next ==
  \E p \in Paths : \/ BuildFile(p)
                   \/ Reconcile(p)
                   \/ ReconcileFails(p)
                   \/ Edit(p)
                   \/ BecomeUnreadable(p)

Spec == Init /\ [][Next]_vars

-----------------------------------------------------------------------------
(* Properties *)

\* The two maps tell one story: an id is listed under exactly the path that its
\* task names, so deleting a file's ids deletes that file's tasks and no others.
OwnersAgree ==
  \A p \in Paths, id \in Ids :
    id \in idsByPath[p] <=> tasks[id] # NoTask /\ tasks[id].path = p

\* Nothing is dropped in silence: an id a file held when it was last read either
\* is that file's task, at its first line there, or has a duplicate diagnostic
\* on that line.
EveryIdAccounted ==
  \A p \in Paths : read[p] \in Files =>
    \A id \in IdsOf(read[p]) :
      \/ id \in idsByPath[p] /\ tasks[id] = TaskAt(p, read[p], LineOf(read[p], id))
      \/ Diag(read[p], LineOf(read[p], id), "duplicate_elsewhere") \in diagsByPath[p]

\* A subscriber that took the snapshot and applied every published change has
\* the index's tasks, but for phantoms: tasks of a file that failed to be read,
\* which the index has dropped and no event names (engine.go "continue").
MirrorIsIndex ==
  toBuild = {} => \A id \in Ids :
    \/ mirror[id] = tasks[id]
    \/ tasks[id] = NoTask /\ mirror[id].path \in unread

\* No diagnostic appears or disappears without an event, unless its file failed
\* to be read.
DiagsAnnounced ==
  toBuild = {} => \A p \in Paths \ unread : seenDiags[p] = diagsByPath[p]

\* Where the index has read every file as it is, the debug trigger, which reads them
\* once more, finds each of its tasks, and fires the same line of it, unless two files
\* hold the id: Walk's order is another than Build's, and the index may have given the
\* id to whoever was there before.
TriggerAgrees ==
  toBuild = {} /\ read = disk =>
    \A id \in {i \in Ids : tasks[i] # NoTask} :
      /\ Triggered(id) # NoTask
      /\ \/ Triggered(id) \in {tasks[id], Unreadable}
         \/ \E p, q \in Holders(id) : p # q

\* The reference for Build (SDD G4): the first file in path order wins an id.
FirstWins ==
  [id \in Ids |->
     IF Holders(id) = {} THEN NoTask
     ELSE LET p == CHOOSE q \in Holders(id) : \A r \in Holders(id) : q <= r
          IN TaskAt(p, disk[p], LineOf(disk[p], id))]

\* Build leaves every id with the first file that holds it.
BuildIsFirstWins ==
  [][toBuild # {} /\ toBuild' = {} => tasks' = FirstWins]_vars

\* The index implements the single-owner discipline.
Ownership == INSTANCE IdOwnership WITH
               owner <- [id \in Ids |-> tasks[id].path]

OwnershipSpec == Ownership!Spec

=============================================================================
