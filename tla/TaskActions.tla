---------------------------- MODULE TaskActions ----------------------------
(***************************************************************************)
(* internal/api/task_actions.go, task_create.go and the PUT of             *)
(* vault_browser.go over internal/engine/schedule/{state,writeback,        *)
(* fulfillment}.go: what a request does to one vault file.                 *)
(*                                                                         *)
(* A request looks its task up in the index, which the watcher refreshes   *)
(* after changes from outside but, as a rule, not after the daemon's own   *)
(* writes.  It then makes one or more stamps; each reads the whole file,   *)
(* checks it, patches the task's line and writes the whole file back, and  *)
(* only the write is serialized (VaultWriter), so that reading and writing *)
(* are two steps.  A line is its @id and what requests read and write of   *)
(* it, each at most once unless the line is odd.  Texts of clients go into *)
(* a line as they are.  Ids are numbers: the candidates of one title slug, *)
(* in the order generateTaskID tries them.                                 *)
(***************************************************************************)
EXTENDS Integers, Sequences, FiniteSets

CONSTANTS Handlers,      \* goroutines serving requests
          Ids,           \* candidates for the @id of a created task
          Elsewhere,     \* ids that other files have in the index
          Files,         \* what an outside change can leave in the file
          Kinds,         \* what clients create: "once" and "schedule" tasks
          BadId,         \* an @id that does not match the pattern
          Garbled,       \* what can stand in the place of a line after a raw text, or
                         \* a stamp on an odd line: other lines, of any number
          None,          \* no file, no request, no @id, no index entry
          MaxSkip,       \* bound: @skip_count
          MaxRequests,   \* bound: requests
          MaxChanges,    \* bound: changes that are not a task's
          MaxFaults      \* bound: failed writes and restarts

States == {"active", "triggered", "paused", "completed", "failed"}

\* What clients write: words that are read back as they are; something that is blank;
\* anything with a parenthesis, a directive or a line break of its own.
Texts == {"words", "blank", "raw"}

\* kind: which of @once and @schedule the line has.  box: is there an unchecked box?
\* error: has another directive no value, or is the @state not one of States?  It counts
\* as absent then.  odd: is a name there twice, an unfinished directive or a second box?
Lines == [id : Ids \union {BadId, None},
          kind : {"once", "schedule", "both", "neither"},
          state : States \union {"absent"},
          skip : 0 .. MaxSkip,
          box : BOOLEAN, done : BOOLEAN, reason : {"none", "words", "blank"},
          error : BOOLEAN, odd : BOOLEAN]

ASSUME ActionsAssumption ==
  /\ Ids \subseteq Nat /\ Elsewhere \subseteq Ids
  /\ Files \subseteq Seq(Lines)
  /\ Kinds \subseteq {"once", "schedule"}
  /\ {BadId, None} \intersect Ids = {} /\ BadId # None
  /\ None \notin Seq(Lines)
  /\ Garbled \in [Lines -> SUBSET Seq(Lines)]
  /\ {MaxSkip, MaxRequests, MaxChanges, MaxFaults} \subseteq Nat

VARIABLES file,       \* the vault file, None if there is none
          index,      \* the index's tasks of this file
          reported,   \* is the watcher about to have the file read again?
          req,        \* the request each goroutine serves
          requests, changes, faults,
          version     \* history: changes that may have moved lines

vars == <<file, index, reported, req, requests, changes, faults, version>>

-----------------------------------------------------------------------------
(* The file and the index *)

IdsIn(f) == {id \in Ids : \E i \in DOMAIN f : f[i].id = id}

LineOf(f, id) ==
  CHOOSE i \in DOMAIN f : f[i].id = id /\ \A j \in 1 .. i - 1 : f[j].id # id

\* No error of ValidateFile: a bad or repeated @id is an error, a line without one is
\* not; a directive without a value and an unknown @state are errors.
Valid(f) ==
  /\ \A i \in DOMAIN f : f[i].id # BadId /\ f[i].reason # "blank" /\ ~f[i].error
  /\ \A i, j \in DOMAIN f : f[i].id = f[j].id /\ f[i].id \in Ids => i = j

\* The index after reading f: the ids other files have stay theirs.
Indexed(f, v) ==
  [id \in Ids |-> IF f # None /\ id \in IdsIn(f) \ Elsewhere
                  THEN [id |-> id, line |-> LineOf(f, id), value |-> f[LineOf(f, id)], seen |-> v]
                  ELSE None]

-----------------------------------------------------------------------------
(* schedule.Advance, for the events of the handlers *)

\* Mutant: pausing is possible from every state but paused.
AdvanceAny(current, event) ==
  CASE event = "paused" /\ current # "paused" -> "paused"
    [] event = "resumed" /\ current = "paused" -> "active"
    [] event = "fulfilled" /\ current \in {"active", "triggered"} -> "active"
    [] OTHER -> None

\* The next state, or None where there is no transition.  Fulfilling asks only for
\* tasks with a schedule, which go back to active.
Advance(current, event) ==
  CASE event = "paused" /\ current \in {"active", "triggered"} -> "paused"
    [] event = "resumed" /\ current = "paused" -> "active"
    [] event = "fulfilled" /\ current \in {"active", "triggered"} -> "active"
    [] OTHER -> None

-----------------------------------------------------------------------------
(* Requests *)

Stamps == [field : {"state"}, to : States] \union [field : {"skip"}, to : 0 .. MaxSkip]
          \union [field : {"box", "done"}, to : BOOLEAN] \union [field : {"reason"}, to : Texts]

Stamp(field, to) == [field |-> field, to |-> to]

Transition(current, event) ==
  IF Advance(current, event) \in {None, current}
  THEN <<>> ELSE <<Stamp("state", Advance(current, event))>>

\* The stamps a handler makes, one after the other, for a task as the index has it; a
\* client that pauses a task may give a reason for it.
Plan(op, reason, v) ==
  CASE op = "pause" /\ reason = None -> Transition(v.state, "paused")
    [] op = "pause" /\ reason # None ->
         Append(Transition(v.state, "paused"), Stamp("reason", reason))
    [] op = "resume" -> Transition(v.state, "resumed")
    [] op = "skip" -> <<Stamp("skip", v.skip + 1)>>
    [] op = "fulfill" /\ v.kind = "once" -> <<Stamp("box", FALSE), Stamp("state", "completed")>>
    [] op = "fulfill" /\ v.kind \in {"schedule", "both"} ->
         <<Stamp("done", TRUE)>> \o Transition(v.state, "fulfilled")
    [] OTHER -> <<>>

Ops == {"pause", "resume", "skip", "fulfill"}

\* The @state a handler tells its client when it succeeds; it goes by @once first.
Answered(op, v) ==
  IF op = "fulfill" /\ v.kind \in {"once", "both"} THEN "completed"
  ELSE IF op = "fulfill" /\ v.state = "triggered" THEN "active"
  ELSE IF Plan(op, None, v) # <<>> /\ Plan(op, None, v)[1].field = "state"
       THEN Plan(op, None, v)[1].to
  ELSE v.state

Requests ==
  [op : Ops, task : [id : Ids, line : Nat \ {0}, value : Lines, seen : Nat],
   plan : Seq(Stamps), base : Seq(Lines) \union {None}, basedOn : Nat]
  \union [op : {"create"}, text : Texts, lines : Seq(Lines), base : Seq(Lines), basedOn : Nat]

TypeOK ==
  /\ file \in Seq(Lines) \union {None}
  /\ index \in [Ids -> [id : Ids, line : Nat \ {0}, value : Lines, seen : Nat] \union {None}]
  /\ reported \in BOOLEAN
  /\ req \in [Handlers -> Requests \union {None}]
  /\ requests \in 0 .. MaxRequests
  /\ changes \in 0 .. MaxChanges
  /\ faults \in 0 .. MaxFaults
  /\ version \in Nat

Init ==
  /\ file \in Files \union {None}
  /\ index = Indexed(file, 0)
  /\ reported = FALSE
  /\ req = [h \in Handlers |-> None]
  /\ requests = 0 /\ changes = 0 /\ faults = 0
  /\ version = 0

\* lookupTask and everything the handler decides from the task it got.
Look(h, op, id, reason) ==
  /\ req[h] = None
  /\ reason # None => op = "pause"
  /\ requests < MaxRequests
  /\ index[id] # None
  /\ op = "skip" => index[id].value.skip < MaxSkip
  /\ Plan(op, reason, index[id].value) # <<>>
  /\ req' = [req EXCEPT ![h] = [op |-> op, task |-> index[id],
                                plan |-> Plan(op, reason, index[id].value),
                                base |-> None, basedOn |-> 0]]
  /\ requests' = requests + 1
  /\ UNCHANGED <<file, index, reported, changes, faults, version>>

Stamping(h) == req[h] # None /\ req[h].op \in Ops

\* The request is over and the client has its answer.
Finish(h) == req' = [req EXCEPT ![h] = None]

\* Reading, validating and finding the line.
Accepted(r, f) == f # None /\ Valid(f) /\ r.task.line <= Len(f)

ReadForStamp(h) ==
  LET r == req[h] IN
  /\ Stamping(h)
  /\ r.base = None
  /\ Accepted(r, file)
  /\ Head(r.plan).field = "box" => file[r.task.line].box
  /\ req' = [req EXCEPT ![h].base = file, ![h].basedOn = version]
  /\ UNCHANGED <<file, index, reported, requests, changes, faults, version>>

\* ErrFileInvalid and the other errors before the write.
GiveUp(h) ==
  /\ Stamping(h)
  /\ req[h].base = None
  /\ ~Accepted(req[h], file)
  /\ Finish(h)
  /\ UNCHANGED <<file, index, reported, requests, changes, faults, version>>

\* ErrNoUncheckedCheckbox: taken for an earlier fulfillment, and answered like one.
AlreadyChecked(h) ==
  LET r == req[h] IN
  /\ Stamping(h)
  /\ r.base = None
  /\ Accepted(r, file)
  /\ Head(r.plan).field = "box" /\ ~file[r.task.line].box
  /\ Finish(h)
  /\ UNCHANGED <<file, index, reported, requests, changes, faults, version>>

\* PatchDirective or PatchCheckbox on one line.
Patched(line, st) ==
  CASE st.field = "state" -> [line EXCEPT !.state = st.to]
    [] st.field = "skip" -> [line EXCEPT !.skip = st.to]
    [] st.field = "box" -> [line EXCEPT !.box = st.to]
    [] st.field = "done" -> [line EXCEPT !.done = st.to]
    [] st.field = "reason" -> [line EXCEPT !.reason = st.to]

\* What is read of the line after a stamp need not be what was stamped: @reason is
\* written as the client sent it, and on an odd line something else may be read first.
Garbles(line, st) == line.odd \/ st = Stamp("reason", "raw")

\* The lines that stand in the place of one after a stamp.
Stamped(line, st) == IF Garbles(line, st) THEN Garbled[line] ELSE {<<Patched(line, st)>>}

\* SplicePatch: the file with ls in the place of line i.
Spliced(f, i, ls) == SubSeq(f, 1, i - 1) \o ls \o SubSeq(f, i + 1, Len(f))

Layout(f) == [i \in DOMAIN f |-> f[i].id]

\* Writer.Write of content f that was made from base; moves: may the request have put
\* other lines in the place of one?  The watcher may take the write for an outside
\* change (it looked before Record), or take an outside change for the write (it
\* looked after it).
Write(f, base, moves) ==
  /\ file' = f
  /\ reported' \in BOOLEAN
  /\ version' = IF ~moves /\ file # None /\ Layout(base) = Layout(file)
                THEN version ELSE version + 1

\* Does the stamp that r makes next garble its line?
Garbling(r) == Garbles(r.base[r.task.line], Head(r.plan))

CommitStamp(h) ==
  LET r == req[h] IN
  /\ Stamping(h)
  /\ r.base # None
  /\ \E ls \in Stamped(r.base[r.task.line], Head(r.plan)) :
       Write(Spliced(r.base, r.task.line, ls), r.base, Garbling(r))
  /\ IF Len(r.plan) = 1
     THEN Finish(h)
     ELSE req' = [req EXCEPT ![h].plan = Tail(@), ![h].base = None]
  /\ UNCHANGED <<index, requests, changes, faults>>

-----------------------------------------------------------------------------
(* CreateTaskHandler *)

\* Mutant: only the index is asked whether an id is taken.
TakenInIndex(f) == {id \in Ids : index[id] # None} \union Elsewhere

\* The ids generateTaskID does not give out: those in the bytes it read and those
\* in the index.
Taken(f) == IdsIn(f) \union {id \in Ids : index[id] # None} \union Elsewhere

FreshId(f) == CHOOSE id \in Ids \ Taken(f) : \A other \in Ids \ Taken(f) : id <= other

\* Mutant: the created line gets a state of its own.
TaskLineNew(id, kind) ==
  [id |-> id, kind |-> kind, state |-> "new", skip |-> 0,
   box |-> TRUE, done |-> FALSE, reason |-> "none", error |-> FALSE, odd |-> FALSE]

TaskLine(id, kind) ==
  [id |-> id, kind |-> kind, state |-> "active", skip |-> 0,
   box |-> TRUE, done |-> FALSE, reason |-> "none", error |-> FALSE, odd |-> FALSE]

\* buildTaskLine: title and target are written as the client sent them.
TaskLines(id, kind, text) ==
  IF text = "words" THEN {<<TaskLine(id, kind)>>} ELSE Garbled[TaskLine(id, kind)]

\* A missing file is an empty one.  The id is chosen right after the reading; a blank
\* title is refused, a blank target left out.
ReadForCreate(h, kind, text) ==
  LET f == IF file = None THEN <<>> ELSE file IN
  /\ req[h] = None
  /\ requests < MaxRequests
  /\ text # "blank"
  /\ Ids \ Taken(f) # {}
  /\ \E ls \in TaskLines(FreshId(f), kind, text) :
       req' = [req EXCEPT ![h] = [op |-> "create", text |-> text, lines |-> ls,
                                  base |-> f, basedOn |-> version]]
  /\ requests' = requests + 1
  /\ UNCHANGED <<file, index, reported, changes, faults, version>>

\* Mutant: new tasks come first.
WithTaskFirst(f, ls) == ls \o f

WithTask(f, ls) == f \o ls

CommitCreate(h) ==
  LET r == req[h] IN
  /\ r # None /\ r.op = "create"
  /\ Write(WithTask(r.base, r.lines), r.base, FALSE)
  /\ Finish(h)
  /\ UNCHANGED <<index, requests, changes, faults>>

\* Writer.Write returns an error.
WriteFails(h) ==
  /\ faults < MaxFaults
  /\ req[h] # None /\ req[h].base # None
  /\ Finish(h)
  /\ faults' = faults + 1
  /\ UNCHANGED <<file, index, reported, requests, changes, version>>

-----------------------------------------------------------------------------
(* Around the requests *)

\* PutFileHandler: whatever the web editor sends replaces a file that is there.
PutFile(f) ==
  /\ changes < MaxChanges
  /\ file # None
  /\ changes' = changes + 1
  /\ file' = f
  /\ reported' \in BOOLEAN
  /\ version' = version + 1
  /\ UNCHANGED <<index, req, requests, faults>>

\* Somebody else saves the file, or deletes it, which the watcher does not report.
OutsideEdit(f) ==
  /\ changes < MaxChanges
  /\ f # file
  /\ changes' = changes + 1
  /\ file' = f
  /\ reported' = (reported \/ f # None)
  /\ version' = version + 1
  /\ UNCHANGED <<index, req, requests, faults>>

Reconcile ==
  /\ reported
  /\ reported' = FALSE
  /\ index' = Indexed(file, version)
  /\ UNCHANGED <<file, req, requests, changes, faults, version>>

\* The process ends, in the middle of any request, and is started again.
Restart ==
  /\ faults < MaxFaults
  /\ faults' = faults + 1
  /\ index' = Indexed(file, version)
  /\ reported' = FALSE
  /\ req' = [h \in Handlers |-> None]
  /\ UNCHANGED <<file, requests, changes, version>>

Next ==
  \/ \E h \in Handlers :
       \/ \E op \in Ops, id \in Ids, reason \in Texts \union {None} : Look(h, op, id, reason)
       \/ ReadForStamp(h) \/ GiveUp(h) \/ AlreadyChecked(h) \/ CommitStamp(h)
       \/ \E kind \in Kinds, text \in Texts : ReadForCreate(h, kind, text)
       \/ CommitCreate(h)
       \/ WriteFails(h)
  \/ \E f \in Files : PutFile(f)
  \/ \E f \in Files \union {None} : OutsideEdit(f)
  \/ Reconcile
  \/ Restart

Spec == Init /\ [][Next]_vars

-----------------------------------------------------------------------------
(* Properties *)

\* A stamp that is about to be written goes to the line of its task, unless lines
\* may have moved since the index was read: by a change that is not a task's, by a
\* write that undoes one or another task's creation, or by a stamp that garbled a line.
\* Creations and all other stamps never move a task (writeback.go lineByteRange goes by
\* task.Line alone).
StampHitsOwnLine ==
  \A h \in Handlers :
    Stamping(h) /\ req[h].base # None /\ req[h].task.seen = req[h].basedOn
      => req[h].base[req[h].task.line].id = req[h].task.id

\* No write of a request makes an invalid file out of a valid one (after which SDD G15
\* has every stamp refused), whatever the index has missed: created ids are new to the
\* file, stamps leave ids alone and stamp values that are allowed.  That is, as long as
\* the client sends words: a blank or a raw text is written like any other, and so is a
\* stamp on an odd line, where it can complete what was no directive before.
OwnWritesKeepValid ==
  [][\A h \in Handlers :
       \/ /\ CommitStamp(h)
          /\ ~Garbling(req[h]) /\ Head(req[h].plan) # Stamp("reason", "blank")
       \/ CommitCreate(h) /\ req[h].text = "words"
       => (Valid(req[h].base) => Valid(file'))]_vars

\* A stamp that garbles nothing takes a task out of completed (state.go "completed is
\* terminal") only if its write read the file, or its request saw the task, before it was
\* completed; and the task it does that to is its own, unless lines may have moved since
\* the index was read.
TerminalUnlessOutdated ==
  [][\A h \in Handlers : CommitStamp(h) /\ ~Garbling(req[h]) =>
       LET t == req[h].task IN
       \/ file # req[h].base
       \/ \A i \in DOMAIN file :
            file[i].state = "completed" /\ file'[i].state # "completed" =>
              /\ i = t.line /\ t.value.state # "completed"
              /\ t.seen = version => file[i].id = t.id]_vars

\* A task whose client is told it is completed (fulfillment.go "@once completes
\* outright") is completed in the file at that moment.
CompletedAnswersAreTrue ==
  [][\A h \in Handlers :
       /\ AlreadyChecked(h) \/ (CommitStamp(h) /\ Len(req[h].plan) = 1)
       /\ Answered(req[h].op, req[h].task.value) = "completed"
       => file'[req[h].task.line].state = "completed"]_vars

=============================================================================
