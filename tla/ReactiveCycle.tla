--------------------------- MODULE ReactiveCycle ---------------------------
(***************************************************************************)
(* The daemon's reactive cycle (internal/engine/engine.go over watcher and *)
(* vault): users and the daemon's own handlers change the vault, the       *)
(* watcher reports paths, and the engine re-reads each reported path into  *)
(* the index.  The index is seen at the granularity of files here: what    *)
(* each path held when it was last indexed.                                *)
(***************************************************************************)
EXTENDS Watcher

CONSTANTS MaxEdits,      \* bound: changes made from outside the daemon
          MaxWrites,     \* bound: calls of Writer.Write
          MaxFaults,     \* bound: lost events and failed reads
          MaxCrashes,    \* bound: restarts of the process
          EditsAtStart,  \* may files change while engine.New runs?
          Deletes,       \* may files be deleted?
          FreshBytes,    \* does every outside change bring bytes the path never held?
          MayStop,       \* may the context of Engine.Run be cancelled?
          StopEdits      \* bound: outside changes in a run that is cancelled

ASSUME BoundsAssumption ==
  /\ {MaxEdits, MaxWrites, MaxFaults, MaxCrashes, StopEdits} \subseteq Nat
  /\ StopEdits <= MaxEdits
  /\ {EditsAtStart, Deletes, FreshBytes, MayStop} \subseteq BOOLEAN

VARIABLES engine,     \* where Engine.New, then Engine.Run is
          cancelled,  \* the context given to Run
          index,      \* what each path held when the index last read it
          unread,     \* history: files the index has dropped because it could not read them
          edits, writes, faults, crashes,   \* how much of each bound is used
          held,       \* history: every content each path has had
          ownBytes,   \* history: every content the daemon renamed to each path
          lastBy,     \* history: who changed each path last; "early": before it was watched
          swallowed   \* history: checks that answered "echo", per path

engineVars == <<engine, cancelled, index, unread>>
boundVars == <<edits, writes, faults, crashes>>
historyVars == <<held, ownBytes, lastBy, swallowed>>
vars == <<writerVars, watcherVars, engineVars, boundVars, historyVars>>

Init ==
  /\ WriterInit
  /\ WatcherInit
  /\ engine = "build"
  /\ cancelled = FALSE
  /\ index = [p \in Paths |-> None]
  /\ unread = {}
  /\ edits = 0 /\ writes = 0 /\ faults = 0 /\ crashes = 0
  /\ held = [p \in Paths |-> {disk[p]}]
  /\ ownBytes = [p \in Paths |-> {}]
  /\ lastBy = [p \in Paths |-> "user"]
  /\ swallowed = [p \in Paths |-> 0]

TypeOK ==
  /\ WriterTypeOK
  /\ WatcherTypeOK
  /\ engine \in {"build", "watch", "baseline", "loop", "waiting", "returned"}
  /\ cancelled \in BOOLEAN
  /\ index \in [Paths -> Hash]
  /\ unread \subseteq Paths
  /\ edits \in 0 .. MaxEdits /\ writes \in 0 .. MaxWrites /\ faults \in 0 .. MaxFaults
  /\ crashes \in 0 .. MaxCrashes
  /\ held \in [Paths -> SUBSET Hash]
  /\ ownBytes \in [Paths -> SUBSET Contents]
  /\ lastBy \in [Paths -> {"user", "early", "daemon"}]
  /\ swallowed \in [Paths -> Nat]

-----------------------------------------------------------------------------
(* engine.New and Engine.Run *)

\* idx.Build reads the whole vault.
Build ==
  /\ engine = "build"
  /\ engine' = "watch"
  /\ index' = disk
  /\ UNCHANGED <<writerVars, watcherVars, cancelled, unread, boundVars, historyVars>>

\* watcher.New registers every directory with fsnotify ...
AddWatches ==
  /\ engine = "watch"
  /\ engine' = "baseline"
  /\ UNCHANGED <<writerVars, watcherVars, cancelled, index, unread, boundVars, historyVars>>

\* ... then seeds the hashes the rescan compares with; Run starts.
Baseline ==
  /\ engine = "baseline"
  /\ engine' = "loop"
  /\ hashes' = disk
  /\ UNCHANGED <<writerVars, notices, timers, orphans, procs, loop, out,
                 cancelled, index, unread, boundVars, historyVars>>

Running == engine \in {"loop", "waiting", "returned"}

\* One iteration of Run: ReconcileFile reads the path as it is now.
Reconcile ==
  /\ engine = "loop"
  /\ out # <<>>
  /\ index' = [index EXCEPT ![Head(out)] = disk[Head(out)]]
  /\ unread' = unread \ {Head(out)}
  /\ out' = Tail(out)
  /\ UNCHANGED <<writerVars, notices, timers, orphans, procs, loop, hashes,
                 engine, cancelled, boundVars, historyVars>>

\* ... unless the file is there and cannot be read: ReconcileFile has removed what the
\* index had of it by then, and Run goes on.  The watcher has recorded the hash already,
\* so that no later rescan finds the file changed.
ReconcileFails ==
  /\ engine = "loop"
  /\ out # <<>>
  /\ faults < MaxFaults
  /\ disk[Head(out)] # None
  /\ index' = [index EXCEPT ![Head(out)] = None]
  /\ unread' = unread \union {Head(out)}
  /\ out' = Tail(out)
  /\ faults' = faults + 1
  /\ UNCHANGED <<writerVars, notices, timers, orphans, procs, loop, hashes,
                 engine, cancelled, edits, writes, crashes, historyVars>>

Cancel ==
  /\ MayStop /\ edits <= StopEdits
  /\ engine = "loop"
  /\ ~cancelled
  /\ cancelled' = TRUE
  /\ UNCHANGED <<writerVars, watcherVars, engine, index, unread, boundVars, historyVars>>

\* The engine's select sees ctx.Done and waits for the watcher to return.
EngineStops ==
  /\ cancelled
  /\ engine = "loop"
  /\ engine' = "waiting"
  /\ UNCHANGED <<writerVars, watcherVars, cancelled, index, unread, boundVars, historyVars>>

\* Mutant: the watcher is stopped by a deferred call of Run.
WatcherStopsLast ==
  /\ engine = "returned"
  /\ LoopExits
  /\ UNCHANGED <<writerVars, engineVars, boundVars, historyVars>>

WatcherStops ==
  /\ cancelled
  /\ LoopExits
  /\ UNCHANGED <<writerVars, engineVars, boundVars, historyVars>>

EngineReturns ==
  /\ engine = "waiting"
  /\ loop.pc = "exited"
  /\ engine' = "returned"
  /\ UNCHANGED <<writerVars, watcherVars, cancelled, index, unread, boundVars, historyVars>>

-----------------------------------------------------------------------------
(* The vault changes *)

\* Bytes that appear at p are reported once fsnotify watches the directory.
Watched == engine \notin {"build", "watch"}

Appear(p) == IF Watched THEN Notify(p) ELSE UNCHANGED notices

Outsider == IF Watched THEN "user" ELSE "early"

EditsLeft == edits < IF cancelled THEN StopEdits ELSE MaxEdits

Edit(p, c) ==
  /\ EditsLeft
  /\ EditsAtStart \/ Running
  /\ FreshBytes => c \notin held[p]
  /\ UserEdit(p, c)
  /\ Appear(p)
  /\ edits' = edits + 1
  /\ held' = [held EXCEPT ![p] = @ \union {c}]
  /\ lastBy' = [lastBy EXCEPT ![p] = Outsider]
  /\ UNCHANGED <<timers, orphans, procs, loop, hashes, out, engineVars,
                 writes, faults, crashes, ownBytes, swallowed>>

\* handleEvent ignores removals, so nothing is left to be delivered.
Delete(p) ==
  /\ Deletes
  /\ EditsLeft
  /\ EditsAtStart \/ Running
  /\ UserEdit(p, None)
  /\ edits' = edits + 1
  /\ held' = [held EXCEPT ![p] = @ \union {None}]
  /\ lastBy' = [lastBy EXCEPT ![p] = Outsider]
  /\ UNCHANGED <<watcherVars, engineVars, writes, faults, crashes, ownBytes, swallowed>>

\* The HTTP handlers exist only after engine.New has returned.
StartWrite(w, p, c) ==
  /\ Running
  /\ writes < MaxWrites
  /\ Call(w, p, c)
  /\ writes' = writes + 1
  /\ UNCHANGED <<watcherVars, engineVars, edits, faults, crashes, historyVars>>

PublishWrite(w) ==
  LET p == job[w].path
      c == job[w].content
  IN
  /\ Publish(w)
  /\ Notify(p)
  /\ held' = [held EXCEPT ![p] = @ \union {c}]
  /\ ownBytes' = [ownBytes EXCEPT ![p] = @ \union {c}]
  /\ lastBy' = [lastBy EXCEPT ![p] = "daemon"]
  /\ UNCHANGED <<timers, orphans, procs, loop, hashes, out, engineVars,
                 boundVars, swallowed>>

OtherWriteStep(w) ==
  /\ Acquire(w) \/ Stage(w) \/ Record(w) \/ Fail(w)
  /\ UNCHANGED <<watcherVars, engineVars, boundVars, historyVars>>

-----------------------------------------------------------------------------
(* The watcher's goroutines *)

Lose(p) ==
  /\ faults < MaxFaults
  /\ LoseNotice(p)
  /\ faults' = faults + 1
  /\ UNCHANGED <<writerVars, engineVars, edits, writes, crashes, historyVars>>

FailRead(g) ==
  /\ faults < MaxFaults
  /\ ReadFails(g)
  /\ faults' = faults + 1
  /\ UNCHANGED <<writerVars, engineVars, edits, writes, crashes, historyVars>>

RescanFails ==
  /\ faults < MaxFaults
  /\ RescanAbort \/ \E p \in Paths : RescanSkip(p)
  /\ faults' = faults + 1
  /\ UNCHANGED <<writerVars, engineVars, edits, writes, crashes, historyVars>>

\* The process dies and is started again, with nothing but the vault.  One way to
\* die is the rescan's unguarded look at w.hashes while recordHash stores into it.
Crash ==
  /\ Running
  /\ crashes < MaxCrashes
  /\ crashes' = crashes + 1
  /\ engine' = "build"
  /\ cancelled' = FALSE
  /\ index' = [p \in Paths |-> None]
  /\ unread' = {}
  /\ lock' = [p \in Paths |-> None]
  /\ pc' = [w \in Writers |-> "idle"]
  /\ job' = [w \in Writers |-> None]
  /\ registry' = [p \in Paths |-> None]
  /\ WatcherIsNew
  /\ UNCHANGED <<disk, lastOwn, edits, writes, faults, historyVars>>

Deliver(p) ==
  /\ Running
  /\ HandleEvent(p)
  /\ UNCHANGED <<writerVars, engineVars, boundVars, historyVars>>

Expire(p) ==
  /\ \E g \in Procs : TimerExpires(g, p) \/ OrphanExpires(g, p)
  /\ UNCHANGED <<writerVars, engineVars, boundVars, historyVars>>

\* Does this step answer a check of p with "echo"?
AnswersEcho(p) ==
  \/ \E g \in Procs : procs[g].pc = "read" /\ procs'[g].pc = "echo" /\ procs[g].path = p
  \/ loop.pc = "report" /\ loop'.pc = "echo" /\ loop'.cur = p

CountEchoes ==
  swallowed' = [p \in Paths |-> swallowed[p] + (IF AnswersEcho(p) THEN 1 ELSE 0)]

Process(g) ==
  /\ ProcStep(g)
  /\ CountEchoes
  /\ UNCHANGED <<disk, lock, pc, job, lastOwn, engineVars, boundVars,
                 held, ownBytes, lastBy>>

Tick ==
  /\ Running
  /\ RescanStart
  /\ UNCHANGED <<writerVars, engineVars, boundVars, historyVars>>

Rescan ==
  /\ RescanStep
  /\ CountEchoes
  /\ UNCHANGED <<disk, lock, pc, job, lastOwn, engineVars, boundVars,
                 held, ownBytes, lastBy>>

-----------------------------------------------------------------------------
Next ==
  \/ Build \/ AddWatches \/ Baseline \/ Reconcile \/ ReconcileFails
  \/ Cancel \/ EngineStops \/ WatcherStops \/ EngineReturns
  \/ \E p \in Paths :
       \/ \E c \in Contents : Edit(p, c)
       \/ Delete(p)
       \/ Lose(p)
       \/ Deliver(p)
       \/ Expire(p)
  \/ \E w \in Writers :
       \/ \E p \in Paths, c \in Contents : StartWrite(w, p, c)
       \/ PublishWrite(w)
       \/ OtherWriteStep(w)
  \/ \E g \in Procs : FailRead(g) \/ Process(g)
  \/ Tick
  \/ Rescan
  \/ RescanFails
  \/ Crash

Spec == Init /\ [][Next]_vars

(* The steps the Go scheduler, the timers and the ticker are bound to take.
   Events and ticks compete in one select, which picks at random among the ready
   cases, and so does ctx.Done: each is taken if it is ready again and again. *)
Fairness ==
  /\ WF_vars(Build) /\ WF_vars(AddWatches) /\ WF_vars(Baseline)
  /\ WF_vars(Reconcile)
  /\ SF_vars(EngineStops) /\ SF_vars(WatcherStops) /\ WF_vars(EngineReturns)
  /\ \A p \in Paths : SF_vars(Deliver(p)) /\ WF_vars(Expire(p))
  /\ \A w \in Writers : WF_vars(PublishWrite(w)) /\ SF_vars(OtherWriteStep(w))
  /\ \A g \in Procs : WF_vars(Process(g))
  /\ SF_vars(Tick)
  /\ WF_vars(Rescan)

FairSpec == Spec /\ Fairness

-----------------------------------------------------------------------------
(* Properties *)

\* Nothing in the daemon is about to look at p again.
Settled(p) ==
  /\ engine = "loop"
  /\ notices[p] = 0
  /\ timers[p] = "none"
  /\ orphans[p] = 0
  /\ \A g \in Procs : procs[g].path # p
  /\ loop.pc = "select"
  /\ \A i \in 1 .. Len(out) : out[i] # p
  /\ \A w \in Writers : job[w] = None \/ job[w].path # p

\* Suppression hides only the daemon's own bytes: as long as no event is lost and no
\* read fails, where the watcher is done with a file that exists and the index holds
\* something else than the file does, the file holds bytes the daemon itself once renamed
\* to that path, or it was changed last while engine.New had read it and did not watch it yet.
StaleOnlyBehindOwnBytes ==
  faults = 0 =>
    \A p \in Paths :
      Settled(p) /\ disk[p] \notin {None, index[p]}
        => disk[p] \in ownBytes[p] \/ lastBy[p] = "early"

\* One write excuses one report: the checks that took a change for an echo never
\* outnumber the calls of Write (writer.go "a match is consumed").
EchoesNeedWrites ==
  \A p \in Paths : swallowed[p] <= writes

\* A change made from outside ends up in the index, although events are lost and the
\* watcher's own reads fail, because the rescan reports what the events did not.  One
\* failure nobody makes up for: the hash of a reported file is recorded before the engine
\* reads the file, so a file that cannot be read then (engine.go continues) stays out of
\* the index until it changes again.  Once Run is cancelled nobody promises anything.
EditsReachIndex ==
  <>cancelled \/ <>[](\A p \in Paths \ unread : index[p] = disk[p])

\* Cancelling the context ends Engine.Run, unless the buffer of reports, which
\* nobody reads any more, is full: then the rescan may block in its send for good.
RunReturnsUnlessFull ==
  cancelled ~> engine = "returned" \/ Len(out) = OutCap

\* Where the watcher is done with a file the daemon changed last, the index has it.
SettledWriteIsIndexed ==
  \A p \in Paths :
    Settled(p) /\ lastBy[p] = "daemon" => index[p] = disk[p]

=============================================================================
