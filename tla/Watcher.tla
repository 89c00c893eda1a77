------------------------------ MODULE Watcher ------------------------------
(***************************************************************************)
(* internal/engine/watcher: fsnotify events are debounced per path, the    *)
(* file is read once it is stable, the daemon's own bytes are dropped with *)
(* the writer's HashRegistry, and a periodic rescan backs the events up.   *)
(* Three kinds of goroutine share this state: Run's loop (events and the   *)
(* rescan), one goroutine per expired timer (processPath), and whoever     *)
(* reads Changes().                                                        *)
(*                                                                         *)
(* fsnotify is external: a successful rename over, or a save of, a path    *)
(* leaves one notice to be delivered to the loop, and notices of one path  *)
(* are counted.  Events with neither Write nor Create set (a removal) and  *)
(* events of other file names never get past handleEvent, so they are not  *)
(* represented.  A file that is in a new directory before addDirsRecursive *)
(* watches it is a file whose notice is lost.                              *)
(***************************************************************************)
EXTENDS VaultWriter, Integers, Sequences

CONSTANTS Procs,       \* goroutines running a timer's function
          OutCap,      \* buffer of Watcher.out (64 in the code)
          MaxNotices   \* bound: undelivered fsnotify events per path

ASSUME WatcherAssumption == OutCap \in Nat \ {0} /\ MaxNotices \in Nat \ {0}

VARIABLES notices,   \* undelivered Write/Create events of each path
          timers,    \* Watcher.timers: the state of the entry of each path
          orphans,   \* timers that were reset after they had expired: armed,
                     \* but no longer in the map
          procs,     \* processPath runs
          loop,      \* Run's goroutine
          hashes,    \* Watcher.hashes: last known hash of each path
          out        \* Watcher.out

watcherVars == <<notices, timers, orphans, procs, loop, hashes, out>>

Hash == Contents \union {None}

IdleProc == [pc |-> "idle", path |-> None, hash |-> None]
IdleLoop == [pc |-> "select", snap |-> <<>>, todo |-> {}, cur |-> None]

ProcPC == {"fired", "settling", "read", "echo", "foreign", "emit"}

\* The local variables of rescan: the files read so far, those to be reported, and the
\* one that is being reported.
Snapshots == UNION {[D -> Hash] : D \in SUBSET Paths}

Loops ==
  [pc : {"select", "walk", "report", "echo", "foreign", "emit", "exited"},
   snap : Snapshots,
   todo : SUBSET Paths, cur : Paths \union {None}]

WatcherTypeOK ==
  /\ notices \in [Paths -> 0 .. MaxNotices]
  /\ timers \in [Paths -> {"none", "armed", "fired"}]
  /\ orphans \in [Paths -> Nat]
  /\ procs \in [Procs -> {IdleProc} \union
                         [pc : ProcPC, path : Paths, hash : Hash]]
  /\ loop \in Loops
  /\ loop.todo \subseteq DOMAIN loop.snap
  /\ hashes \in [Paths -> Hash]
  /\ out \in Seq(Paths) /\ Len(out) <= OutCap

WatcherInit ==
  /\ notices = [p \in Paths |-> 0]
  /\ timers = [p \in Paths |-> "none"]
  /\ orphans = [p \in Paths |-> 0]
  /\ procs = [g \in Procs |-> IdleProc]
  /\ loop = IdleLoop
  /\ hashes = [p \in Paths |-> None]
  /\ out = <<>>

\* A new process: WatcherInit, of the next state.
WatcherIsNew ==
  /\ notices' = [p \in Paths |-> 0]
  /\ timers' = [p \in Paths |-> "none"]
  /\ orphans' = [p \in Paths |-> 0]
  /\ procs' = [g \in Procs |-> IdleProc]
  /\ loop' = IdleLoop
  /\ hashes' = [p \in Paths |-> None]
  /\ out' = <<>>

-----------------------------------------------------------------------------
(* fsnotify *)

Notify(p) ==
  /\ notices[p] < MaxNotices
  /\ notices' = [notices EXCEPT ![p] = @ + 1]

\* The kernel's queue overflows, or the filesystem does not report.
LoseNotice(p) ==
  /\ notices[p] > 0
  /\ notices' = [notices EXCEPT ![p] = @ - 1]
  /\ UNCHANGED <<timers, orphans, procs, loop, hashes, out>>

-----------------------------------------------------------------------------
(* handleEvent, scheduleDebounced and the timers *)

\* An entry in the map is reset, whether its timer is still armed or has
\* expired without its function having removed the entry; otherwise a new
\* timer is made.
HandleEvent(p) ==
  /\ loop.pc = "select"
  /\ notices[p] > 0
  /\ notices' = [notices EXCEPT ![p] = @ - 1]
  /\ timers' = [timers EXCEPT ![p] = "armed"]
  /\ UNCHANGED <<orphans, procs, loop, hashes, out>>

Spawn(g, p) ==
  /\ procs[g] = IdleProc
  /\ procs' = [procs EXCEPT ![g] = [pc |-> "fired", path |-> p, hash |-> None]]

TimerExpires(g, p) ==
  /\ timers[p] = "armed"
  /\ timers' = [timers EXCEPT ![p] = "fired"]
  /\ Spawn(g, p)
  /\ UNCHANGED <<notices, orphans, loop, hashes, out>>

OrphanExpires(g, p) ==
  /\ orphans[p] > 0
  /\ orphans' = [orphans EXCEPT ![p] = @ - 1]
  /\ Spawn(g, p)
  /\ UNCHANGED <<notices, timers, loop, hashes, out>>

\* delete(w.timers, path): whatever entry the path has now is removed, a
\* timer armed meanwhile included; that one still expires.
Unregister(g) ==
  LET p == procs[g].path IN
  /\ procs[g].pc = "fired"
  /\ procs' = [procs EXCEPT ![g].pc = "settling"]
  /\ orphans' = IF timers[p] = "armed" THEN [orphans EXCEPT ![p] = @ + 1] ELSE orphans
  /\ timers' = [timers EXCEPT ![p] = "none"]
  /\ UNCHANGED <<notices, loop, hashes, out>>

-----------------------------------------------------------------------------
(* processPath *)

\* waitStable only delays (it gives up and reads after StabilityChecks rounds);
\* a path that is gone ends the run.
ReadStable(g) ==
  LET now == disk[procs[g].path] IN
  /\ procs[g].pc = "settling"
  /\ procs' = [procs EXCEPT ![g] = IF now = None
                                    THEN IdleProc
                                    ELSE [@ EXCEPT !.pc = "read", !.hash = now]]
  /\ UNCHANGED <<notices, timers, orphans, loop, hashes, out>>

\* os.Stat or os.ReadFile fails on a file that exists: the run just ends.
ReadFails(g) ==
  /\ procs[g].pc = "settling"
  /\ procs' = [procs EXCEPT ![g] = IdleProc]
  /\ UNCHANGED <<notices, timers, orphans, loop, hashes, out>>

\* registry.Check, which consumes a matching entry.
CheckEcho(g) ==
  LET p == procs[g].path
      h == procs[g].hash
  IN
  /\ procs[g].pc = "read"
  /\ procs' = [procs EXCEPT ![g].pc = IF IsEcho(p, h) THEN "echo" ELSE "foreign"]
  /\ registry' = AfterCheck(p, h)
  /\ UNCHANGED <<notices, timers, orphans, loop, hashes, out>>

\* recordHash, on both branches; an echo ends here.
Remember(g) ==
  /\ procs[g].pc \in {"echo", "foreign"}
  /\ hashes' = [hashes EXCEPT ![procs[g].path] = procs[g].hash]
  /\ procs' = [procs EXCEPT ![g] =
                 IF @.pc = "echo" THEN IdleProc ELSE [@ EXCEPT !.pc = "emit"]]
  /\ UNCHANGED <<notices, timers, orphans, loop, out>>

\* Mutant: a send that never blocks.
SendUnbounded(p) == out' = Append(out, p)

\* A send to a full channel blocks.
Send(p) ==
  /\ Len(out) < OutCap
  /\ out' = Append(out, p)

Emit(g) ==
  /\ procs[g].pc = "emit"
  /\ Send(procs[g].path)
  /\ procs' = [procs EXCEPT ![g] = IdleProc]
  /\ UNCHANGED <<notices, timers, orphans, loop, hashes>>

ProcStep(g) ==
  \/ /\ Unregister(g) \/ ReadStable(g) \/ Remember(g) \/ Emit(g)
     /\ UNCHANGED registry
  \/ CheckEcho(g)

-----------------------------------------------------------------------------
(* rescan, which runs inside Run's loop: no event is handled meanwhile *)

RescanStart ==
  /\ loop.pc = "select"
  /\ loop' = [IdleLoop EXCEPT !.pc = "walk"]
  /\ UNCHANGED <<notices, timers, orphans, procs, hashes, out>>

\* snapshotHashes reads one file after another; a missing file has no hash.
RescanRead(p) ==
  /\ loop.pc = "walk"
  /\ p \notin DOMAIN loop.snap
  /\ loop' = [loop EXCEPT !.snap = [q \in DOMAIN @ \union {p} |->
                                      IF q = p THEN disk[p] ELSE @[q]]]
  /\ UNCHANGED <<notices, timers, orphans, procs, hashes, out>>

\* A file whose read fails is passed over, as if it were not there ...
RescanSkip(p) ==
  /\ loop.pc = "walk"
  /\ p \notin DOMAIN loop.snap
  /\ disk[p] # None
  /\ loop' = [loop EXCEPT !.snap = [q \in DOMAIN @ \union {p} |->
                                      IF q = p THEN None ELSE @[q]]]
  /\ UNCHANGED <<notices, timers, orphans, procs, hashes, out>>

\* ... and an error of the directory walk gives this rescan up.
RescanAbort ==
  /\ loop.pc = "walk"
  /\ loop' = IdleLoop
  /\ UNCHANGED <<notices, timers, orphans, procs, hashes, out>>

\* Mutant: a file that was not there at the last look is not a difference.
DifferingKnownFiles(snap, known) ==
  {p \in DOMAIN snap : None \notin {snap[p], known[p]} /\ snap[p] # known[p]}

\* The keys of snap that diffHashes returns: present now, and new or different.
Differing(snap, known) ==
  {p \in DOMAIN snap : snap[p] # None /\ snap[p] # known[p]}

\* diffHashes reads w.hashes itself, not a copy, and without the mutex: for a
\* path whose hash another goroutine is storing at this moment the outcome may
\* be that of either value.
BeingStored(p) ==
  {procs[g].hash : g \in {f \in Procs : /\ procs[f].path = p
                                        /\ procs[f].pc \in {"echo", "foreign"}}}

RescanDiff ==
  /\ loop.pc = "walk"
  /\ DOMAIN loop.snap = Paths
  /\ \E known \in [Paths -> Hash] :
       /\ \A p \in Paths : known[p] \in {hashes[p]} \union BeingStored(p)
       /\ loop' = [loop EXCEPT !.pc = "report", !.todo = Differing(loop.snap, known)]
  /\ UNCHANGED <<notices, timers, orphans, procs, hashes, out>>

RescanCheck(p) ==
  /\ loop.pc = "report"
  /\ p \in loop.todo
  /\ loop' = [loop EXCEPT !.cur = p, !.todo = @ \ {p},
                          !.pc = IF IsEcho(p, loop.snap[p]) THEN "echo" ELSE "foreign"]
  /\ registry' = AfterCheck(p, loop.snap[p])
  /\ UNCHANGED <<notices, timers, orphans, procs, hashes, out>>

RescanRemember ==
  /\ loop.pc \in {"echo", "foreign"}
  /\ hashes' = [hashes EXCEPT ![loop.cur] = loop.snap[loop.cur]]
  /\ loop' = [loop EXCEPT !.pc = IF @ = "echo" THEN "report" ELSE "emit"]
  /\ UNCHANGED <<notices, timers, orphans, procs, out>>

RescanEmit ==
  /\ loop.pc = "emit"
  /\ Send(loop.cur)
  /\ loop' = [loop EXCEPT !.pc = "report"]
  /\ UNCHANGED <<notices, timers, orphans, procs, hashes>>

RescanEnd ==
  /\ loop.pc = "report"
  /\ loop.todo = {}
  /\ loop' = IdleLoop
  /\ UNCHANGED <<notices, timers, orphans, procs, hashes, out>>

RescanStep ==
  \/ /\ \/ \E p \in Paths : RescanRead(p)
        \/ RescanDiff \/ RescanRemember \/ RescanEmit \/ RescanEnd
     /\ UNCHANGED registry
  \/ \E p \in Paths : RescanCheck(p)

\* ctx.Done, which the loop only sees in its select.
LoopExits ==
  /\ loop.pc = "select"
  /\ loop' = [loop EXCEPT !.pc = "exited"]
  /\ UNCHANGED <<notices, timers, orphans, procs, hashes, out>>

=============================================================================
