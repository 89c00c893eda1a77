------------------------ MODULE ReactiveCycle_proofs ------------------------
(***************************************************************************)
(* Proofs about the reactive cycle and the writer in it, for any number of *)
(* goroutines, timers, files and contents.                                 *)
(*                                                                         *)
(* VaultWriter: the inductive invariant adds to the types what the mutex   *)
(* is for.  A goroutine in the critical section holds the mutex of the     *)
(* path it writes, and between its rename and its Record the bytes it      *)
(* renamed are still the daemon's latest of that path.                     *)
(*                                                                         *)
(* ReactiveCycle: while nothing has failed, whatever the index has not got *)
(* of a file is still on its way: as a notice, a timer, a goroutine that   *)
(* has yet to read the file or to report it, or a report.  Checks that     *)
(* answer "echo", registry entries and calls of Write under way are        *)
(* together no more than the calls of Write.                               *)
(***************************************************************************)
EXTENDS ReactiveCycle, FiniteSetTheorems, TLAPS


\* A call in progress has arguments.
CallsHaveJobs == \A w \in Writers : pc[w] # "idle" => job[w] \in Jobs

\* Write runs under the mutex of its path.
HoldsLock == \A w \in Writers : pc[w] \in Critical => lock[job[w].path] = w

\* Nobody renames the path between a rename and its Record.
RenamedIsLatest ==
  \A w \in Writers : pc[w] = "renamed" => lastOwn[job[w].path] = job[w].content

WriterInv ==
  /\ WriterTypeOK
  /\ CallsHaveJobs
  /\ HoldsLock
  /\ RenamedIsLatest
  /\ RegistryIsLatestOwn

\* Holding the mutex of the same path makes two goroutines one.
LEMMA HolderIsUnique ==
  ASSUME HoldsLock,
         NEW v \in Writers, NEW w \in Writers,
         pc[v] \in Critical, pc[w] \in Critical,
         job[v].path = job[w].path
  PROVE  v = w
BY DEF HoldsLock

\* The invariant holds at the start.
LEMMA InvInit == WriterInit => WriterInv
BY NoneAssumption
   DEF WriterInit, WriterInv, WriterTypeOK, CallsHaveJobs, HoldsLock,
       RenamedIsLatest, RegistryIsLatestOwn, Critical

\* Every step of Write, of a check and of a user keeps it.
LEMMA InvStep == WriterInv /\ [WriterNext]_writerVars => WriterInv'
<1> SUFFICES ASSUME WriterInv, [WriterNext]_writerVars
             PROVE  WriterInv'
    OBVIOUS
<1> USE DEF WriterInv, WriterTypeOK, CallsHaveJobs
<1>1. ASSUME NEW w \in Writers, NEW p \in Paths, NEW c \in Contents, Call(w, p, c)
      PROVE  WriterInv'
  <2>1. [path |-> p, content |-> c] \in Jobs
    BY DEF Jobs
  <2>2. WriterTypeOK' /\ CallsHaveJobs'
    BY <1>1, <2>1 DEF Call
  <2>3. \A v \in Writers : pc'[v] \in Critical => v # w /\ pc[v] = pc'[v] /\ job'[v] = job[v]
    BY <1>1 DEF Call, Critical
  <2>4. HoldsLock' /\ RenamedIsLatest'
    BY <1>1, <2>3 DEF Call, HoldsLock, RenamedIsLatest, Critical
  <2>5. RegistryIsLatestOwn'
    BY <1>1 DEF Call, RegistryIsLatestOwn
  <2>6. QED BY <2>2, <2>4, <2>5
<1>2. ASSUME NEW w \in Writers, Acquire(w)
      PROVE  WriterInv'
  <2>1. job[w] \in Jobs /\ job[w].path \in Paths
    BY <1>2 DEF Acquire, Jobs
  <2>2. WriterTypeOK' /\ CallsHaveJobs'
    BY <1>2, <2>1 DEF Acquire, Critical
  <2>3. HoldsLock'
    <3> SUFFICES ASSUME NEW v \in Writers, pc'[v] \in Critical
                 PROVE  lock'[job'[v].path] = v
        BY DEF HoldsLock
    <3>1. CASE v = w
      BY <1>2, <2>1, <3>1 DEF Acquire
    <3>2. CASE v # w
      <4>1. pc[v] \in Critical /\ job[v] \in Jobs /\ lock[job[v].path] = v
        BY <1>2, <3>2 DEF Acquire, HoldsLock, Critical
      <4>2. job[v].path # job[w].path
        BY <1>2, <4>1, NoneAssumption DEF Acquire
      <4>3. QED BY <1>2, <4>1, <4>2 DEF Acquire
    <3>3. QED BY <3>1, <3>2
  <2>4. RenamedIsLatest' /\ RegistryIsLatestOwn'
    BY <1>2 DEF Acquire, RenamedIsLatest, RegistryIsLatestOwn
  <2>5. QED BY <2>2, <2>3, <2>4
<1>3. ASSUME NEW w \in Writers, Stage(w)
      PROVE  WriterInv'
  <2>1. WriterTypeOK' /\ CallsHaveJobs'
    BY <1>3 DEF Stage, Critical
  <2>2. HoldsLock' /\ RenamedIsLatest' /\ RegistryIsLatestOwn'
    BY <1>3 DEF Stage, HoldsLock, RenamedIsLatest, RegistryIsLatestOwn, Critical
  <2>3. QED BY <2>1, <2>2
<1>4. ASSUME NEW w \in Writers, Publish(w)
      PROVE  WriterInv'
  <2>1. job[w] \in Jobs /\ job[w].path \in Paths /\ job[w].content \in Contents
    BY <1>4 DEF Publish, Jobs
  <2>2. WriterTypeOK' /\ CallsHaveJobs'
    BY <1>4, <2>1 DEF Publish, Critical
  <2>3. HoldsLock'
    BY <1>4 DEF Publish, HoldsLock, Critical
  <2>4. ASSUME NEW v \in Writers, v # w, pc[v] \in Critical
        PROVE  job[v].path # job[w].path
    BY <1>4, <2>4, HolderIsUnique DEF Publish, Critical
  <2>5. RenamedIsLatest'
    <3> SUFFICES ASSUME NEW v \in Writers, pc'[v] = "renamed"
                 PROVE  lastOwn'[job'[v].path] = job'[v].content
        BY DEF RenamedIsLatest
    <3>1. CASE v = w
      BY <1>4, <2>1, <3>1 DEF Publish
    <3>2. CASE v # w
      <4>1. pc[v] = "renamed" /\ job[v].path # job[w].path
        BY <1>4, <2>4, <3>2 DEF Publish, Critical
      <4>2. QED BY <1>4, <4>1 DEF Publish, RenamedIsLatest
    <3>3. QED BY <3>1, <3>2
  <2>6. RegistryIsLatestOwn'
    <3> SUFFICES ASSUME NEW p \in Paths
                 PROVE  \/ registry'[p] \in {None, lastOwn'[p]}
                        \/ \E v \in Writers : pc'[v] = "renamed" /\ job'[v].path = p
        BY DEF RegistryIsLatestOwn
    <3>1. CASE p = job[w].path
      BY <1>4, <3>1 DEF Publish
    <3>2. CASE p # job[w].path
      <4>1. CASE registry[p] \in {None, lastOwn[p]}
        BY <1>4, <3>2, <4>1 DEF Publish
      <4>2. CASE \E v \in Writers : pc[v] = "renamed" /\ job[v].path = p
        BY <1>4, <3>2, <4>2 DEF Publish
      <4>3. QED BY <4>1, <4>2 DEF RegistryIsLatestOwn
    <3>3. QED BY <3>1, <3>2
  <2>7. QED BY <2>2, <2>3, <2>5, <2>6
<1>5. ASSUME NEW w \in Writers, Record(w)
      PROVE  WriterInv'
  <2>1. job[w] \in Jobs /\ job[w].path \in Paths /\ job[w].content \in Contents
    BY <1>5 DEF Record, Jobs
  <2>2. WriterTypeOK' /\ CallsHaveJobs'
    BY <1>5, <2>1 DEF Record, Return, Critical
  <2>3. ASSUME NEW v \in Writers, pc'[v] \in Critical
        PROVE  v # w /\ pc[v] = pc'[v] /\ job'[v] = job[v] /\ job[v].path # job[w].path
    <3>1. v # w /\ pc[v] = pc'[v] /\ job'[v] = job[v]
      BY <1>5, <2>3 DEF Record, Return, Critical
    <3>2. pc[v] \in Critical /\ pc[w] \in Critical
      BY <1>5, <2>3, <3>1 DEF Record, Critical
    <3>3. QED BY <3>1, <3>2, HolderIsUnique
  <2>4. HoldsLock' /\ RenamedIsLatest'
    BY <1>5, <2>3 DEF Record, Return, HoldsLock, RenamedIsLatest, Critical
  <2>5. RegistryIsLatestOwn'
    <3> SUFFICES ASSUME NEW p \in Paths
                 PROVE  \/ registry'[p] \in {None, lastOwn'[p]}
                        \/ \E v \in Writers : pc'[v] = "renamed" /\ job'[v].path = p
        BY DEF RegistryIsLatestOwn
    <3>1. CASE p = job[w].path
      BY <1>5, <2>1, <3>1 DEF Record, RenamedIsLatest
    <3>2. CASE p # job[w].path
      <4>1. CASE registry[p] \in {None, lastOwn[p]}
        BY <1>5, <3>2, <4>1 DEF Record
      <4>2. CASE \E v \in Writers : pc[v] = "renamed" /\ job[v].path = p
        BY <1>5, <3>2, <4>2 DEF Record, Return
      <4>3. QED BY <4>1, <4>2 DEF RegistryIsLatestOwn
    <3>3. QED BY <3>1, <3>2
  <2>6. QED BY <2>2, <2>4, <2>5
<1>6. ASSUME NEW w \in Writers, Fail(w)
      PROVE  WriterInv'
  <2>1. job[w] \in Jobs /\ job[w].path \in Paths /\ pc[w] \in Critical
    BY <1>6 DEF Fail, Jobs, Critical
  <2>2. WriterTypeOK' /\ CallsHaveJobs'
    BY <1>6, <2>1 DEF Fail, Return, Critical
  <2>3. ASSUME NEW v \in Writers, pc'[v] \in Critical
        PROVE  v # w /\ pc[v] = pc'[v] /\ job'[v] = job[v] /\ job[v].path # job[w].path
    <3>1. v # w /\ pc[v] = pc'[v] /\ job'[v] = job[v]
      BY <1>6, <2>3 DEF Fail, Return, Critical
    <3>2. QED BY <2>1, <2>3, <3>1, HolderIsUnique
  <2>4. HoldsLock' /\ RenamedIsLatest'
    BY <1>6, <2>3 DEF Fail, Return, HoldsLock, RenamedIsLatest, Critical
  <2>5. RegistryIsLatestOwn'
    BY <1>6 DEF Fail, Return, RegistryIsLatestOwn
  <2>6. QED BY <2>2, <2>4, <2>5
<1>7. ASSUME NEW p \in Paths, NEW h \in Contents, Check(p, h)
      PROVE  WriterInv'
  <2>1. \A q \in Paths : registry'[q] \in {None, registry[q]}
    BY <1>7 DEF Check, AfterCheck
  <2>2. WriterTypeOK' /\ CallsHaveJobs'
    BY <1>7 DEF Check, AfterCheck
  <2>3. HoldsLock' /\ RenamedIsLatest' /\ RegistryIsLatestOwn'
    BY <1>7, <2>1 DEF Check, HoldsLock, RenamedIsLatest, RegistryIsLatestOwn
  <2>4. QED BY <2>2, <2>3
<1>8. ASSUME NEW p \in Paths, NEW c \in Contents \union {None}, UserEdit(p, c)
      PROVE  WriterInv'
  BY <1>8 DEF UserEdit, HoldsLock, RenamedIsLatest, RegistryIsLatestOwn
<1>9. ASSUME UNCHANGED writerVars
      PROVE  WriterInv'
  BY <1>9 DEF writerVars, HoldsLock, RenamedIsLatest, RegistryIsLatestOwn
<1>10. QED
  BY <1>1, <1>2, <1>3, <1>4, <1>5, <1>6, <1>7, <1>8, <1>9 DEF WriterNext, WriteStep

\* The invariant is an invariant of every behaviour of the writer.
THEOREM WriterInvariant == WriterSpec => []WriterInv
<1>1. QED BY InvInit, InvStep, PTL DEF WriterSpec

\* Values stay in their types, for any goroutines, files and contents.
THEOREM WriterTypes == WriterSpec => []WriterTypeOK
<1>1. WriterInv => WriterTypeOK
  BY DEF WriterInv
<1>2. QED BY <1>1, WriterInvariant, PTL

\* Writes to the same path serialize (Writer.Write): no two goroutines are ever
\* inside the critical section for one path.
THEOREM WriterMutualExclusion == WriterSpec => []MutualExclusion
<1>1. WriterInv => MutualExclusion
  BY HolderIsUnique DEF WriterInv, MutualExclusion
<1>2. QED BY <1>1, WriterInvariant, PTL

\* The registry never holds bytes older than the daemon's latest rename of the
\* path, unless the goroutine that renamed has not recorded yet.
THEOREM RegistryCurrent == WriterSpec => []RegistryIsLatestOwn
<1>1. WriterInv => RegistryIsLatestOwn
  BY DEF WriterInv
<1>2. QED BY <1>1, WriterInvariant, PTL

-----------------------------------------------------------------------------
(* Refinement: the goroutines implement SerialVault *)

\* The paths whose rename is not recorded yet: the mapping of SerialVault's busy.
Unrecorded == {job[w].path : w \in {v \in Writers : pc[v] = "renamed"}}

LEMMA UnrecordedMember ==
  ASSUME NEW p
  PROVE  p \in Unrecorded <=> \E w \in Writers : pc[w] = "renamed" /\ job[w].path = p
BY DEF Unrecorded

\* Each step of the writer is one step of SerialVault or none.
LEMMA SerialStep ==
  WriterInv /\ [WriterNext]_writerVars => [Serial!Next]_(Serial!vars)
<1> SUFFICES ASSUME WriterInv, [WriterNext]_writerVars
             PROVE  \/ Serial!Next
                    \/ /\ UNCHANGED <<disk, registry, lastOwn>>
                       /\ Unrecorded' = Unrecorded
    BY DEF Serial!vars, Unrecorded
<1> USE DEF WriterInv, WriterTypeOK, CallsHaveJobs
<1>1. ASSUME NEW w \in Writers, NEW p \in Paths, NEW c \in Contents, Call(w, p, c)
      PROVE  Unrecorded' = Unrecorded
  BY <1>1 DEF Call, Unrecorded
<1>2. ASSUME NEW w \in Writers, Acquire(w) \/ Stage(w)
      PROVE  Unrecorded' = Unrecorded
  BY <1>2 DEF Acquire, Stage, Unrecorded
<1>3. ASSUME NEW w \in Writers, Fail(w)
      PROVE  Unrecorded' = Unrecorded
  BY <1>3 DEF Fail, Return, Unrecorded
<1>4. ASSUME NEW w \in Writers, Publish(w)
      PROVE  Serial!Next
  <2>1. PICK p \in Paths, c \in Contents : p = job[w].path /\ c = job[w].content
    BY <1>4 DEF Publish, Jobs
  <2>2. p \notin Unrecorded
    BY <1>4, <2>1, HolderIsUnique DEF Publish, Unrecorded, Critical
  <2>3. Unrecorded' = Unrecorded \union {p}
    BY <1>4, <2>1 DEF Publish, Unrecorded
  <2>4. Serial!Put(p, c)
    BY <1>4, <2>1, <2>2, <2>3 DEF Serial!Put, Publish, Unrecorded
  <2>5. QED BY <2>4 DEF Serial!Next
<1>5. ASSUME NEW w \in Writers, Record(w)
      PROVE  Serial!Next
  <2>1. PICK p \in Paths : p = job[w].path /\ p \in Unrecorded
    BY <1>5 DEF Record, Jobs, Unrecorded
  <2>2. lastOwn[p] = job[w].content
    BY <1>5, <2>1 DEF Record, RenamedIsLatest
  <2>3. ASSUME NEW v \in Writers, v # w, pc[v] = "renamed"
        PROVE  job[v].path # p
    BY <1>5, <2>1, <2>3, HolderIsUnique DEF Record, Critical
  <2>4. Unrecorded' = Unrecorded \ {p}
    BY <1>5, <2>1, <2>3 DEF Record, Return, Unrecorded
  <2>5. Serial!Tag(p)
    BY <1>5, <2>1, <2>2, <2>4 DEF Serial!Tag, Record, Unrecorded
  <2>6. QED BY <2>5 DEF Serial!Next
<1>6. ASSUME NEW p \in Paths, NEW h \in Contents, Check(p, h)
      PROVE  \/ Serial!Next
             \/ UNCHANGED <<disk, registry, lastOwn>> /\ Unrecorded' = Unrecorded
  <2>1. Unrecorded' = Unrecorded
    BY <1>6 DEF Check, Unrecorded
  <2>2. CASE IsEcho(p, h)
    <3>1. registry[p] # None
      BY <2>2 DEF IsEcho
    <3>2. Serial!TakeTag(p)
      BY <1>6, <2>1, <2>2, <3>1 DEF Serial!TakeTag, Check, AfterCheck, Unrecorded
    <3>3. QED BY <3>2 DEF Serial!Next
  <2>3. CASE ~IsEcho(p, h)
    BY <1>6, <2>1, <2>3 DEF Check, AfterCheck
  <2>4. QED BY <2>2, <2>3
<1>7. ASSUME NEW p \in Paths, NEW c \in Contents \union {None}, UserEdit(p, c)
      PROVE  Serial!Next
  <2>1. Unrecorded' = Unrecorded
    BY <1>7 DEF UserEdit, Unrecorded
  <2>2. Serial!Foreign(p, c)
    BY <1>7, <2>1 DEF Serial!Foreign, UserEdit, Unrecorded
  <2>3. QED BY <2>2 DEF Serial!Next
<1>8. CASE UNCHANGED writerVars
  BY <1>8 DEF writerVars, Unrecorded
<1>9. QED
  BY <1>1, <1>2, <1>3, <1>4, <1>5, <1>6, <1>7, <1>8
  DEF WriterNext, WriteStep, Call, Acquire, Stage, Fail, Return

\* The writer's threads are one serialized file per path: whatever they do looks
\* like single Put and Tag steps of SerialVault.
THEOREM WriterImplementsSerial == WriterSpec => SerialSpec
<1>1. WriterInit => Serial!Init
  BY DEF WriterInit, Serial!Init
<1>2. WriterInv /\ [WriterNext]_writerVars => [Serial!Next]_(Serial!vars)
  BY SerialStep
<1>3. QED
  BY <1>1, <1>2, WriterInvariant, PTL DEF WriterSpec, SerialSpec, Serial!Spec

-----------------------------------------------------------------------------
(* ReactiveCycle: the invariant *)

\* What the rescan is about to report is a file it has read.
RescanHasRead ==
  loop.pc \in {"echo", "foreign", "emit"} => loop.cur \in DOMAIN loop.snap

\* Goroutine g has yet to read p, or has read what p still holds, or will report p.
WillReport(g, p) ==
  /\ procs[g].path = p
  /\ \/ procs[g].pc \in {"fired", "settling", "foreign", "emit"}
     \/ procs[g].pc = "read" /\ procs[g].hash = disk[p]

\* Something in the daemon is bound to have p read into the index.
OnItsWay(p) ==
  \/ engine = "build"
  \/ notices[p] > 0
  \/ timers[p] = "armed"
  \/ orphans[p] > 0
  \/ \E g \in Procs : WillReport(g, p)
  \/ \E i \in DOMAIN out : out[i] = p

\* As long as nothing has failed, a file that the index has not got is on its way,
\* unless it holds the daemon's own bytes or changed before it was watched.
NothingForgotten ==
  faults = 0 =>
    \A p \in Paths : disk[p] \notin {None, index[p]} =>
      OnItsWay(p) \/ disk[p] \in ownBytes[p] \/ lastBy[p] = "early"

\* Registry entries are hashes of bytes that the daemon has renamed.
TagsAreOwn ==
  /\ \A p \in Paths : registry[p] \in ownBytes[p] \union {None}
  /\ \A w \in Writers : pc[w] = "renamed" => job[w].content \in ownBytes[job[w].path]

\* The calls of Write for p that have not returned.
Calls(p) == {w \in Writers : pc[w] # "idle" /\ job[w].path = p}

Tags(p) == IF registry[p] = None THEN 0 ELSE 1

\* Each call of Write for p is under way, has left its tag, or has excused one report.
PaidFor(p) ==
  /\ IsFiniteSet(Calls(p))
  /\ swallowed[p] + Tags(p) + Cardinality(Calls(p)) <= writes

EchoesArePaid == \A p \in Paths : PaidFor(p)

-----------------------------------------------------------------------------
(* ReactiveCycle: types *)

\* A run of processPath that is not idle has a path and a hash.
Run == [pc : ProcPC, path : Paths, hash : Hash]

LEMMA RunOf ==
  ASSUME WatcherTypeOK, NEW g \in Procs, procs[g].pc # "idle"
  PROVE  procs[g] \in Run
BY DEF WatcherTypeOK, Run, IdleProc

LEMMA UpdateProc ==
  ASSUME WatcherTypeOK, NEW g \in Procs, NEW r \in Run \union {IdleProc},
         procs' = [procs EXCEPT ![g] = r]
  PROVE  procs' \in [Procs -> {IdleProc} \union [pc : ProcPC, path : Paths, hash : Hash]]
BY DEF WatcherTypeOK, Run

LEMMA SnapshotOf ==
  ASSUME NEW s \in Snapshots
  PROVE  DOMAIN s \subseteq Paths /\ \A p \in DOMAIN s : s[p] \in Hash
<1>1. PICK D \in SUBSET Paths : s \in [D -> Hash]
  BY DEF Snapshots
<1>2. QED BY <1>1

\* Reading one more file, or passing it over.
LEMMA SnapshotGrows ==
  ASSUME NEW s \in Snapshots, NEW p \in Paths, NEW h \in Hash
  PROVE  /\ [q \in DOMAIN s \union {p} |-> IF q = p THEN h ELSE s[q]] \in Snapshots
         /\ DOMAIN s \subseteq DOMAIN [q \in DOMAIN s \union {p} |-> IF q = p THEN h ELSE s[q]]
<1>1. DOMAIN s \union {p} \in SUBSET Paths
  BY SnapshotOf
<1>2. [q \in DOMAIN s \union {p} |-> IF q = p THEN h ELSE s[q]] \in [DOMAIN s \union {p} -> Hash]
  BY SnapshotOf
<1>3. QED BY <1>1, <1>2 DEF Snapshots

LEMMA EmptyLoopType == IdleLoop \in Loops /\ [IdleLoop EXCEPT !.pc = "walk"] \in Loops
<1>1. <<>> \in Snapshots
  <2>1. <<>> \in [{} -> Hash]
    OBVIOUS
  <2>2. QED BY <2>1 DEF Snapshots
<1>2. QED BY <1>1 DEF IdleLoop, Loops

\* Events and timers.
LEMMA TimerTypes ==
  ASSUME WatcherTypeOK, NEW p \in Paths,
         \/ HandleEvent(p) \/ LoseNotice(p)
         \/ \E g \in Procs : TimerExpires(g, p) \/ OrphanExpires(g, p)
  PROVE  WatcherTypeOK'
<1>1. notices[p] \in 0 .. MaxNotices /\ orphans[p] \in Nat /\ MaxNotices \in Nat
  BY WatcherAssumption DEF WatcherTypeOK
<1>2. CASE HandleEvent(p) \/ LoseNotice(p)
  <2>1. notices[p] > 0 /\ notices' = [notices EXCEPT ![p] = @ - 1]
    BY <1>2 DEF HandleEvent, LoseNotice
  <2>2. notices' \in [Paths -> 0 .. MaxNotices]
    <3>1. notices[p] - 1 \in 0 .. MaxNotices
      BY <1>1, <2>1
    <3>2. QED BY <2>1, <3>1 DEF WatcherTypeOK
  <2>3. timers' \in [Paths -> {"none", "armed", "fired"}]
    BY <1>2 DEF HandleEvent, LoseNotice, WatcherTypeOK
  <2>4. UNCHANGED <<orphans, procs, loop, hashes, out>>
    BY <1>2 DEF HandleEvent, LoseNotice
  <2>5. QED BY <2>2, <2>3, <2>4 DEF WatcherTypeOK
<1>3. ASSUME NEW g \in Procs, TimerExpires(g, p) \/ OrphanExpires(g, p)
      PROVE  WatcherTypeOK'
  <2>1. [pc |-> "fired", path |-> p, hash |-> None] \in Run
    BY DEF Run, ProcPC, Hash
  <2>2. procs' = [procs EXCEPT ![g] = [pc |-> "fired", path |-> p, hash |-> None]]
    BY <1>3 DEF TimerExpires, OrphanExpires, Spawn
  <2>3. procs' \in [Procs -> {IdleProc} \union [pc : ProcPC, path : Paths, hash : Hash]]
    BY <2>1, <2>2, UpdateProc
  <2>4. timers' \in [Paths -> {"none", "armed", "fired"}] /\ orphans' \in [Paths -> Nat]
    <3>1. CASE TimerExpires(g, p)
      BY <3>1 DEF TimerExpires, WatcherTypeOK
    <3>2. CASE OrphanExpires(g, p)
      <4>1. orphans[p] - 1 \in Nat
        BY <1>1, <3>2 DEF OrphanExpires
      <4>2. QED BY <3>2, <4>1 DEF OrphanExpires, WatcherTypeOK
    <3>3. QED BY <1>3, <3>1, <3>2
  <2>5. UNCHANGED <<notices, loop, hashes, out>>
    BY <1>3 DEF TimerExpires, OrphanExpires
  <2>6. QED BY <2>3, <2>4, <2>5 DEF WatcherTypeOK
<1>4. QED BY <1>2, <1>3

\* A path that is sent is one more of at most OutCap.
LEMMA SendType ==
  ASSUME out \in Seq(Paths), NEW p \in Paths, Send(p)
  PROVE  out' \in Seq(Paths) /\ Len(out') <= OutCap /\ Len(out') = Len(out) + 1
BY WatcherAssumption DEF Send

\* The goroutines of processPath.
LEMMA ProcTypes ==
  ASSUME WriterTypeOK, WatcherTypeOK, NEW g \in Procs, ProcStep(g) \/ ReadFails(g)
  PROVE  WatcherTypeOK'
<1>1. procs[g].pc # "idle" /\ procs[g] \in Run
  BY RunOf DEF ProcStep, ReadFails, Unregister, ReadStable, CheckEcho, Remember, Emit
<1>2. procs[g].path \in Paths /\ procs[g].hash \in Hash /\ disk[procs[g].path] \in Hash
  BY <1>1 DEF Run, WriterTypeOK, Hash
<1>3. IdleProc \in Run \union {IdleProc}
  OBVIOUS
<1>4. \A to \in ProcPC : [procs[g] EXCEPT !.pc = to] \in Run
  BY <1>1 DEF Run
<1>5. CASE Unregister(g)
  <2>1. procs' = [procs EXCEPT ![g] = [procs[g] EXCEPT !.pc = "settling"]]
    BY <1>5 DEF Unregister
  <2>2. [procs[g] EXCEPT !.pc = "settling"] \in Run
    BY <1>4 DEF ProcPC
  <2>3. timers' \in [Paths -> {"none", "armed", "fired"}] /\ orphans' \in [Paths -> Nat]
    BY <1>2, <1>5 DEF Unregister, WatcherTypeOK
  <2>4. QED BY <1>5, <2>1, <2>2, <2>3, UpdateProc DEF Unregister, WatcherTypeOK
<1>6. CASE ReadStable(g)
  <2>1. [procs[g] EXCEPT !.pc = "read", !.hash = disk[procs[g].path]] \in Run
    BY <1>1, <1>2 DEF Run, ProcPC
  <2>2. procs' = [procs EXCEPT ![g] =
                    IF disk[procs[g].path] = None THEN IdleProc
                    ELSE [procs[g] EXCEPT !.pc = "read", !.hash = disk[procs[g].path]]]
    BY <1>6 DEF ReadStable
  <2>3. QED BY <1>3, <1>6, <2>1, <2>2, UpdateProc DEF ReadStable, WatcherTypeOK
<1>7. CASE ReadFails(g)
  BY <1>3, <1>7, UpdateProc DEF ReadFails, WatcherTypeOK
<1>8. CASE CheckEcho(g)
  <2>1. PICK to \in {"echo", "foreign"} :
          procs' = [procs EXCEPT ![g] = [procs[g] EXCEPT !.pc = to]]
    BY <1>8 DEF CheckEcho
  <2>2. [procs[g] EXCEPT !.pc = to] \in Run
    BY <1>4 DEF ProcPC
  <2>3. QED BY <1>8, <2>1, <2>2, UpdateProc DEF CheckEcho, WatcherTypeOK
<1>9. CASE Remember(g)
  <2>1. procs' = [procs EXCEPT ![g] = IF procs[g].pc = "echo" THEN IdleProc
                                      ELSE [procs[g] EXCEPT !.pc = "emit"]]
    BY <1>9 DEF Remember
  <2>2. [procs[g] EXCEPT !.pc = "emit"] \in Run
    BY <1>4 DEF ProcPC
  <2>3. hashes' \in [Paths -> Hash]
    BY <1>2, <1>9 DEF Remember, WatcherTypeOK
  <2>4. QED BY <1>3, <1>9, <2>1, <2>2, <2>3, UpdateProc DEF Remember, WatcherTypeOK
<1>10. CASE Emit(g)
  <2>1. out' \in Seq(Paths) /\ Len(out') <= OutCap
    BY <1>2, <1>10, SendType DEF Emit, WatcherTypeOK
  <2>2. QED BY <1>3, <1>10, <2>1, UpdateProc DEF Emit, WatcherTypeOK
<1>11. QED BY <1>5, <1>6, <1>7, <1>8, <1>9, <1>10 DEF ProcStep

\* Run's loop: the rescan, failing or not, and its end.
LEMMA RescanTypes ==
  ASSUME WriterTypeOK, WatcherTypeOK, RescanHasRead,
         RescanStart \/ RescanStep \/ RescanAbort \/ LoopExits \/ \E p \in Paths : RescanSkip(p)
  PROVE  WatcherTypeOK' /\ RescanHasRead'
<1>1. /\ loop \in Loops /\ loop.snap \in Snapshots /\ loop.todo \subseteq DOMAIN loop.snap
      /\ loop.todo \subseteq Paths /\ DOMAIN loop.snap \subseteq Paths
      /\ \A p \in DOMAIN loop.snap : loop.snap[p] \in Hash
  BY SnapshotOf DEF WatcherTypeOK, Loops
<1>2. CASE RescanStart \/ RescanAbort \/ LoopExits \/ RescanEnd
  <2>1. loop' \in Loops /\ loop'.todo \subseteq DOMAIN loop'.snap
    BY <1>1, <1>2, EmptyLoopType
       DEF RescanStart, RescanAbort, LoopExits, RescanEnd, Loops, IdleLoop
  <2>2. loop'.pc \in {"select", "walk", "exited"}
    BY <1>1, <1>2 DEF RescanStart, RescanAbort, LoopExits, RescanEnd, Loops, IdleLoop
  <2>3. UNCHANGED <<notices, timers, orphans, procs, hashes, out>>
    BY <1>2 DEF RescanStart, RescanAbort, LoopExits, RescanEnd
  <2>4. QED BY <2>1, <2>2, <2>3 DEF WatcherTypeOK, RescanHasRead
<1>3. ASSUME NEW p \in Paths, RescanRead(p) \/ RescanSkip(p)
      PROVE  WatcherTypeOK' /\ RescanHasRead'
  <2>1. PICK h \in Hash : loop' = [loop EXCEPT !.snap = [q \in DOMAIN loop.snap \union {p} |->
                                     IF q = p THEN h ELSE loop.snap[q]]]
    <3>1. disk[p] \in Hash /\ None \in Hash
      BY DEF WriterTypeOK, Hash
    <3>2. QED BY <1>3, <3>1 DEF RescanRead, RescanSkip
  <2>2. [q \in DOMAIN loop.snap \union {p} |-> IF q = p THEN h ELSE loop.snap[q]] \in Snapshots
    BY <1>1, SnapshotGrows
  <2>3. loop' \in Loops /\ loop'.pc = "walk"
    BY <1>1, <1>3, <2>1, <2>2 DEF Loops, RescanRead, RescanSkip
  <2>4. loop'.todo \subseteq DOMAIN loop'.snap
    BY <1>1, <2>1, SnapshotGrows DEF Loops
  <2>5. UNCHANGED <<notices, timers, orphans, procs, hashes, out>>
    BY <1>3 DEF RescanRead, RescanSkip
  <2>6. QED BY <2>3, <2>4, <2>5 DEF WatcherTypeOK, RescanHasRead
<1>4. CASE RescanDiff
  <2>1. PICK T \in SUBSET DOMAIN loop.snap : loop' = [loop EXCEPT !.pc = "report", !.todo = T]
    BY <1>4 DEF RescanDiff, Differing
  <2>2. loop' \in Loops /\ loop'.todo \subseteq DOMAIN loop'.snap /\ loop'.pc = "report"
    BY <1>1, <2>1 DEF Loops
  <2>3. QED BY <1>4, <2>2 DEF RescanDiff, WatcherTypeOK, RescanHasRead
<1>5. ASSUME NEW p \in Paths, RescanCheck(p)
      PROVE  WatcherTypeOK' /\ RescanHasRead'
  <2>1. PICK to \in {"echo", "foreign"} :
          loop' = [loop EXCEPT !.cur = p, !.todo = loop.todo \ {p}, !.pc = to]
    BY <1>5 DEF RescanCheck
  <2>2. /\ loop' \in Loops /\ loop'.todo \subseteq DOMAIN loop'.snap
        /\ loop'.cur = p /\ p \in DOMAIN loop'.snap
    <3>1. p \in loop.todo /\ p \in DOMAIN loop.snap
      BY <1>1, <1>5 DEF RescanCheck
    <3>2. loop'.pc = to /\ loop'.cur = p /\ loop'.snap = loop.snap /\ loop'.todo = loop.todo \ {p}
      BY <1>1, <2>1 DEF Loops
    <3>3. loop' \in Loops
      BY <1>1, <2>1 DEF Loops
    <3>4. QED BY <1>1, <3>1, <3>2, <3>3
  <2>3. QED BY <1>5, <2>2 DEF RescanCheck, WatcherTypeOK, RescanHasRead
<1>6. CASE RescanRemember
  <2>1. loop.cur \in DOMAIN loop.snap /\ loop.cur \in Paths /\ loop.snap[loop.cur] \in Hash
    BY <1>1, <1>6 DEF RescanRemember, RescanHasRead
  <2>2. PICK to \in {"report", "emit"} : loop' = [loop EXCEPT !.pc = to]
    BY <1>6 DEF RescanRemember
  <2>3. /\ loop' \in Loops /\ loop'.todo \subseteq DOMAIN loop'.snap
        /\ loop'.cur \in DOMAIN loop'.snap
    BY <1>1, <2>1, <2>2 DEF Loops
  <2>4. hashes' \in [Paths -> Hash]
    BY <1>6, <2>1 DEF RescanRemember, WatcherTypeOK
  <2>5. QED BY <1>6, <2>3, <2>4 DEF RescanRemember, WatcherTypeOK, RescanHasRead
<1>7. CASE RescanEmit
  <2>1. loop.cur \in Paths
    BY <1>1, <1>7 DEF RescanEmit, RescanHasRead
  <2>2. out' \in Seq(Paths) /\ Len(out') <= OutCap
    BY <1>7, <2>1, SendType DEF RescanEmit, WatcherTypeOK
  <2>3. loop' \in Loops /\ loop'.todo \subseteq DOMAIN loop'.snap /\ loop'.pc = "report"
    BY <1>1, <1>7 DEF RescanEmit, Loops
  <2>4. QED BY <1>7, <2>2, <2>3 DEF RescanEmit, WatcherTypeOK, RescanHasRead
<1>8. QED BY <1>2, <1>3, <1>4, <1>5, <1>6, <1>7 DEF RescanStep

\* Every step of the cycle but a restart is a step of the writer, or leaves it alone.
LEMMA CycleIsWriter ==
  ASSUME TypeOK, RescanHasRead, [Next]_vars
  PROVE  [WriterNext]_writerVars \/ Crash
<1>1. CASE \/ Build \/ AddWatches \/ Baseline \/ Reconcile \/ ReconcileFails
           \/ Cancel \/ EngineStops \/ WatcherStops \/ EngineReturns \/ Tick \/ RescanFails
           \/ \E p \in Paths : Lose(p) \/ Deliver(p) \/ Expire(p)
           \/ \E g \in Procs : FailRead(g)
           \/ UNCHANGED vars
  BY <1>1 DEF Build, AddWatches, Baseline, Reconcile, ReconcileFails, Cancel, EngineStops, WatcherStops,
              EngineReturns, Tick, RescanFails, Lose, Deliver, Expire, FailRead, vars, writerVars
<1>2. ASSUME NEW p \in Paths, Delete(p) \/ \E c \in Contents : Edit(p, c)
      PROVE  WriterNext
  <2>1. \E c \in Contents \union {None} : UserEdit(p, c)
    BY <1>2 DEF Delete, Edit
  <2>2. QED BY <2>1 DEF WriterNext
<1>3. ASSUME NEW w \in Writers,
             \/ \E p \in Paths, c \in Contents : StartWrite(w, p, c)
             \/ PublishWrite(w) \/ OtherWriteStep(w)
      PROVE  WriterNext
  BY <1>3 DEF StartWrite, PublishWrite, OtherWriteStep, WriterNext, WriteStep
<1>4. ASSUME NEW p \in Paths, NEW h \in Hash, registry' = AfterCheck(p, h),
             UNCHANGED <<disk, lock, pc, job, lastOwn>>
      PROVE  [WriterNext]_writerVars
  <2>1. CASE h = None
    BY <1>4, <2>1 DEF AfterCheck, IsEcho, writerVars
  <2>2. CASE h # None
    BY <1>4, <2>2 DEF Check, WriterNext, Hash
  <2>3. QED BY <2>1, <2>2
<1>5. ASSUME NEW g \in Procs, Process(g)
      PROVE  [WriterNext]_writerVars
  <2>1. CASE UNCHANGED registry
    BY <1>5, <2>1 DEF Process, writerVars
  <2>2. CASE CheckEcho(g)
    <3>1. procs[g].path \in Paths /\ procs[g].hash \in Hash
      BY <2>2, RunOf DEF CheckEcho, Run, TypeOK
    <3>2. QED BY <1>4, <1>5, <2>2, <3>1 DEF CheckEcho, Process
  <2>3. QED BY <1>5, <2>1, <2>2 DEF Process, ProcStep
<1>6. ASSUME Rescan
      PROVE  [WriterNext]_writerVars
  <2>1. CASE UNCHANGED registry
    BY <1>6, <2>1 DEF Rescan, writerVars
  <2>2. ASSUME NEW p \in Paths, RescanCheck(p)
        PROVE  [WriterNext]_writerVars
    <3>1. loop.snap[p] \in Hash
      BY <2>2, SnapshotOf DEF RescanCheck, TypeOK, WatcherTypeOK, Loops
    <3>2. QED BY <1>4, <1>6, <2>2, <3>1 DEF RescanCheck, Rescan
  <2>3. QED BY <1>6, <2>1, <2>2 DEF Rescan, RescanStep
<1>7. QED BY <1>1, <1>2, <1>3, <1>5, <1>6 DEF Next

\* A restart leaves the writer as new, but for the vault and its history.
LEMMA CrashKeepsWriter == TypeOK /\ Crash => WriterInv'
BY NoneAssumption
   DEF TypeOK, Crash, WriterInv, WriterTypeOK, CallsHaveJobs, HoldsLock, RenamedIsLatest,
       RegistryIsLatestOwn, Critical

LEMMA CycleKeepsWriter ==
  ASSUME TypeOK, RescanHasRead, WriterInv, [Next]_vars
  PROVE  WriterInv'
BY CycleIsWriter, CrashKeepsWriter, InvStep

LEMMA CycleTypes ==
  ASSUME TypeOK, RescanHasRead, WriterInv, [Next]_vars
  PROVE  TypeOK' /\ RescanHasRead'
<1> DEFINE Rest ==
  /\ engine \in {"build", "watch", "baseline", "loop", "waiting", "returned"}
  /\ cancelled \in BOOLEAN
  /\ index \in [Paths -> Hash] /\ unread \subseteq Paths
  /\ edits \in 0 .. MaxEdits /\ writes \in 0 .. MaxWrites /\ faults \in 0 .. MaxFaults
  /\ crashes \in 0 .. MaxCrashes
  /\ held \in [Paths -> SUBSET Hash]
  /\ ownBytes \in [Paths -> SUBSET Contents]
  /\ lastBy \in [Paths -> {"user", "early", "daemon"}]
  /\ swallowed \in [Paths -> Nat]
<1>1. WriterTypeOK /\ WatcherTypeOK /\ Rest /\ disk \in [Paths -> Hash] /\ WriterTypeOK'
  BY CycleKeepsWriter DEF TypeOK, WriterTypeOK, WriterInv, Hash
<1>2. ASSUME UNCHANGED watcherVars
      PROVE  WatcherTypeOK' /\ RescanHasRead'
  BY <1>1, <1>2 DEF watcherVars, WatcherTypeOK, RescanHasRead
<1>3. ASSUME UNCHANGED <<engineVars, boundVars, historyVars>>
      PROVE  Rest'
  BY <1>1, <1>3 DEF engineVars, boundVars, historyVars
<1>4. SUFFICES (WatcherTypeOK' /\ RescanHasRead') /\ Rest'
  BY <1>1 DEF TypeOK
<1>5. CASE Build \/ AddWatches \/ Cancel \/ EngineStops \/ EngineReturns
  <2>1. Rest'
    BY <1>1, <1>5 DEF Build, AddWatches, Cancel, EngineStops, EngineReturns, boundVars,
                      historyVars
  <2>2. QED BY <1>2, <1>5, <2>1 DEF Build, AddWatches, Cancel, EngineStops, EngineReturns
<1>6. CASE Baseline
  BY <1>1, <1>6 DEF Baseline, WatcherTypeOK, RescanHasRead, boundVars, historyVars
<1>7. CASE Reconcile \/ ReconcileFails
  <2>1. Head(out) \in Paths /\ Tail(out) \in Seq(Paths) /\ Len(Tail(out)) <= OutCap
    BY <1>1, <1>7, WatcherAssumption DEF Reconcile, ReconcileFails, WatcherTypeOK
  <2>2. index' \in [Paths -> Hash] /\ unread' \subseteq Paths
    BY <1>1, <1>7, <2>1 DEF Reconcile, ReconcileFails, Hash
  <2>3. faults' \in 0 .. MaxFaults
    BY <1>1, <1>7, BoundsAssumption DEF Reconcile, ReconcileFails, boundVars
  <2>4. Rest'
    BY <1>1, <1>7, <2>2, <2>3 DEF Reconcile, ReconcileFails, boundVars, historyVars
  <2>5. WatcherTypeOK' /\ RescanHasRead'
    BY <1>1, <1>7, <2>1 DEF Reconcile, ReconcileFails, WatcherTypeOK, RescanHasRead
  <2>6. QED BY <2>4, <2>5
<1>8. CASE WatcherStops \/ Tick
  <2>1. LoopExits \/ RescanStart
    BY <1>8 DEF WatcherStops, Tick
  <2>2. QED BY <1>1, <1>3, <1>8, <2>1, RescanTypes DEF WatcherStops, Tick
<1>9. ASSUME NEW p \in Paths, NEW c \in Hash, Delete(p) \/ Edit(p, c)
      PROVE  (WatcherTypeOK' /\ RescanHasRead') /\ Rest'
  <2>1. edits' \in 0 .. MaxEdits
    BY <1>1, <1>9, BoundsAssumption DEF Delete, Edit, EditsLeft
  <2>2. /\ held' \in [Paths -> SUBSET Hash]
        /\ lastBy' \in [Paths -> {"user", "early", "daemon"}]
    BY <1>1, <1>9 DEF Delete, Edit, Hash, Outsider
  <2>3. Rest'
    <3>1. UNCHANGED <<engineVars, writes, faults, crashes, ownBytes, swallowed>>
      BY <1>9 DEF Delete, Edit, engineVars
    <3>2. QED BY <1>1, <2>1, <2>2, <3>1 DEF engineVars
  <2>4. notices' \in [Paths -> 0 .. MaxNotices]
    <3>1. notices \in [Paths -> 0 .. MaxNotices] /\ MaxNotices \in Nat
      BY <1>1, WatcherAssumption DEF WatcherTypeOK
    <3>2. CASE Notify(p)
      <4>1. notices[p] + 1 \in 0 .. MaxNotices
        BY <3>1, <3>2 DEF Notify
      <4>2. QED BY <3>1, <3>2, <4>1 DEF Notify
    <3>3. CASE UNCHANGED notices
      BY <3>1, <3>3
    <3>4. QED BY <1>9, <3>2, <3>3 DEF Delete, Edit, Appear, watcherVars
  <2>5. UNCHANGED <<timers, orphans, procs, loop, hashes, out>>
    BY <1>9 DEF Delete, Edit, watcherVars
  <2>6. QED BY <1>1, <2>3, <2>4, <2>5 DEF WatcherTypeOK, RescanHasRead
<1>10. ASSUME NEW w \in Writers, NEW p \in Paths, NEW c \in Contents, StartWrite(w, p, c)
       PROVE  (WatcherTypeOK' /\ RescanHasRead') /\ Rest'
  <2>1. writes' \in 0 .. MaxWrites
    BY <1>1, <1>10, BoundsAssumption DEF StartWrite
  <2>2. QED BY <1>1, <1>2, <1>10, <2>1 DEF StartWrite, engineVars, historyVars
<1>11. ASSUME NEW w \in Writers, PublishWrite(w)
       PROVE  (WatcherTypeOK' /\ RescanHasRead') /\ Rest'
  <2>1. job[w].path \in Paths /\ job[w].content \in Contents
    BY <1>11 DEF PublishWrite, Publish, WriterInv, CallsHaveJobs, Jobs
  <2>2. /\ held' \in [Paths -> SUBSET Hash] /\ ownBytes' \in [Paths -> SUBSET Contents]
        /\ lastBy' \in [Paths -> {"user", "early", "daemon"}]
    BY <1>1, <1>11, <2>1 DEF PublishWrite, Hash
  <2>3. Rest'
    BY <1>1, <1>11, <2>2 DEF PublishWrite, engineVars, boundVars
  <2>4. notices' \in [Paths -> 0 .. MaxNotices]
    BY <1>1, <1>11, <2>1, WatcherAssumption DEF PublishWrite, Notify, WatcherTypeOK
  <2>5. QED BY <1>1, <1>11, <2>3, <2>4 DEF PublishWrite, WatcherTypeOK, RescanHasRead
<1>12. ASSUME NEW w \in Writers, OtherWriteStep(w)
       PROVE  (WatcherTypeOK' /\ RescanHasRead') /\ Rest'
  BY <1>2, <1>3, <1>12 DEF OtherWriteStep
<1>13. ASSUME NEW p \in Paths, Lose(p)
       PROVE  (WatcherTypeOK' /\ RescanHasRead') /\ Rest'
  <2>1. WatcherTypeOK' /\ RescanHasRead'
    BY <1>1, <1>13, TimerTypes DEF Lose, LoseNotice, RescanHasRead
  <2>2. Rest'
    BY <1>1, <1>13, BoundsAssumption DEF Lose, engineVars, historyVars
  <2>3. QED BY <2>1, <2>2
<1>14. ASSUME NEW p \in Paths, Deliver(p)
       PROVE  (WatcherTypeOK' /\ RescanHasRead') /\ Rest'
  BY <1>1, <1>3, <1>14, TimerTypes DEF Deliver, HandleEvent, RescanHasRead
<1>15. ASSUME NEW p \in Paths, Expire(p)
       PROVE  (WatcherTypeOK' /\ RescanHasRead') /\ Rest'
  BY <1>1, <1>3, <1>15, TimerTypes DEF Expire, TimerExpires, OrphanExpires, RescanHasRead
<1>16. ASSUME NEW g \in Procs, FailRead(g)
       PROVE  (WatcherTypeOK' /\ RescanHasRead') /\ Rest'
  <2>1. WatcherTypeOK' /\ RescanHasRead'
    BY <1>1, <1>16, ProcTypes DEF FailRead, ReadFails, RescanHasRead
  <2>2. Rest'
    BY <1>1, <1>16, BoundsAssumption DEF FailRead, engineVars, historyVars
  <2>3. QED BY <2>1, <2>2
<1>17. ASSUME CountEchoes, UNCHANGED <<engineVars, boundVars, held, ownBytes, lastBy>>
       PROVE  Rest'
  <2>1. swallowed' \in [Paths -> Nat]
    BY <1>1, <1>17 DEF CountEchoes
  <2>2. QED BY <1>1, <1>17, <2>1 DEF engineVars, boundVars
<1>18. ASSUME NEW g \in Procs, Process(g)
       PROVE  (WatcherTypeOK' /\ RescanHasRead') /\ Rest'
  <2>1. WatcherTypeOK'
    BY <1>1, <1>18, ProcTypes DEF Process
  <2>2. UNCHANGED loop
    BY <1>18 DEF Process, ProcStep, Unregister, ReadStable, CheckEcho, Remember, Emit
  <2>3. QED BY <1>17, <1>18, <2>1, <2>2 DEF Process, RescanHasRead
<1>19. CASE Rescan
  BY <1>1, <1>17, <1>19, RescanTypes DEF Rescan
<1>20. CASE RescanFails
  <2>1. WatcherTypeOK' /\ RescanHasRead'
    BY <1>1, <1>20, RescanTypes DEF RescanFails
  <2>2. Rest'
    BY <1>1, <1>20, BoundsAssumption DEF RescanFails, engineVars, historyVars
  <2>3. QED BY <2>1, <2>2
<1>21. CASE Crash
  <2>1. Rest'
    <3>1. crashes' \in 0 .. MaxCrashes
      BY <1>1, <1>21, BoundsAssumption DEF Crash
    <3>2. index' \in [Paths -> Hash] /\ unread' = {} /\ engine' = "build" /\ cancelled' = FALSE
      BY <1>21 DEF Crash, Hash
    <3>3. QED BY <1>1, <1>21, <3>1, <3>2 DEF Crash, historyVars
  <2>2. WatcherTypeOK' /\ RescanHasRead'
    <3>1. <<>> \in Seq(Paths) /\ Len(<<>>) = 0
      OBVIOUS
    <3>2. loop' \in Loops /\ loop'.todo = {} /\ loop'.pc = "select"
      BY <1>21, EmptyLoopType DEF Crash, WatcherIsNew, IdleLoop
    <3>3. QED BY <1>21, <3>1, <3>2, WatcherAssumption
              DEF Crash, WatcherIsNew, WatcherTypeOK, RescanHasRead, Hash
  <2>3. QED BY <2>1, <2>2
<1>22. CASE UNCHANGED vars
  BY <1>2, <1>3, <1>22 DEF vars
<1>23. QED
  BY <1>5, <1>6, <1>7, <1>8, <1>9, <1>10, <1>11, <1>12, <1>13, <1>14, <1>15, <1>16, <1>18,
     <1>19, <1>20, <1>21, <1>22 DEF Next, Hash, Delete

-----------------------------------------------------------------------------
(* ReactiveCycle: nothing is forgotten *)

\* Tags and renames of the next state are of bytes the daemon has renamed.
LEMMA TagsStayOwn ==
  ASSUME TypeOK, RescanHasRead, WriterInv, TagsAreOwn, [Next]_vars
  PROVE  TagsAreOwn'
<1>1. /\ registry \in [Paths -> Hash] /\ ownBytes \in [Paths -> SUBSET Contents]
      /\ job \in [Writers -> Jobs \union {None}] /\ pc \in [Writers -> {"idle", "waiting"} \union Critical]
      /\ \A w \in Writers : pc[w] # "idle" => job[w] \in Jobs
      /\ \A j \in Jobs : j.path \in Paths /\ j.content \in Contents
  BY DEF TypeOK, WriterTypeOK, WriterInv, CallsHaveJobs, Hash, Jobs
<1>2. ASSUME \A p \in Paths : registry'[p] \in {registry[p], None}, UNCHANGED <<pc, job, ownBytes>>
      PROVE  TagsAreOwn'
  BY <1>2 DEF TagsAreOwn
<1>3. \A p \in Paths, h \in Hash : AfterCheck(p, h) \in [Paths -> Hash] /\
        \A q \in Paths : AfterCheck(p, h)[q] \in {registry[q], None}
  BY <1>1 DEF AfterCheck, Hash
<1>4. CASE \/ Build \/ AddWatches \/ Baseline \/ Reconcile \/ ReconcileFails \/ Cancel \/ EngineStops
           \/ WatcherStops \/ EngineReturns \/ Tick \/ RescanFails \/ UNCHANGED vars
           \/ \E p \in Paths : Lose(p) \/ Deliver(p) \/ Expire(p)
           \/ \E g \in Procs : FailRead(g)
  BY <1>2, <1>4 DEF Build, AddWatches, Baseline, Reconcile, ReconcileFails, Cancel, EngineStops, WatcherStops,
       EngineReturns, Tick, RescanFails, Lose, Deliver, Expire, FailRead, vars, writerVars, historyVars
<1>5. ASSUME NEW p \in Paths, Delete(p) \/ \E c \in Contents : Edit(p, c)
      PROVE  TagsAreOwn'
  BY <1>2, <1>5 DEF Delete, Edit, UserEdit
<1>6. ASSUME NEW w \in Writers, NEW p \in Paths, NEW c \in Contents, StartWrite(w, p, c)
      PROVE  TagsAreOwn'
  BY <1>1, <1>6 DEF StartWrite, Call, TagsAreOwn, historyVars
<1>7. ASSUME NEW w \in Writers, PublishWrite(w)
      PROVE  TagsAreOwn'
  <2>1. job[w].path \in Paths /\ job[w].content \in Contents
    BY <1>1, <1>7 DEF PublishWrite, Publish
  <2>2. /\ ownBytes' = [ownBytes EXCEPT ![job[w].path] = @ \union {job[w].content}]
        /\ pc' = [pc EXCEPT ![w] = "renamed"] /\ job' = job /\ registry' = registry
    BY <1>7 DEF PublishWrite, Publish
  <2>3. \A p \in Paths : ownBytes[p] \subseteq ownBytes'[p]
    BY <1>1, <2>1, <2>2
  <2>4. job[w].content \in ownBytes'[job[w].path]
    BY <1>1, <2>1, <2>2
  <2>5. \A v \in Writers : pc'[v] = "renamed" /\ v # w => pc[v] = "renamed" /\ job[v].path \in Paths
    BY <1>1, <2>2
  <2>6. QED BY <2>2, <2>3, <2>4, <2>5 DEF TagsAreOwn
<1>8. ASSUME NEW w \in Writers, OtherWriteStep(w)
      PROVE  TagsAreOwn'
  <2>1. CASE Record(w)
    <3>1. job[w].path \in Paths /\ job[w].content \in ownBytes[job[w].path]
      BY <1>1, <2>1 DEF Record, TagsAreOwn
    <3>2. ownBytes' = ownBytes
      BY <1>8 DEF OtherWriteStep, historyVars
    <3>3. QED BY <1>1, <2>1, <3>1, <3>2 DEF Record, Return, TagsAreOwn
  <2>2. CASE Acquire(w) \/ Stage(w) \/ Fail(w)
    BY <1>1, <1>8, <2>2 DEF OtherWriteStep, Acquire, Stage, Fail, Return, TagsAreOwn, historyVars
  <2>3. QED BY <1>8, <2>1, <2>2 DEF OtherWriteStep
<1>9. ASSUME NEW g \in Procs, Process(g)
      PROVE  TagsAreOwn'
  <2>1. CASE CheckEcho(g)
    <3>1. procs[g].path \in Paths /\ procs[g].hash \in Hash
      BY <2>1, RunOf DEF CheckEcho, Run, TypeOK
    <3>2. QED BY <1>2, <1>3, <1>9, <2>1, <3>1 DEF CheckEcho, Process
  <2>2. CASE UNCHANGED registry
    BY <1>2, <1>9, <2>2 DEF Process
  <2>3. QED BY <1>9, <2>1, <2>2 DEF Process, ProcStep
<1>10. CASE Rescan
  <2>1. ASSUME NEW p \in Paths, RescanCheck(p)
        PROVE  TagsAreOwn'
    <3>1. loop.snap[p] \in Hash
      BY <2>1, SnapshotOf DEF RescanCheck, TypeOK, WatcherTypeOK, Loops
    <3>2. QED BY <1>2, <1>3, <1>10, <2>1, <3>1 DEF RescanCheck, Rescan
  <2>2. CASE UNCHANGED registry
    BY <1>2, <1>10, <2>2 DEF Rescan
  <2>3. QED BY <1>10, <2>1, <2>2 DEF Rescan, RescanStep
<1>11. CASE Crash
  BY <1>11 DEF Crash, TagsAreOwn, historyVars
<1>12. QED BY <1>4, <1>5, <1>6, <1>7, <1>8, <1>9, <1>10, <1>11 DEF Next

\* A step that takes nothing off its way and changes no file forgets nothing.
LEMMA KeepsItsWay ==
  ASSUME NothingForgotten, faults' \in {faults} \union (Nat \ {0}),
         UNCHANGED <<disk, index, ownBytes, lastBy>>,
         \A p \in Paths : OnItsWay(p) => OnItsWay(p)'
  PROVE  NothingForgotten'
BY DEF NothingForgotten

\* A goroutine of processPath does its work, or stops at a file that is not there.
LEMMA ProcessForgetsNothing ==
  ASSUME TypeOK, RescanHasRead, TagsAreOwn, NothingForgotten, NEW g \in Procs, Process(g)
  PROVE  NothingForgotten'
<1>1. /\ orphans \in [Paths -> Nat] /\ timers \in [Paths -> {"none", "armed", "fired"}]
      /\ procs \in [Procs -> {IdleProc} \union [pc : ProcPC, path : Paths, hash : Hash]]
      /\ out \in Seq(Paths)
  BY DEF TypeOK, WatcherTypeOK
<1>2. UNCHANGED <<disk, index, ownBytes, lastBy, faults, engine>>
  BY DEF Process, engineVars, boundVars
<1>3. UNCHANGED notices
  BY DEF Process, ProcStep, Unregister, ReadStable, CheckEcho, Remember, Emit
<1>4. procs[g] \in Run /\ procs[g].pc # "idle"
  BY RunOf DEF TypeOK, Process, ProcStep, Unregister, ReadStable, CheckEcho, Remember, Emit
<1>5. ASSUME NEW p \in Paths, disk[p] \notin {None, index[p]}, OnItsWay(p), disk[p] \notin ownBytes[p]
      PROVE  OnItsWay(p)'
  <2>1. CASE engine = "build" \/ notices[p] > 0
    BY <1>2, <1>3, <2>1 DEF OnItsWay
  <2>2. CASE timers[p] = "armed" \/ orphans[p] > 0
    <3>1. CASE Unregister(g)
      <4>1. CASE p = procs[g].path
        BY <1>1, <3>1, <4>1, <2>2 DEF Unregister, OnItsWay
      <4>2. CASE p # procs[g].path
        BY <1>1, <3>1, <4>2, <2>2 DEF Unregister, OnItsWay
      <4>3. QED BY <4>1, <4>2
    <3>2. CASE UNCHANGED <<timers, orphans>>
      BY <2>2, <3>2 DEF OnItsWay
    <3>3. QED BY <3>1, <3>2 DEF Process, ProcStep, ReadStable, CheckEcho, Remember, Emit
  <2>3. CASE \E i \in DOMAIN out : out[i] = p
    <3>1. CASE Emit(g)
      <4>1. out' = Append(out, procs[g].path)
        BY <3>1 DEF Emit, Send
      <4>2. \A i \in DOMAIN out : i \in DOMAIN out' /\ out'[i] = out[i]
        BY <1>1, <1>4, <4>1 DEF Run
      <4>3. QED BY <2>3, <4>2 DEF OnItsWay
    <3>2. CASE UNCHANGED out
      BY <2>3, <3>2 DEF OnItsWay
    <3>3. QED BY <3>1, <3>2 DEF Process, ProcStep, Unregister, ReadStable, CheckEcho, Remember
  <2>4. ASSUME NEW f \in Procs, WillReport(f, p)
        PROVE  OnItsWay(p)'
    <3>1. CASE f # g
      <4>1. procs'[f] = procs[f]
        BY <1>1, <3>1 DEF Process, ProcStep, Unregister, ReadStable, CheckEcho, Remember, Emit
      <4>2. WillReport(f, p)'
        BY <1>2, <2>4, <4>1 DEF WillReport
      <4>3. QED BY <4>2 DEF OnItsWay
    <3>2. CASE f = g
      <4>1. procs[g].path = p
        BY <2>4, <3>2 DEF WillReport
      <4>2. CASE Unregister(g)
        BY <1>1, <1>4, <4>1, <4>2 DEF Unregister, WillReport, OnItsWay, Run
      <4>3. CASE ReadStable(g)
        <5>1. procs'[g] = [procs[g] EXCEPT !.pc = "read", !.hash = disk[p]]
          BY <1>1, <1>5, <4>1, <4>3 DEF ReadStable
        <5>2. WillReport(g, p)'
          BY <1>2, <1>4, <4>1, <5>1 DEF WillReport, Run
        <5>3. QED BY <5>2 DEF OnItsWay
      <4>4. CASE CheckEcho(g)
        <5>1. procs[g].hash = disk[p] /\ ~IsEcho(p, disk[p])
          BY <1>5, <2>4, <3>2, <4>1, <4>4 DEF CheckEcho, WillReport, IsEcho, TagsAreOwn
        <5>2. procs'[g] = [procs[g] EXCEPT !.pc = "foreign"]
          BY <1>1, <4>1, <4>4, <5>1 DEF CheckEcho
        <5>3. WillReport(g, p)'
          BY <1>4, <4>1, <5>2 DEF WillReport, Run
        <5>4. QED BY <5>3 DEF OnItsWay
      <4>5. CASE Remember(g)
        <5>1. procs[g].pc = "foreign"
          BY <2>4, <3>2, <4>5 DEF Remember, WillReport
        <5>2. procs'[g] = [procs[g] EXCEPT !.pc = "emit"]
          BY <1>1, <4>5, <5>1 DEF Remember
        <5>3. WillReport(g, p)'
          BY <1>4, <4>1, <5>2 DEF WillReport, Run
        <5>4. QED BY <5>3 DEF OnItsWay
      <4>6. CASE Emit(g)
        <5>1. out' = Append(out, p)
          BY <4>1, <4>6 DEF Emit, Send
        <5>2. Len(out) + 1 \in DOMAIN out' /\ out'[Len(out) + 1] = p
          BY <1>1, <5>1
        <5>3. QED BY <5>2 DEF OnItsWay
      <4>7. QED BY <4>2, <4>3, <4>4, <4>5, <4>6 DEF Process, ProcStep
    <3>3. QED BY <3>1, <3>2
  <2>5. QED BY <1>5, <2>1, <2>2, <2>3, <2>4 DEF OnItsWay
<1>6. QED BY <1>2, <1>5 DEF NothingForgotten

\* An expired timer leaves a goroutine behind.
LEMMA ExpiryForgetsNothing ==
  ASSUME TypeOK, NothingForgotten, NEW q \in Paths, Expire(q)
  PROVE  NothingForgotten'
<1>1. PICK g \in Procs : TimerExpires(g, q) \/ OrphanExpires(g, q)
  BY DEF Expire
<1>2. /\ procs[g] = IdleProc
      /\ procs' = [procs EXCEPT ![g] = [pc |-> "fired", path |-> q, hash |-> None]]
  BY <1>1 DEF TimerExpires, OrphanExpires, Spawn
<1>3. /\ procs \in [Procs -> {IdleProc} \union [pc : ProcPC, path : Paths, hash : Hash]]
      /\ orphans \in [Paths -> Nat] /\ timers \in [Paths -> {"none", "armed", "fired"}]
  BY DEF TypeOK, WatcherTypeOK
<1>4. UNCHANGED <<disk, index, ownBytes, lastBy, faults, engine, notices, out>>
  BY <1>1 DEF Expire, TimerExpires, OrphanExpires, writerVars, engineVars, boundVars, historyVars
<1>5. ASSUME NEW p \in Paths, OnItsWay(p)
      PROVE  OnItsWay(p)'
  <2>1. CASE p = q
    <3>1. WillReport(g, p)'
      BY <1>2, <1>3, <2>1 DEF WillReport
    <3>2. QED BY <3>1 DEF OnItsWay
  <2>2. CASE p # q
    <3>1. timers'[p] = timers[p] /\ orphans'[p] = orphans[p]
      BY <1>1, <1>3, <2>2 DEF TimerExpires, OrphanExpires
    <3>2. ASSUME NEW f \in Procs, WillReport(f, p)
          PROVE  WillReport(f, p)'
      <4>1. f # g
        BY <1>2, <3>2 DEF WillReport, IdleProc
      <4>2. QED BY <1>2, <1>3, <1>4, <3>2, <4>1 DEF WillReport
    <3>3. QED BY <1>4, <1>5, <3>1, <3>2 DEF OnItsWay
  <2>3. QED BY <2>1, <2>2
<1>6. QED BY <1>4, <1>5, KeepsItsWay

\* A file that changes leaves a notice, unless nobody watches it yet.
LEMMA ChangeForgetsNothing ==
  ASSUME TypeOK, WriterInv, NothingForgotten, NEW q \in Paths,
         \/ Delete(q) \/ \E c \in Contents : Edit(q, c)
         \/ \E w \in Writers : job[w].path = q /\ PublishWrite(w)
  PROVE  NothingForgotten'
<1>1. /\ notices \in [Paths -> 0 .. MaxNotices] /\ disk \in [Paths -> Hash] /\ MaxNotices \in Nat
      /\ ownBytes \in [Paths -> SUBSET Contents]
      /\ lastBy \in [Paths -> {"user", "early", "daemon"}]
  BY WatcherAssumption DEF TypeOK, WatcherTypeOK, WriterTypeOK, Hash
<1>2. UNCHANGED <<index, faults, engine, timers, orphans, procs, out>>
  BY DEF Delete, Edit, PublishWrite, watcherVars, engineVars, boundVars
<1>3. \A p \in Paths : notices'[p] >= notices[p]
  BY <1>1 DEF Delete, Edit, PublishWrite, Appear, Notify, watcherVars
<1>4. ASSUME NEW p \in Paths, p # q
      PROVE  /\ disk'[p] = disk[p] /\ ownBytes'[p] = ownBytes[p] /\ lastBy'[p] = lastBy[p]
             /\ OnItsWay(p) => OnItsWay(p)'
  <2>1. disk'[p] = disk[p] /\ ownBytes'[p] = ownBytes[p] /\ lastBy'[p] = lastBy[p]
    BY <1>1, <1>4 DEF Delete, Edit, UserEdit, PublishWrite, Publish
  <2>2. \A g \in Procs : WillReport(g, p) => WillReport(g, p)'
    BY <1>2, <2>1 DEF WillReport
  <2>3. notices[p] \in Int /\ notices'[p] >= notices[p]
    BY <1>1, <1>3
  <2>4. notices[p] > 0 => notices'[p] > 0
    BY <1>1, <1>3, <1>4 DEF Delete, Edit, PublishWrite, Appear, Notify, watcherVars
  <2>5. QED BY <1>2, <2>1, <2>2, <2>4 DEF OnItsWay
<1>5. disk'[q] = None \/ disk'[q] \in ownBytes'[q] \/ lastBy'[q] = "early" \/ OnItsWay(q)'
  <2>1. CASE Delete(q)
    BY <1>1, <2>1 DEF Delete, UserEdit
  <2>2. ASSUME NEW c \in Contents, Edit(q, c)
        PROVE  lastBy'[q] = "early" \/ OnItsWay(q)'
    <3>1. CASE Watched
      <4>1. notices'[q] > 0
        BY <1>1, <2>2, <3>1 DEF Edit, Appear, Notify
      <4>2. QED BY <4>1 DEF OnItsWay
    <3>2. CASE ~Watched
      BY <1>1, <2>2, <3>2 DEF Edit, Outsider
    <3>3. QED BY <3>1, <3>2
  <2>3. ASSUME NEW w \in Writers, job[w].path = q, PublishWrite(w)
        PROVE  disk'[q] \in ownBytes'[q]
    BY <1>1, <2>3 DEF PublishWrite, Publish
  <2>4. QED BY <2>1, <2>2, <2>3
<1>6. QED BY <1>2, <1>4, <1>5 DEF NothingForgotten

LEMMA CycleForgetsNothing ==
  ASSUME TypeOK, RescanHasRead, WriterInv, TagsAreOwn, NothingForgotten, [Next]_vars
  PROVE  NothingForgotten'
<1>1. /\ faults \in Nat /\ out \in Seq(Paths) /\ index \in [Paths -> Hash] /\ disk \in [Paths -> Hash]
      /\ notices \in [Paths -> 0 .. MaxNotices] /\ timers \in [Paths -> {"none", "armed", "fired"}]
  BY BoundsAssumption DEF TypeOK, WatcherTypeOK, WriterTypeOK, Hash
<1>2. ASSUME UNCHANGED <<disk, index, ownBytes, lastBy, faults, notices, timers, orphans, procs>>,
             engine' = engine \/ engine # "build",
             \A i \in DOMAIN out : i \in DOMAIN out' /\ out'[i] = out[i]
      PROVE  NothingForgotten'
  BY <1>2, KeepsItsWay DEF OnItsWay, WillReport
<1>3. CASE Build
  BY <1>1, <1>3 DEF Build, NothingForgotten, writerVars, boundVars, historyVars
<1>4. CASE \/ AddWatches \/ Baseline \/ Cancel \/ EngineStops \/ WatcherStops \/ EngineReturns
           \/ Tick \/ UNCHANGED vars
           \/ \E w \in Writers : \/ OtherWriteStep(w)
                                 \/ \E p \in Paths, c \in Contents : StartWrite(w, p, c)
  <2>1. /\ UNCHANGED <<disk, index, ownBytes, lastBy, faults, notices, timers, orphans, procs, out>>
        /\ engine' = engine \/ engine # "build"
    BY <1>4 DEF AddWatches, Baseline, Cancel, EngineStops, WatcherStops, EngineReturns, Tick,
         LoopExits, RescanStart, OtherWriteStep, Acquire, Stage, Record, Fail, StartWrite, Call,
         vars, writerVars, watcherVars, engineVars, boundVars, historyVars
  <2>2. QED BY <1>2, <2>1
<1>5. CASE Reconcile
  <2>1. ASSUME NEW p \in Paths, disk'[p] \notin {None, index'[p]}
        PROVE  /\ disk[p] \notin {None, index[p]}
               /\ OnItsWay(p) => OnItsWay(p)'
    <3>1. p # Head(out) /\ disk'[p] = disk[p] /\ index'[p] = index[p]
      BY <1>1, <1>5, <2>1 DEF Reconcile, writerVars
    <3>2. ASSUME NEW i \in DOMAIN out, out[i] = p
          PROVE  \E j \in DOMAIN out' : out'[j] = p
      <4>1. i # 1 /\ i \in 1 .. Len(out)
        BY <1>1, <1>5, <3>1, <3>2 DEF Reconcile
      <4>2. i - 1 \in DOMAIN Tail(out) /\ Tail(out)[i - 1] = out[i]
        BY <1>1, <1>5, <4>1 DEF Reconcile
      <4>3. QED BY <1>5, <3>2, <4>2 DEF Reconcile
    <3>3. QED BY <1>5, <2>1, <3>1, <3>2 DEF Reconcile, OnItsWay, WillReport, writerVars
  <2>2. QED BY <1>5, <2>1 DEF Reconcile, NothingForgotten, writerVars, boundVars, historyVars
<1>6. ASSUME NEW p \in Paths, Delete(p) \/ \E c \in Contents : Edit(p, c)
      PROVE  NothingForgotten'
  BY <1>6, ChangeForgetsNothing
<1>7. ASSUME NEW w \in Writers, PublishWrite(w)
      PROVE  NothingForgotten'
  <2>1. job[w].path \in Paths
    BY <1>7 DEF PublishWrite, Publish, WriterInv, CallsHaveJobs, Jobs
  <2>2. QED BY <1>7, <2>1, ChangeForgetsNothing
<1>8. CASE \/ ReconcileFails \/ RescanFails
           \/ \E p \in Paths : Lose(p)
           \/ \E g \in Procs : FailRead(g)
  BY <1>1, <1>8 DEF ReconcileFails, RescanFails, Lose, FailRead, NothingForgotten
<1>9. ASSUME NEW q \in Paths, Deliver(q)
      PROVE  NothingForgotten'
  <2>1. /\ UNCHANGED <<disk, index, ownBytes, lastBy, faults, engine, orphans, procs, out>>
        /\ timers'[q] = "armed"
        /\ \A p \in Paths : p # q => notices'[p] = notices[p] /\ timers'[p] = timers[p]
    BY <1>1, <1>9 DEF Deliver, HandleEvent, writerVars, engineVars, boundVars, historyVars
  <2>2. \A p \in Paths : OnItsWay(p) => OnItsWay(p)'
    BY <2>1 DEF OnItsWay, WillReport
  <2>3. QED BY <2>1, <2>2, KeepsItsWay
<1>10. ASSUME NEW p \in Paths, Expire(p)
       PROVE  NothingForgotten'
  BY <1>10, ExpiryForgetsNothing
<1>11. ASSUME NEW g \in Procs, Process(g)
       PROVE  NothingForgotten'
  BY <1>11, ProcessForgetsNothing
<1>12. CASE Rescan
  <2>1. /\ UNCHANGED <<disk, index, ownBytes, lastBy, faults, engine>>
        /\ UNCHANGED <<notices, timers, orphans, procs>>
    BY <1>12 DEF Rescan, RescanStep, RescanRead, RescanDiff, RescanCheck, RescanRemember, RescanEmit,
         RescanEnd, engineVars, boundVars
  <2>2. CASE UNCHANGED out
    BY <1>2, <2>1, <2>2
  <2>3. CASE RescanEmit
    <3>1. loop.cur \in Paths /\ out' = Append(out, loop.cur)
      BY <2>3, SnapshotOf
         DEF RescanEmit, Send, RescanHasRead, TypeOK, WatcherTypeOK, Loops
    <3>2. \A i \in DOMAIN out : i \in DOMAIN out' /\ out'[i] = out[i]
      BY <1>1, <3>1
    <3>3. QED BY <1>2, <2>1, <3>2
  <2>4. QED BY <1>12, <2>2, <2>3
            DEF Rescan, RescanStep, RescanRead, RescanDiff, RescanCheck, RescanRemember, RescanEnd
<1>13. CASE Crash
  BY <1>13 DEF Crash, NothingForgotten, OnItsWay
<1>14. QED
  BY <1>3, <1>4, <1>5, <1>6, <1>7, <1>8, <1>9, <1>10, <1>11, <1>12, <1>13 DEF Next

-----------------------------------------------------------------------------
(* ReactiveCycle: every echo has been paid for *)

\* A check that answers "echo" takes the tag it answers for.
LEMMA EchoTakesTag ==
  ASSUME TypeOK, EchoesArePaid, UNCHANGED <<pc, job, writes>>,
         \A p \in Paths :
           /\ registry'[p] \in {registry[p], None}
           /\ \/ swallowed'[p] = swallowed[p]
              \/ /\ swallowed'[p] = swallowed[p] + 1
                 /\ registry[p] # None /\ registry'[p] = None
  PROVE  EchoesArePaid'
<1> SUFFICES ASSUME NEW p \in Paths
             PROVE  PaidFor(p)'
    BY DEF EchoesArePaid
<1>1. Calls(p)' = Calls(p)
  BY DEF Calls
<1>2. IsFiniteSet(Calls(p)) /\ Cardinality(Calls(p)) \in Nat
  BY FS_CardinalityType DEF EchoesArePaid, PaidFor
<1>3. swallowed[p] \in Nat /\ writes \in Nat
  BY BoundsAssumption DEF TypeOK
<1>4. swallowed'[p] + Tags(p)' <= swallowed[p] + Tags(p)
  BY <1>3 DEF Tags
<1>5. Tags(p)' \in Nat /\ Tags(p) \in Nat /\ swallowed'[p] \in Nat
  BY <1>3 DEF Tags
<1>6. swallowed[p] + Tags(p) + Cardinality(Calls(p)) <= writes
  BY DEF EchoesArePaid, PaidFor
<1>7. QED BY <1>1, <1>2, <1>3, <1>4, <1>5, <1>6 DEF PaidFor

\* A call of Write that begins, goes on, or returns with or without its tag.
LEMMA CallsArePaid ==
  ASSUME TypeOK, WriterInv, EchoesArePaid, NEW w \in Writers,
         \/ \E q \in Paths, c \in Contents : StartWrite(w, q, c)
         \/ PublishWrite(w) \/ OtherWriteStep(w)
  PROVE  EchoesArePaid'
<1> SUFFICES ASSUME NEW p \in Paths
             PROVE  PaidFor(p)'
    BY DEF EchoesArePaid
<1>1. /\ pc \in [Writers -> {"idle", "waiting"} \union Critical]
      /\ job \in [Writers -> Jobs \union {None}]
      /\ registry \in [Paths -> Contents \union {None}]
      /\ swallowed[p] \in Nat /\ writes \in Nat /\ Tags(p) \in Nat
      /\ pc[w] # "idle" => job[w] \in Jobs
  BY BoundsAssumption DEF TypeOK, WriterTypeOK, Tags, WriterInv, CallsHaveJobs
<1>2. /\ IsFiniteSet(Calls(p)) /\ Cardinality(Calls(p)) \in Nat
      /\ swallowed[p] + Tags(p) + Cardinality(Calls(p)) <= writes
  BY FS_CardinalityType DEF EchoesArePaid, PaidFor
<1>3. UNCHANGED swallowed
  BY DEF StartWrite, PublishWrite, OtherWriteStep, historyVars
<1>4. ASSUME NEW q \in Paths, NEW c \in Contents, StartWrite(w, q, c)
      PROVE  PaidFor(p)'
  <2>1. Tags(p)' = Tags(p) /\ writes' = writes + 1
    BY <1>4 DEF StartWrite, Call, Tags
  <2>2. /\ w \notin Calls(p)
        /\ Calls(p)' = IF p = q THEN Calls(p) \union {w} ELSE Calls(p)
    BY <1>1, <1>4 DEF StartWrite, Call, Calls
  <2>3. /\ IsFiniteSet(Calls(p)')
        /\ Cardinality(Calls(p)') \in {Cardinality(Calls(p)), Cardinality(Calls(p)) + 1}
    BY <1>2, <2>2, FS_AddElement
  <2>4. QED BY <1>1, <1>2, <1>3, <2>1, <2>3 DEF PaidFor
<1>5. CASE PublishWrite(w) \/ ((Acquire(w) \/ Stage(w)) /\ OtherWriteStep(w))
  <2>1. Tags(p)' = Tags(p) /\ writes' = writes
    BY <1>5 DEF PublishWrite, OtherWriteStep, Publish, Acquire, Stage, Tags, boundVars
  <2>2. Calls(p)' = Calls(p)
    BY <1>1, <1>5 DEF PublishWrite, Publish, Acquire, Stage, Calls
  <2>3. QED BY <1>2, <1>3, <2>1, <2>2 DEF PaidFor
<1>6. CASE (Record(w) \/ Fail(w)) /\ OtherWriteStep(w)
  <2>1. writes' = writes /\ pc[w] # "idle"
    BY <1>6 DEF OtherWriteStep, boundVars, Record, Fail
  <2>2. pc' = [pc EXCEPT ![w] = "idle"] /\ job' = [job EXCEPT ![w] = None]
    BY <1>6 DEF Record, Fail, Return
  <2>3. Calls(p)' = IF job[w].path = p THEN Calls(p) \ {w} ELSE Calls(p)
    BY <1>1, <2>1, <2>2 DEF Calls
  <2>4. CASE job[w].path = p
    <3>1. w \in Calls(p)
      BY <2>1, <2>4 DEF Calls
    <3>2. /\ IsFiniteSet(Calls(p)')
          /\ Cardinality(Calls(p)') = Cardinality(Calls(p)) - 1
      BY <1>2, <2>3, <2>4, <3>1, FS_RemoveElement
    <3>3. Tags(p)' \in {0, 1} /\ (Tags(p)' = Tags(p) \/ Tags(p)' <= Tags(p) + 1)
      BY DEF Tags
    <3>4. QED BY <1>1, <1>2, <1>3, <2>1, <3>2, <3>3 DEF PaidFor
  <2>5. CASE job[w].path # p
    <3>1. registry'[p] = registry[p]
      BY <1>1, <1>6, <2>5 DEF Record, Fail
    <3>2. QED BY <1>2, <1>3, <2>1, <2>3, <2>5, <3>1 DEF Tags, PaidFor
  <2>6. QED BY <2>4, <2>5
<1>7. CASE \E q \in Paths, c \in Contents : StartWrite(w, q, c)
  BY <1>4, <1>7
<1>8. CASE OtherWriteStep(w)
  BY <1>5, <1>6, <1>8 DEF OtherWriteStep
<1>9. QED BY <1>5, <1>7, <1>8

LEMMA CycleStaysPaid ==
  ASSUME TypeOK, RescanHasRead, WriterInv, EchoesArePaid, [Next]_vars
  PROVE  EchoesArePaid'
<1>1. /\ registry \in [Paths -> Contents \union {None}]
      /\ procs \in [Procs -> {IdleProc} \union [pc : ProcPC, path : Paths, hash : Hash]]
      /\ swallowed \in [Paths -> Nat]
  BY DEF TypeOK, WriterTypeOK, WatcherTypeOK
<1>2. CASE UNCHANGED <<registry, pc, job, writes, swallowed>>
  BY <1>2, EchoTakesTag
<1>3. CASE \/ Build \/ AddWatches \/ Baseline \/ Reconcile \/ ReconcileFails \/ Cancel \/ EngineStops
           \/ WatcherStops \/ EngineReturns \/ Tick \/ RescanFails \/ UNCHANGED vars
           \/ \E p \in Paths : \/ Delete(p) \/ Lose(p) \/ Deliver(p) \/ Expire(p)
                               \/ \E c \in Contents : Edit(p, c)
           \/ \E g \in Procs : FailRead(g)
  <2>1. UNCHANGED <<registry, pc, job, writes, swallowed>>
    BY <1>3 DEF Build, AddWatches, Baseline, Reconcile, ReconcileFails, Cancel, EngineStops, WatcherStops,
         EngineReturns, Tick, RescanFails, Delete, Edit, UserEdit, Lose, Deliver, Expire, FailRead,
         vars, writerVars, boundVars, historyVars
  <2>2. QED BY <1>2, <2>1
<1>4. ASSUME NEW w \in Writers,
             \/ \E p \in Paths, c \in Contents : StartWrite(w, p, c)
             \/ PublishWrite(w) \/ OtherWriteStep(w)
      PROVE  EchoesArePaid'
  BY <1>4, CallsArePaid
<1>5. ASSUME NEW g \in Procs, Process(g)
      PROVE  EchoesArePaid'
  <2>1. /\ UNCHANGED <<pc, job, writes, loop>>
        /\ swallowed' = [p \in Paths |-> swallowed[p] + (IF AnswersEcho(p) THEN 1 ELSE 0)]
    BY <1>5 DEF Process, ProcStep, Unregister, ReadStable, Remember, Emit, CheckEcho, CountEchoes,
                boundVars
  <2>2. ASSUME NEW p \in Paths, AnswersEcho(p)
        PROVE  registry[p] # None /\ registry'[p] = None
    <3>1. PICK f \in Procs : procs[f].pc = "read" /\ procs'[f].pc = "echo" /\ procs[f].path = p
      BY <2>1, <2>2 DEF AnswersEcho
    <3>2. f = g /\ CheckEcho(g)
      BY <1>1, <1>5, <3>1 DEF Process, ProcStep, Unregister, ReadStable, Remember, Emit, CheckEcho,
                             IdleProc
    <3>3. IsEcho(p, procs[g].hash)
      BY <1>1, <3>1, <3>2 DEF CheckEcho
    <3>4. QED BY <1>1, <3>1, <3>2, <3>3 DEF CheckEcho, AfterCheck, IsEcho
  <2>3. \A p \in Paths : registry'[p] \in {registry[p], None}
    BY <1>1, <1>5 DEF Process, ProcStep, CheckEcho, AfterCheck
  <2>4. QED BY <1>1, <2>1, <2>2, <2>3, EchoTakesTag
<1>6. CASE Rescan
  <2>1. /\ UNCHANGED <<pc, job, writes, procs>>
        /\ swallowed' = [p \in Paths |-> swallowed[p] + (IF AnswersEcho(p) THEN 1 ELSE 0)]
    BY <1>6 DEF Rescan, RescanStep, RescanRead, RescanDiff, RescanRemember, RescanEmit, RescanEnd,
                RescanCheck, CountEchoes, boundVars
  <2>2. loop \in Loops
    BY DEF TypeOK, WatcherTypeOK
  <2>3. ASSUME NEW p \in Paths, AnswersEcho(p)
        PROVE  registry[p] # None /\ registry'[p] = None
    <3>1. loop.pc = "report" /\ loop'.pc = "echo" /\ loop'.cur = p
      BY <2>1, <2>3 DEF AnswersEcho
    <3>2. PICK q \in Paths : RescanCheck(q)
      BY <1>6, <2>2, <3>1 DEF Rescan, RescanStep, RescanRead, RescanDiff, RescanRemember, RescanEmit,
                        RescanEnd, IdleLoop
    <3>3. q = p /\ IsEcho(p, loop.snap[p])
      BY <2>2, <3>1, <3>2 DEF RescanCheck, Loops
    <3>4. QED BY <1>1, <3>2, <3>3 DEF RescanCheck, AfterCheck, IsEcho
  <2>4. \A p \in Paths : registry'[p] \in {registry[p], None}
    BY <1>1, <1>6 DEF Rescan, RescanStep, RescanCheck, AfterCheck
  <2>5. QED BY <1>1, <2>1, <2>3, <2>4, EchoTakesTag
<1>7. CASE Crash
  <2> SUFFICES ASSUME NEW p \in Paths
               PROVE  PaidFor(p)'
      BY DEF EchoesArePaid
  <2>1. Calls(p)' = {} /\ Tags(p)' = 0 /\ swallowed'[p] = swallowed[p] /\ writes' = writes
    BY <1>7 DEF Crash, Calls, Tags, historyVars
  <2>2. IsFiniteSet({}) /\ Cardinality({}) = 0
    BY FS_EmptySet
  <2>3. Cardinality(Calls(p)) \in Nat /\ swallowed[p] \in Nat /\ Tags(p) \in Nat /\ writes \in Nat
    BY <1>1, BoundsAssumption, FS_CardinalityType DEF EchoesArePaid, PaidFor, Tags, TypeOK
  <2>4. swallowed[p] + Tags(p) + Cardinality(Calls(p)) <= writes
    BY DEF EchoesArePaid, PaidFor
  <2>5. QED BY <2>1, <2>2, <2>3, <2>4 DEF PaidFor
<1>8. QED BY <1>3, <1>4, <1>5, <1>6, <1>7 DEF Next

-----------------------------------------------------------------------------
(* ReactiveCycle: theorems *)

CycleInv ==
  /\ TypeOK
  /\ WriterInv
  /\ RescanHasRead
  /\ TagsAreOwn
  /\ NothingForgotten
  /\ EchoesArePaid

LEMMA CycleInvInit == Init => CycleInv
<1> SUFFICES ASSUME Init PROVE CycleInv
    OBVIOUS
<1>1. WriterInv
  BY InvInit DEF Init
<1>2. WatcherTypeOK /\ RescanHasRead
  <2>1. IdleLoop \in Loops
    BY EmptyLoopType
  <2>2. IdleLoop.todo \subseteq DOMAIN IdleLoop.snap
    BY DEF IdleLoop
  <2>3. out \in Seq(Paths) /\ Len(out) <= OutCap
    BY WatcherAssumption DEF Init, WatcherInit
  <2>4. QED BY <2>1, <2>2, <2>3, WatcherAssumption
            DEF Init, WatcherInit, WatcherTypeOK, RescanHasRead, IdleLoop, Hash
<1>3. TypeOK
  <2>1. disk \in [Paths -> Hash]
    BY DEF Init, WriterInit, Hash
  <2>2. held \in [Paths -> SUBSET Hash]
    BY <2>1 DEF Init
  <2>3. /\ 0 \in 0 .. MaxEdits /\ 0 \in 0 .. MaxWrites /\ 0 \in 0 .. MaxFaults
        /\ 0 \in 0 .. MaxCrashes
    BY BoundsAssumption
  <2>4. index \in [Paths -> Hash] /\ ownBytes \in [Paths -> SUBSET Contents]
    BY DEF Init, Hash
  <2>5. QED BY <1>1, <1>2, <2>2, <2>3, <2>4 DEF Init, TypeOK, WriterInv
<1>4. TagsAreOwn /\ NothingForgotten
  BY DEF Init, WriterInit, TagsAreOwn, NothingForgotten, OnItsWay
<1>5. EchoesArePaid
  <2> SUFFICES ASSUME NEW p \in Paths
               PROVE  PaidFor(p)
      BY DEF EchoesArePaid
  <2>1. Calls(p) = {} /\ Tags(p) = 0 /\ swallowed[p] = 0 /\ writes = 0
    BY DEF Init, WriterInit, Calls, Tags
  <2>2. QED BY <2>1, FS_EmptySet DEF PaidFor
<1>6. QED BY <1>1, <1>2, <1>3, <1>4, <1>5 DEF CycleInv

\* The inductive invariant of the reactive cycle holds in every reachable state, across
\* restarts of the daemon (engine.go, watcher.go, writer.go).
THEOREM CycleInvariant == Spec => []CycleInv
<1>1. CycleInv /\ [Next]_vars => CycleInv'
  BY CycleTypes, CycleKeepsWriter, TagsStayOwn, CycleForgetsNothing, CycleStaysPaid DEF CycleInv
<1>2. QED BY <1>1, CycleInvInit, PTL DEF Spec

\* The watcher, the writer and the engine stay within their types: no notice, report or
\* counter leaves its bounds, whatever the number of goroutines, files and contents.
THEOREM CycleStaysTyped == Spec => []TypeOK
<1>1. CycleInv => TypeOK
  BY DEF CycleInv
<1>2. QED BY <1>1, CycleInvariant, PTL

\* Suppression hides only the daemon's own bytes (processPath and rescan, watcher.go): in
\* a run without faults, a file that the watcher is done with and that the index has not
\* got holds bytes the daemon once renamed to it, or changed before it was watched.
THEOREM OnlyOwnBytesAreMissed == Spec => []StaleOnlyBehindOwnBytes
<1>1. CycleInv => StaleOnlyBehindOwnBytes
  <2> SUFFICES ASSUME CycleInv, faults = 0,
                      NEW p \in Paths, Settled(p), disk[p] \notin {None, index[p]}
               PROVE  disk[p] \in ownBytes[p] \/ lastBy[p] = "early"
    BY DEF StaleOnlyBehindOwnBytes
  <2>1. out \in Seq(Paths) /\ DOMAIN out = 1 .. Len(out)
    BY DEF CycleInv, TypeOK, WatcherTypeOK
  <2>2. ~OnItsWay(p)
    BY <2>1 DEF Settled, OnItsWay, WillReport
  <2>3. QED BY <2>2 DEF CycleInv, NothingForgotten
<1>2. QED BY <1>1, CycleInvariant, PTL

\* One write excuses one report (HashRegistry.Check, writer.go): however events, rescans,
\* writes and restarts interleave, the checks that took a change of a file for an echo
\* never outnumber the calls of Write.
THEOREM OneEchoPerWrite == Spec => []EchoesNeedWrites
<1>1. CycleInv => EchoesNeedWrites
  <2> SUFFICES ASSUME CycleInv, NEW p \in Paths
               PROVE  swallowed[p] <= writes
    BY DEF EchoesNeedWrites
  <2>1. /\ swallowed[p] \in Nat /\ writes \in Nat /\ Tags(p) \in Nat
        /\ Cardinality(Calls(p)) \in Nat
    BY BoundsAssumption, FS_CardinalityType DEF CycleInv, TypeOK, EchoesArePaid, PaidFor, Tags
  <2>2. swallowed[p] + Tags(p) + Cardinality(Calls(p)) <= writes
    BY DEF CycleInv, EchoesArePaid, PaidFor
  <2>3. QED BY <2>1, <2>2
<1>2. QED BY <1>1, CycleInvariant, PTL

\* In the whole cycle too, where the watcher consumes entries and the daemon restarts, writes
\* of one path serialize and the registry never falls behind the daemon's latest rename.
THEOREM CycleKeepsRegistry == Spec => [](MutualExclusion /\ RegistryIsLatestOwn)
<1>1. CycleInv => MutualExclusion /\ RegistryIsLatestOwn
  BY HolderIsUnique DEF CycleInv, WriterInv, MutualExclusion
<1>2. QED BY <1>1, CycleInvariant, PTL

=============================================================================
