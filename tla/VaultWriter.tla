---------------------------- MODULE VaultWriter ----------------------------
(***************************************************************************)
(* internal/engine/vault/writer.go: Writer.Write and the HashRegistry.     *)
(*                                                                         *)
(* Every goroutine that calls Write (API handlers, writeback) is a member  *)
(* of Writers.  Write is split where another goroutine or another process  *)
(* can act: before the per-path mutex, after it is held, after the temp    *)
(* file is durable, after the rename and at the return.  A file's content  *)
(* stands for its SHA-256 (the hash is taken to be injective).             *)
(***************************************************************************)
EXTENDS FiniteSets

CONSTANTS Writers,    \* goroutines that may call Write
          Paths,      \* markdown files of the vault
          Contents,   \* what a file can hold
          None        \* no file, no registry entry, no lock holder

ASSUME NoneAssumption == None \notin Contents /\ None \notin Writers

VARIABLES disk,      \* the vault: what every path holds now
          lock,      \* Writer.locks: the goroutine holding each path's mutex
          pc,        \* where each goroutine is inside Write
          job,       \* the arguments each goroutine called Write with
          registry,  \* HashRegistry.entries
          lastOwn    \* history: the bytes the daemon renamed last to each path

writerVars == <<disk, lock, pc, job, registry, lastOwn>>

Jobs == [path : Paths, content : Contents]

\* The steps of Write under the mutex, in program order.
Critical == {"locked", "staged", "renamed"}

WriterTypeOK ==
  /\ disk \in [Paths -> Contents \union {None}]
  /\ lock \in [Paths -> Writers \union {None}]
  /\ pc \in [Writers -> {"idle", "waiting"} \union Critical]
  /\ job \in [Writers -> Jobs \union {None}]
  /\ registry \in [Paths -> Contents \union {None}]
  /\ lastOwn \in [Paths -> Contents \union {None}]

WriterInit ==
  /\ disk \in [Paths -> Contents \union {None}]
  /\ lock = [p \in Paths |-> None]
  /\ pc = [w \in Writers |-> "idle"]
  /\ job = [w \in Writers |-> None]
  /\ registry = [p \in Paths |-> None]
  /\ lastOwn = [p \in Paths |-> None]

-----------------------------------------------------------------------------
(* Writer.Write *)

\* A handler calls Write: the bytes are fixed now, before the mutex is asked for.
Call(w, p, c) ==
  /\ pc[w] = "idle"
  /\ pc' = [pc EXCEPT ![w] = "waiting"]
  /\ job' = [job EXCEPT ![w] = [path |-> p, content |-> c]]
  /\ UNCHANGED <<disk, lock, registry, lastOwn>>

\* Mutant: a mutex of its own for every call.
AcquireUnshared(w) ==
  /\ pc[w] = "waiting"
  /\ lock' = [lock EXCEPT ![job[w].path] = w]
  /\ pc' = [pc EXCEPT ![w] = "locked"]
  /\ UNCHANGED <<disk, job, registry, lastOwn>>

\* LoadOrStore of the path's mutex, then Lock.
Acquire(w) ==
  /\ pc[w] = "waiting"
  /\ lock[job[w].path] = None
  /\ lock' = [lock EXCEPT ![job[w].path] = w]
  /\ pc' = [pc EXCEPT ![w] = "locked"]
  /\ UNCHANGED <<disk, job, registry, lastOwn>>

\* CreateTemp, Write, Sync and Close of the temp file; its name is not a
\* markdown name, so nothing but this goroutine ever looks at it.
Stage(w) ==
  /\ pc[w] = "locked"
  /\ pc' = [pc EXCEPT ![w] = "staged"]
  /\ UNCHANGED <<disk, lock, job, registry, lastOwn>>

\* Mutant: the mutex covers the rename but not the registry.
PublishAndUnlock(w) ==
  /\ pc[w] = "staged"
  /\ disk' = [disk EXCEPT ![job[w].path] = job[w].content]
  /\ lastOwn' = [lastOwn EXCEPT ![job[w].path] = job[w].content]
  /\ lock' = [lock EXCEPT ![job[w].path] = None]
  /\ pc' = [pc EXCEPT ![w] = "renamed"]
  /\ UNCHANGED <<job, registry>>

\* os.Rename: the file holds the new bytes, the registry does not know yet.
Publish(w) ==
  /\ pc[w] = "staged"
  /\ disk' = [disk EXCEPT ![job[w].path] = job[w].content]
  /\ lastOwn' = [lastOwn EXCEPT ![job[w].path] = job[w].content]
  /\ pc' = [pc EXCEPT ![w] = "renamed"]
  /\ UNCHANGED <<lock, job, registry>>

\* Mutant: the mutex stays locked.
ReturnLocked(w) ==
  /\ lock' = lock
  /\ pc' = [pc EXCEPT ![w] = "idle"]
  /\ job' = [job EXCEPT ![w] = None]

\* The return from Write: the deferred Unlock runs.
Return(w) ==
  /\ lock' = [lock EXCEPT ![job[w].path] = None]
  /\ pc' = [pc EXCEPT ![w] = "idle"]
  /\ job' = [job EXCEPT ![w] = None]

\* registry.Record, then the successful return.
Record(w) ==
  /\ pc[w] = "renamed"
  /\ registry' = [registry EXCEPT ![job[w].path] = job[w].content]
  /\ Return(w)
  /\ UNCHANGED <<disk, lastOwn>>

\* Any error before or at the rename: the temp file is removed, nothing is
\* published, nothing is recorded.
Fail(w) ==
  /\ pc[w] \in {"locked", "staged"}
  /\ Return(w)
  /\ UNCHANGED <<disk, registry, lastOwn>>

WriteStep(w) == Acquire(w) \/ Stage(w) \/ Publish(w) \/ Record(w) \/ Fail(w)

-----------------------------------------------------------------------------
(* HashRegistry.Check and everybody else's writes *)

\* Mutant: any entry of the path is a match.
IsEchoOfAny(p, h) == h # None /\ registry[p] # None

\* The answer of HashRegistry.Check.
IsEcho(p, h) == h # None /\ registry[p] = h

\* Mutant: a match stays in the map.
AfterCheckKept(p, h) == registry

\* What Check leaves in the map: a match is consumed.
AfterCheck(p, h) ==
  IF IsEcho(p, h) THEN [registry EXCEPT ![p] = None] ELSE registry

\* The watcher asks about a hash it has computed at some earlier moment.
Check(p, h) ==
  /\ registry' = AfterCheck(p, h)
  /\ UNCHANGED <<disk, lock, pc, job, lastOwn>>

\* An editor, git or a sync tool replaces or deletes the file: no mutex is asked.
UserEdit(p, c) ==
  /\ disk[p] # c
  /\ disk' = [disk EXCEPT ![p] = c]
  /\ UNCHANGED <<lock, pc, job, registry, lastOwn>>

-----------------------------------------------------------------------------
WriterNext ==
  \/ \E w \in Writers : \/ \E p \in Paths, c \in Contents : Call(w, p, c)
                        \/ WriteStep(w)
  \/ \E p \in Paths, h \in Contents : Check(p, h)
  \/ \E p \in Paths, c \in Contents \union {None} : UserEdit(p, c)

WriterSpec == WriterInit /\ [][WriterNext]_writerVars

(* Go's mutex hands over to a waiter after a millisecond of starvation, so a
   goroutine that keeps finding it free gets it; a running goroutine finishes. *)
WriterFairness ==
  \A w \in Writers : /\ SF_writerVars(Acquire(w))
                     /\ WF_writerVars(Stage(w) \/ Publish(w) \/ Record(w) \/ Fail(w))

FairWriterSpec == WriterSpec /\ WriterFairness

-----------------------------------------------------------------------------
(* Properties *)

\* Two goroutines are never inside Write's critical section for the same path
\* (writer.go "Writes to the same path serialize").
MutualExclusion ==
  \A v, w \in Writers :
    /\ v # w
    /\ pc[v] \in Critical
    /\ pc[w] \in Critical
    => job[v].path # job[w].path

\* A registry entry never names bytes older than the daemon's latest rename of
\* that path, except while the goroutine that renamed has not reached Record:
\* two writes of one path cannot record in the opposite order of their renames.
RegistryIsLatestOwn ==
  \A p \in Paths :
    \/ registry[p] \in {None, lastOwn[p]}
    \/ \E w \in Writers : pc[w] = "renamed" /\ job[w].path = p

\* Every call of Write returns, whoever else writes the same path.
WriteReturns == \A w \in Writers : pc[w] = "waiting" ~> pc[w] = "idle"

\* The threads of the writer implement one serialized file per path.
Serial == INSTANCE SerialVault WITH
            file <- disk, tag <- registry, own <- lastOwn,
            busy <- {job[w].path : w \in {v \in Writers : pc[v] = "renamed"}}

SerialSpec == Serial!Spec

=============================================================================
