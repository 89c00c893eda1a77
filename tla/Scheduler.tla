----------------------------- MODULE Scheduler -----------------------------
(***************************************************************************)
(* internal/engine/schedule/scheduler.go over internal/events/bus.go: one  *)
(* goroutine keeps a heap of next fire points behind a single timer, fed   *)
(* by the index's changes through a bounded subscription, and hands due    *)
(* tasks to a bounded channel.  Neither channel ever blocks its sender.    *)
(*                                                                         *)
(* Time is a natural number; 0 is Go's zero time, before every clock       *)
(* reading.  The cron library is external: NextCron(v, t) is its answer,   *)
(* and 0 is how it says that an expression never fires.                    *)
(***************************************************************************)
EXTENDS Integers, Sequences, FiniteSets

CONSTANTS Ids,         \* task identities
          Crons,       \* cron expressions (@schedule)
          Onces,       \* moments (@once), numbers
          Notes,       \* everything else a task line can say
          NextCron(_, _),
          None,
          SubCap,      \* buffer of the subscription
          DueCap,      \* buffer of Due (64 in the code)
          Start,       \* the clock when the model begins
          MaxTime,     \* bound: the last moment of the clock
          MaxEdits     \* bound: changes of the index

ASSUME TimeAssumption ==
  /\ Onces \subseteq Nat \ {0}
  /\ Start \in Nat \ {0} /\ MaxTime \in Nat /\ Start <= MaxTime
ASSUME CapacityAssumption == {SubCap, DueCap, MaxEdits} \subseteq Nat
ASSUME CronAssumption ==
  \A v \in Crons, t \in 0 .. MaxTime : NextCron(v, t) \in Nat
\* schedulableValue's result: a task has a cron, a moment, or neither.
Values == Crons \union Onces \union {None}
TaskRecords == [value : Values, note : Notes]

\* A heap entry: a task and its next fire point.
Entries == [task : TaskRecords, fireAt : Nat]

ASSUME NoneAssumption ==
  /\ None \notin Crons /\ None \notin Nat /\ Crons \intersect Nat = {}
  /\ None \notin TaskRecords /\ None \notin Entries

VARIABLES now,      \* the wall clock
          live,     \* the index: each id's task, None if it has none
          sub,      \* the subscription's channel of changes
          missed,   \* ids whose latest change never got into sub
          phase,    \* New's steps, then Run
          heap,     \* heap and byID: each id's entry, None if it has none
          timer,    \* the moment timerC is ready, None for a nil channel
          popped,   \* entries fire() has taken off the heap and not yet handled
          due,      \* the channel of due tasks
          edits,
          slots     \* history: the fire points each id was handed over at

vars == <<now, live, sub, missed, phase, heap, timer, popped, due, edits, slots>>

Changes == UNION {[S -> TaskRecords \union {None}] : S \in SUBSET Ids}

TypeOK ==
  /\ now \in Start .. MaxTime
  /\ live \in [Ids -> TaskRecords \union {None}]
  /\ sub \in Seq(Changes) /\ Len(sub) <= SubCap
  /\ missed \subseteq Ids
  /\ phase \in {"new", "subscribed", "running"}
  /\ heap \in [Ids -> Entries \union {None}]
  /\ timer \in Nat \union {None}
  /\ popped \in [Ids -> Entries \union {None}]
  /\ due \in Seq(Ids) /\ Len(due) <= DueCap
  /\ edits \in 0 .. MaxEdits
  /\ slots \in [Ids -> SUBSET Nat]

Init ==
  /\ now = Start
  /\ live \in [Ids -> TaskRecords \union {None}]
  /\ sub = <<>> /\ missed = {}
  /\ phase = "new"
  /\ heap = [id \in Ids |-> None]
  /\ timer = None
  /\ popped = [id \in Ids |-> None]
  /\ due = <<>>
  /\ edits = 0
  /\ slots = [id \in Ids |-> {}]

-----------------------------------------------------------------------------
(* Fire points and the timer *)

\* Mutant: a moment that is now counts as still to come.
NextFireValueFromNow(v, after) ==
  IF v \in Crons THEN NextCron(v, after)
  ELSE IF v \in Onces /\ v >= after THEN v
  ELSE None

\* NextFireValue: None when there is no fire point.  The zero time of a cron
\* expression that never fires is passed on as if it were one.
NextFireValue(v, after) ==
  IF v \in Crons THEN NextCron(v, after)
  ELSE IF v \in Onces /\ v > after THEN v
  ELSE None

\* scheduleLocked: the entry that replaces whatever the id had.
EntryFor(task, after) ==
  IF task = None \/ NextFireValue(task.value, after) = None
  THEN None
  ELSE [task |-> task, fireAt |-> NextFireValue(task.value, after)]

Armed(h) == {id \in Ids : h[id] # None}

Later(a, b) == IF a > b THEN a ELSE b

\* Mutant: no timer for a fire point that has passed.
RearmFuture(h) ==
  IF Armed(h) = {} \/ \E id \in Armed(h) : h[id].fireAt <= now
  THEN None
  ELSE LET first == CHOOSE id \in Armed(h) :
                      \A other \in Armed(h) : h[id].fireAt <= h[other].fireAt
       IN h[first].fireAt

\* rearm: nil for an empty heap, otherwise the earliest fire point, now if past.
Rearm(h) ==
  IF Armed(h) = {}
  THEN None
  ELSE LET first == CHOOSE id \in Armed(h) :
                      \A other \in Armed(h) : h[id].fireAt <= h[other].fireAt
       IN Later(h[first].fireAt, now)

-----------------------------------------------------------------------------
(* New: the caller subscribes, then New reads a snapshot of the tasks *)

Subscribe ==
  /\ phase = "new"
  /\ phase' = "subscribed"
  /\ UNCHANGED <<now, live, sub, missed, heap, timer, popped, due, edits, slots>>

Seed ==
  /\ phase = "subscribed"
  /\ phase' = "running"
  /\ heap' = [id \in Ids |-> EntryFor(live[id], now)]
  /\ timer' = Rearm(heap')
  /\ UNCHANGED <<now, live, sub, missed, popped, due, edits, slots>>

-----------------------------------------------------------------------------
(* Run: one select over the subscription and the timer *)

Idle == phase = "running" /\ \A id \in Ids : popped[id] = None

\* Mutant: the timer is left as it was.
ApplyOnly ==
  /\ Idle
  /\ sub # <<>>
  /\ LET change == Head(sub) IN
       heap' = [id \in Ids |-> IF id \in DOMAIN change
                               THEN EntryFor(change[id], now) ELSE heap[id]]
  /\ sub' = Tail(sub)
  /\ UNCHANGED <<now, live, missed, phase, timer, popped, due, edits, slots>>

\* Mutant: removed tasks stay on the heap.
ApplyUpdates ==
  /\ Idle
  /\ sub # <<>>
  /\ LET change == Head(sub) IN
       heap' = [id \in Ids |-> IF id \in DOMAIN change /\ change[id] # None
                               THEN EntryFor(change[id], now) ELSE heap[id]]
  /\ sub' = Tail(sub)
  /\ timer' = Rearm(heap')
  /\ UNCHANGED <<now, live, missed, phase, popped, due, edits, slots>>

\* apply: added and updated tasks get a new fire point after now, removed ones
\* and ones without a value lose theirs.
Apply ==
  /\ Idle
  /\ sub # <<>>
  /\ LET change == Head(sub) IN
       heap' = [id \in Ids |-> IF id \in DOMAIN change
                               THEN EntryFor(change[id], now) ELSE heap[id]]
  /\ sub' = Tail(sub)
  /\ timer' = Rearm(heap')
  /\ UNCHANGED <<now, live, missed, phase, popped, due, edits, slots>>

\* fire, first part: every entry due by now leaves the heap.
IsDue(id) == heap[id] # None /\ heap[id].fireAt <= now

Fire ==
  /\ Idle
  /\ timer # None /\ timer <= now
  /\ popped' = [id \in Ids |-> IF IsDue(id) THEN heap[id] ELSE None]
  /\ heap' = [id \in Ids |-> IF IsDue(id) THEN None ELSE heap[id]]
  /\ timer' = IF Armed(popped') = {} THEN Rearm(heap') ELSE None
  /\ UNCHANGED <<now, live, sub, missed, phase, due, edits, slots>>

\* Mutant: a due task is queued whatever the buffer holds.
OfferAlways(id) == Append(due, id)

\* sendDue: the channel after offering a task to it; a full one drops the task.
Offer(id) == IF Len(due) < DueCap THEN Append(due, id) ELSE due

\* fire, second part, for the earliest of them: sendDue, and for a cron the next
\* fire point after this one.  The last one is followed by rearm.
SendDue(id) ==
  LET e == popped[id] IN
  /\ e # None
  /\ \A other \in Armed(popped) : e.fireAt <= popped[other].fireAt
  /\ due' = Offer(id)
  /\ heap' = IF e.task.value \in Crons
             THEN [heap EXCEPT ![id] = EntryFor(e.task, e.fireAt)] ELSE heap
  /\ popped' = [popped EXCEPT ![id] = None]
  /\ timer' = IF Armed(popped') = {} THEN Rearm(heap') ELSE None
  /\ slots' = [slots EXCEPT ![id] = @ \union {e.fireAt}]
  /\ UNCHANGED <<now, live, sub, missed, phase, edits>>

-----------------------------------------------------------------------------
(* Around the scheduler *)

\* Whoever reads Due; the code has no such reader yet.
Receive ==
  /\ due # <<>>
  /\ due' = Tail(due)
  /\ UNCHANGED <<now, live, sub, missed, phase, heap, timer, popped, edits, slots>>

\* The index changes the tasks of one file and publishes: a subscriber whose
\* buffer is full misses the change, until the next one of the same task.
Publish(change) ==
  /\ edits < MaxEdits
  /\ edits' = edits + 1
  /\ live' = [id \in Ids |-> IF id \in DOMAIN change THEN change[id] ELSE live[id]]
  /\ \/ phase = "new" /\ UNCHANGED <<sub, missed>>
     \/ /\ phase # "new" /\ Len(sub) < SubCap
        /\ sub' = Append(sub, change)
        /\ missed' = missed \ DOMAIN change
     \/ /\ phase # "new" /\ Len(sub) = SubCap
        /\ missed' = missed \union DOMAIN change
        /\ UNCHANGED sub
  /\ UNCHANGED <<now, phase, heap, timer, popped, due, slots>>

EditTasks ==
  \E S \in SUBSET Ids \ {{}} : \E change \in [S -> TaskRecords \union {None}] :
    /\ \A id \in S : change[id] # live[id]
    /\ Publish(change)

\* A file that cannot be read takes its tasks out of the index, and nothing is published.
ReconcileFails ==
  /\ edits < MaxEdits
  /\ edits' = edits + 1
  /\ \E S \in SUBSET {id \in Ids : live[id] # None} \ {{}} :
       /\ live' = [id \in Ids |-> IF id \in S THEN None ELSE live[id]]
       /\ missed' = IF phase = "new" THEN missed ELSE missed \union S
  /\ UNCHANGED <<now, sub, phase, heap, timer, popped, due, slots>>

Tick ==
  /\ now < MaxTime
  /\ now' = now + 1
  /\ UNCHANGED <<live, sub, missed, phase, heap, timer, popped, due, edits, slots>>

Next ==
  \/ Subscribe \/ Seed
  \/ Apply \/ Fire
  \/ \E id \in Ids : SendDue(id)
  \/ Receive
  \/ EditTasks \/ ReconcileFails
  \/ Tick

Spec == Init /\ [][Next]_vars

\* Time passes; the goroutine runs, and its select starves neither case.
Fairness ==
  /\ WF_vars(Tick)
  /\ WF_vars(Subscribe) /\ WF_vars(Seed)
  /\ SF_vars(Apply) /\ SF_vars(Fire)
  /\ WF_vars(\E id \in Ids : SendDue(id))

FairSpec == Spec /\ Fairness

-----------------------------------------------------------------------------
(* Properties *)

\* No fire point of a task is handed over twice and none after a later one: what
\* is armed lies beyond everything handed over before, edits or not.
SlotsAdvance ==
  \A id \in Ids : \A x \in slots[id] :
    /\ heap[id] # None => x < heap[id].fireAt
    /\ popped[id] # None => x < popped[id].fireAt

\* Nothing is handed over before its time.
NeverEarly == \A id \in Ids : \A x \in slots[id] : x <= now

\* The single timer never sleeps past an entry: while the goroutine waits, a
\* non-empty heap has a timer, due no later than its earliest entry (or now).
TimerCoversHeap ==
  Idle => \A id \in Armed(heap) :
            timer # None /\ timer <= Later(heap[id].fireAt, now)

\* With every queued change applied, the heap holds nothing but the index's tasks, and
\* every task with a cron; except for a task whose latest change was dropped because the
\* buffer was full, or never published because its file could not be read.
HeapFollowsIndex ==
  Idle /\ sub = <<>> =>
    \A id \in Ids \ missed :
      /\ heap[id] # None => live[id] = heap[id].task
      /\ live[id] # None /\ live[id].value \in Crons => heap[id] # None

\* No fire point stays armed once its time has come: again and again, nothing on
\* the heap is overdue.
OverdueFires ==
  \A id \in Ids : []<>(heap[id] = None \/ heap[id].fireAt > now)

=============================================================================
