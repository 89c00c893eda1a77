-------------------------- MODULE Scheduler_proofs --------------------------
(***************************************************************************)
(* What holds of Scheduler for every set of tasks, every cron library that *)
(* answers with a later moment, every capacity and every clock.            *)
(***************************************************************************)
EXTENDS Scheduler, TLAPS, WellFoundedInduction

\* Every cron expression fires again after any moment: what the code relies on,
\* and what an expression like "30 February" breaks (the library answers 0).
CronAdvances ==
  \A v \in Crons, t \in 0 .. MaxTime : NextCron(v, t) > t

-----------------------------------------------------------------------------
(* The operators *)

LEMMA TimesAreNat == Start \in Nat /\ MaxTime \in Nat /\ Onces \subseteq Nat /\ 0 \notin Onces
BY TimeAssumption

LEMMA CapsAreNat == SubCap \in Nat /\ DueCap \in Nat /\ MaxEdits \in Nat
BY CapacityAssumption

\* scheduleLocked leaves no entry or one for the task it was given, of a known type.
LEMMA EntryForType ==
  ASSUME NEW task \in TaskRecords \union {None}, NEW after \in 0 .. MaxTime
  PROVE  /\ EntryFor(task, after) \in Entries \union {None}
         /\ EntryFor(task, after) # None => /\ task # None
                                            /\ EntryFor(task, after).task = task
         /\ task # None /\ task.value \in Crons => EntryFor(task, after) # None
<1>1. task # None => task \in TaskRecords /\ task.value \in Values
  BY DEF TaskRecords
<1>2. task # None => NextFireValue(task.value, after) \in Nat \union {None}
  BY <1>1, CronAssumption, TimesAreNat DEF NextFireValue
<1>3. task # None /\ task.value \in Crons => NextFireValue(task.value, after) # None
  BY CronAssumption, NoneAssumption DEF NextFireValue
<1>4. ASSUME task # None, NextFireValue(task.value, after) # None
      PROVE  /\ EntryFor(task, after) \in Entries
             /\ EntryFor(task, after).task = task
  BY <1>1, <1>2, <1>4 DEF EntryFor, Entries
<1>5. ASSUME NEW e \in Entries PROVE e # None
  BY NoneAssumption
<1>6. QED
  BY <1>3, <1>4, <1>5 DEF EntryFor

\* What scheduleLocked arms lies strictly after the moment it was given, if the
\* cron library's answers do.
LEMMA EntryForLater ==
  ASSUME CronAdvances,
         NEW task \in TaskRecords \union {None}, NEW after \in 0 .. MaxTime,
         EntryFor(task, after) # None
  PROVE  EntryFor(task, after).fireAt > after
BY NoneAssumption DEF EntryFor, NextFireValue, CronAdvances

\* rearm never asks for a moment later than an entry of the heap, or than now.
LEMMA RearmCovers ==
  ASSUME NEW h \in [Ids -> Entries \union {None}], now \in Nat
  PROVE  /\ Rearm(h) \in Nat \union {None}
         /\ \A id \in Armed(h) : /\ Rearm(h) # None
                                 /\ Rearm(h) <= Later(h[id].fireAt, now)
<1>1. \A id \in Armed(h) : h[id].fireAt \in Nat
  BY DEF Armed, Entries
<1>2. CASE Armed(h) = {}
  BY <1>2 DEF Rearm
<1>3. CASE Armed(h) # {}
  <2> DEFINE T == {h[id].fireAt : id \in Armed(h)}
  <2>1. T \subseteq Nat /\ T # {}
    BY <1>1, <1>3
  <2>2. PICK x \in T : \A y \in T : ~ (<<y, x>> \in OpToRel(<, Nat))
    BY <2>1, NatLessThanWellFounded, WFMin, Zenon
  <2>3. ASSUME NEW y \in T PROVE x <= y
    <3>1. x \in Nat /\ y \in Nat
      BY <2>1, <2>2
    <3>2. <<y, x>> \notin {ss \in Nat \X Nat : ss[1] < ss[2]}
      BY <2>2 DEF OpToRel
    <3>3. QED BY <3>1, <3>2
  <2>4. PICK id \in Armed(h) : x = h[id].fireAt
    OBVIOUS
  <2>5. \A other \in Armed(h) : h[id].fireAt <= h[other].fireAt
    BY <2>3, <2>4
  <2> DEFINE first == CHOOSE k \in Armed(h) :
                        \A other \in Armed(h) : h[k].fireAt <= h[other].fireAt
  <2>6. /\ first \in Armed(h)
        /\ \A other \in Armed(h) : h[first].fireAt <= h[other].fireAt
    BY <2>5
  <2>7. Rearm(h) = Later(h[first].fireAt, now)
    BY <1>3 DEF Rearm
  <2> HIDE DEF first
  <2>8. Rearm(h) \in Nat
    BY <1>1, <2>6, <2>7 DEF Later
  <2>9. QED
    BY <1>1, <2>6, <2>7, <2>8, NoneAssumption DEF Later
<1>4. QED BY <1>2, <1>3

\* A change names tasks, or None, for ids.
LEMMA ChangeEntries ==
  ASSUME NEW change \in Changes, NEW id \in DOMAIN change
  PROVE  id \in Ids /\ change[id] \in TaskRecords \union {None}
BY DEF Changes

-----------------------------------------------------------------------------
(* The inductive invariant *)

\* Before Run there is nothing armed, and before Subscribe nothing to hear.
QuietBeforeRun ==
  /\ phase # "running" => /\ heap = [id \in Ids |-> None]
                          /\ popped = [id \in Ids |-> None]
                          /\ timer = None
  /\ phase = "new" => sub = <<>>

\* An entry being handled is due and has left the heap.
PoppedIsDue ==
  \A id \in Ids : popped[id] # None => /\ heap[id] = None
                                       /\ popped[id].fireAt <= now

SchedInv ==
  /\ TypeOK
  /\ QuietBeforeRun
  /\ PoppedIsDue
  /\ NeverEarly
  /\ SlotsAdvance
  /\ TimerCoversHeap

LEMMA SchedInit == Init => SchedInv
<1> SUFFICES ASSUME Init PROVE SchedInv
  OBVIOUS
<1> USE DEF Init
<1>1. TypeOK
  BY TimesAreNat, TimeAssumption, CapsAreNat DEF TypeOK
<1>2. QuietBeforeRun /\ PoppedIsDue
  BY DEF QuietBeforeRun, PoppedIsDue
<1>3. NeverEarly /\ SlotsAdvance /\ TimerCoversHeap
  BY DEF NeverEarly, SlotsAdvance, TimerCoversHeap, Idle
<1>4. QED BY <1>1, <1>2, <1>3 DEF SchedInv


\* What the subscriber and the world around it do leaves heap and timer alone.
LEMMA AroundType ==
  TypeOK /\ (Receive \/ EditTasks \/ ReconcileFails \/ Tick) => TypeOK'
<1> SUFFICES ASSUME TypeOK, Receive \/ EditTasks \/ ReconcileFails \/ Tick PROVE TypeOK'
  OBVIOUS
<1> USE DEF TypeOK
<1>1. CASE Receive
  <2>1. due' \in Seq(Ids) /\ Len(due') <= DueCap
    BY <1>1, CapsAreNat DEF Receive
  <2>2. QED BY <1>1, <2>1 DEF Receive
<1>2. CASE EditTasks
  <2>0. PICK S \in SUBSET Ids :
           \E change \in [S -> TaskRecords \union {None}] : Publish(change)
    BY <1>2 DEF EditTasks
  <2>1. PICK change \in [S -> TaskRecords \union {None}] : Publish(change)
    BY <2>0
  <2>2. change \in Changes /\ DOMAIN change = S
    BY DEF Changes
  <2>3. live' \in [Ids -> TaskRecords \union {None}]
    BY <2>1, <2>2 DEF Publish
  <2>4. sub' \in Seq(Changes) /\ Len(sub') <= SubCap
    <3>1. CASE sub' = sub
      BY <3>1
    <3>2. CASE Len(sub) < SubCap /\ sub' = Append(sub, change)
      BY <2>2, <3>2, CapsAreNat
    <3>3. QED BY <2>1, <3>1, <3>2 DEF Publish
  <2>5. missed' \subseteq Ids
    BY <2>1, <2>2 DEF Publish
  <2>6. edits' \in 0 .. MaxEdits
    BY <2>1, CapsAreNat DEF Publish
  <2>7. QED BY <2>1, <2>3, <2>4, <2>5, <2>6 DEF Publish
<1>3. CASE Tick
  <2>1. now' \in Start .. MaxTime
    BY <1>3, TimesAreNat DEF Tick
  <2>2. QED BY <1>3, <2>1 DEF Tick
<1>4. CASE ReconcileFails
  <2>1. edits' \in 0 .. MaxEdits
    BY <1>4, CapsAreNat DEF ReconcileFails
  <2>2. live' \in [Ids -> TaskRecords \union {None}] /\ missed' \subseteq Ids
    BY <1>4 DEF ReconcileFails
  <2>3. QED BY <1>4, <2>1, <2>2 DEF ReconcileFails
<1>5. QED BY <1>1, <1>2, <1>3, <1>4

LEMMA TypeStep == TypeOK /\ PoppedIsDue /\ [Next]_vars => TypeOK'
<1> SUFFICES ASSUME TypeOK, PoppedIsDue, [Next]_vars PROVE TypeOK'
  OBVIOUS
<1> USE DEF TypeOK
<1>0. now \in Nat /\ now \in 0 .. MaxTime
  BY TimesAreNat
<1>1. CASE Subscribe
  BY <1>1 DEF Subscribe
<1>2. CASE Seed
  <2>1. heap' \in [Ids -> Entries \union {None}]
    BY <1>0, <1>2, EntryForType DEF Seed
  <2>2. timer' \in Nat \union {None}
    BY <1>0, <1>2, <2>1, RearmCovers DEF Seed
  <2>3. QED BY <1>2, <2>1, <2>2 DEF Seed
<1>3. CASE Apply
  <2>1. Head(sub) \in Changes /\ Tail(sub) \in Seq(Changes) /\ Len(Tail(sub)) <= SubCap
    BY <1>3, CapsAreNat DEF Apply
  <2>2. heap' \in [Ids -> Entries \union {None}]
    BY <1>0, <1>3, <2>1, ChangeEntries, EntryForType DEF Apply
  <2>3. timer' \in Nat \union {None}
    BY <1>0, <1>3, <2>2, RearmCovers DEF Apply
  <2>4. QED BY <1>3, <2>1, <2>2, <2>3 DEF Apply
<1>4. CASE Fire
  <2>1. /\ heap' \in [Ids -> Entries \union {None}]
        /\ popped' \in [Ids -> Entries \union {None}]
    BY <1>4 DEF Fire, IsDue
  <2>2. timer' \in Nat \union {None}
    BY <1>0, <1>4, <2>1, RearmCovers DEF Fire
  <2>3. QED BY <1>4, <2>1, <2>2 DEF Fire
<1>5. ASSUME NEW id \in Ids, SendDue(id) PROVE TypeOK'
  <2>1. PICK e \in Entries : e = popped[id] /\ e # None
    BY <1>5 DEF SendDue
  <2>2. e.task \in TaskRecords /\ e.fireAt \in 0 .. MaxTime
    BY <1>0, <2>1, TimesAreNat DEF PoppedIsDue, Entries
  <2>3. due' \in Seq(Ids) /\ Len(due') <= DueCap
    BY <1>5, CapsAreNat DEF SendDue, Offer
  <2>4. heap' \in [Ids -> Entries \union {None}]
    BY <1>5, <2>1, <2>2, EntryForType DEF SendDue
  <2>5. timer' \in Nat \union {None}
    BY <1>0, <1>5, <2>4, RearmCovers DEF SendDue
  <2>6. popped' \in [Ids -> Entries \union {None}]
    BY <1>5 DEF SendDue
  <2>7. slots' \in [Ids -> SUBSET Nat]
    BY <1>5, <2>1, <2>2, TimesAreNat DEF SendDue
  <2>8. QED BY <1>5, <2>3, <2>4, <2>5, <2>6, <2>7 DEF SendDue
<1>6. CASE Receive \/ EditTasks \/ ReconcileFails \/ Tick
  BY <1>6, AroundType
<1>7. CASE UNCHANGED vars
  BY <1>7 DEF vars
<1>8. QED
  BY <1>1, <1>2, <1>3, <1>4, <1>5, <1>6, <1>7 DEF Next

\* Whatever is being handled is due, and its id is not on the heap meanwhile.
LEMMA QuietAndPoppedStep ==
  TypeOK /\ QuietBeforeRun /\ PoppedIsDue /\ [Next]_vars
    => QuietBeforeRun' /\ PoppedIsDue'
<1> SUFFICES ASSUME TypeOK, QuietBeforeRun, PoppedIsDue, [Next]_vars
             PROVE  QuietBeforeRun' /\ PoppedIsDue'
  OBVIOUS
<1>0. now \in Nat
  BY TimesAreNat DEF TypeOK
<1> USE DEF QuietBeforeRun, PoppedIsDue
<1>1. CASE Subscribe
  BY <1>1 DEF Subscribe
<1>2. CASE Seed
  BY <1>2 DEF Seed
<1>3. CASE Apply
  BY <1>3 DEF Apply, Idle
<1>4. CASE Fire
  BY <1>4 DEF Fire, Idle, IsDue, TypeOK
<1>5. ASSUME NEW id \in Ids, SendDue(id) PROVE QuietBeforeRun' /\ PoppedIsDue'
  <2>1. phase = "running"
    BY <1>5, NoneAssumption DEF SendDue, TypeOK
  <2>2. PoppedIsDue'
    BY <1>5 DEF SendDue, TypeOK
  <2>3. QED BY <1>5, <2>1, <2>2 DEF SendDue
<1>6. CASE Receive
  BY <1>6 DEF Receive
<1>7. CASE EditTasks \/ ReconcileFails
  BY <1>7 DEF EditTasks, ReconcileFails, Publish
<1>8. CASE Tick
  <2>1. \A id \in Ids : popped[id] # None => popped[id].fireAt \in Nat
    BY DEF TypeOK, Entries
  <2>2. QED BY <1>0, <1>8, <2>1 DEF Tick
<1>9. CASE UNCHANGED vars
  BY <1>9 DEF vars
<1>10. QED
  BY <1>1, <1>2, <1>3, <1>4, <1>5, <1>6, <1>7, <1>8, <1>9 DEF Next

LEMMA NeverEarlyStep ==
  TypeOK /\ PoppedIsDue /\ NeverEarly /\ [Next]_vars => NeverEarly'
<1> SUFFICES ASSUME TypeOK, PoppedIsDue, NeverEarly, [Next]_vars PROVE NeverEarly'
  OBVIOUS
<1> USE DEF NeverEarly
<1>0. now \in Nat /\ \A id \in Ids : slots[id] \subseteq Nat
  BY TimesAreNat DEF TypeOK
<1>1. ASSUME NEW id \in Ids, SendDue(id) PROVE NeverEarly'
  BY <1>0, <1>1 DEF SendDue, PoppedIsDue, TypeOK
<1>2. CASE Tick
  BY <1>0, <1>2 DEF Tick
<1>3. CASE UNCHANGED <<now, slots>>
  BY <1>3
<1>4. QED
  BY <1>1, <1>2, <1>3
  DEF Next, vars, Subscribe, Seed, Apply, Fire, Receive, EditTasks, ReconcileFails, Publish

LEMMA SlotsStep ==
  ASSUME CronAdvances, SchedInv, [Next]_vars
  PROVE  SlotsAdvance'
<1> USE DEF SlotsAdvance
<1>0. /\ TypeOK /\ QuietBeforeRun /\ PoppedIsDue /\ NeverEarly /\ SlotsAdvance
      /\ now \in 0 .. MaxTime
      /\ \A id \in Ids : slots[id] \subseteq Nat
  BY TimesAreNat DEF SchedInv, TypeOK
<1>1. ASSUME NEW task \in TaskRecords \union {None}, NEW id \in Ids,
             EntryFor(task, now) # None, NEW x \in slots[id]
      PROVE  x < EntryFor(task, now).fireAt
  <2>1. EntryFor(task, now).fireAt > now
    BY <1>0, <1>1, EntryForLater
  <2>2. EntryFor(task, now).fireAt \in Nat
    BY <1>0, <1>1, EntryForType DEF Entries
  <2>3. x <= now /\ x \in Nat
    BY <1>0 DEF NeverEarly
  <2>4. QED BY <1>0, <2>1, <2>2, <2>3
<1>2. CASE Seed
  BY <1>0, <1>1, <1>2 DEF Seed, TypeOK
<1>3. CASE Apply
  <2>1. Head(sub) \in Changes
    BY <1>0, <1>3 DEF Apply, TypeOK
  <2>2. QED BY <1>0, <1>1, <1>3, <2>1, ChangeEntries DEF Apply, TypeOK
<1>4. CASE Fire
  BY <1>0, <1>4 DEF Fire, TypeOK
<1>5. ASSUME NEW id \in Ids, SendDue(id) PROVE SlotsAdvance'
  <2>1. PICK e \in Entries : e = popped[id] /\ e # None
    BY <1>0, <1>5 DEF SendDue, TypeOK
  <2>2. e.task \in TaskRecords /\ e.fireAt \in 0 .. MaxTime /\ heap[id] = None
    BY <1>0, <2>1, TimesAreNat DEF PoppedIsDue, Entries
  <2>3. \A x \in slots[id] : x < e.fireAt
    BY <1>0, <2>1
  <2>4. EntryFor(e.task, e.fireAt) # None =>
          /\ EntryFor(e.task, e.fireAt).fireAt \in Nat
          /\ e.fireAt < EntryFor(e.task, e.fireAt).fireAt
    BY <2>2, EntryForType, EntryForLater DEF Entries
  <2>5. heap'[id] # None => \A x \in slots'[id] : x < heap'[id].fireAt
    BY <1>0, <1>5, <2>1, <2>2, <2>3, <2>4 DEF SendDue, TypeOK
  <2>6. popped'[id] = None
    BY <1>0, <1>5 DEF SendDue, TypeOK
  <2>7. ASSUME NEW other \in Ids, other # id
        PROVE  /\ heap'[other] = heap[other] /\ popped'[other] = popped[other]
               /\ slots'[other] = slots[other]
    BY <1>0, <1>5, <2>7 DEF SendDue, TypeOK
  <2>8. QED BY <1>0, <2>5, <2>6, <2>7
<1>6. CASE UNCHANGED <<heap, popped, slots>>
  BY <1>0, <1>6
<1>7. QED
  BY <1>2, <1>3, <1>4, <1>5, <1>6
  DEF Next, vars, Subscribe, Receive, EditTasks, ReconcileFails, Publish, Tick

LEMMA TimerStep ==
  TypeOK /\ QuietBeforeRun /\ PoppedIsDue /\ TimerCoversHeap /\ [Next]_vars
    => TimerCoversHeap'
<1> SUFFICES ASSUME TypeOK, QuietBeforeRun, PoppedIsDue, TimerCoversHeap, [Next]_vars
             PROVE  TimerCoversHeap'
  OBVIOUS
<1>0. /\ TypeOK /\ TypeOK' /\ QuietBeforeRun /\ TimerCoversHeap
      /\ now \in Nat /\ now' \in Nat
  BY TypeStep, TimesAreNat DEF TypeOK
<1> USE DEF TimerCoversHeap
<1>1. ASSUME timer' = Rearm(heap'), now' = now PROVE TimerCoversHeap'
  <2>1. heap' \in [Ids -> Entries \union {None}]
    BY <1>0 DEF TypeOK
  <2>2. \A id \in Armed(heap') : /\ Rearm(heap') # None
                                 /\ Rearm(heap') <= Later(heap'[id].fireAt, now)
    BY <1>0, <2>1, RearmCovers
  <2>3. QED BY <1>1, <2>2
<1>2. CASE Subscribe
  BY <1>2 DEF Subscribe, Idle
<1>3. CASE Seed
  BY <1>1, <1>3 DEF Seed
<1>4. CASE Apply
  BY <1>1, <1>4 DEF Apply
<1>5. CASE Fire
  <2>1. CASE Armed(popped') = {}
    BY <1>1, <1>5, <2>1 DEF Fire
  <2>2. CASE Armed(popped') # {}
    BY <2>2 DEF Armed, Idle
  <2>3. QED BY <2>1, <2>2
<1>6. ASSUME NEW id \in Ids, SendDue(id) PROVE TimerCoversHeap'
  <2>1. CASE Armed(popped') = {}
    BY <1>1, <1>6, <2>1 DEF SendDue
  <2>2. CASE Armed(popped') # {}
    BY <2>2 DEF Armed, Idle
  <2>3. QED BY <2>1, <2>2
<1>7. CASE Tick
  <2>1. UNCHANGED <<heap, timer, popped, phase>> /\ now <= now'
    BY <1>0, <1>7 DEF Tick
  <2>2. \A id \in Armed(heap) : heap[id].fireAt \in Nat
    BY <1>0 DEF TypeOK, Armed, Entries
  <2>3. Armed(heap') = Armed(heap) /\ (Idle' <=> Idle)
    BY <2>1 DEF Armed, Idle
  <2>4. ASSUME Idle, NEW id \in Armed(heap)
        PROVE  timer # None /\ timer <= Later(heap[id].fireAt, now')
    <3>1. timer # None /\ timer <= Later(heap[id].fireAt, now) /\ timer \in Nat
      BY <1>0, <2>4 DEF TypeOK
    <3>2. heap[id].fireAt \in Nat
      BY <2>2
    <3>3. QED BY <1>0, <2>1, <3>1, <3>2 DEF Later
  <2>5. QED BY <2>1, <2>3, <2>4
<1>8. CASE UNCHANGED <<now, heap, timer, popped, phase>>
  BY <1>0, <1>8 DEF Armed, Idle
<1>9. QED
  BY <1>2, <1>3, <1>4, <1>5, <1>6, <1>7, <1>8
  DEF Next, vars, Receive, EditTasks, ReconcileFails, Publish

-----------------------------------------------------------------------------
(* The theorems *)

\* The invariant needs the cron library's answers to lie ahead.
THEOREM SchedInvariant ==
  ASSUME CronAdvances
  PROVE  Spec => []SchedInv
<1>1. SchedInv /\ [Next]_vars => SchedInv'
  BY TypeStep, QuietAndPoppedStep, NeverEarlyStep, SlotsStep, TimerStep DEF SchedInv
<1>2. QED BY SchedInit, <1>1, PTL DEF Spec

\* Values stay in their types, whatever the cron library answers.
THEOREM SchedTypes == Spec => []TypeOK
<1> DEFINE Small == TypeOK /\ QuietBeforeRun /\ PoppedIsDue
<1>1. Init => Small
  BY SchedInit DEF SchedInv
<1>2. Small /\ [Next]_vars => Small'
  BY TypeStep, QuietAndPoppedStep
<1>3. QED BY <1>1, <1>2, PTL DEF Spec

\* No fire point is handed over twice and none out of order (scheduler.go: "a
\* @once fires exactly once", no "instant fire storm"), as long as every cron
\* expression has a later fire point.
THEOREM SlotsAdvanceAlways ==
  ASSUME CronAdvances
  PROVE  Spec => []SlotsAdvance
<1>1. SchedInv => SlotsAdvance
  BY DEF SchedInv
<1>2. QED BY <1>1, SchedInvariant, PTL

\* Nothing fires before its time, whatever the cron library answers.
THEOREM NeverEarlyAlways == Spec => []NeverEarly
<1> DEFINE Small == TypeOK /\ QuietBeforeRun /\ PoppedIsDue /\ NeverEarly
<1>1. Init => Small
  BY SchedInit DEF SchedInv
<1>2. Small /\ [Next]_vars => Small'
  BY TypeStep, QuietAndPoppedStep, NeverEarlyStep
<1>3. QED BY <1>1, <1>2, PTL DEF Spec

\* The single timer of Run covers the whole heap (rearm), whatever the cron
\* library answers.
THEOREM TimerAlwaysCovers == Spec => []TimerCoversHeap
<1> DEFINE Small == TypeOK /\ QuietBeforeRun /\ PoppedIsDue /\ TimerCoversHeap
<1>1. Init => Small
  BY SchedInit DEF SchedInv
<1>2. Small /\ [Next]_vars => Small'
  BY TypeStep, QuietAndPoppedStep, TimerStep
<1>3. QED BY <1>1, <1>2, PTL DEF Spec

-----------------------------------------------------------------------------
(* The heap follows the index *)

\* Some queued change is about id.
Pending(id) == \E i \in 1 .. Len(sub) : id \in DOMAIN sub[i]

\* The last queued change about an id says what the index says.
LastWord(id) ==
  \A i \in 1 .. Len(sub) :
    /\ id \in DOMAIN sub[i]
    /\ \A j \in i + 1 .. Len(sub) : id \notin DOMAIN sub[j]
    => sub[i][id] = live[id]

\* What is armed or being handled for id is the index's task.
Known(id) ==
  /\ heap[id] # None => heap[id].task = live[id]
  /\ popped[id] # None => popped[id].task = live[id]
  /\ live[id] # None /\ live[id].value \in Crons => heap[id] # None \/ popped[id] # None

\* Every id without a dropped change is either up to date or in the queue.
FollowInv ==
  \A id \in Ids \ missed :
    /\ LastWord(id)
    /\ phase = "running" /\ ~Pending(id) => Known(id)

LEMMA FollowApply ==
  TypeOK /\ FollowInv /\ Apply => FollowInv'
<1> SUFFICES ASSUME TypeOK, FollowInv, Apply, NEW id \in Ids \ missed
             PROVE  LastWord(id)' /\ (~Pending(id)' => Known(id)')
  BY DEF FollowInv, Apply
<1>1. /\ sub \in Seq(Changes) /\ Len(sub) \in Nat /\ Len(sub) > 0
      /\ Len(sub') = Len(sub) - 1
      /\ \A i \in 1 .. Len(sub') : sub'[i] = sub[i + 1]
      /\ Head(sub) = sub[1] /\ sub[1] \in Changes
  BY DEF Apply, TypeOK
<1>2. UNCHANGED <<live, popped, missed, phase>> /\ phase = "running" /\ popped[id] = None
  BY DEF Apply, Idle
<1>3. LastWord(id)'
  <2>1. LastWord(id)
    BY DEF FollowInv
  <2>2. SUFFICES ASSUME NEW i \in 1 .. Len(sub'), id \in DOMAIN sub'[i],
                        \A j \in i + 1 .. Len(sub') : id \notin DOMAIN sub'[j]
                 PROVE  sub'[i][id] = live'[id]
    BY DEF LastWord
  <2>3. i + 1 \in 1 .. Len(sub) /\ id \in DOMAIN sub[i + 1]
    BY <1>1, <2>2
  <2>4. ASSUME NEW j \in (i + 1) + 1 .. Len(sub) PROVE id \notin DOMAIN sub[j]
    <3>1. j - 1 \in i + 1 .. Len(sub') /\ sub'[j - 1] = sub[j]
      BY <1>1, <2>4
    <3>2. QED BY <2>2, <3>1
  <2>5. QED BY <1>1, <1>2, <2>1, <2>3, <2>4 DEF LastWord
<1>4. ASSUME ~Pending(id)' PROVE Known(id)'
  <2>1. ASSUME NEW j \in 2 .. Len(sub) PROVE id \notin DOMAIN sub[j]
    <3>1. j - 1 \in 1 .. Len(sub') /\ sub'[j - 1] = sub[j]
      BY <1>1, <2>1
    <3>2. QED BY <1>4, <3>1 DEF Pending
  <2>2. CASE id \in DOMAIN sub[1]
    <3>1. sub[1][id] = live[id]
      BY <1>1, <2>1, <2>2 DEF FollowInv, LastWord
    <3>2. sub[1][id] \in TaskRecords \union {None} /\ now \in 0 .. MaxTime
      BY <1>1, <2>2, ChangeEntries, TimesAreNat DEF TypeOK
    <3>3. heap'[id] = EntryFor(live[id], now)
      BY <1>1, <2>2, <3>1 DEF Apply
    <3>4. QED BY <1>2, <3>1, <3>2, <3>3, EntryForType DEF Known
  <2>3. CASE id \notin DOMAIN sub[1]
    <3>1. ~Pending(id)
      BY <1>1, <2>1, <2>3 DEF Pending
    <3>2. Known(id)
      BY <1>2, <3>1 DEF FollowInv
    <3>3. heap'[id] = heap[id]
      BY <1>1, <2>3 DEF Apply
    <3>4. QED BY <1>2, <3>2, <3>3 DEF Known
  <2>4. QED BY <2>2, <2>3
<1>5. QED BY <1>3, <1>4

LEMMA FollowPublish ==
  ASSUME TypeOK, QuietBeforeRun, FollowInv,
         NEW change \in Changes, Publish(change)
  PROVE  FollowInv'
<1> SUFFICES ASSUME NEW id \in Ids \ missed'
             PROVE  /\ LastWord(id)'
                    /\ phase' = "running" /\ ~Pending(id)' => Known(id)'
  BY DEF FollowInv
<1>1. /\ id \in Ids /\ sub \in Seq(Changes) /\ Len(sub) \in Nat
      /\ UNCHANGED <<phase, heap, popped>>
      /\ id \notin missed => LastWord(id) /\ (phase = "running" /\ ~Pending(id) => Known(id))
  BY DEF Publish, TypeOK, FollowInv
<1>2. id \notin DOMAIN change => live'[id] = live[id]
  BY DEF Publish, TypeOK
<1>3. CASE phase = "new"
  BY <1>1, <1>3 DEF Publish, QuietBeforeRun, LastWord
<1>4. CASE phase # "new" /\ Len(sub) < SubCap
  <2>1. /\ Len(sub') = Len(sub) + 1
        /\ \A i \in 1 .. Len(sub) : sub'[i] = sub[i]
        /\ sub'[Len(sub) + 1] = change
    BY <1>1, <1>4, CapsAreNat DEF Publish
  <2>2. CASE id \in DOMAIN change
    <3>1. live'[id] = change[id]
      BY <2>2 DEF Publish
    <3>2. Pending(id)'
      BY <1>1, <2>1, <2>2 DEF Pending
    <3>3. LastWord(id)'
      BY <1>1, <2>1, <2>2, <3>1 DEF LastWord
    <3>4. QED BY <3>2, <3>3
  <2>3. CASE id \notin DOMAIN change
    <3> id \notin missed
      BY <1>4, <2>3, CapsAreNat DEF Publish
    <3>1. Pending(id)' => Pending(id)
      BY <1>1, <2>1, <2>3 DEF Pending
    <3>2. Pending(id) => Pending(id)'
      BY <1>1, <2>1 DEF Pending
    <3>3. LastWord(id)'
      BY <1>1, <1>2, <2>1, <2>3 DEF LastWord
    <3>4. QED BY <1>1, <1>2, <2>3, <3>2, <3>3 DEF Known
  <2>4. QED BY <2>2, <2>3
<1>5. CASE phase # "new" /\ Len(sub) = SubCap
  <2>1. sub' = sub /\ id \notin DOMAIN change /\ id \notin missed
    BY <1>5, CapsAreNat DEF Publish
  <2>2. QED BY <1>1, <1>2, <2>1 DEF LastWord, Pending, Known
<1>6. QED BY <1>3, <1>4, <1>5 DEF Publish

LEMMA FollowFails ==
  TypeOK /\ QuietBeforeRun /\ FollowInv /\ ReconcileFails => FollowInv'
<1> SUFFICES ASSUME TypeOK, QuietBeforeRun, FollowInv, ReconcileFails,
                    NEW id \in Ids \ missed'
             PROVE  /\ LastWord(id)'
                    /\ phase' = "running" /\ ~Pending(id)' => Known(id)'
  BY DEF FollowInv
<1>1. PICK S \in SUBSET {k \in Ids : live[k] # None} :
        /\ live' = [k \in Ids |-> IF k \in S THEN None ELSE live[k]]
        /\ missed' = IF phase = "new" THEN missed ELSE missed \union S
        /\ UNCHANGED <<sub, phase, heap, popped>>
  BY DEF ReconcileFails
<1>2. id \in Ids \ missed
  BY <1>1
<1>3. CASE phase = "new"
  <2>1. sub = <<>>
    BY <1>3 DEF QuietBeforeRun
  <2>2. LastWord(id)'
    BY <1>1, <2>1 DEF LastWord
  <2>3. QED BY <1>1, <1>3, <2>2
<1>4. CASE phase # "new"
  <2>1. live'[id] = live[id]
    BY <1>1, <1>2, <1>4
  <2>2. QED BY <1>1, <1>2, <2>1 DEF FollowInv, LastWord, Pending, Known
<1>5. QED BY <1>3, <1>4

LEMMA FollowStep ==
  TypeOK /\ QuietBeforeRun /\ PoppedIsDue /\ FollowInv /\ [Next]_vars => FollowInv'
<1> SUFFICES ASSUME TypeOK, QuietBeforeRun, PoppedIsDue, FollowInv, [Next]_vars
             PROVE  FollowInv'
  OBVIOUS
<1>0. now \in 0 .. MaxTime
  BY TimesAreNat DEF TypeOK
<1>1. CASE Subscribe
  BY <1>1 DEF Subscribe, FollowInv, LastWord
<1>2. CASE Seed
  <2>1. \A id \in Ids : popped[id] = None
    BY <1>2 DEF Seed, QuietBeforeRun
  <2>2. ASSUME NEW id \in Ids PROVE Known(id)'
    BY <1>0, <1>2, <2>1, EntryForType DEF Seed, Known, TypeOK
  <2>3. QED BY <1>2, <2>2 DEF Seed, FollowInv, LastWord
<1>3. CASE Apply
  BY <1>3, FollowApply
<1>4. CASE Fire
  <2>1. ASSUME NEW id \in Ids, Known(id) PROVE Known(id)'
    BY <1>4, <2>1 DEF Fire, Idle, Known, TypeOK
  <2>2. QED BY <1>4, <2>1 DEF Fire, FollowInv, LastWord, Pending
<1>5. ASSUME NEW id \in Ids, SendDue(id) PROVE FollowInv'
  <2>1. PICK e \in Entries : e = popped[id] /\ e # None
    BY <1>5 DEF SendDue, TypeOK
  <2>2. /\ e.task \in TaskRecords /\ e.task # None
        /\ e.fireAt \in 0 .. MaxTime /\ heap[id] = None
    BY <1>0, <2>1, TimesAreNat, NoneAssumption DEF PoppedIsDue, Entries
  <2>3. Known(id) => Known(id)'
    <3>1. popped'[id] = None /\ live' = live
      BY <1>5 DEF SendDue, TypeOK
    <3>2. CASE e.task.value \in Crons
      <4>1. heap'[id] = EntryFor(e.task, e.fireAt)
        BY <1>5, <2>1, <3>2 DEF SendDue, TypeOK
      <4>2. QED BY <2>1, <2>2, <3>1, <3>2, <4>1, EntryForType DEF Known
    <3>3. CASE e.task.value \notin Crons
      <4>1. heap'[id] = None
        BY <1>5, <2>1, <2>2, <3>3 DEF SendDue
      <4>2. QED BY <2>1, <3>1, <3>3, <4>1 DEF Known
    <3>4. QED BY <3>2, <3>3
  <2>4. ASSUME NEW other \in Ids, other # id, Known(other) PROVE Known(other)'
    BY <1>5, <2>4 DEF SendDue, Known, TypeOK
  <2>5. UNCHANGED <<sub, missed, phase, live>>
    BY <1>5 DEF SendDue
  <2>6. QED BY <2>3, <2>4, <2>5 DEF FollowInv, LastWord, Pending
<1>6. CASE EditTasks
  <2>1. PICK S \in SUBSET Ids :
           \E change \in [S -> TaskRecords \union {None}] : Publish(change)
    BY <1>6 DEF EditTasks
  <2>2. PICK change \in [S -> TaskRecords \union {None}] : Publish(change)
    BY <2>1
  <2>3. change \in Changes
    BY DEF Changes
  <2>4. QED BY <2>2, <2>3, FollowPublish
<1>7. CASE UNCHANGED <<sub, missed, phase, live, heap, popped>>
  BY <1>7 DEF FollowInv, LastWord, Pending, Known
<1>8. QED
  BY <1>1, <1>2, <1>3, <1>4, <1>5, <1>6, <1>7, FollowFails DEF Next, vars, Receive, Tick

\* A scheduler that has applied what it was sent is armed for exactly what the index
\* holds of every task whose latest change reached it: subscribing before the snapshot is
\* taken loses nothing, and a dropped change is made good by the next one of its task.
THEOREM HeapAlwaysFollows == Spec => []HeapFollowsIndex
<1> DEFINE Small == TypeOK /\ QuietBeforeRun /\ PoppedIsDue /\ FollowInv
<1>1. Init => Small
  <2>1. Init => FollowInv
    BY DEF Init, FollowInv, LastWord
  <2>2. QED BY <2>1, SchedInit DEF SchedInv
<1>2. Small /\ [Next]_vars => Small'
  BY TypeStep, QuietAndPoppedStep, FollowStep
<1>3. Small => HeapFollowsIndex
  BY DEF HeapFollowsIndex, FollowInv, Pending, Known, Idle
<1>4. QED BY <1>1, <1>2, <1>3, PTL DEF Spec

=============================================================================
