----------------------------- MODULE FirePolicy -----------------------------
(***************************************************************************)
(* internal/engine/schedule/{fire,suppress,missed}.go and the handlers     *)
(* that show their answers: when did a task fire last, will it be          *)
(* suppressed, was a fire missed?                                          *)
(*                                                                         *)
(* The cron library only looks forward, so the previous fire is searched   *)
(* by walking through a window before the moment asked about, and through  *)
(* a wider one if that was empty.  One step of the walk is one action.     *)
(* Moments are natural numbers, 0 the zero time; what a cron expression    *)
(* means is the set of its fire points.                                    *)
(***************************************************************************)
EXTENDS Integers, Sequences, FiniteSets

CONSTANTS Times,     \* moments
          Tasks,     \* what the indexed line of a task may say
          Windows,   \* lookbackWindows
          None       \* no such directive, no fire, no search, no answer

States == {"active", "triggered", "paused", "completed", "failed", "absent"}

\* The directives that decide; no @skip_count reads like 0.  wrong: are the five fields
\* of @schedule, which is all that is asked of a line, nothing that the library parses?
Values ==
  [state : States, cron : BOOLEAN, wrong : BOOLEAN, once : Times \union {None},
   skipUntil : Times \union {None}, completed : Times \union {None},
   skips : Nat, triggered : Times \union {None}]

\* What decides a call of Evaluate.
Rungs == {"state", "skip_until", "error", "last_completed", "skip_count", "dispatch"}

ASSUME PolicyAssumption ==
  /\ Times \subseteq Nat \ {0}
  /\ Tasks \subseteq Values
  /\ Windows \in Seq(Nat \ {0}) /\ Windows # <<>>
  /\ \A m, n \in DOMAIN Windows : m < n => Windows[m] < Windows[n]
  /\ None \notin Nat \union Rungs

VARIABLES fires,    \* the fire points of the task's cron expression
          vault,    \* the task's line in its file
          task,     \* the index's task
          now,
          walk,     \* a search for the previous fire, and what it is for
          answer    \* what the latest call came to

vars == <<fires, vault, task, now, walk, answer>>

-----------------------------------------------------------------------------
(* Fire points *)

\* cron.Schedule.Next, the library's: the first fire after t, or the zero time.
CronNext(t) ==
  IF \E f \in fires : f > t
  THEN CHOOSE f \in fires : f > t /\ \A g \in fires : g > t => f <= g
  ELSE 0

\* schedulableValue prefers the cron expression.
Schedulable(v) == v.cron \/ v.once # None

\* NextFireValue, None for "no such fire" and for an error.
NextFireValue(v, after) ==
  IF v.cron THEN IF v.wrong THEN None ELSE CronNext(after)
  ELSE IF v.once > after THEN v.once ELSE None

\* PrevFireValue of a @once.
PrevOnce(v, after) == IF v.once <= after THEN v.once ELSE None

-----------------------------------------------------------------------------
(* The ladder of suppression and the missed triggers *)

\* Mutant: a queued skip is used up before anything else is asked.
FirstRungsSwapped(v, at) ==
  IF v.skips > 0 THEN "skip_count"
  ELSE IF v.state \notin {"active", "triggered"} THEN "state"
  ELSE IF v.skipUntil # None /\ v.skipUntil > at THEN "skip_until" ELSE None

FirstRungs(v, at) ==
  IF v.state \notin {"active", "triggered"} THEN "state"
  ELSE IF v.skipUntil # None /\ v.skipUntil > at THEN "skip_until"
  ELSE None

\* The rung that decides, prev being the fire before at; "error" is Evaluate's error,
\* which clients see as "not suppressed".
Rung(v, at, prev) ==
  IF FirstRungs(v, at) # None THEN FirstRungs(v, at)
  ELSE IF v.completed # None /\ v.cron /\ v.wrong THEN "error"
  ELSE IF v.completed # None /\ prev # None /\ prev <= v.completed /\ v.completed < at
       THEN "last_completed"
  ELSE IF v.skips > 0 THEN "skip_count"
  ELSE "dispatch"

\* Mutant: a fire that is recorded as the last one is missed.
MissedAtLast(v, at, prev) ==
  IF v.once # None THEN v.once <= at /\ v.triggered = None
  ELSE prev # None /\ prev < at /\ (v.triggered = None \/ prev >= v.triggered)

\* detectOnce and detectSchedule, prev being the latest fire up to at; an error is no
\* missed trigger.
Missed(v, at, prev) ==
  IF v.once # None THEN v.once <= at /\ v.triggered = None
  ELSE prev # None /\ prev < at /\ (v.triggered = None \/ prev > v.triggered)

\* Does the call have to search the fires of the cron expression?
Searches(op, v, at) ==
  /\ v.cron /\ ~v.wrong
  /\ IF op = "evaluate"
     THEN FirstRungs(v, at) = None /\ v.completed # None
     ELSE v.once = None

\* The previous fire is asked for up to here: a call at a fire means the one before.
UpTo(op, at) == IF op = "evaluate" THEN at - 1 ELSE at

\* written: what the line says once the call has been answered.
Answer(op, v, written, at, prev) ==
  [op |-> op, at |-> at, task |-> v, written |-> written, prev |-> prev,
   rung |-> IF op = "evaluate" THEN Rung(v, at, prev) ELSE None,
   missed |-> op = "missed" /\ (v.cron \/ v.once # None) /\ Missed(v, at, prev)]

-----------------------------------------------------------------------------
(* The search *)

\* latestFireInRange starts: the first fire of a window.
Search(op, v, written, at, n) ==
  [op |-> op, at |-> at, task |-> v, written |-> written, window |-> n,
   next |-> CronNext(UpTo(op, at) - Windows[n]), last |-> None]

End(s) == UpTo(s.op, s.at)

\* Mutant: the upper bound is exclusive.
InRangeExclusive(s) == s.next # 0 /\ s.next < End(s)

InRange(s) == s.next # 0 /\ s.next <= End(s)

TypeOK ==
  /\ fires \subseteq Times
  /\ vault \in Values /\ task \in Values
  /\ now \in Times
  /\ walk \in {None} \union
       [op : {"evaluate", "missed"}, at : Times, task : Values, written : Values,
        window : DOMAIN Windows, next : Times \union {0}, last : Times \union {None}]
  /\ answer \in {None} \union
       [op : {"evaluate", "missed"}, at : Times, task : Values, written : Values,
        prev : Times \union {None},
        rung : Rungs \union {None},
        missed : BOOLEAN]

Init ==
  /\ fires \in SUBSET Times
  /\ task \in Tasks /\ vault = task
  /\ now \in Times
  /\ walk = None /\ answer = None

\* A call of Evaluate or DetectMissed for v, at a moment no earlier than the last.
Call(op, v, written, at) ==
  /\ walk = None
  /\ now <= at /\ now' = at
  /\ IF Searches(op, v, at)
     THEN /\ walk' = Search(op, v, written, at, 1)
          /\ answer' = None
     ELSE /\ answer' = Answer(op, v, written, at,
                              IF v.cron \/ v.once = None THEN None ELSE PrevOnce(v, UpTo(op, at)))
          /\ walk' = None

Step ==
  /\ walk # None /\ InRange(walk)
  /\ walk' = [walk EXCEPT !.last = walk.next, !.next = CronNext(@)]
  /\ UNCHANGED <<fires, vault, task, now, answer>>

\* Nothing in this window.
Widen ==
  /\ walk # None /\ ~InRange(walk) /\ walk.last = None
  /\ walk.window < Len(Windows)
  /\ walk' = Search(walk.op, walk.task, walk.written, walk.at, walk.window + 1)
  /\ UNCHANGED <<fires, vault, task, now, answer>>

\* Mutant: whether a fire was found at all is ignored.
ReturnZero ==
  /\ walk # None /\ ~InRange(walk)
  /\ walk.last # None \/ walk.window = Len(Windows)
  /\ answer' = Answer(walk.op, walk.task, walk.written, walk.at,
                      IF walk.last = None THEN 0 ELSE walk.last)
  /\ walk' = None
  /\ UNCHANGED <<fires, vault, task, now>>

Return ==
  /\ walk # None /\ ~InRange(walk)
  /\ walk.last # None \/ walk.window = Len(Windows)
  /\ answer' = Answer(walk.op, walk.task, walk.written, walk.at, walk.last)
  /\ walk' = None
  /\ UNCHANGED <<fires, vault, task, now>>

-----------------------------------------------------------------------------
(* The callers *)

\* buildTaskDTO for a GET or an event.
GetTask(at) ==
  /\ Call("evaluate", task, task, at)
  /\ UNCHANGED <<fires, vault, task>>

\* DetectMissed, for one task.
DetectMissed(at) ==
  /\ Call("missed", task, task, at)
  /\ UNCHANGED <<fires, vault, task>>

\* What Fulfill stamps on a line whose box is unchecked, when every write succeeds
\* (TaskActions has the rest), and what FulfillTaskHandler shows of it.
Stamped(line, v, at) ==
  IF ~v.cron THEN [line EXCEPT !.state = "completed"]
  ELSE [line EXCEPT !.completed = at, !.state = IF v.state = "triggered" THEN "active" ELSE @]

Shown(v, at) ==
  IF v.once # None THEN [v EXCEPT !.state = "completed"]
  ELSE [v EXCEPT !.completed = at, !.state = IF @ = "triggered" THEN "active" ELSE @]

FulfillTask(at) ==
  /\ Schedulable(task)
  /\ vault' = Stamped(vault, task, at)
  /\ Call("evaluate", Shown(task, at), vault', at)
  /\ UNCHANGED <<fires, task>>

\* The watcher has the file read again.
Reindex ==
  /\ task # vault
  /\ task' = vault
  /\ UNCHANGED <<fires, vault, now, walk, answer>>

Next ==
  \/ \E at \in Times : GetTask(at) \/ FulfillTask(at) \/ DetectMissed(at)
  \/ Step \/ Widen \/ Return
  \/ Reindex

Spec == Init /\ [][Next]_vars

-----------------------------------------------------------------------------
(* Properties *)

\* The widest window that is searched.
Lookback == Windows[Len(Windows)]

\* p is the fire that "previous fire" means for a call at `at`.
IsPrevious(p, op, at) ==
  LET before == {f \in fires : f <= UpTo(op, at)} IN
  IF \E f \in before : f > UpTo(op, at) - Lookback
  THEN p \in before /\ \A f \in before : f <= p
  ELSE p = None

\* Walking forward through growing windows finds the latest fire at or before the
\* moment asked about, and nothing only if there is none within the lookback
\* (fire.go PrevFire).
PreviousIsLatest ==
  answer # None /\ Searches(answer.op, answer.task, answer.at)
    => IsPrevious(answer.prev, answer.op, answer.at)

\* The fulfillment at c is early for the fire at f: it lies after the fire before
\* f, that one included, and before f (SDD G8).
EarlyFor(c, f) ==
  /\ c < f
  /\ \A g \in fires : g < f => g <= c
  /\ \E g \in fires : g < f /\ g >= f - Lookback

\* Evaluate decides like SDD G7 says, whatever directives the line combines, and a
\* fulfillment bypasses one fire of a cron expression: the one that follows it (SDD G8).
\* It fails exactly where it has to search the fires of what is no cron expression.
LadderIsG7 ==
  answer # None /\ answer.op = "evaluate" =>
    LET v == answer.task
        up == v.state \in {"active", "triggered"}
        later == v.skipUntil # None /\ v.skipUntil > answer.at
        error == v.cron /\ v.wrong /\ v.completed # None
        early == /\ v.completed # None
                 /\ IF v.cron THEN EarlyFor(v.completed, answer.at)
                    ELSE v.once # None /\ v.once <= v.completed /\ v.completed < answer.at
    IN /\ answer.rung = "state" <=> ~up
       /\ answer.rung = "skip_until" <=> up /\ later
       /\ answer.rung = "error" <=> up /\ ~later /\ error
       /\ answer.rung = "last_completed" <=> up /\ ~later /\ ~error /\ early
       /\ answer.rung = "skip_count" <=> up /\ ~later /\ ~error /\ ~early /\ v.skips > 0

\* A trigger of a cron expression is called missed exactly if a fire lies before
\* now that is younger than the last recorded one, and no fire is due right now (SDD G10).
MissedIsG10 ==
  answer # None /\ answer.op = "missed" /\ answer.task.once = None
    /\ answer.task.cron /\ ~answer.task.wrong =>
    (answer.missed <=>
      /\ answer.at \notin fires
      /\ \E f \in fires : /\ f < answer.at /\ f > answer.at - Lookback
                          /\ answer.task.triggered # None => f > answer.task.triggered)

\* Is the fire at `next` bypassed, if the line stays as it is?
Bypassed(v, next) ==
  \/ FirstRungs(v, next) # None
  \/ v.cron /\ v.completed # None /\ EarlyFor(v.completed, next)
  \/ v.skips > 0

\* What clients are told of the fire to come ("whether the next scheduled fire point
\* will be bypassed", openapi.yaml:639) is what that fire will come to, for a task the
\* vault has as it is shown, except in four cases: a fire is due right now, @skip_until
\* ends before the next one, the fulfillment is not in the past yet, which is how
\* FulfillTaskHandler asks, or the fires are further apart than the search looks back.
AnswerForesees ==
  answer # None /\ answer.op = "evaluate" /\ Schedulable(answer.task)
    /\ answer.written = answer.task =>
    LET v == answer.task
        next == NextFireValue(v, answer.at)
        unclear == \/ answer.at \in fires
                   \/ v.skipUntil # None /\ v.skipUntil > answer.at /\ v.skipUntil <= next
                   \/ v.completed # None /\ v.completed >= answer.at
                   \/ answer.prev # None /\ answer.prev < next - Lookback
    IN next \notin {None, 0} /\ ~unclear =>
         (answer.rung # "dispatch" <=> Bypassed(v, next))

=============================================================================
