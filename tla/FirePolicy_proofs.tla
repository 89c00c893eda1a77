------------------------- MODULE FirePolicy_proofs -------------------------
(***************************************************************************)
(* What holds of FirePolicy for every set of fire points, every growing    *)
(* list of windows and every line of a task.                               *)
(***************************************************************************)
EXTENDS FirePolicy, TLAPS, WellFoundedInduction

-----------------------------------------------------------------------------
(* The operators *)

\* The library's answer is the first fire after t.
LEMMA NextIsFirst ==
  ASSUME fires \subseteq Nat, NEW t \in Int
  PROVE  \/ CronNext(t) = 0 /\ \A f \in fires : f <= t
         \/ /\ CronNext(t) \in fires /\ CronNext(t) > t
            /\ \A g \in fires : g > t => CronNext(t) <= g
<1>1. CASE \E f \in fires : f > t
  <2> DEFINE later == {f \in fires : f > t}
  <2>1. \E x \in later : \A y \in later : ~ (<<y, x>> \in OpToRel(<, Nat))
    <3>1. later \subseteq Nat /\ later # {}
      BY <1>1
    <3>2. QED
      BY <3>1, NatLessThanWellFounded, WFMin
  <2>2. PICK x \in later : \A y \in later : ~ (<<y, x>> \in OpToRel(<, Nat))
    BY <2>1
  <2>3. \A y \in later : x <= y
    <3>1. TAKE y \in later
    <3>2. x \in Nat /\ y \in Nat
      OBVIOUS
    <3>3. ~ (y < x)
      BY <2>2, <3>2 DEF OpToRel
    <3>4. QED
      BY <3>2, <3>3
  <2>4. \E f \in fires : f > t /\ \A g \in fires : g > t => f <= g
    BY <2>3
  <2>5. QED
    BY <1>1, <2>4 DEF CronNext
<1>2. CASE ~ \E f \in fires : f > t
  <2>1. CronNext(t) = 0
    BY <1>2 DEF CronNext
  <2>2. \A f \in fires : f <= t
    BY <1>2
  <2>3. QED
    BY <2>1, <2>2
<1>3. QED
  BY <1>1, <1>2

LEMMA TimesAreNat == Times \subseteq Nat /\ 0 \notin Times
BY PolicyAssumption

\* There is a widest window.
LEMMA WindowsGrow ==
  /\ Len(Windows) \in DOMAIN Windows /\ 1 \in DOMAIN Windows
  /\ DOMAIN Windows = 1 .. Len(Windows) /\ Len(Windows) \in Nat
  /\ \A n \in DOMAIN Windows : Windows[n] \in Nat /\ Windows[n] > 0 /\ Windows[n] <= Lookback
<1>1. Windows \in Seq(Nat \ {0}) /\ Windows # <<>>
  BY PolicyAssumption
<1>2. Len(Windows) \in Nat /\ Len(Windows) # 0 /\ DOMAIN Windows = 1 .. Len(Windows)
  BY <1>1
<1>3. \A n \in DOMAIN Windows : Windows[n] \in Nat \ {0}
  BY <1>1, <1>2
<1>4. \A n \in DOMAIN Windows : n < Len(Windows) => Windows[n] < Windows[Len(Windows)]
  BY <1>2, PolicyAssumption
<1>5. QED
  BY <1>2, <1>3, <1>4 DEF Lookback

LEMMA UpToIsInt ==
  ASSUME NEW op, NEW at \in Times PROVE UpTo(op, at) \in Int
BY TimesAreNat DEF UpTo

\* No rung is None, and the rung is the first one of the ladder that applies.
LEMMA RungIsLadder ==
  ASSUME NEW v \in Values, NEW at \in Times, NEW prev \in Times \union {None}
  PROVE  LET up == v.state \in {"active", "triggered"}
             later == v.skipUntil # None /\ v.skipUntil > at
             early == /\ v.completed # None /\ prev # None
                      /\ prev <= v.completed /\ v.completed < at
             error == v.cron /\ v.wrong /\ v.completed # None
             r == Rung(v, at, prev)
         IN /\ r = "state" <=> ~up
            /\ r = "skip_until" <=> up /\ later
            /\ r = "error" <=> up /\ ~later /\ error
            /\ r = "last_completed" <=> up /\ ~later /\ ~error /\ early
            /\ r = "skip_count" <=> up /\ ~later /\ ~error /\ ~early /\ v.skips > 0
            /\ r \in Rungs
<1>1. None # "state" /\ None # "skip_until"
  BY PolicyAssumption DEF Rungs
<1>2. QED
  BY <1>1 DEF Rung, FirstRungs, Rungs

-----------------------------------------------------------------------------
(* The invariant *)

\* The search stands at the first fire of its window or after the last one it met.
WalkInv ==
  walk # None =>
    /\ Searches(walk.op, walk.task, walk.at)
    /\ LET lo == End(walk) - Windows[walk.window] IN
         \/ walk.last = None /\ walk.next = CronNext(lo)
         \/ /\ walk.last \in fires /\ lo < walk.last /\ walk.last <= End(walk)
            /\ walk.next = CronNext(walk.last)

AnswerInv ==
  answer # None =>
    /\ answer.rung = IF answer.op = "evaluate"
                     THEN Rung(answer.task, answer.at, answer.prev) ELSE None
    /\ answer.missed = (/\ answer.op = "missed"
                        /\ answer.task.cron \/ answer.task.once # None
                        /\ Missed(answer.task, answer.at, answer.prev))
    /\ ~answer.task.cron /\ answer.task.once # None
         => answer.prev = PrevOnce(answer.task, UpTo(answer.op, answer.at))
    /\ ~answer.task.cron /\ answer.task.once = None => answer.prev = None

PolicyInv == TypeOK /\ WalkInv /\ AnswerInv /\ PreviousIsLatest

LEMMA PolicyInit == Init => PolicyInv
BY PolicyAssumption DEF Init, PolicyInv, TypeOK, WalkInv, AnswerInv, PreviousIsLatest

LEMMA AnswerType ==
  ASSUME NEW op \in {"evaluate", "missed"}, NEW v \in Values, NEW w \in Values,
         NEW at \in Times, NEW prev \in Times \union {None}
  PROVE  Answer(op, v, w, at, prev) \in
           [op : {"evaluate", "missed"}, at : Times, task : Values, written : Values,
            prev : Times \union {None},
            rung : Rungs \union {None},
            missed : BOOLEAN]
<1>1. Rung(v, at, prev) \in Rungs
  BY RungIsLadder
<1>2. (op = "missed" /\ (v.cron \/ v.once # None) /\ Missed(v, at, prev)) \in BOOLEAN
  OBVIOUS
<1>3. QED
  BY <1>1, <1>2 DEF Answer

LEMMA SearchType ==
  ASSUME fires \subseteq Times,
         NEW op \in {"evaluate", "missed"}, NEW v \in Values, NEW w \in Values,
         NEW at \in Times, NEW n \in DOMAIN Windows
  PROVE  Search(op, v, w, at, n) \in
           [op : {"evaluate", "missed"}, at : Times, task : Values, written : Values,
            window : DOMAIN Windows, next : Times \union {0}, last : Times \union {None}]
<1>1. UpTo(op, at) - Windows[n] \in Int
  BY UpToIsInt, WindowsGrow
<1>2. CronNext(UpTo(op, at) - Windows[n]) \in Times \union {0}
  BY <1>1, NextIsFirst, TimesAreNat
<1>3. QED
  BY <1>2 DEF Search

\* What a call starts or answers at once.
LEMMA CallKeeps ==
  ASSUME PolicyInv, NEW op \in {"evaluate", "missed"}, NEW v \in Values, NEW w \in Values,
         NEW at \in Times, Call(op, v, w, at), UNCHANGED fires,
         vault' \in Values, task' \in Values
  PROVE  PolicyInv'
<1> USE DEF Call, PolicyInv
<1>1. fires \subseteq Times
  BY DEF TypeOK
<1>2. CASE Searches(op, v, at)
  <2>1. walk' = Search(op, v, w, at, 1) /\ answer' = None
    BY <1>2
  <2>2. TypeOK'
    BY <1>1, <2>1, SearchType, WindowsGrow DEF TypeOK
  <2>3. WalkInv'
    BY <1>2, <2>1 DEF WalkInv, Search, End, Searches, FirstRungs, CronNext
  <2>4. QED
    BY <2>1, <2>2, <2>3 DEF AnswerInv, PreviousIsLatest
<1>3. CASE ~Searches(op, v, at)
  <2> DEFINE prev == IF v.cron \/ v.once = None THEN None ELSE PrevOnce(v, UpTo(op, at))
  <2>1. walk' = None /\ answer' = Answer(op, v, w, at, prev)
    BY <1>3
  <2>2. prev \in Times \union {None}
    BY DEF Values, PrevOnce
  <2>3. TypeOK'
    BY <2>1, <2>2, AnswerType, <1>1 DEF TypeOK
  <2>4. AnswerInv'
    BY <2>1 DEF AnswerInv, Answer
  <2>5. PreviousIsLatest'
    BY <2>1, <1>3 DEF PreviousIsLatest, Answer, Searches, FirstRungs
  <2>6. QED
    BY <2>1, <2>3, <2>4, <2>5 DEF WalkInv
<1>4. QED
  BY <1>2, <1>3

LEMMA StepKeeps == ASSUME PolicyInv, Step PROVE PolicyInv'
<1> USE DEF Step, PolicyInv
<1>1. fires \subseteq Times /\ fires \subseteq Nat
  BY TimesAreNat DEF TypeOK
<1>2. /\ walk.op \in {"evaluate", "missed"} /\ walk.at \in Times
      /\ walk.window \in DOMAIN Windows /\ walk.next \in Times /\ walk.next \in Nat
      /\ walk \in [op : {"evaluate", "missed"}, at : Times, task : Values, written : Values,
                   window : DOMAIN Windows, next : Times \union {0}, last : Times \union {None}]
  BY TimesAreNat DEF TypeOK, InRange
<1>3. /\ End(walk) \in Int
      /\ End(walk) - Windows[walk.window] \in Int
  BY <1>2, UpToIsInt, WindowsGrow DEF End
<1>4. walk.next \in fires /\ walk.next > End(walk) - Windows[walk.window]
  <2>1. CASE walk.last = None /\ walk.next = CronNext(End(walk) - Windows[walk.window])
    BY <2>1, <1>1, <1>2, <1>3, NextIsFirst DEF InRange
  <2>2. CASE /\ walk.last \in fires /\ End(walk) - Windows[walk.window] < walk.last
             /\ walk.next = CronNext(walk.last)
    <3>1. walk.last \in Int /\ walk.next > walk.last /\ walk.next \in fires
      BY <2>2, <1>1, <1>2, NextIsFirst DEF InRange
    <3>2. QED
      BY <3>1, <2>2, <1>2, <1>3
  <2>3. QED
    BY <2>1, <2>2 DEF WalkInv
<1>5. CronNext(walk.next) \in Times \union {0}
  BY <1>1, <1>2, NextIsFirst
<1>6. /\ walk'.op = walk.op /\ walk'.at = walk.at /\ walk'.task = walk.task
      /\ walk'.window = walk.window
      /\ walk'.last = walk.next /\ walk'.next = CronNext(walk.next)
  BY <1>2
<1>7. TypeOK'
  BY <1>2, <1>5 DEF TypeOK
<1>8. WalkInv'
  <2>1. /\ UpTo(walk'.op, walk'.at) = UpTo(walk.op, walk.at)
        /\ walk'.next = CronNext(walk.last)'
    BY <1>6 DEF CronNext
  <2>2. Searches(walk'.op, walk'.task, walk'.at)
    BY <1>6 DEF WalkInv
  <2>3. walk.next <= End(walk)
    BY DEF InRange
  <2>4. /\ walk'.last \in fires'
        /\ UpTo(walk'.op, walk'.at) - Windows[walk'.window] < walk'.last
        /\ walk'.last <= UpTo(walk'.op, walk'.at)
    BY <2>1, <2>3, <1>3, <1>4, <1>6, <1>2 DEF End
  <2>5. QED
    BY <2>1, <2>2, <2>4 DEF WalkInv, End
<1>9. AnswerInv' /\ PreviousIsLatest'
  BY DEF AnswerInv, PreviousIsLatest, IsPrevious
<1>10. QED
  BY <1>7, <1>8, <1>9

LEMMA WidenKeeps == ASSUME PolicyInv, Widen PROVE PolicyInv'
<1> USE DEF Widen, PolicyInv
<1>1. /\ walk.op \in {"evaluate", "missed"} /\ walk.at \in Times
      /\ walk.task \in Values /\ walk.written \in Values
      /\ walk.window + 1 \in DOMAIN Windows
  BY WindowsGrow DEF TypeOK
<1>2. TypeOK'
  BY <1>1, SearchType DEF TypeOK
<1>3. WalkInv'
  BY DEF WalkInv, Search, End, Searches, FirstRungs, CronNext
<1>4. AnswerInv' /\ PreviousIsLatest'
  BY DEF AnswerInv, PreviousIsLatest, IsPrevious
<1>5. QED
  BY <1>2, <1>3, <1>4

\* Where a search ends, it has found the previous fire.
LEMMA SearchFinds ==
  ASSUME PolicyInv, Return
  PROVE  IsPrevious(walk.last, walk.op, walk.at)
<1> USE DEF Return, PolicyInv
<1>1. fires \subseteq Nat /\ 0 \notin fires
  BY TimesAreNat DEF TypeOK
<1>2. /\ walk.op \in {"evaluate", "missed"} /\ walk.at \in Times
      /\ walk.window \in DOMAIN Windows /\ walk.next \in Nat
      /\ walk.last \in Times \union {None}
  BY TimesAreNat DEF TypeOK
<1> DEFINE hi == UpTo(walk.op, walk.at)
           lo == hi - Windows[walk.window]
<1>3. hi \in Int /\ lo \in Int /\ Lookback \in Nat /\ lo >= hi - Lookback
  <2>1. hi \in Int
    BY <1>2, UpToIsInt
  <2>2. /\ Windows[walk.window] \in Nat /\ Windows[walk.window] <= Lookback
        /\ Lookback \in Nat
    BY <1>2, WindowsGrow DEF Lookback
  <2>3. QED
    BY <2>1, <2>2
<1>4. walk.next = 0 \/ walk.next > hi
  BY <1>2, <1>3 DEF InRange, End
<1>5. CASE walk.last = None /\ walk.next = CronNext(lo)
  <2>1. \A f \in fires : f <= lo \/ f > hi
    <3>1. CASE walk.next = 0
      BY <3>1, <1>5, <1>1, <1>3, NextIsFirst
    <3>2. CASE walk.next > hi
      <4>1. hi >= 0
        <5>1. walk.at \in Nat /\ walk.at # 0
          BY <1>2, TimesAreNat
        <5>2. QED
          BY <5>1 DEF UpTo
      <4>2. \A f \in fires : f > lo => walk.next <= f
        <5>1. walk.next # 0 /\ CronNext(lo) = walk.next
          BY <4>1, <3>2, <1>2, <1>3, <1>5
        <5>2. \/ CronNext(lo) = 0
              \/ \A g \in fires : g > lo => CronNext(lo) <= g
          BY <1>1, <1>3, NextIsFirst
        <5>3. QED
          BY <5>1, <5>2
      <4>3. ASSUME NEW f \in fires, f > lo PROVE f > hi
        <5>1. walk.next <= f /\ f \in Nat
          BY <4>2, <4>3, <1>1
        <5>2. QED
          BY <5>1, <3>2, <1>2, <1>3
      <4>4. ASSUME NEW f \in fires, ~ (f <= lo) PROVE f > lo
        <5>1. f \in Nat
          BY <1>1
        <5>2. QED
          BY <5>1, <4>4, <1>3
      <4>5. QED
        BY <4>3, <4>4
    <3>3. QED
      BY <3>1, <3>2, <1>4
  <2>2. walk.window = Len(Windows)
    BY <1>5
  <2>3. lo = hi - Lookback
    BY <2>2 DEF Lookback
  <2>4. QED
    BY <1>5, <2>1, <2>3, <1>1, <1>3 DEF IsPrevious
<1>6. CASE /\ walk.last \in fires /\ lo < walk.last /\ walk.last <= hi
           /\ walk.next = CronNext(walk.last)
  <2>1. walk.last \in Nat
    BY <1>6, <1>1
  <2>2. \A f \in fires : f <= walk.last \/ f > hi
    <3>1. CASE walk.next = 0
      BY <3>1, <1>6, <1>1, <2>1, NextIsFirst
    <3>2. CASE walk.next > hi
      <4>1. CASE walk.next = 0
        BY <4>1, <1>6, <1>1, <2>1, NextIsFirst
      <4>2. CASE walk.next # 0
        <5>1. \A f \in fires : f > walk.last => walk.next <= f
          BY <4>2, <1>6, <1>1, <2>1, NextIsFirst
        <5>2. ASSUME NEW f \in fires, f > walk.last PROVE f > hi
          <6>1. walk.next <= f /\ f \in Nat
            BY <5>1, <5>2, <1>1
          <6>2. QED
            BY <6>1, <3>2, <1>2, <1>3
        <5>3. ASSUME NEW f \in fires, ~ (f <= walk.last) PROVE f > walk.last
          <6>1. f \in Nat
            BY <1>1
          <6>2. QED
            BY <6>1, <5>3, <2>1
        <5>4. QED
          BY <5>2, <5>3
      <4>3. QED
        BY <4>1, <4>2
    <3>3. QED
      BY <3>1, <3>2, <1>4
  <2>3. walk.last > hi - Lookback
    BY <1>6, <1>3, <2>1
  <2>4. QED
    BY <1>6, <2>1, <2>2, <2>3, <1>1, <1>3 DEF IsPrevious
<1>7. QED
  BY <1>5, <1>6 DEF WalkInv, End

LEMMA ReturnKeeps == ASSUME PolicyInv, Return PROVE PolicyInv'
<1>1. IsPrevious(walk.last, walk.op, walk.at) /\ Searches(walk.op, walk.task, walk.at)
  BY SearchFinds DEF Return, PolicyInv, WalkInv
<1> USE DEF Return, PolicyInv
<1>2. /\ walk.op \in {"evaluate", "missed"} /\ walk.at \in Times
      /\ walk.task \in Values /\ walk.written \in Values
      /\ walk.last \in Times \union {None}
  BY DEF TypeOK
<1>3. TypeOK'
  BY <1>2, AnswerType DEF TypeOK
<1>4. AnswerInv'
  BY <1>1 DEF AnswerInv, Answer, Searches
<1>5. PreviousIsLatest'
  BY <1>1 DEF PreviousIsLatest, Answer, IsPrevious
<1>6. QED
  BY <1>3, <1>4, <1>5 DEF WalkInv

\* Only the search, the answer and the schedule count.
LEMMA QuietKeeps ==
  ASSUME PolicyInv, UNCHANGED <<fires, now, walk, answer>>,
         vault' \in Values, task' \in Values
  PROVE  PolicyInv'
<1>1. TypeOK'
  BY DEF PolicyInv, TypeOK
<1>2. WalkInv'
  BY DEF PolicyInv, WalkInv, CronNext
<1>3. AnswerInv'
  BY DEF PolicyInv, AnswerInv
<1>4. PreviousIsLatest'
  BY DEF PolicyInv, PreviousIsLatest, IsPrevious
<1>5. QED
  BY <1>1, <1>2, <1>3, <1>4 DEF PolicyInv

LEMMA PolicyStep == PolicyInv /\ [Next]_vars => PolicyInv'
<1> SUFFICES ASSUME PolicyInv, [Next]_vars PROVE PolicyInv'
  OBVIOUS
<1>0. vault \in Values /\ task \in Values
  BY DEF PolicyInv, TypeOK
<1>1. ASSUME NEW at \in Times, GetTask(at) PROVE PolicyInv'
  <2>1. Call("evaluate", task, task, at) /\ UNCHANGED fires /\ vault' \in Values /\ task' \in Values
    BY <1>0, <1>1 DEF GetTask
  <2>2. QED
    BY <2>1, <1>0, CallKeeps
<1>2. ASSUME NEW at \in Times, DetectMissed(at) PROVE PolicyInv'
  <2>1. Call("missed", task, task, at) /\ UNCHANGED fires /\ vault' \in Values /\ task' \in Values
    BY <1>0, <1>2 DEF DetectMissed
  <2>2. QED
    BY <2>1, <1>0, CallKeeps
<1>3. ASSUME NEW at \in Times, FulfillTask(at) PROVE PolicyInv'
  <2>1. Stamped(vault, task, at) \in Values /\ Shown(task, at) \in Values
    BY <1>0 DEF Stamped, Shown, Values, States
  <2>2. /\ Call("evaluate", Shown(task, at), vault', at) /\ UNCHANGED fires
        /\ vault' \in Values /\ task' \in Values
    BY <1>0, <1>3, <2>1 DEF FulfillTask
  <2>3. QED
    BY <2>1, <2>2, CallKeeps
<1>4. CASE Reindex
  BY <1>0, <1>4, QuietKeeps DEF Reindex
<1>5. CASE UNCHANGED vars
  BY <1>0, <1>5, QuietKeeps DEF vars
<1>6. QED
  BY <1>1, <1>2, <1>3, <1>4, <1>5, StepKeeps, WidenKeeps, ReturnKeeps DEF Next

\* The inductive invariant: a search stands at the first fire of its window or
\* behind the last one it met, and an answer follows from the fire it found.
THEOREM PolicyInvariant == Spec => []PolicyInv
<1>1. PolicyInv /\ UNCHANGED vars => PolicyInv'
  BY PolicyStep
<1>2. QED
  BY PolicyInit, PolicyStep, PTL DEF Spec

-----------------------------------------------------------------------------
(* What the runs check, for every schedule *)

\* The state keeps its types.
THEOREM PolicyTypes == Spec => []TypeOK
<1>1. PolicyInv => TypeOK
  BY DEF PolicyInv
<1>2. QED
  BY <1>1, PolicyInvariant, PTL

\* PrevFire finds the latest fire at or before the moment asked about, whatever
\* the windows are, as long as they grow.
THEOREM PreviousAlwaysLatest == Spec => []PreviousIsLatest
<1>1. PolicyInv => PreviousIsLatest
  BY DEF PolicyInv
<1>2. QED
  BY <1>1, PolicyInvariant, PTL

\* What an answer of Evaluate says of a cron task that is neither stopped nor
\* skipped until later: fulfilled early or not.
LEMMA EarlyIsWindow ==
  ASSUME PolicyInv, answer # None, answer.op = "evaluate",
         answer.task.cron, ~answer.task.wrong,
         FirstRungs(answer.task, answer.at) = None, answer.task.completed # None
  PROVE  EarlyFor(answer.task.completed, answer.at)
           <=> /\ answer.prev # None
               /\ answer.prev <= answer.task.completed
               /\ answer.task.completed < answer.at
<1> DEFINE c == answer.task.completed
           at == answer.at
           p == answer.prev
<1>1. /\ c \in Nat /\ at \in Nat /\ p \in Nat \union {None} /\ None \notin Nat
      /\ fires \subseteq Nat /\ at \in Times
  BY TimesAreNat, PolicyAssumption DEF PolicyInv, TypeOK, Values
<1>2. UpTo("evaluate", at) = at - 1
  BY DEF UpTo
<1>3. Lookback \in Nat
  BY WindowsGrow DEF Lookback
<1>4. IsPrevious(p, "evaluate", at)
  BY DEF PolicyInv, PreviousIsLatest, Searches
<1>5. \A g \in fires : (g <= at - 1 <=> g < at) /\ (g > at - 1 - Lookback <=> g >= at - Lookback)
  BY <1>1, <1>3
<1>6. CASE \E g \in fires : g < at /\ g >= at - Lookback
  <2>1. p \in fires /\ p < at /\ \A f \in fires : f < at => f <= p
    BY <1>2, <1>4, <1>5, <1>6 DEF IsPrevious
  <2>2. (\A g \in fires : g < at => g <= c) <=> p <= c
    <3>1. (\A g \in fires : g < at => g <= c) => p <= c
      BY <2>1
    <3>2. ASSUME p <= c, NEW g \in fires, g < at PROVE g <= c
      <4>1. g <= p /\ g \in Nat /\ p \in Nat
        BY <2>1, <3>2, <1>1
      <4>2. QED
        BY <4>1, <3>2, <1>1
    <3>3. QED
      BY <3>1, <3>2
  <2>3. QED
    BY <2>1, <2>2, <1>1, <1>6 DEF EarlyFor
<1>7. CASE ~ \E g \in fires : g < at /\ g >= at - Lookback
  <2>1. p = None
    BY <1>2, <1>4, <1>5, <1>7 DEF IsPrevious
  <2>2. QED
    BY <2>1, <1>7 DEF EarlyFor
<1>8. QED
  BY <1>6, <1>7

\* Evaluate decides like SDD G7, for every line and every schedule.
THEOREM LadderAlwaysG7 == Spec => []LadderIsG7
<1>1. ASSUME PolicyInv, answer # None, answer.op = "evaluate" PROVE LadderIsG7
  <2> DEFINE v == answer.task
             up == v.state \in {"active", "triggered"}
             later == v.skipUntil # None /\ v.skipUntil > answer.at
             error == v.cron /\ v.wrong /\ v.completed # None
             window == /\ v.completed # None /\ answer.prev # None
                       /\ answer.prev <= v.completed /\ v.completed < answer.at
             early == /\ v.completed # None
                      /\ IF v.cron THEN EarlyFor(v.completed, answer.at)
                         ELSE v.once # None /\ v.once <= v.completed /\ v.completed < answer.at
  <2>1. /\ v \in Values /\ answer.at \in Times /\ answer.prev \in Times \union {None}
        /\ answer.at \in Nat /\ v.completed \in Nat \union {None} /\ v.once \in Nat \union {None}
        /\ None \notin Nat
    BY <1>1, TimesAreNat, PolicyAssumption DEF PolicyInv, TypeOK, Values
  <2>2. answer.rung = Rung(v, answer.at, answer.prev)
    BY <1>1 DEF PolicyInv, AnswerInv
  <2>3. up /\ ~later <=> FirstRungs(v, answer.at) = None
    BY PolicyAssumption DEF FirstRungs, Rungs
  <2>4. up /\ ~later /\ ~error => (early <=> window)
    <3>a. CASE v.completed = None
      BY <3>a
    <3>1. CASE v.cron /\ v.completed # None
      BY <3>1, <1>1, <2>3, EarlyIsWindow
    <3>2. CASE ~v.cron /\ v.once = None
      BY <3>2, <1>1 DEF PolicyInv, AnswerInv
    <3>3. CASE ~v.cron /\ v.once # None
      <4>1. answer.prev = IF v.once <= answer.at - 1 THEN v.once ELSE None
        BY <3>3, <1>1 DEF PolicyInv, AnswerInv, PrevOnce, UpTo
      <4>2. QED
        BY <4>1, <3>3, <2>1
    <3>4. QED
      BY <3>a, <3>1, <3>2, <3>3
  <2>5. /\ answer.rung = "state" <=> ~up
        /\ answer.rung = "skip_until" <=> up /\ later
        /\ answer.rung = "error" <=> up /\ ~later /\ error
        /\ answer.rung = "last_completed" <=> up /\ ~later /\ ~error /\ window
        /\ answer.rung = "skip_count" <=> up /\ ~later /\ ~error /\ ~window /\ v.skips > 0
    BY <2>1, <2>2, RungIsLadder
  <2>6. QED
    BY <2>4, <2>5 DEF LadderIsG7
<1>2. PolicyInv => LadderIsG7
  BY <1>1 DEF LadderIsG7
<1>3. QED
  BY <1>2, PolicyInvariant, PTL

\* A trigger is called missed exactly if SDD G10 says so, for every schedule.
THEOREM MissedAlwaysG10 == Spec => []MissedIsG10
<1>1. ASSUME PolicyInv, answer # None, answer.op = "missed",
             answer.task.cron, ~answer.task.wrong, answer.task.once = None
      PROVE  answer.missed <=>
               /\ answer.at \notin fires
               /\ \E f \in fires : /\ f < answer.at /\ f > answer.at - Lookback
                                   /\ answer.task.triggered # None => f > answer.task.triggered
  <2> DEFINE at == answer.at
             p == answer.prev
             t == answer.task.triggered
  <2>1. /\ at \in Nat /\ p \in Nat \union {None} /\ t \in Nat \union {None}
        /\ None \notin Nat /\ fires \subseteq Nat /\ at \in Times
    BY <1>1, TimesAreNat, PolicyAssumption DEF PolicyInv, TypeOK, Values
  <2>2. Lookback \in Nat /\ Lookback > 0
    BY WindowsGrow DEF Lookback
  <2>3. UpTo("missed", at) = at
    BY DEF UpTo
  <2>4. IsPrevious(p, "missed", at)
    BY <1>1 DEF PolicyInv, PreviousIsLatest, Searches
  <2>5. answer.missed <=> p # None /\ p < at /\ (t = None \/ p > t)
    BY <1>1 DEF PolicyInv, AnswerInv, Missed
  <2>6. CASE \E g \in fires : g <= at /\ g > at - Lookback
    <3>1. p \in fires /\ p <= at /\ \A f \in fires : f <= at => f <= p
      BY <2>3, <2>4, <2>6 DEF IsPrevious
    <3>2. p > at - Lookback
      <4>1. PICK g \in fires : g <= at /\ g > at - Lookback
        BY <2>6
      <4>2. g <= p /\ g \in Nat /\ p \in Nat
        BY <4>1, <3>1, <2>1
      <4>3. QED
        BY <4>1, <4>2, <2>1, <2>2
    <3>3. at \notin fires <=> p < at
      <4>1. at \in fires => p >= at
        BY <3>1, <2>1
      <4>2. p \in Nat /\ p <= at
        BY <3>1, <2>1
      <4>3. QED
        BY <4>1, <4>2, <3>1, <2>1
    <3>4. ASSUME NEW f \in fires, f < at, t # None => f > t
          PROVE  t = None \/ p > t
      <4>1. f \in Nat /\ p \in Nat
        BY <3>1, <2>1
      <4>2. f <= at
        BY <4>1, <3>4, <2>1
      <4>3. f <= p
        BY <4>2, <3>1
      <4>4. QED
        BY <4>1, <4>3, <3>4, <2>1
    <3>5. p # None
      BY <3>1, <2>1
    <3>6. QED
      BY <2>5, <3>1, <3>2, <3>3, <3>4, <3>5
  <2>7. CASE ~ \E g \in fires : g <= at /\ g > at - Lookback
    <3>1. p = None
      BY <2>3, <2>4, <2>7 DEF IsPrevious
    <3>2. QED
      BY <2>1, <2>2, <2>5, <2>7, <3>1
  <2>8. QED
    BY <2>6, <2>7
<1>2. PolicyInv => MissedIsG10
  BY <1>1 DEF MissedIsG10
<1>3. QED
  BY <1>2, PolicyInvariant, PTL

\* What clients are told of the next fire is what it comes to, but for four cases.
THEOREM AnswerAlwaysForesees == Spec => []AnswerForesees
<1> DEFINE v == answer.task
           at == answer.at
           next == NextFireValue(v, at)
           unclear == \/ at \in fires
                      \/ v.skipUntil # None /\ v.skipUntil > at /\ v.skipUntil <= next
                      \/ v.completed # None /\ v.completed >= at
                      \/ answer.prev # None /\ answer.prev < next - Lookback
           window == /\ v.completed # None /\ answer.prev # None
                     /\ answer.prev <= v.completed /\ v.completed < at
           suppressed == v.cron /\ v.completed # None /\ EarlyFor(v.completed, next)
<1>1. ASSUME PolicyInv, answer # None, answer.op = "evaluate", Schedulable(v),
             next \notin {None, 0}, ~unclear
      PROVE  answer.rung # "dispatch" <=> Bypassed(v, next)
  <2>1. /\ v \in Values /\ at \in Times /\ answer.prev \in Times \union {None}
        /\ at \in Nat /\ v.completed \in Nat \union {None} /\ v.once \in Nat \union {None}
        /\ v.skipUntil \in Nat \union {None} /\ v.skips \in Nat
        /\ answer.prev \in Nat \union {None}
        /\ None \notin Nat /\ fires \subseteq Nat /\ 0 \notin fires
    BY <1>1, TimesAreNat, PolicyAssumption DEF PolicyInv, TypeOK, Values
  <2>a. v.cron => ~v.wrong
    BY <1>1 DEF NextFireValue
  <2>2. /\ next \in Nat /\ next > at
        /\ v.cron => /\ next \in fires
                     /\ \A g \in fires : g > at => next <= g
    <3>1. CASE v.cron
      <4>1. next = CronNext(at) /\ at \in Int
        BY <3>1, <2>a, <2>1 DEF NextFireValue
      <4>2. \/ CronNext(at) = 0 /\ \A f \in fires : f <= at
            \/ /\ CronNext(at) \in fires /\ CronNext(at) > at
               /\ \A g \in fires : g > at => CronNext(at) <= g
        BY <4>1, <2>1, NextIsFirst
      <4>3. QED
        BY <4>1, <4>2, <2>1, <1>1
    <3>2. CASE ~v.cron
      BY <3>2, <2>1, <1>1 DEF NextFireValue, Schedulable
    <3>3. QED
      BY <3>1, <3>2
  <2>3. FirstRungs(v, at) = None <=> FirstRungs(v, next) = None
    <3>1. v.skipUntil # None => (v.skipUntil > at <=> v.skipUntil > next)
      BY <2>1, <2>2, <1>1
    <3>2. QED
      BY <3>1 DEF FirstRungs
  <2>4. ASSUME FirstRungs(v, at) = None PROVE window <=> suppressed
    <3>1. CASE ~v.cron
      <4>1. answer.prev = IF v.once <= at - 1 THEN v.once ELSE None
        BY <3>1, <1>1 DEF PolicyInv, AnswerInv, PrevOnce, UpTo, Schedulable
      <4>2. v.once # None /\ v.once > at
        BY <3>1, <1>1 DEF NextFireValue, Schedulable
      <4>3. answer.prev = None
        BY <4>1, <4>2, <2>1
      <4>4. QED
        BY <4>3, <3>1
    <3>2. CASE v.cron /\ v.completed = None
      BY <3>2
    <3>3. CASE v.cron /\ v.completed # None
      <4>1. EarlyFor(v.completed, at) <=> window
        BY <3>3, <2>a, <2>4, <1>1, EarlyIsWindow
      <4>2. Lookback \in Nat
        BY WindowsGrow DEF Lookback
      <4>3. v.completed \in Nat /\ v.completed < at
        BY <3>3, <2>1, <1>1
      <4>4. \A g \in fires : g < next <=> g < at
        <5>1. \A g \in fires : g \in Nat /\ g # at /\ (g > at => next <= g)
          BY <2>1, <2>2, <3>3, <1>1
        <5>2. QED
          BY <5>1, <2>1, <2>2
      <4>5. EarlyFor(v.completed, next) => EarlyFor(v.completed, at)
        <5>1. \A g \in fires : g >= next - Lookback => g >= at - Lookback
          BY <2>1, <2>2, <4>2
        <5>2. QED
          BY <5>1, <4>3, <4>4 DEF EarlyFor
      <4>6. ASSUME EarlyFor(v.completed, at) PROVE EarlyFor(v.completed, next)
        <5>1. window /\ answer.prev \in Nat /\ answer.prev >= next - Lookback
          BY <4>1, <4>6, <2>1, <2>2, <4>2, <1>1
        <5>2. answer.prev \in fires /\ answer.prev < at
          <6>1. IsPrevious(answer.prev, "evaluate", at)
            BY <1>1, <2>a, <3>3, <2>4 DEF PolicyInv, PreviousIsLatest, Searches
          <6>2. answer.prev \in fires
            BY <6>1, <5>1, <2>1 DEF IsPrevious
          <6>3. QED
            BY <6>2, <5>1, <4>3, <2>1
        <5>3. QED
          BY <5>1, <5>2, <4>3, <4>4, <4>6, <2>1, <2>2 DEF EarlyFor
      <4>7. QED
        BY <4>1, <4>5, <4>6, <3>3
    <3>4. QED
      BY <3>1, <3>2, <3>3
  <2>5. answer.rung = "dispatch" <=>
          FirstRungs(v, at) = None /\ ~window /\ v.skips = 0
    <3>1. answer.rung = Rung(v, at, answer.prev)
      BY <1>1 DEF PolicyInv, AnswerInv
    <3>2. FirstRungs(v, at) \in {None, "state", "skip_until"} /\ None \notin Rungs
      BY PolicyAssumption DEF FirstRungs
    <3>3. QED
      BY <3>1, <3>2, <2>a, <2>1 DEF Rung, Rungs
  <2>6. v.skips = 0 <=> ~(v.skips > 0)
    BY <2>1
  <2>7. QED
    BY <2>3, <2>4, <2>5, <2>6 DEF Bypassed
<1>2. PolicyInv => AnswerForesees
  BY <1>1 DEF AnswerForesees
<1>3. QED
  BY <1>2, PolicyInvariant, PTL

=============================================================================
