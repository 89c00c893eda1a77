------------------------- MODULE TaskActions_proofs -------------------------
(***************************************************************************)
(* What holds of TaskActions for any number of requests at a time, any     *)
(* files, ids and lengths of lines.                                        *)
(*                                                                         *)
(* version counts the changes that may have moved lines.  What the index   *)
(* and a request know of a task is right as long as version is what it was *)
(* when they learned it: a write that keeps version was made from a file   *)
(* whose lines have the ids of the one it replaces, and only extends it.   *)
(* Nothing is known of what a stamp leaves that garbles its line but that  *)
(* version counts it.                                                      *)
(***************************************************************************)
EXTENDS TaskActions, SequenceTheorems, TLAPS, WellFoundedInduction

-----------------------------------------------------------------------------
(* The operators *)

\* A set of numbers has a least one.
LEMMA LeastOf ==
  ASSUME NEW T \in SUBSET Nat, T # {}
  PROVE  \E x \in T : \A y \in T : x <= y
<1>1. PICK x \in T : \A y \in T : ~ (<<y, x>> \in OpToRel(<, Nat))
  BY NatLessThanWellFounded, WFMin, Zenon
<1>2. ASSUME NEW y \in T PROVE x <= y
  <2>1. ~ (y < x)
    BY <1>1 DEF OpToRel
  <2>2. QED BY <2>1
<1>3. QED BY <1>2

\* A file that holds an id has a first line with it.
LEMMA LineOfHolds ==
  ASSUME NEW f \in Seq(Lines), NEW id \in IdsIn(f)
  PROVE  LineOf(f, id) \in DOMAIN f /\ f[LineOf(f, id)].id = id
<1> DEFINE T == {i \in DOMAIN f : f[i].id = id}
<1>1. T \subseteq Nat /\ T # {} /\ DOMAIN f = 1 .. Len(f) /\ Len(f) \in Nat
  BY DEF IdsIn
<1>2. PICK x \in T : \A y \in T : x <= y
  BY <1>1, LeastOf
<1>3. x \in DOMAIN f /\ f[x].id = id
  BY <1>2
<1>4. ASSUME NEW j \in 1 .. x - 1 PROVE f[j].id # id
  <2>1. j \in DOMAIN f /\ j < x
    BY <1>1, <1>3
  <2>2. j \notin T
    BY <1>1, <1>2, <2>1
  <2>3. QED BY <2>1, <2>2
<1>5. QED BY <1>3, <1>4 DEF LineOf

\* The id that generateTaskID gives out is one that neither the file nor the index has.
LEMMA FreshIdIsFree ==
  ASSUME NEW f, Ids \ Taken(f) # {}
  PROVE  FreshId(f) \in Ids \ Taken(f)
<1>1. PICK x \in Ids \ Taken(f) : \A y \in Ids \ Taken(f) : x <= y
  BY LeastOf, ActionsAssumption
<1>2. QED BY <1>1 DEF FreshId

\* Patching a line yields a line, with the id and the other values it had.
LEMMA PatchedLine ==
  ASSUME NEW l \in Lines, NEW st \in Stamps, ~Garbles(l, st)
  PROVE  /\ Patched(l, st) \in Lines
         /\ Patched(l, st).id = l.id /\ Patched(l, st).error = l.error
         /\ st # Stamp("reason", "blank") /\ l.reason # "blank"
              => Patched(l, st).reason # "blank"
<1>1. CASE st.field = "state"
  BY <1>1 DEF Patched, Stamps, Lines, States
<1>2. CASE st.field = "skip"
  BY <1>2 DEF Patched, Stamps, Lines
<1>3. CASE st.field = "box"
  BY <1>3 DEF Patched, Stamps, Lines
<1>4. CASE st.field = "done"
  BY <1>4 DEF Patched, Stamps, Lines
<1>5. CASE st.field = "reason"
  <2>1. st \in [field : {"reason"}, to : Texts]
    BY <1>5 DEF Stamps
  <2>2. st = [field |-> "reason", to |-> st.to] /\ st.to \in {"words", "blank", "raw"}
    BY <2>1 DEF Texts
  <2>3. st.to # "raw"
    BY <2>2 DEF Garbles, Stamp
  <2>4. st # Stamp("reason", "blank") => st.to = "words"
    BY <2>2, <2>3 DEF Stamp
  <2>5. Patched(l, st) = [l EXCEPT !.reason = st.to]
    BY <1>5 DEF Patched
  <2>6. QED BY <2>2, <2>3, <2>4, <2>5 DEF Lines
<1>6. QED BY <1>1, <1>2, <1>3, <1>4, <1>5 DEF Stamps

\* Three sequences of lines, one after the other.
LEMMA Joined ==
  ASSUME NEW a \in Seq(Lines), NEW b \in Seq(Lines), NEW c \in Seq(Lines)
  PROVE  /\ (a \o b) \o c \in Seq(Lines)
         /\ Len((a \o b) \o c) = Len(a) + Len(b) + Len(c)
         /\ \A j \in 1 .. Len(a) : ((a \o b) \o c)[j] = a[j]
         /\ \A j \in 1 .. Len(b) : ((a \o b) \o c)[Len(a) + j] = b[j]
         /\ \A j \in 1 .. Len(c) : ((a \o b) \o c)[Len(a) + Len(b) + j] = c[j]
OBVIOUS

\* A file with other lines in the place of one.
LEMMA SplicedLines ==
  ASSUME NEW f \in Seq(Lines), NEW i \in DOMAIN f, NEW ls \in Seq(Lines)
  PROVE  Spliced(f, i, ls) \in Seq(Lines)
<1>1. SubSeq(f, 1, i - 1) \in Seq(Lines) /\ SubSeq(f, i + 1, Len(f)) \in Seq(Lines)
  OBVIOUS
<1>2. QED BY <1>1 DEF Spliced

\* A file with another line in the place of one.
LEMMA SplicedOne ==
  ASSUME NEW f \in Seq(Lines), NEW i \in DOMAIN f, NEW l \in Lines
  PROVE  /\ Spliced(f, i, <<l>>) \in Seq(Lines)
         /\ DOMAIN Spliced(f, i, <<l>>) = DOMAIN f
         /\ Spliced(f, i, <<l>>)[i] = l
         /\ \A j \in DOMAIN f : j # i => Spliced(f, i, <<l>>)[j] = f[j]
<1> DEFINE a == SubSeq(f, 1, i - 1)
           b == SubSeq(f, i + 1, Len(f))
           g == (a \o <<l>>) \o b
<1>1. /\ a \in Seq(Lines) /\ Len(a) = i - 1 /\ \A j \in 1 .. i - 1 : a[j] = f[j]
      /\ b \in Seq(Lines) /\ Len(b) = Len(f) - i /\ \A j \in 1 .. Len(f) - i : b[j] = f[i + j]
  OBVIOUS
<1>2. <<l>> \in Seq(Lines) /\ Len(<<l>>) = 1 /\ <<l>>[1] = l
  OBVIOUS
<1>3. Spliced(f, i, <<l>>) = g
  BY DEF Spliced
<1> HIDE DEF a, b
<1>4. /\ g \in Seq(Lines)
      /\ Len(g) = Len(a) + Len(<<l>>) + Len(b)
      /\ \A j \in 1 .. Len(a) : g[j] = a[j]
      /\ \A j \in 1 .. Len(<<l>>) : g[Len(a) + j] = <<l>>[j]
      /\ \A j \in 1 .. Len(b) : g[Len(a) + Len(<<l>>) + j] = b[j]
  BY <1>1, <1>2, Joined, Zenon
<1> HIDE DEF g
<1>5. Len(f) \in Nat /\ DOMAIN f = 1 .. Len(f) /\ i \in 1 .. Len(f)
  OBVIOUS
<1>6. DOMAIN g = DOMAIN f /\ g[i] = l
  BY <1>1, <1>2, <1>4, <1>5
<1>7. ASSUME NEW j \in i + 1 .. Len(f) PROVE g[j] = f[j]
  <2>1. PICK k \in 1 .. Len(f) - i : j = i + k
    <3>1. j - i \in 1 .. Len(f) - i /\ j = i + (j - i)
      BY <1>5
    <3>2. QED BY <3>1
  <2>2. k \in 1 .. Len(b) /\ Len(a) + Len(<<l>>) + k = j
    BY <1>1, <1>2, <1>5, <2>1
  <2>3. g[Len(a) + Len(<<l>>) + k] = b[k]
    BY <1>4, <2>2, Zenon
  <2>4. g[j] = b[k] /\ b[k] = f[j]
    BY <1>1, <2>1, <2>2, <2>3, Zenon
  <2>5. QED BY <2>4
<1>8. ASSUME NEW j \in DOMAIN f, j # i PROVE g[j] = f[j]
  <2>1. j \in 1 .. i - 1 \/ j \in i + 1 .. Len(f)
    BY <1>5, <1>8
  <2>2. j \in 1 .. i - 1 => g[j] = f[j]
    BY <1>1, <1>4
  <2>3. QED BY <1>7, <2>1, <2>2
<1>9. QED BY <1>3, <1>4, <1>6, <1>8

LEMMA TransitionStamps ==
  ASSUME NEW current, NEW event
  PROVE  /\ Transition(current, event) \in Seq(Stamps)
         /\ current = "completed" => Transition(current, event) = <<>>
<1>1. Advance(current, event) \in {None, "paused", "active"}
  BY DEF Advance
<1>2. current = "completed" => Advance(current, event) = None
  BY DEF Advance
<1>3. \A s \in States : Stamp("state", s) \in Stamps
  BY DEF Stamp, Stamps
<1>4. QED BY <1>1, <1>2, <1>3 DEF Transition, States

\* No handler plans to take a completed task to another state.
KeepsCompleted(plan, v) ==
  v.state = "completed" =>
    \A i \in DOMAIN plan : plan[i].field = "state" => plan[i].to = "completed"

\* Sequences of stamps, as the handlers put them together.
LEMMA StampSequences ==
  ASSUME NEW s \in Stamps, NEW t \in Stamps, NEW q \in Seq(Stamps)
  PROVE  /\ <<s>> \in Seq(Stamps) /\ <<s, t>> \in Seq(Stamps)
         /\ Append(q, s) \in Seq(Stamps) /\ <<s>> \o q \in Seq(Stamps)
         /\ Append(<<>>, s) = <<s>> /\ <<s>> \o <<>> = <<s>>
<1>1. <<s>> \in Seq(Stamps) /\ <<s, t>> \in Seq(Stamps)
  OBVIOUS
<1>2. Append(q, s) \in Seq(Stamps) /\ <<s>> \o q \in Seq(Stamps)
  BY <1>1
<1>3. Append(<<>>, s) = <<s>> /\ <<s>> \o <<>> = <<s>>
  OBVIOUS
<1>4. QED BY <1>1, <1>2, <1>3

\* Plans of one or two stamps.
LEMMA ShortPlans ==
  ASSUME NEW v, NEW s, s.field # "state", NEW t, t.to = "completed"
  PROVE  KeepsCompleted(<<s>>, v) /\ KeepsCompleted(<<s, t>>, v)
<1>1. /\ DOMAIN <<s>> = {1} /\ <<s>>[1] = s
      /\ DOMAIN <<s, t>> = {1, 2} /\ <<s, t>>[1] = s /\ <<s, t>>[2] = t
  OBVIOUS
<1>2. QED BY <1>1 DEF KeepsCompleted

LEMMA PlanFits ==
  ASSUME NEW op \in Ops, NEW reason \in Texts \union {None}, NEW v \in Lines,
         op = "skip" => v.skip < MaxSkip
  PROVE  /\ Plan(op, reason, v) \in Seq(Stamps)
         /\ KeepsCompleted(Plan(op, reason, v), v)
<1>1. \A event : /\ Transition(v.state, event) \in Seq(Stamps)
                 /\ v.state = "completed" => Transition(v.state, event) = <<>>
  BY TransitionStamps
<1>2. /\ Stamp("done", TRUE) \in Stamps /\ Stamp("done", TRUE).field = "done"
      /\ Stamp("box", FALSE) \in Stamps /\ Stamp("box", FALSE).field = "box"
      /\ Stamp("state", "completed") \in Stamps /\ Stamp("state", "completed").to = "completed"
  BY DEF Stamp, Stamps, States
<1>3. CASE op = "pause" /\ reason = None
  <2>1. Plan(op, reason, v) = Transition(v.state, "paused")
    BY <1>3 DEF Plan
  <2>2. QED BY <1>1, <2>1 DEF KeepsCompleted
<1>4. CASE op = "pause" /\ reason # None
  <2> DEFINE st == Stamp("reason", reason)
  <2>0. st \in Stamps /\ st.field = "reason"
    BY <1>4 DEF Stamp, Stamps
  <2>1. Plan(op, reason, v) = Append(Transition(v.state, "paused"), st)
    BY <1>4 DEF Plan
  <2> HIDE DEF st
  <2>2. Plan(op, reason, v) \in Seq(Stamps)
    BY <1>1, <2>0, <2>1, StampSequences, Zenon
  <2>3. v.state = "completed" => Plan(op, reason, v) = <<st>>
    BY <1>1, <2>0, <2>1, StampSequences, Zenon
  <2>4. KeepsCompleted(<<st>>, v)
    BY <1>2, <2>0, ShortPlans
  <2>5. QED BY <2>2, <2>3, <2>4 DEF KeepsCompleted
<1>5. CASE op = "resume"
  <2>1. Plan(op, reason, v) = Transition(v.state, "resumed")
    BY <1>5 DEF Plan
  <2>2. QED BY <1>1, <2>1 DEF KeepsCompleted
<1>6. CASE op = "skip"
  <2>1. Plan(op, reason, v) = <<Stamp("skip", v.skip + 1)>>
    BY <1>6 DEF Plan
  <2>2. v.skip + 1 \in 0 .. MaxSkip
    BY <1>6, ActionsAssumption DEF Lines
  <2>3. Stamp("skip", v.skip + 1) \in Stamps /\ Stamp("skip", v.skip + 1).field = "skip"
    BY <2>2 DEF Stamp, Stamps
  <2>4. Plan(op, reason, v) \in Seq(Stamps)
    BY <1>1, <2>1, <2>3, StampSequences, Zenon
  <2>5. KeepsCompleted(Plan(op, reason, v), v)
    BY <1>2, <2>1, <2>3, ShortPlans, Zenon
  <2>6. QED BY <2>4, <2>5
<1>7. CASE op = "fulfill"
  <2>1. CASE v.kind = "once"
    <3>1. Plan(op, reason, v) = <<Stamp("box", FALSE), Stamp("state", "completed")>>
      BY <1>7, <2>1 DEF Plan
    <3>2. Plan(op, reason, v) \in Seq(Stamps)
      BY <1>1, <1>2, <3>1, StampSequences, Zenon
    <3>3. KeepsCompleted(Plan(op, reason, v), v)
      BY <1>2, <3>1, ShortPlans, Zenon
    <3>4. QED BY <3>2, <3>3
  <2>2. CASE v.kind \in {"schedule", "both"}
    <3>1. Plan(op, reason, v) = <<Stamp("done", TRUE)>> \o Transition(v.state, "fulfilled")
      BY <1>7, <2>2 DEF Plan
    <3>2. Plan(op, reason, v) \in Seq(Stamps)
      BY <1>1, <1>2, <3>1, StampSequences, Zenon
    <3>3. v.state = "completed" => Plan(op, reason, v) = <<Stamp("done", TRUE)>>
      BY <1>1, <1>2, <3>1, StampSequences, Zenon
    <3>4. KeepsCompleted(<<Stamp("done", TRUE)>>, v)
      BY <1>2, ShortPlans
    <3>5. QED BY <3>2, <3>3, <3>4 DEF KeepsCompleted
  <2>3. CASE v.kind = "neither"
    <3>1. Plan(op, reason, v) = <<>>
      BY <1>7, <2>3 DEF Plan
    <3>2. QED BY <3>1 DEF KeepsCompleted
  <2>4. QED BY <2>1, <2>2, <2>3 DEF Lines
<1>8. QED BY <1>3, <1>4, <1>5, <1>6, <1>7 DEF Ops

-----------------------------------------------------------------------------
(* The invariant *)

Tasks == [id : Ids, line : Nat \ {0}, value : Lines, seen : Nat]

StampRequests ==
  [op : Ops, task : Tasks, plan : Seq(Stamps), base : Seq(Lines) \union {None}, basedOn : Nat]

CreateRequests ==
  [op : {"create"}, text : Texts, lines : Seq(Lines), base : Seq(Lines), basedOn : Nat]

\* What is known of a task is not newer than version v of the file, and right of its
\* content f unless lines have moved.
TaskFits(t, f, v) ==
  /\ t.seen <= v
  /\ t.seen = v => f # None /\ t.line \in DOMAIN f /\ f[t.line].id = t.id

\* A request that stamps has stamps to make, none of which takes the task out of completed.
\* What it has read has the line to be patched, and has its task there unless lines had
\* moved between the reading of the index and that of the file.
StampFits(r, f, v) ==
  /\ TaskFits(r.task, f, v)
  /\ r.plan # <<>>
  /\ KeepsCompleted(r.plan, r.task.value)
  /\ r.base # None => /\ r.task.line \in DOMAIN r.base
                      /\ r.task.seen <= r.basedOn /\ r.basedOn <= v
                      /\ r.task.seen = r.basedOn => r.base[r.task.line].id = r.task.id

\* A request that creates with a title and target of words has one line without errors, and
\* an id that is not in the file it has read.
CreateFits(r) ==
  r.text = "words" =>
    \E l \in Lines : /\ r.lines = <<l>>
                     /\ l.id \in Ids \ IdsIn(r.base)
                     /\ l.reason # "blank" /\ ~l.error

RequestFits(r, f, v) ==
  \/ r = None
  \/ r \in StampRequests /\ StampFits(r, f, v)
  \/ r \in CreateRequests /\ CreateFits(r)

IndexFits == \A id \in Ids : index[id] # None => TaskFits(index[id], file, version)

RequestsFit == \A h \in Handlers : RequestFits(req[h], file, version)

ActionsInv == TypeOK /\ IndexFits /\ RequestsFit

-----------------------------------------------------------------------------
(* Steps *)

LEMMA RequestSets ==
  /\ Requests = StampRequests \union CreateRequests
  /\ \A r \in StampRequests : r.op \in Ops
  /\ \A r \in CreateRequests : r.op = "create"
  /\ "create" \notin Ops
BY DEF Requests, StampRequests, CreateRequests, Tasks, Ops

\* What is right of content f at version v is right of content g at version w.
Carries(f, v, g, w) ==
  /\ w \in Nat /\ w >= v
  /\ w = v => (f # None => /\ g # None
                           /\ \A i \in DOMAIN f : i \in DOMAIN g /\ g[i].id = f[i].id)

LEMMA TaskCarries ==
  ASSUME NEW f, NEW v \in Nat, NEW g, NEW w, Carries(f, v, g, w),
         NEW t, t.seen \in Nat, TaskFits(t, f, v)
  PROVE  TaskFits(t, g, w)
BY DEF Carries, TaskFits

LEMMA RequestCarries ==
  ASSUME NEW f, NEW v \in Nat, NEW g, NEW w, Carries(f, v, g, w),
         NEW r, RequestFits(r, f, v)
  PROVE  RequestFits(r, g, w)
<1>1. ASSUME r \in StampRequests, StampFits(r, f, v)
      PROVE  StampFits(r, g, w)
  <2>1. r.task.seen \in Nat /\ r.basedOn \in Nat
    BY <1>1 DEF StampRequests, Tasks
  <2>2. TaskFits(r.task, g, w)
    BY <1>1, <2>1, TaskCarries DEF StampFits
  <2>3. r.basedOn <= v => r.basedOn <= w
    BY <2>1 DEF Carries
  <2>4. QED BY <1>1, <2>2, <2>3 DEF StampFits
<1>2. QED BY <1>1 DEF RequestFits

\* A step that changes at most the request of h, and of the file at most what Carries allows.
LEMMA RequestStep ==
  ASSUME ActionsInv, NEW h \in Handlers, NEW r, RequestFits(r, file', version'),
         req' = [req EXCEPT ![h] = r],
         Carries(file, version, file', version'), index' = index
  PROVE  /\ req' \in [Handlers -> Requests \union {None}]
         /\ RequestsFit' /\ IndexFits'
<1>1. req \in [Handlers -> Requests \union {None}] /\ version \in Nat
  BY DEF ActionsInv, TypeOK
<1>2. r \in Requests \union {None}
  BY RequestSets DEF RequestFits
<1>3. req' \in [Handlers -> Requests \union {None}]
  BY <1>1, <1>2
<1>4. ASSUME NEW g \in Handlers
      PROVE  RequestFits(req'[g], file', version')
  <2>1. CASE g = h
    <3>1. req'[g] = r
      BY <1>1, <2>1
    <3>2. QED BY <3>1
  <2>2. CASE g # h
    <3>1. req'[g] = req[g]
      BY <1>1, <2>2
    <3>2. RequestFits(req[g], file, version)
      BY DEF ActionsInv, RequestsFit
    <3>3. QED BY <1>1, <3>1, <3>2, RequestCarries
  <2>3. QED BY <2>1, <2>2
<1>5. IndexFits'
  <2>1. \A id \in Ids : index[id] # None => index[id].seen \in Nat
    BY DEF ActionsInv, TypeOK
  <2>2. QED BY <1>1, <2>1, TaskCarries DEF ActionsInv, IndexFits
<1>6. QED BY <1>3, <1>4, <1>5 DEF RequestsFit

\* The index after reading the file knows its tasks.
LEMMA IndexedFits ==
  ASSUME NEW f \in Seq(Lines) \union {None}, NEW v \in Nat
  PROVE  /\ Indexed(f, v) \in [Ids -> [id : Ids, line : Nat \ {0}, value : Lines, seen : Nat]
                                      \union {None}]
         /\ \A id \in Ids : Indexed(f, v)[id] # None => TaskFits(Indexed(f, v)[id], f, v)
<1>1. ASSUME NEW id \in Ids
      PROVE  /\ Indexed(f, v)[id] \in [id : Ids, line : Nat \ {0}, value : Lines, seen : Nat]
                                      \union {None}
             /\ Indexed(f, v)[id] # None => TaskFits(Indexed(f, v)[id], f, v)
  <2>1. CASE f # None /\ id \in IdsIn(f) \ Elsewhere
    <3>1. f \in Seq(Lines) /\ LineOf(f, id) \in DOMAIN f /\ f[LineOf(f, id)].id = id
      BY <2>1, LineOfHolds
    <3>2. LineOf(f, id) \in Nat \ {0} /\ f[LineOf(f, id)] \in Lines
      BY <3>1
    <3>3. Indexed(f, v)[id] = [id |-> id, line |-> LineOf(f, id), value |-> f[LineOf(f, id)],
                               seen |-> v]
      BY <2>1 DEF Indexed
    <3>4. QED BY <2>1, <3>1, <3>2, <3>3 DEF TaskFits
  <2>2. CASE ~ (f # None /\ id \in IdsIn(f) \ Elsewhere)
    <3>1. Indexed(f, v)[id] = None
      BY <2>2 DEF Indexed
    <3>2. QED BY <3>1
  <2>3. QED BY <2>1, <2>2
<1>2. Indexed(f, v) = [id \in Ids |-> Indexed(f, v)[id]]
  BY DEF Indexed
<1>3. QED BY <1>1, <1>2

\* A write that keeps the ids of the lines it was made from, or is known to move lines.
LEMMA WriteCarries ==
  ASSUME file \in Seq(Lines) \union {None}, version \in Nat,
         NEW base \in Seq(Lines), NEW f \in Seq(Lines), NEW moves \in BOOLEAN,
         Write(f, base, moves),
         ~moves => \A i \in DOMAIN base : i \in DOMAIN f /\ f[i].id = base[i].id
  PROVE  /\ file' \in Seq(Lines) \union {None} /\ reported' \in BOOLEAN /\ version' \in Nat
         /\ Carries(file, version, file', version')
<1>1. file' = f /\ reported' \in BOOLEAN /\ version' \in {version, version + 1}
  BY DEF Write
<1>2. f # None
  BY ActionsAssumption
<1>3. ASSUME version' = version, file # None
      PROVE  \A i \in DOMAIN file : i \in DOMAIN f /\ f[i].id = file[i].id
  <2>1. Layout(base) = Layout(file) /\ ~moves
    BY <1>3 DEF Write
  <2>2. DOMAIN base = DOMAIN file
    BY <2>1 DEF Layout
  <2>3. \A i \in DOMAIN file : Layout(base)[i] = base[i].id /\ Layout(file)[i] = file[i].id
    BY <2>2 DEF Layout
  <2>4. QED BY <2>1, <2>2, <2>3
<1>4. Carries(file, version, f, version')
  BY <1>1, <1>2, <1>3 DEF Carries
<1>5. QED BY <1>1, <1>4

LEMMA NothingMoves ==
  ASSUME version \in Nat, UNCHANGED <<file, version>>
  PROVE  Carries(file, version, file', version')
BY DEF Carries

LEMMA LookStep ==
  ASSUME ActionsInv, NEW h \in Handlers, NEW op \in Ops, NEW id \in Ids,
         NEW reason \in Texts \union {None}, Look(h, op, id, reason)
  PROVE  ActionsInv'
<1> DEFINE r == [op |-> op, task |-> index[id], plan |-> Plan(op, reason, index[id].value),
                 base |-> None, basedOn |-> 0]
<1>1. /\ index[id] \in Tasks /\ index[id].value \in Lines /\ TaskFits(index[id], file, version)
  BY DEF ActionsInv, TypeOK, IndexFits, Look, Tasks
<1>2. op = "skip" => index[id].value.skip < MaxSkip
  BY DEF Look
<1>3. /\ Plan(op, reason, index[id].value) \in Seq(Stamps)
      /\ Plan(op, reason, index[id].value) # <<>>
      /\ KeepsCompleted(Plan(op, reason, index[id].value), index[id].value)
  BY <1>1, <1>2, PlanFits DEF Look
<1>4. r \in StampRequests
  BY <1>1, <1>3 DEF StampRequests
<1>5. StampFits(r, file, version)
  BY <1>1, <1>3 DEF StampFits
<1>6. UNCHANGED <<file, index, reported, changes, faults, version>>
  BY DEF Look
<1>7. RequestFits(r, file', version')
  BY <1>4, <1>5, <1>6 DEF RequestFits
<1>8. req' = [req EXCEPT ![h] = r]
  BY DEF Look
<1>9. Carries(file, version, file', version')
  BY <1>6, NothingMoves DEF ActionsInv, TypeOK
<1>10. requests' \in 0 .. MaxRequests
  BY ActionsAssumption DEF ActionsInv, TypeOK, Look
<1> HIDE DEF r
<1>11. req' \in [Handlers -> Requests \union {None}] /\ RequestsFit' /\ IndexFits'
  BY <1>6, <1>7, <1>8, <1>9, RequestStep
<1>12. QED BY <1>6, <1>10, <1>11 DEF ActionsInv, TypeOK

\* What a request that is not over is.
LEMMA StampingRequest ==
  ASSUME ActionsInv, NEW h \in Handlers, Stamping(h)
  PROVE  req[h] \in StampRequests /\ StampFits(req[h], file, version)
<1>1. RequestFits(req[h], file, version) /\ req[h] # None /\ req[h].op \in Ops
  BY DEF ActionsInv, RequestsFit, Stamping
<1>2. QED BY <1>1, RequestSets DEF RequestFits

LEMMA CreatingRequest ==
  ASSUME ActionsInv, NEW h \in Handlers, req[h] # None, req[h].op = "create"
  PROVE  req[h] \in CreateRequests /\ CreateFits(req[h])
<1>1. RequestFits(req[h], file, version)
  BY DEF ActionsInv, RequestsFit
<1>2. QED BY <1>1, RequestSets DEF RequestFits

\* A request ends, and the file stays as it is.
LEMMA FinishStep ==
  ASSUME ActionsInv, NEW h \in Handlers, Finish(h), faults' \in 0 .. MaxFaults,
         UNCHANGED <<file, index, reported, requests, changes, version>>
  PROVE  ActionsInv'
<1>1. RequestFits(None, file', version')
  BY DEF RequestFits
<1>2. Carries(file, version, file', version')
  BY NothingMoves DEF ActionsInv, TypeOK
<1>3. req' \in [Handlers -> Requests \union {None}] /\ RequestsFit' /\ IndexFits'
  BY <1>1, <1>2, RequestStep DEF Finish
<1>4. QED BY <1>3 DEF ActionsInv, TypeOK

LEMMA ReadForStampStep ==
  ASSUME ActionsInv, NEW h \in Handlers, ReadForStamp(h)
  PROVE  ActionsInv'
<1> DEFINE r == [req[h] EXCEPT !.base = file, !.basedOn = version]
<1>1. req[h] \in StampRequests /\ StampFits(req[h], file, version)
  BY StampingRequest DEF ReadForStamp
<1>2. /\ UNCHANGED <<file, index, reported, requests, changes, faults, version>>
      /\ Accepted(req[h], file)
  BY DEF ReadForStamp
<1>3. file \in Seq(Lines) /\ version \in Nat /\ req \in [Handlers -> Requests \union {None}]
  BY <1>2 DEF ActionsInv, TypeOK, Accepted
<1>4. r \in StampRequests
  BY <1>1, <1>3 DEF StampRequests
<1>5. /\ r.task = req[h].task /\ r.plan = req[h].plan /\ r.base = file /\ r.basedOn = version
      /\ r.task.seen \in Nat /\ r.task.line \in Nat \ {0}
  BY <1>1 DEF StampRequests, Tasks
<1>6. r.task.line \in DOMAIN r.base
  BY <1>2, <1>3, <1>5 DEF Accepted
<1>7. StampFits(r, file, version)
  BY <1>1, <1>3, <1>5, <1>6 DEF StampFits, TaskFits
<1>8. req' = [req EXCEPT ![h] = r]
  BY <1>3 DEF ReadForStamp
<1>9. Carries(file, version, file', version')
  BY <1>2, <1>3, NothingMoves
<1> HIDE DEF r
<1>10. RequestFits(r, file', version')
  BY <1>2, <1>4, <1>7 DEF RequestFits
<1>11. req' \in [Handlers -> Requests \union {None}] /\ RequestsFit' /\ IndexFits'
  BY <1>2, <1>8, <1>9, <1>10, RequestStep
<1>12. QED BY <1>2, <1>11 DEF ActionsInv, TypeOK

\* What a request that has read the file is about to stamp.
LEMMA NextStamp ==
  ASSUME NEW r \in StampRequests, StampFits(r, file, version), r.base # None
  PROVE  /\ r.base \in Seq(Lines) /\ r.task.line \in DOMAIN r.base
         /\ r.base[r.task.line] \in Lines
         /\ Head(r.plan) \in Stamps /\ Head(r.plan) = r.plan[1] /\ 1 \in DOMAIN r.plan
         /\ Garbling(r) <=> Garbles(r.base[r.task.line], Head(r.plan))
         /\ Garbling(r) \in BOOLEAN
<1>1. r.base \in Seq(Lines) /\ r.plan \in Seq(Stamps) /\ r.plan # <<>>
      /\ r.task.line \in DOMAIN r.base
  BY DEF StampRequests, StampFits
<1>2. r.base[r.task.line] \in Lines
  BY <1>1
<1>3. Head(r.plan) \in Stamps /\ Head(r.plan) = r.plan[1] /\ 1 \in DOMAIN r.plan
  BY <1>1
<1>4. Garbling(r) <=> Garbles(r.base[r.task.line], Head(r.plan))
  BY DEF Garbling
<1>5. Garbling(r) \in BOOLEAN
  BY <1>2 DEF Garbling, Garbles, Lines
<1>6. QED BY <1>1, <1>2, <1>3, <1>4, <1>5

\* The file with one line stamped.
LEMMA StampedLines ==
  ASSUME NEW base \in Seq(Lines), NEW i \in DOMAIN base, NEW st \in Stamps,
         NEW ls \in Stamped(base[i], st)
  PROVE  Spliced(base, i, ls) \in Seq(Lines)
<1>1. base[i] \in Lines
  OBVIOUS
<1>2. ls \in Seq(Lines)
  <2>1. CASE Garbles(base[i], st)
    BY <1>1, <2>1, ActionsAssumption DEF Stamped
  <2>2. CASE ~Garbles(base[i], st)
    <3>1. ls = <<Patched(base[i], st)>> /\ Patched(base[i], st) \in Lines
      BY <1>1, <2>2, PatchedLine DEF Stamped
    <3>2. QED BY <3>1
  <2>3. QED BY <2>1, <2>2
<1>3. QED BY <1>2, SplicedLines

\* A stamp that garbles nothing patches the line it is for, and the others stay.
LEMMA StampedFile ==
  ASSUME NEW base \in Seq(Lines), NEW i \in DOMAIN base, NEW st \in Stamps,
         NEW ls \in Stamped(base[i], st), ~Garbles(base[i], st)
  PROVE  /\ DOMAIN Spliced(base, i, ls) = DOMAIN base
         /\ Spliced(base, i, ls)[i] = Patched(base[i], st)
         /\ \A j \in DOMAIN base : j # i => Spliced(base, i, ls)[j] = base[j]
         /\ \A j \in DOMAIN base : Spliced(base, i, ls)[j].id = base[j].id
<1>1. ls = <<Patched(base[i], st)>>
  BY DEF Stamped
<1>2. Patched(base[i], st) \in Lines /\ Patched(base[i], st).id = base[i].id
  BY PatchedLine
<1>3. /\ DOMAIN Spliced(base, i, ls) = DOMAIN base
      /\ Spliced(base, i, ls)[i] = Patched(base[i], st)
      /\ \A j \in DOMAIN base : j # i => Spliced(base, i, ls)[j] = base[j]
  BY <1>1, <1>2, SplicedOne
<1>4. QED BY <1>2, <1>3

LEMMA RestOfPlan ==
  ASSUME NEW q \in Seq(Stamps), q # <<>>, Len(q) # 1
  PROVE  /\ Tail(q) \in Seq(Stamps) /\ Tail(q) # <<>>
         /\ \A i \in DOMAIN Tail(q) : i + 1 \in DOMAIN q /\ Tail(q)[i] = q[i + 1]
<1>1. Len(q) \in Nat \ {0, 1}
  BY EmptySeq, Zenon
<1>2. /\ Tail(q) \in Seq(Stamps) /\ Len(Tail(q)) = Len(q) - 1
      /\ \A i \in 1 .. Len(Tail(q)) : Tail(q)[i] = q[i + 1]
  BY HeadTailProperties, Zenon
<1>3. DOMAIN q = 1 .. Len(q) /\ DOMAIN Tail(q) = 1 .. Len(Tail(q))
  BY <1>2, LenProperties, Zenon
<1>4. Tail(q) # <<>>
  <2>1. Len(<<>>) = 0
    BY EmptySeq, Zenon
  <2>2. Len(Tail(q)) # 0
    BY <1>1, <1>2
  <2>3. QED BY <2>1, <2>2, Zenon
<1>5. \A i \in DOMAIN Tail(q) : i + 1 \in DOMAIN q
  BY <1>1, <1>2, <1>3
<1>6. QED BY <1>2, <1>3, <1>4, <1>5

LEMMA CommitStampStep ==
  ASSUME ActionsInv, NEW h \in Handlers, CommitStamp(h)
  PROVE  ActionsInv'
<1>0. PICK ls \in Stamped(req[h].base[req[h].task.line], Head(req[h].plan)) :
        Write(Spliced(req[h].base, req[h].task.line, ls), req[h].base, Garbling(req[h]))
  BY DEF CommitStamp
<1> DEFINE f == Spliced(req[h].base, req[h].task.line, ls)
           r == IF Len(req[h].plan) = 1 THEN None
                ELSE [req[h] EXCEPT !.plan = Tail(@), !.base = None]
<1>1. req[h] \in StampRequests /\ StampFits(req[h], file, version) /\ req[h].base # None
  BY StampingRequest DEF CommitStamp
<1>2. /\ req[h].base \in Seq(Lines) /\ f \in Seq(Lines) /\ Garbling(req[h]) \in BOOLEAN
      /\ ~Garbling(req[h]) => \A i \in DOMAIN req[h].base :
                                i \in DOMAIN f /\ f[i].id = req[h].base[i].id
  <2> DEFINE base == req[h].base
             i == req[h].task.line
             st == Head(req[h].plan)
  <2>1. /\ base \in Seq(Lines) /\ i \in DOMAIN base /\ st \in Stamps
        /\ Garbling(req[h]) <=> Garbles(base[i], st)
        /\ Garbling(req[h]) \in BOOLEAN
    BY <1>1, NextStamp
  <2>2. ls \in Stamped(base[i], st) /\ f = Spliced(base, i, ls)
    OBVIOUS
  <2> HIDE DEF base, i, st, f
  <2>3. f \in Seq(Lines)
    BY <2>1, <2>2, StampedLines
  <2>4. ASSUME ~Garbling(req[h])
        PROVE  \A j \in DOMAIN base : j \in DOMAIN f /\ f[j].id = base[j].id
    <3>1. ~Garbles(base[i], st)
      BY <2>1, <2>4
    <3>2. /\ DOMAIN Spliced(base, i, ls) = DOMAIN base
          /\ \A j \in DOMAIN base : Spliced(base, i, ls)[j].id = base[j].id
      BY <2>1, <2>2, <3>1, StampedFile, Zenon
    <3>3. QED BY <2>2, <3>2
  <2>5. QED BY <2>1, <2>3, <2>4 DEF base
<1>3. /\ Write(f, req[h].base, Garbling(req[h]))
      /\ UNCHANGED <<index, requests, changes, faults>>
  BY <1>0 DEF CommitStamp
<1>4. /\ file' \in Seq(Lines) \union {None} /\ reported' \in BOOLEAN /\ version' \in Nat
      /\ Carries(file, version, file', version')
  <2> HIDE DEF f
  <2>1. QED BY <1>2, <1>3, WriteCarries DEF ActionsInv, TypeOK
<1>5. req \in [Handlers -> Requests \union {None}] /\ version \in Nat
  BY DEF ActionsInv, TypeOK
<1>6. req' = [req EXCEPT ![h] = r]
  BY <1>5 DEF CommitStamp, Finish
<1>7. CASE Len(req[h].plan) # 1
  <2>1. req[h].plan \in Seq(Stamps) /\ req[h].plan # <<>>
    BY <1>1 DEF StampRequests, StampFits
  <2>2. /\ Tail(req[h].plan) \in Seq(Stamps) /\ Tail(req[h].plan) # <<>>
        /\ \A i \in DOMAIN Tail(req[h].plan) :
             i + 1 \in DOMAIN req[h].plan /\ Tail(req[h].plan)[i] = req[h].plan[i + 1]
    BY <1>7, <2>1, RestOfPlan
  <2>3. /\ r \in StampRequests /\ r.task = req[h].task /\ r.plan = Tail(req[h].plan)
        /\ r.base = None
    BY <1>1, <1>7, <2>2 DEF StampRequests
  <2>4. KeepsCompleted(r.plan, r.task.value)
    BY <1>1, <2>2, <2>3 DEF StampFits, KeepsCompleted
  <2>5. StampFits(r, file, version)
    BY <1>1, <2>2, <2>3, <2>4 DEF StampFits
  <2> HIDE DEF r
  <2>6. RequestFits(r, file, version)
    BY <2>3, <2>5 DEF RequestFits
  <2>7. RequestFits(r, file', version')
    BY <1>4, <1>5, <2>6, RequestCarries
  <2>8. QED BY <1>3, <1>4, <1>6, <2>7, RequestStep DEF ActionsInv, TypeOK
<1>8. CASE Len(req[h].plan) = 1
  <2>1. RequestFits(r, file', version')
    BY <1>8 DEF RequestFits
  <2> HIDE DEF r
  <2>2. QED BY <1>3, <1>4, <1>6, <2>1, RequestStep DEF ActionsInv, TypeOK
<1>9. QED BY <1>7, <1>8

LEMMA ReadForCreateStep ==
  ASSUME ActionsInv, NEW h \in Handlers, NEW kind \in Kinds, NEW text \in Texts,
         ReadForCreate(h, kind, text)
  PROVE  ActionsInv'
<1> DEFINE f == IF file = None THEN <<>> ELSE file
           line == TaskLine(FreshId(f), kind)
<1>1. PICK ls \in TaskLines(FreshId(f), kind, text) :
        req' = [req EXCEPT ![h] = [op |-> "create", text |-> text, lines |-> ls,
                                   base |-> f, basedOn |-> version]]
  BY DEF ReadForCreate
<1> DEFINE r == [op |-> "create", text |-> text, lines |-> ls, base |-> f, basedOn |-> version]
<1>2. f \in Seq(Lines) /\ version \in Nat
  BY DEF ActionsInv, TypeOK
<1>3. FreshId(f) \in Ids \ IdsIn(f)
  <2>1. FreshId(f) \in Ids \ Taken(f)
    BY FreshIdIsFree DEF ReadForCreate
  <2>2. QED BY <2>1 DEF Taken
<1>4. /\ line \in Lines /\ line.id = FreshId(f) /\ line.reason # "blank" /\ ~line.error
  BY <1>3, ActionsAssumption DEF TaskLine, Lines, States
<1>5. text = "words" => ls = <<line>>
  BY DEF TaskLines
<1>6. ls \in Seq(Lines)
  <2> HIDE DEF line
  <2>1. text # "words" => ls \in Garbled[line]
    BY DEF TaskLines, line
  <2>2. Garbled[line] \in SUBSET Seq(Lines)
    BY <1>4, ActionsAssumption
  <2>3. <<line>> \in Seq(Lines)
    BY <1>4
  <2>4. QED BY <1>5, <2>1, <2>2, <2>3
<1>7. UNCHANGED <<file, index, reported, changes, faults, version>>
  BY DEF ReadForCreate
<1>8. requests' \in 0 .. MaxRequests
  BY ActionsAssumption DEF ActionsInv, TypeOK, ReadForCreate
<1> HIDE DEF f, line
<1>9. r \in CreateRequests /\ CreateFits(r)
  BY <1>2, <1>3, <1>4, <1>5, <1>6 DEF CreateRequests, CreateFits
<1>10. Carries(file, version, file', version')
  BY <1>2, <1>7, NothingMoves
<1>11. req' = [req EXCEPT ![h] = r]
  BY <1>1
<1> HIDE DEF r
<1>12. RequestFits(r, file', version')
  BY <1>9 DEF RequestFits
<1>13. req' \in [Handlers -> Requests \union {None}] /\ RequestsFit' /\ IndexFits'
  BY <1>7, <1>10, <1>11, <1>12, RequestStep
<1>14. QED BY <1>7, <1>8, <1>13 DEF ActionsInv, TypeOK

LEMMA CommitCreateStep ==
  ASSUME ActionsInv, NEW h \in Handlers, CommitCreate(h)
  PROVE  ActionsInv'
<1> DEFINE f == WithTask(req[h].base, req[h].lines)
<1>1. req[h] \in CreateRequests
  BY CreatingRequest DEF CommitCreate
<1>2. req[h].base \in Seq(Lines) /\ req[h].lines \in Seq(Lines)
  BY <1>1 DEF CreateRequests
<1>3. f \in Seq(Lines) /\ \A i \in DOMAIN req[h].base : i \in DOMAIN f /\ f[i] = req[h].base[i]
  <2>1. \A a, b \in Seq(Lines) : /\ a \o b \in Seq(Lines)
                                /\ \A i \in DOMAIN a : i \in DOMAIN (a \o b) /\ (a \o b)[i] = a[i]
    OBVIOUS
  <2>2. QED BY <1>2, <2>1, Zenon DEF WithTask
<1>4. /\ Write(f, req[h].base, FALSE) /\ Finish(h)
      /\ UNCHANGED <<index, requests, changes, faults>>
  BY DEF CommitCreate
<1> HIDE DEF f
<1>5. /\ file' \in Seq(Lines) \union {None} /\ reported' \in BOOLEAN /\ version' \in Nat
      /\ Carries(file, version, file', version')
  BY <1>2, <1>3, <1>4, WriteCarries DEF ActionsInv, TypeOK
<1>6. RequestFits(None, file', version')
  BY DEF RequestFits
<1>7. QED BY <1>4, <1>5, <1>6, RequestStep DEF ActionsInv, TypeOK, Finish

\* A change from outside may move every line, and is known to have.
LEMMA ChangeStep ==
  ASSUME ActionsInv, file' \in Seq(Lines) \union {None}, version' = version + 1,
         reported' \in BOOLEAN, changes < MaxChanges, changes' = changes + 1,
         UNCHANGED <<index, req, requests, faults>>
  PROVE  ActionsInv'
<1>1. version \in Nat /\ req \in [Handlers -> Requests \union {None}]
  BY DEF ActionsInv, TypeOK
<1>2. Carries(file, version, file', version')
  BY <1>1 DEF Carries
<1>3. RequestsFit'
  BY <1>1, <1>2, RequestCarries DEF ActionsInv, RequestsFit
<1>4. IndexFits'
  <2>1. \A id \in Ids : index[id] # None => index[id].seen \in Nat
    BY DEF ActionsInv, TypeOK
  <2>2. QED BY <1>1, <1>2, <2>1, TaskCarries DEF ActionsInv, IndexFits
<1>5. changes' \in 0 .. MaxChanges
  BY ActionsAssumption DEF ActionsInv, TypeOK
<1>6. QED BY <1>1, <1>3, <1>4, <1>5 DEF ActionsInv, TypeOK

\* The file is read into the index, by the watcher or by a new process.
LEMMA ReindexStep ==
  ASSUME ActionsInv, Reconcile \/ Restart
  PROVE  ActionsInv'
<1>1. /\ file \in Seq(Lines) \union {None} /\ version \in Nat
      /\ req \in [Handlers -> Requests \union {None}]
  BY DEF ActionsInv, TypeOK
<1>2. /\ index' = Indexed(file, version) /\ reported' = FALSE
      /\ UNCHANGED <<file, requests, changes, version>>
  BY DEF Reconcile, Restart
<1>3. /\ index' \in [Ids -> [id : Ids, line : Nat \ {0}, value : Lines, seen : Nat] \union {None}]
      /\ IndexFits'
  BY <1>1, <1>2, IndexedFits DEF IndexFits
<1>4. CASE Reconcile
  BY <1>1, <1>2, <1>3, <1>4 DEF Reconcile, ActionsInv, TypeOK, RequestsFit
<1>5. CASE Restart
  <2>1. req' \in [Handlers -> Requests \union {None}] /\ RequestsFit'
    BY <1>5 DEF Restart, RequestsFit, RequestFits
  <2>2. faults' \in 0 .. MaxFaults
    BY <1>5, ActionsAssumption DEF Restart, ActionsInv, TypeOK
  <2>3. QED BY <1>1, <1>2, <1>3, <2>1, <2>2 DEF ActionsInv, TypeOK
<1>6. QED BY <1>4, <1>5

LEMMA ActionsStep == ActionsInv /\ [Next]_vars => ActionsInv'
<1> SUFFICES ASSUME ActionsInv, [Next]_vars PROVE ActionsInv'
    OBVIOUS
<1>1. ASSUME NEW h \in Handlers, GiveUp(h) \/ AlreadyChecked(h) \/ WriteFails(h)
      PROVE  ActionsInv'
  <2>1. faults' \in 0 .. MaxFaults
    BY <1>1, ActionsAssumption DEF GiveUp, AlreadyChecked, WriteFails, ActionsInv, TypeOK
  <2>2. Finish(h) /\ UNCHANGED <<file, index, reported, requests, changes, version>>
    BY <1>1 DEF GiveUp, AlreadyChecked, WriteFails
  <2>3. QED BY <2>1, <2>2, FinishStep
<1>2. ASSUME NEW f \in Files \union {None}, OutsideEdit(f) \/ PutFile(f)
      PROVE  ActionsInv'
  <2>1. f \in Seq(Lines) \union {None}
    BY ActionsAssumption
  <2>2. reported' \in BOOLEAN
    BY <1>2 DEF OutsideEdit, PutFile, ActionsInv, TypeOK
  <2>3. QED BY <1>2, <2>1, <2>2, ChangeStep DEF OutsideEdit, PutFile
<1>3. CASE UNCHANGED vars
  BY <1>3 DEF vars, ActionsInv, TypeOK, IndexFits, RequestsFit
<1>4. QED
  BY <1>1, <1>2, <1>3, LookStep, ReadForStampStep, CommitStampStep, ReadForCreateStep,
     CommitCreateStep, ReindexStep DEF Next

LEMMA ActionsInit == Init => ActionsInv
<1> SUFFICES ASSUME Init PROVE ActionsInv
    OBVIOUS
<1>1. file \in Seq(Lines) \union {None} /\ version = 0
  BY ActionsAssumption DEF Init
<1>2. /\ index \in [Ids -> [id : Ids, line : Nat \ {0}, value : Lines, seen : Nat] \union {None}]
      /\ IndexFits
  BY <1>1, IndexedFits DEF Init, IndexFits
<1>3. RequestsFit
  BY DEF Init, RequestsFit, RequestFits
<1>4. 0 \in 0 .. MaxRequests /\ 0 \in 0 .. MaxChanges /\ 0 \in 0 .. MaxFaults
  BY ActionsAssumption
<1>5. req \in [Handlers -> Requests \union {None}]
  BY DEF Init
<1>6. TypeOK
  <2>1. requests \in 0 .. MaxRequests /\ changes \in 0 .. MaxChanges /\ faults \in 0 .. MaxFaults
    BY <1>4 DEF Init
  <2>2. reported \in BOOLEAN
    BY Zenon DEF Init
  <2>3. QED BY <1>1, <1>2, <1>5, <2>1, <2>2 DEF TypeOK
<1>7. QED BY <1>2, <1>3, <1>6 DEF ActionsInv

-----------------------------------------------------------------------------
(* Theorems *)

\* The inductive invariant: what the index and the requests know of a task holds of the file
\* unless lines may have moved since (task_actions.go lookupTask, writeback.go).
THEOREM ActionsInvariant == Spec => []ActionsInv
<1>1. QED BY ActionsInit, ActionsStep, PTL DEF Spec

\* The file, the index and the requests keep their types: stamps of the handlers yield lines
\* (writeback.go), and no @skip_count or counter leaves its bound.
THEOREM ActionTypes == Spec => []TypeOK
<1>1. ActionsInv => TypeOK
  BY DEF ActionsInv
<1>2. QED BY <1>1, ActionsInvariant, PTL

\* A stamp goes to the line of its task (writeback.go lineByteRange) unless lines may have
\* moved between the reading of the index and that of the file, for any number of requests,
\* files of any length, and whatever a raw text or an odd line makes of the file.
THEOREM StampsAlwaysHit == Spec => []StampHitsOwnLine
<1>1. ActionsInv => StampHitsOwnLine
  BY StampingRequest DEF StampHitsOwnLine, StampFits
<1>2. QED BY <1>1, ActionsInvariant, PTL

\* No stamp of words on a line that is not odd, and no creation with a title and a target of
\* words, makes an invalid file (validate.go ValidateFile) out of a valid one, for any number
\* of requests at a time, any ids, and whatever other requests and changes leave in the file.
THEOREM WritesAlwaysKeepValid == Spec => OwnWritesKeepValid
<1>1. ASSUME ActionsInv, NEW h \in Handlers, CommitStamp(h), ~Garbling(req[h]),
             Head(req[h].plan) # Stamp("reason", "blank"), Valid(req[h].base)
      PROVE  Valid(file')
  <2>1. req[h] \in StampRequests /\ StampFits(req[h], file, version) /\ req[h].base # None
    BY <1>1, StampingRequest DEF CommitStamp
  <2>2. PICK ls \in Stamped(req[h].base[req[h].task.line], Head(req[h].plan)) :
          file' = Spliced(req[h].base, req[h].task.line, ls)
    BY <1>1 DEF CommitStamp, Write
  <2> DEFINE line == req[h].base[req[h].task.line]
             st == Head(req[h].plan)
  <2>3. /\ DOMAIN file' = DOMAIN req[h].base
        /\ \A i \in DOMAIN req[h].base : file'[i].id = req[h].base[i].id
        /\ \A i \in DOMAIN req[h].base : i # req[h].task.line => file'[i] = req[h].base[i]
        /\ file'[req[h].task.line] = Patched(line, st)
        /\ st \in Stamps /\ req[h].task.line \in DOMAIN req[h].base /\ line \in Lines
        /\ ~Garbles(line, st)
    BY <1>1, <2>1, <2>2, NextStamp, StampedFile
  <2>4. line.reason # "blank" /\ ~line.error
    BY <1>1, <2>3 DEF Valid
  <2>5. Patched(line, st).reason # "blank" /\ ~Patched(line, st).error
    <3> HIDE DEF line, st
    <3>1. st # Stamp("reason", "blank")
      BY <1>1 DEF st
    <3>2. QED BY <2>3, <2>4, <3>1, PatchedLine
  <2> HIDE DEF line, st
  <2>6. \A i \in DOMAIN file' : /\ file'[i].id # BadId
                               /\ file'[i].reason # "blank" /\ ~file'[i].error
    BY <1>1, <2>3, <2>5 DEF Valid
  <2>7. QED BY <1>1, <2>3, <2>6 DEF Valid
<1>2. ASSUME ActionsInv, NEW h \in Handlers, CommitCreate(h), req[h].text = "words",
             Valid(req[h].base)
      PROVE  Valid(file')
  <2>1. req[h] \in CreateRequests /\ CreateFits(req[h])
    BY <1>2, CreatingRequest DEF CommitCreate
  <2>2. PICK l \in Lines : /\ req[h].lines = <<l>> /\ l.id \in Ids \ IdsIn(req[h].base)
                           /\ l.reason # "blank" /\ ~l.error
    BY <1>2, <2>1 DEF CreateFits
  <2>3. req[h].base \in Seq(Lines)
    BY <2>1 DEF CreateRequests
  <2>4. file' = req[h].base \o <<l>>
    BY <1>2, <2>2 DEF CommitCreate, Write, WithTask
  <2>5. /\ DOMAIN file' = DOMAIN req[h].base \union {Len(req[h].base) + 1}
        /\ Len(req[h].base) + 1 \notin DOMAIN req[h].base
        /\ \A i \in DOMAIN req[h].base : file'[i] = req[h].base[i]
        /\ file'[Len(req[h].base) + 1] = l
    BY <2>3, <2>4
  <2>6. \A i \in DOMAIN req[h].base : req[h].base[i].id # l.id
    BY <2>2 DEF IdsIn
  <2>7. l.id # BadId
    BY <2>2, ActionsAssumption
  <2>8. QED BY <1>2, <2>2, <2>5, <2>6, <2>7 DEF Valid
<1>3. ActionsInv /\ [Next]_vars
        => [\A h \in Handlers :
              \/ /\ CommitStamp(h)
                 /\ ~Garbling(req[h]) /\ Head(req[h].plan) # Stamp("reason", "blank")
              \/ CommitCreate(h) /\ req[h].text = "words"
              => (Valid(req[h].base) => Valid(file'))]_vars
  BY <1>1, <1>2
<1>4. QED BY <1>3, ActionsInvariant, PTL DEF Spec, OwnWritesKeepValid

\* A stamp that garbles nothing takes a task out of completed (state.go "completed is
\* terminal") only if its write read the file, or its request saw the task, before it was
\* completed, and only its own task unless lines may have moved, for any number of requests
\* and any plan of the handlers.
THEOREM TerminalAlwaysUnlessOutdated == Spec => TerminalUnlessOutdated
<1> DEFINE Stays(h) ==
       \/ file # req[h].base
       \/ \A i \in DOMAIN file :
            file[i].state = "completed" /\ file'[i].state # "completed" =>
              /\ i = req[h].task.line /\ req[h].task.value.state # "completed"
              /\ req[h].task.seen = version => file[i].id = req[h].task.id
<1>1. ASSUME ActionsInv, NEW h \in Handlers, CommitStamp(h), ~Garbling(req[h])
      PROVE  Stays(h)
  <2> SUFFICES ASSUME file = req[h].base, NEW i \in DOMAIN file,
                      file[i].state = "completed", file'[i].state # "completed"
               PROVE  /\ i = req[h].task.line /\ req[h].task.value.state # "completed"
                      /\ req[h].task.seen = version => file[i].id = req[h].task.id
    OBVIOUS
  <2>1. req[h] \in StampRequests /\ StampFits(req[h], file, version) /\ req[h].base # None
    BY <1>1, StampingRequest DEF CommitStamp
  <2>2. PICK ls \in Stamped(req[h].base[req[h].task.line], Head(req[h].plan)) :
          file' = Spliced(req[h].base, req[h].task.line, ls)
    BY <1>1 DEF CommitStamp, Write
  <2>3. /\ \A j \in DOMAIN req[h].base : j # req[h].task.line => file'[j] = req[h].base[j]
        /\ file'[req[h].task.line] = Patched(req[h].base[req[h].task.line], Head(req[h].plan))
        /\ Head(req[h].plan) \in Stamps /\ Head(req[h].plan) = req[h].plan[1]
        /\ 1 \in DOMAIN req[h].plan /\ req[h].base \in Seq(Lines)
    BY <1>1, <2>1, <2>2, NextStamp, StampedFile
  <2>4. i = req[h].task.line
    BY <2>3
  <2>5. Head(req[h].plan).field = "state" /\ Head(req[h].plan).to # "completed"
    <3>1. file[i] \in Lines /\ file'[i] = Patched(file[i], Head(req[h].plan))
      BY <2>3, <2>4
    <3>2. QED BY <2>3, <3>1 DEF Patched, Stamps, Lines
  <2>6. req[h].task.value.state # "completed"
    BY <2>1, <2>3, <2>5 DEF StampFits, KeepsCompleted
  <2>7. ASSUME req[h].task.seen = version PROVE file[i].id = req[h].task.id
    BY <2>1, <2>4, <2>7 DEF StampFits, TaskFits
  <2>8. QED BY <2>4, <2>6, <2>7
<1>2. ActionsInv /\ [Next]_vars
        => [\A h \in Handlers : CommitStamp(h) /\ ~Garbling(req[h]) => Stays(h)]_vars
  BY <1>1
<1>3. QED BY <1>2, ActionsInvariant, PTL DEF Spec, TerminalUnlessOutdated

=============================================================================
