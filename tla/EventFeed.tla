----------------------------- MODULE EventFeed -----------------------------
(***************************************************************************)
(* How a change of the index reaches a browser: internal/events/bus.go,    *)
(* StreamEventsHandler in internal/api/events.go, and the feed of the web  *)
(* app (lib/events.ts, components/task-feed.tsx, components/task-card.tsx).*)
(*                                                                         *)
(* The engine changes the index, then publishes the difference to every    *)
(* subscription that has room for it.  Each connection has a goroutine     *)
(* that writes what it receives to its client.  The browser asks for all   *)
(* tasks once, follows the stream, reconnects when it breaks, and shows    *)
(* the result of a quick action before and after the server answers.       *)
(*                                                                         *)
(* A task is what its card shows of it.  Heartbeats only find out that a   *)
(* client has gone, which Leave covers.                                    *)
(***************************************************************************)
EXTENDS Integers, Sequences

CONSTANTS Ids, Values, \* tasks, and what a card may show of one
          Diags,       \* diagnostics
          Conns,       \* connections to the event stream
          None,        \* no task, no change, no request
          SubCap,      \* the buffer of a subscription (32)
          WireCap,     \* bound: messages between a handler and the browser
          Rapid,       \* RAPID_FAILURE_THRESHOLD (3)
          MaxChanges,  \* bound: changes of the index
          MaxFaults,   \* bound: broken connections, failed requests and reads, restarts
          MaxActs      \* bound: quick actions

ASSUME FeedAssumption ==
  /\ {SubCap, WireCap, Rapid} \subseteq Nat \ {0}
  /\ {MaxChanges, MaxFaults, MaxActs} \subseteq Nat
  /\ None \notin Values
  /\ Conns \cap {"native", "backoff", "dead", "closed"} = {}

VARIABLES index, diags, \* Index.Tasks() and Index.Diagnostics()
          pending,      \* the change Engine.Run is about to publish
          conn,         \* each connection: its subscription, its handler, the wire
          es,           \* the browser's EventSource, or why it has none
          failures,     \* consecutiveFailures, as far as it matters
          get,          \* the request for all tasks
          feed,         \* the tasks in the feed's state
          card,         \* the quick action that has no answer yet
          changes, faults, acts,
          off,          \* history: the tasks of which the browser missed something
          lost          \* history: diagnostics that went away without a publication

vars == <<index, diags, pending, conn, es, failures, get, feed, card,
          changes, faults, acts, off, lost>>

Tasks == [Ids -> Values \union {None}]

\* What a publication says of some tasks: their new value, or that they are gone.
Changes == UNION {[S -> Values \union {None}] : S \in SUBSET Ids}

ASSUME NoChangeAssumption == None \notin Changes

Nothing == [id \in {} |-> None]

\* task_upserted, or task_removed.
Messages == [id : Ids, value : Values \union {None}]

\* pc: where the handler is.  todo: what is left of the change it is writing.  last:
\* lastDiags.  told: history, the diagnostics of a client that took the list of them
\* when the handler did, and heard all it wrote since.
Connections ==
  [pc : {"free", "subscribe", "seed", "select", "write", "leave"},
   up : BOOLEAN, queue : Seq(Changes), todo : Changes,
   last : SUBSET Diags, told : SUBSET Diags, wire : Seq(Messages)]

Free == [pc |-> "free", up |-> FALSE, queue |-> <<>>, todo |-> Nothing,
         last |-> {}, told |-> {}, wire |-> <<>>]

\* since: history, the tasks that changed after the answer was made.
Requests == [state : {"asked", "over"}] \union
            [state : {"answered"}, tasks : Tasks, since : SUBSET Ids]

Sources == Conns \union {"native", "backoff", "dead", "closed"}

TypeOK ==
  /\ index \in Tasks /\ diags \in SUBSET Diags
  /\ pending \in Changes \union {None}
  /\ conn \in [Conns -> Connections]
  /\ \A k \in Conns : Len(conn[k].queue) <= SubCap /\ Len(conn[k].wire) <= WireCap
  /\ es \in Sources /\ failures \in 0 .. Rapid
  /\ get \in Requests
  /\ feed \in Tasks
  /\ card \in [id : Ids, flipped : BOOLEAN] \union {None}
  /\ changes \in 0 .. MaxChanges /\ faults \in 0 .. MaxFaults /\ acts \in 0 .. MaxActs
  /\ off \subseteq Ids /\ lost \subseteq Diags

\* The page is opened: the feed is empty, both effects start.
Init ==
  /\ index \in Tasks /\ diags \in SUBSET Diags
  /\ pending = None
  /\ conn = [k \in Conns |-> Free]
  /\ es = "native" /\ failures = 0
  /\ get = [state |-> "asked"]
  /\ feed = [id \in Ids |-> None]
  /\ card = None
  /\ changes = 0 /\ faults = 0 /\ acts = 0
  /\ off = {id \in Ids : index[id] # None} /\ lost = {}

InBus(k) == conn[k].pc \in {"seed", "select", "write", "leave"}

\* Something about id is still on its way through a connection.
Carries(c, id) ==
  \/ \E i \in DOMAIN c.wire : c.wire[i].id = id
  \/ id \in DOMAIN c.todo
  \/ \E i \in DOMAIN c.queue : id \in DOMAIN c.queue[i]

\* A change of id is on its way to the browser.
InFlight(id) == es \in Conns /\ Carries(conn[es], id)

Fault == faults < MaxFaults /\ faults' = faults + 1

browser == <<es, failures, get, feed, card, acts>>

-----------------------------------------------------------------------------
(* The engine and the bus *)

\* ReconcileFile; the difference may be empty where diagnostics changed.
Reconcile ==
  /\ pending = None
  /\ changes < MaxChanges /\ changes' = changes + 1
  /\ index' \in Tasks /\ diags' \in SUBSET Diags
  /\ index' # index \/ diags' # diags
  /\ LET changed == {id \in Ids : index'[id] # index[id]} IN
       /\ pending' = [id \in changed |-> index'[id]]
       /\ get' = IF get.state = "answered"
                 THEN [get EXCEPT !.since = @ \union changed] ELSE get
  /\ lost' = {}
  /\ UNCHANGED <<conn, es, failures, feed, card, faults, acts, off>>

\* ReconcileFile cannot read a file that is there: the index has dropped the file's
\* tasks and diagnostics by then, and Engine.Run publishes nothing.
ReconcileFails ==
  /\ pending = None /\ Fault
  /\ \E S \in SUBSET {id \in Ids : index[id] # None}, D \in SUBSET diags :
       /\ S # {} \/ D # {}
       /\ index' = [id \in Ids |-> IF id \in S THEN None ELSE index[id]]
       /\ diags' = diags \ D
       /\ get' = IF get.state = "answered" THEN [get EXCEPT !.since = @ \union S] ELSE get
       /\ off' = off \union S
       /\ lost' = lost \union D
  /\ UNCHANGED <<pending, conn, es, failures, feed, card, changes, acts>>

\* Mutant: no subscriber's buffer is ever full.
HasRoomAlways(k) == TRUE

HasRoom(k) == Len(conn[k].queue) < SubCap

\* Bus.Publish: a subscription without room loses the change.
Publish ==
  /\ pending # None
  /\ pending' = None
  /\ conn' = [k \in Conns |-> IF InBus(k) /\ HasRoom(k)
                              THEN [conn[k] EXCEPT !.queue = Append(@, pending)]
                              ELSE conn[k]]
  /\ off' = IF es \in Conns /\ conn[es].up /\ InBus(es) /\ HasRoom(es)
            THEN off \ DOMAIN pending
            ELSE off \union DOMAIN pending
  /\ UNCHANGED <<index, diags, browser, changes, faults, lost>>

-----------------------------------------------------------------------------
(* StreamEventsHandler *)

server == <<index, diags, pending, changes, lost>>

Subscribe(k) ==
  /\ conn[k].pc = "subscribe"
  /\ conn' = [conn EXCEPT ![k].pc = "seed"]
  /\ UNCHANGED <<server, browser, faults, off>>

\* What is wrong already is not announced.
Seed(k) ==
  /\ conn[k].pc = "seed"
  /\ conn' = [conn EXCEPT ![k].pc = "select", ![k].last = diags, ![k].told = diags]
  /\ UNCHANGED <<server, browser, faults, off>>

\* Mutant: a change without tasks is passed over.
ReceiveTasks(k) ==
  /\ conn[k].pc = "select" /\ conn[k].queue # <<>>
  /\ conn' = [conn EXCEPT ![k].pc = IF Head(conn[k].queue) = Nothing THEN "select" ELSE "write",
                          ![k].todo = Head(conn[k].queue), ![k].queue = Tail(@)]
  /\ UNCHANGED <<server, browser, faults, off>>

Receive(k) ==
  /\ conn[k].pc = "select" /\ conn[k].queue # <<>>
  /\ conn' = [conn EXCEPT ![k].pc = "write", ![k].todo = Head(conn[k].queue),
                          ![k].queue = Tail(@)]
  /\ UNCHANGED <<server, browser, faults, off>>

\* task_upserted or task_removed; a slow client blocks the write.
WriteTask(k) ==
  /\ conn[k].pc = "write" /\ conn[k].up
  /\ Len(conn[k].wire) < WireCap
  /\ \E id \in DOMAIN conn[k].todo :
       conn' = [conn EXCEPT
                 ![k].todo = [i \in DOMAIN conn[k].todo \ {id} |-> conn[k].todo[i]],
                 ![k].wire = Append(@, [id |-> id, value |-> conn[k].todo[id]])]
  /\ UNCHANGED <<server, browser, faults, off>>

\* Everything of the change is written; diagnostic_raised and diagnostic_cleared
\* bring the client from the diagnostics of the last time to those of now.
WriteDiags(k) ==
  /\ conn[k].pc = "write" /\ conn[k].todo = Nothing
  /\ conn[k].up \/ diags = conn[k].last
  /\ conn' = [conn EXCEPT
               ![k].pc = "select", ![k].last = diags,
               ![k].told = (@ \union (diags \ conn[k].last)) \ (conn[k].last \ diags)]
  /\ UNCHANGED <<server, browser, faults, off>>

\* Mutant: a write that fails is not noticed.
LeaveOnDone(k) ==
  /\ conn[k].pc = "select" /\ ~conn[k].up
  /\ conn' = [conn EXCEPT ![k].pc = "leave"]
  /\ UNCHANGED <<server, browser, faults, off>>

\* ctx.Done, or a write, a heartbeat's perhaps, that fails.
Leave(k) ==
  /\ conn[k].pc \in {"select", "write"} /\ ~conn[k].up
  /\ conn' = [conn EXCEPT ![k].pc = "leave"]
  /\ UNCHANGED <<server, browser, faults, off>>

\* The deferred Unsubscribe.
Unsubscribe(k) ==
  /\ conn[k].pc = "leave"
  /\ conn' = [conn EXCEPT ![k] = Free]
  /\ UNCHANGED <<server, browser, faults, off>>

-----------------------------------------------------------------------------
(* subscribeToEvents *)

\* Mutant: the page closes its EventSource and sets no timer.
ConnectNative(k) ==
  /\ es = "native"
  /\ conn[k].pc = "free"
  /\ conn' = [conn EXCEPT ![k] = [Free EXCEPT !.pc = "subscribe", !.up = TRUE]]
  /\ es' = k /\ failures' = 0
  /\ UNCHANGED <<server, get, feed, card, acts, faults, off>>

\* new EventSource, and the browser's own retries; the headers are flushed before
\* the handler subscribes.
Connect(k) ==
  /\ es \in {"native", "backoff"}
  /\ conn[k].pc = "free"
  /\ conn' = [conn EXCEPT ![k] = [Free EXCEPT !.pc = "subscribe", !.up = TRUE]]
  /\ es' = k /\ failures' = 0
  /\ UNCHANGED <<server, get, feed, card, acts, faults, off>>

Counted(n) == IF n < Rapid THEN n + 1 ELSE Rapid

\* onerror: from the Rapid-th failure on, the page retries by itself.
AfterError(n) == IF n < Rapid THEN "native" ELSE "backoff"

OnError ==
  /\ es \in Conns /\ ~conn[es].up
  /\ failures' = Counted(failures) /\ es' = AfterError(Counted(failures))
  /\ UNCHANGED <<server, conn, get, feed, card, acts, faults, off>>

\* Nobody listens.
ConnectFails ==
  /\ es \in {"native", "backoff"} /\ Fault
  /\ failures' = Counted(failures) /\ es' = AfterError(Counted(failures))
  /\ UNCHANGED <<server, conn, get, feed, card, acts, off>>

\* An HTTP error, from a proxy in front of the daemon: an EventSource never retries
\* after one, and the page does only if it had counted enough failures.
ConnectRefused ==
  /\ es \in {"native", "backoff"} /\ Fault
  /\ failures' = Counted(failures)
  /\ es' = IF AfterError(Counted(failures)) = "native" THEN "dead"
           ELSE AfterError(Counted(failures))
  /\ UNCHANGED <<server, conn, get, feed, card, acts, off>>

\* The connection breaks: what was on its way is lost.
Break ==
  /\ es \in Conns /\ conn[es].up /\ Fault
  /\ conn' = [conn EXCEPT ![es].up = FALSE, ![es].wire = <<>>]
  /\ off' = off \union {id \in Ids : InFlight(id)}
  /\ UNCHANGED <<server, browser>>

\* The daemon restarts; the files may have changed meanwhile.
Restart ==
  /\ Fault
  /\ index' \in Tasks /\ diags' \in SUBSET Diags
  /\ pending' = None /\ lost' = {}
  /\ conn' = [k \in Conns |-> Free]
  /\ get' = [state |-> "over"]
  /\ off' = off \union {id \in Ids : InFlight(id) \/ index'[id] # index[id]}
                \union (IF pending = None THEN {} ELSE DOMAIN pending)
  /\ UNCHANGED <<es, failures, feed, card, acts, changes>>

-----------------------------------------------------------------------------
(* TaskFeed and TaskCard *)

\* Mutant: only tasks that are in the feed are replaced.
AppliedToKnown(f, m) == IF f[m.id] = None THEN f ELSE [f EXCEPT ![m.id] = m.value]

Applied(f, m) == [f EXCEPT ![m.id] = m.value]

OnMessage ==
  /\ es \in Conns /\ conn[es].wire # <<>>
  /\ feed' = Applied(feed, Head(conn[es].wire))
  /\ conn' = [conn EXCEPT ![es].wire = Tail(@)]
  /\ UNCHANGED <<server, es, failures, get, card, acts, faults, off>>

\* ListTasksHandler
Answer ==
  /\ get.state = "asked"
  /\ get' = [state |-> "answered", tasks |-> index, since |-> {}]
  /\ UNCHANGED <<server, conn, es, failures, feed, card, acts, faults, off>>

\* setTasks(data), whatever events have brought in the meantime.
Arrive ==
  /\ get.state = "answered"
  /\ feed' = get.tasks
  /\ get' = [state |-> "over"]
  /\ off' = {id \in Ids : IF InFlight(id) THEN id \in off ELSE id \in get.since}
  /\ UNCHANGED <<server, conn, es, failures, card, acts, faults>>

GetFails ==
  /\ get.state # "over" /\ Fault
  /\ get' = [state |-> "over"]
  /\ UNCHANGED <<server, conn, es, failures, feed, card, acts, off>>

\* A card shows v for id if the feed still has it; nothing says so in the index.
Show(id, v) ==
  IF feed[id] = None
  THEN UNCHANGED <<feed, off>>
  ELSE /\ feed' = [feed EXCEPT ![id] = v]
       /\ off' = IF InFlight(id) THEN off ELSE off \union {id}

\* handleFulfill and handleSkip show nothing yet; handlePause and handleResume flip
\* the card at once.
Act(id) ==
  /\ card = None /\ feed[id] # None
  /\ acts < MaxActs /\ acts' = acts + 1
  /\ \/ card' = [id |-> id, flipped |-> FALSE] /\ UNCHANGED <<feed, off>>
     \/ card' = [id |-> id, flipped |-> TRUE] /\ \E v \in Values : Show(id, v)
  /\ UNCHANGED <<server, conn, es, failures, get, faults>>

\* onReplace with the task the server answers, or an error: the state of a flipped
\* card is put back, in whatever the feed has of the task by then.
Settle ==
  /\ card # None
  /\ card' = None
  /\ \/ \E v \in Values : Show(card.id, v)
     \/ ~card.flipped /\ UNCHANGED <<feed, off>>
  /\ UNCHANGED <<server, conn, es, failures, get, acts, faults>>

\* The page is left: cleanup closes the stream, clears the timer, ignores the answer.
Unmount ==
  /\ es # "closed"
  /\ es' = "closed" /\ failures' = 0
  /\ get' = [state |-> "over"]
  /\ conn' = [k \in Conns |-> IF k = es THEN [conn[k] EXCEPT !.up = FALSE, !.wire = <<>>]
                              ELSE conn[k]]
  /\ feed' = [id \in Ids |-> None] /\ card' = None
  /\ off' = Ids
  /\ UNCHANGED <<server, acts, faults>>

-----------------------------------------------------------------------------
Next ==
  \/ Reconcile \/ ReconcileFails \/ Publish \/ Restart
  \/ \E k \in Conns :
       \/ Subscribe(k) \/ Seed(k) \/ Receive(k) \/ WriteTask(k) \/ WriteDiags(k)
       \/ Leave(k) \/ Unsubscribe(k) \/ Connect(k)
  \/ OnError \/ ConnectFails \/ ConnectRefused \/ Break
  \/ OnMessage \/ Answer \/ Arrive \/ GetFails
  \/ (\E id \in Ids : Act(id)) \/ Settle
  \/ Unmount

Spec == Init /\ [][Next]_vars

(* Handlers and the browser go on; the select of a handler is fair to ctx.Done.
   Whoever reconnects reaches the daemon in the end, since failures are bounded. *)
Fairness ==
  /\ WF_vars(Publish)
  /\ \A k \in Conns :
       /\ WF_vars(Subscribe(k)) /\ WF_vars(Seed(k)) /\ WF_vars(Receive(k))
       /\ WF_vars(WriteTask(k)) /\ WF_vars(WriteDiags(k))
       /\ SF_vars(Leave(k)) /\ WF_vars(Unsubscribe(k))
  /\ WF_vars(\E k \in Conns : Connect(k))
  /\ WF_vars(OnError) /\ WF_vars(OnMessage)

FairSpec == Spec /\ Fairness

-----------------------------------------------------------------------------
(* Properties *)

Latest(S) == {i \in S : \A j \in S : j <= i}

QueuedAt(c, id) == {i \in DOMAIN c.queue : id \in DOMAIN c.queue[i]}
SentAt(c, id) == {i \in DOMAIN c.wire : c.wire[i].id = id}

\* The latest that connection c carries about id is v: the queue comes after the
\* change being written, that after the wire.
Says(c, id, v) ==
  /\ \A i \in Latest(QueuedAt(c, id)) : c.queue[i][id] = v
  /\ QueuedAt(c, id) = {} /\ id \in DOMAIN c.todo => c.todo[id] = v
  /\ QueuedAt(c, id) = {} /\ id \notin DOMAIN c.todo
       => \A i \in Latest(SentAt(c, id)) : c.wire[i].value = v

\* When all that is on its way has arrived, the feed will have v of id.
WillShow(id, v) == IF InFlight(id) THEN Says(conn[es], id, v) ELSE feed[id] = v

\* The feed shows, or is about to show, what the index has of a task, except where
\* the browser missed its last change: no stream was up, or its buffer was full, or
\* the answer to the first request, older than an event, came after it, or a quick
\* action showed what no event confirms, or the task left the index with a file that
\* could not be read, of which nothing is published.
FeedFollowsIndex ==
  \A id \in Ids \ off :
    (pending # None /\ id \in DOMAIN pending) \/ WillShow(id, index[id])

\* A handler with nothing left to do has told its client all the diagnostics there
\* are, although changes were dropped while its buffer was full, and has taken back all
\* the others but those that went away, since the last publication, with a file that
\* could not be read.
DiagsCaughtUp ==
  \A k \in Conns :
    conn[k].pc = "select" /\ conn[k].queue = <<>> /\ pending = None
      => diags \subseteq conn[k].told /\ conn[k].told \ diags \subseteq lost

\* When a client is gone, its subscription leaves the bus.
StreamsEnd ==
  \A k \in Conns : (conn[k].pc # "free" /\ ~conn[k].up) ~> conn[k].pc = "free"

\* As long as the page is open the stream comes back, unless an HTTP error ended it.
StreamComesBack == []<>(es \in Conns \union {"closed", "dead"})

=============================================================================
