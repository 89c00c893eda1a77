# Verification of vakt

vakt is a Go daemon that watches a folder of Markdown files (the vault), indexes the
task lines in them (`@id`, `@schedule`, `@once`, `@state`, ...), schedules reminders,
sends them as web push notifications, and serves a small web app that edits the same
files. The vault is the only source of truth: the user's editor, a sync tool and the
daemon itself all write the same files, and the daemon learns of every change through
its file watcher.

This directory models the parts of it where order and failure matter, checks them with
TLC on small instances, and proves the central properties with TLAPS for every instance.

## 1. Inventory

| Component (src/internal/...) | State | Operations | What makes it hard | What makes it correct |
|---|---|---|---|---|
| `engine/vault/writer.go` | a mutex per path; the hash registry | `Write`, `Record`, `Check` | handlers on many goroutines; a watcher that looks between rename and Record; failing I/O | writes of a path serialize; the registry names the latest own bytes; every write returns |
| `engine/watcher` | debounce timers, last hashes, a buffered channel | `Run`, `handleEvent`, `processPath`, `rescan` | timers, goroutines and the rescan race; lost events; a data race on the hashes; a blocking send | an outside change reaches the index; only the daemon's own bytes are dropped |
| `engine/engine.go` | index, watcher, bus | `New`, `Run`, `Subscribe` | start-up order, cancellation | nothing is missed while starting; `Run` ends |
| `engine/index` | tasks by id, ids by path, diagnostics by path | `Build`, `ReconcileFile` | duplicates across files, any order of reconciliations, read errors | one owner per id; nothing is dropped in silence; the published change is the difference |
| `events/bus.go` | subscriptions with bounded buffers | `Publish`, `Subscribe`, `Unsubscribe` | a full buffer drops | slow subscribers never block anybody |
| `engine/schedule/scheduler.go` | heap of fire points, one timer, channel of due tasks | `New`, `apply`, `fire`, `rearm` | edits against due timers, drops, clock jumps | never early, never twice, never asleep past a fire point |
| `engine/schedule/{fire,suppress,missed}.go` | none (pure) | `PrevFire`, `Evaluate`, `DetectMissed` | windows and boundaries | agree with the declarative reading of SDD G7, G8 and G10 |
| `engine/schedule/{state,writeback,fulfillment,delivery}.go` | the vault | stamps of single lines | read-modify-write outside the mutex; two writes in a row; stale line numbers | a stamp changes its own task only; completed is terminal |
| `engine/directive` | none (pure) | `Lex`, `PatchLine`, `ValidateFile`, `ParseValue` | byte positions; written by one set of rules, read back by another | a stamp is what the index reads next, and nothing else changes |
| `api/task_actions.go`, `api/task_create.go`, `api/vault_browser.go` | none of their own | pause, resume, skip, fulfil, create, put file | act on the index's idea of a task, which own writes do not refresh | the handler's answer matches what was written |
| `api/events.go` | one subscription per client | `StreamEventsHandler` | bounded buffer, diagnostics compared between two events, clients that go away | a client can follow the index; no subscription outlives its client |
| `engine/vault/walker.go`, `api/trigger.go` | none | `Walk`, `TriggerHandler` | a second reading of the vault, in an order of its own | it finds the tasks the index has |
| `config/subscriptions.go` | map and JSON file | `Add`, `Remove`, `List` | failed persists, restart | what a client was told holds in memory and on disk |
| `integration/webpush`, `engine/dispatch` | registry, subscription store | `Dispatch`, `sendOne`, template | prune against re-subscribe | one client's failure is its own |
| `web/src` | a feed of tasks in React state | `subscribeToEvents`, `TaskFeed`, the quick actions of `TaskCard` | a slow GET against newer events, two kinds of reconnects, rollbacks | the feed shows the index; a broken stream comes back |

Calls and messages: a handler calls `Writer.Write`; the rename raises an fsnotify event;
the watcher's loop debounces it, a timer goroutine hashes the file and asks the registry;
what is not the daemon's own goes through a channel of 64 to `Engine.Run`, which calls
`ReconcileFile` and publishes the difference on the bus; the bus's subscribers are the
event streams and (once wired) the scheduler, whose channel of due tasks will feed
suppression, dispatch and write-back. `schedule.New`, `DetectMissed`, `StampLastTriggered`,
`ApplyWriteBack`, `ApplyDeliveryOutcome` and `ClearFailure` have no caller outside tests at
this commit: the scheduler is modelled against the contract of its code, with the index and
the reader of `Due` as its environment.

PROJECT.json lists every component, every hazard with the line where it bites, and for
every modelled definition the lines it stands for.

## 2. Modules

| Module | What it is | Code |
|---|---|---|
| `SerialVault` | abstract: a file per path, replaced by Put then Tag | what `vault.Writer` promises |
| `VaultWriter` | goroutines in `Writer.Write`, the registry, outside edits | `vault/writer.go` |
| `Watcher` | fsnotify notices, timers, `processPath`, `rescan` (EXTENDS `VaultWriter`) | `watcher/watcher.go` |
| `ReactiveCycle` | composition: engine over watcher over writer, with start-up, stop, restart | `engine/engine.go` |
| `ReactiveCycle_proofs` | the writer's invariants and its refinement of `SerialVault`; what a stale file may be behind, and where echoes come from | |
| `IdOwnership` | abstract: an id belongs to one file at most | what the index promises about `@id` |
| `TaskIndex` | `Build`, `ReconcileFile`, `Change`, diagnostics, publishing, and the debug trigger's own pass | `index/index.go`, `directive/validate.go`, `engine.go`, `vault/walker.go`, `api/trigger.go` |
| `TaskIndex_proofs` | invariants, the refinement, the mirror, `Build`, the trigger | |
| `Scheduler` | heap, timer, subscription, due channel, clock | `schedule/scheduler.go`, `fire.go`, `events/bus.go` |
| `Scheduler_proofs` | invariants of the scheduler | |
| `TaskActions` | requests on one file over a stale index: stamps and creations | `api/task_actions.go`, `task_create.go`, `vault_browser.go`, `schedule/{state,writeback,fulfillment}.go` |
| `TaskActions_proofs` | stamps hit their own line, writes keep a file valid, completed is left only behind an outdated view | |
| `FirePolicy` | the previous fire, the suppression ladder, missed triggers, and what clients are told | `schedule/{fire,suppress,missed}.go`, `api/tasks.go`, `api/task_actions.go` |
| `FirePolicy_proofs` | the search is right, and so are the ladder, the missed triggers and the answers | |
| `PushDelivery` | clients that enrol and unsubscribe, dispatches that send and prune | `config/subscriptions.go`, `api/subscriptions.go`, `integration/webpush/module.go` |
| `PushDelivery_proofs` | what clients were told holds; everybody is tried | |
| `EventFeed` | the bus, a handler per connection, and the browser: stream, reconnects, first fetch, quick actions | `events/bus.go`, `api/events.go`, `web/src/lib/events.ts`, `task-feed.tsx`, `task-card.tsx` |
| `EventFeed_proofs` | types, diagnostics that catch up after drops, and the feed that follows the index | |
| `Directives` | one line: the lexer byte by byte, the stamps, and what the index reads back | `directive/{lexer,patch,checkbox}.go`, `schedule/writeback.go`, `index/index.go` |
| `Directives_proofs` | the lexer finds the leftmost directives, a stamp is what the index reads next | |
| `MC*` | constants and configurations for TLC | |

How state corresponds to code:

- *VaultWriter*: `lock` is `Writer.locks`, `registry` is `HashRegistry.entries`, `pc`/`job`
  are a goroutine's place and arguments inside `Write`, `disk` the vault. `Write` is split
  at the points where another goroutine or process can act: before the mutex (`Call`),
  holding it (`Acquire`), temp file durable (`Stage`), renamed (`Publish`), recorded and
  returned (`Record`); every error return is `Fail`. `lastOwn` is a history variable. A
  content stands for its SHA-256.
- *Watcher*: `timers[p]` is the entry of `Watcher.timers` (none, armed, or expired but not
  yet removed), `orphans` counts timers that were reset after they had expired and then lost
  their entry to the `delete` of the first expiry; `procs` are goroutines in `processPath`;
  `loop` is `Run`'s goroutine with the local variables of `rescan`; `hashes` and `out` are
  the fields of those names. `diffHashes` reads `w.hashes` without the mutex: where a store is
  in progress either value may be seen (the fatal outcome of that race is `Crash`).
- *ReactiveCycle*: `engine` is the place in `engine.New` or `Engine.Run`; `index` is what each
  path held when it was last indexed (what a file means is TaskIndex's subject). `ReconcileFails` is
  an iteration of `Run` whose `ReconcileFile` cannot read the file: the index has dropped it by then
  (None), and the watcher's hash stays. `unread` is a history variable, the files so dropped. The
  same step is in `TaskIndex`, `EventFeed` and `Scheduler` under the same name, each with what it
  does to the state there: tasks and diagnostics go, and nothing is published.
- *TaskIndex*: `tasks`, `idsByPath`, `diagsByPath` are the fields of `Index`. One action is one
  whole `ReconcileFile` with the publishing around it, because the index's mutex and the single
  engine goroutine make it one step to every observer of the bus. `mirror` and `seenDiags`
  are a subscriber's copy. A file is a sequence of lines, a line an id and a schedule
  directive; the rest of a line never decides what the index does. `Walk` and `Triggered` are
  operators over the disk, since the debug trigger keeps nothing between two requests; `Rank` is
  the order in which `filepath.WalkDir` comes by the files, which need not be the order of paths.
- *Scheduler*: `heap` stands for `heap` and `byID` together (one entry per id), `timer` for
  `timerC`, `popped` for the local `due` of `fire`, so that the clock and the publisher may
  act between the pop and each send. Time is a number, 0 is Go's zero time. `NextCron` is the
  cron library, a constant operator.
- *TaskActions*: `file` is one vault file, `index` its tasks as the index has them (with the
  line they were on), `req` the request each goroutine serves: the task it looked up, the
  stamps it still has to make (`plan`) and the bytes its current stamp read (`base`). Ids are
  numbers, the candidates of one title slug in the order `generateTaskID` tries them;
  `Elsewhere` are ids other files own. Whether the watcher will report a write is left open
  (`reported'` is any Boolean after a write), since the look between rename and `Record`, and
  the swallowed edit, are `ReactiveCycle`'s subject. `version` is a history variable: it grows with
  every change that may have moved lines. A text that a client sends (a pause's reason, a created title
  or target) is written as it is: "words" are read back as such, "blank" ones are an error of the file,
  and "raw" ones (with a parenthesis, a directive or a line break) put any of the constant
  `Garbled[line]` in the place of the line, which may be several lines, none, or lines with other
  ids. A stamp on an `odd` line (a name twice, an unfinished directive, a second checkbox) does the
  same, since the stamp and the index may mean different directives. `Valid` is `ValidateFile` without an
  error: a wrong or repeated `@id`, an empty value, an unknown `@state`; an unknown
  name or a missing `@id` is a warning there, an unparsed schedule nothing.
- *FirePolicy*: a cron expression is its set of fire points, `fires`; `walk` is one call of
  `PrevFire` (the window it is in, the fire `Next` returned, the last one inside) together with
  the call of `Evaluate` or `DetectMissed` it belongs to; one turn of the loop is one action.
  `task` is the line the index has and `vault` the line as stamped; `answer` is the last result. A
  line may be `wrong`: five fields that the cron library does not parse, after which `Evaluate` fails where it has to search
  (rung "error"), clients see no suppression, and no trigger is missed.
- *PushDelivery*: `subs` is `Store.subs`, `disk` the file, `job` the locals of one `Dispatch`: its
  snapshot, what is left of the loop, the request under way with its answer, and the two counts.
  `live` is what the push services know. `answered` is a history variable: the keys a client was
  told are stored, that it was told it is removed, or nothing, once what it was told no longer binds
  (its endpoint died, a service called it gone before, or its last request failed).
- *EventFeed*: `index` and `diags` are what `Index.Tasks()` and `Diagnostics()` return, `pending` the
  change `Engine.Run` has computed and not yet published. A record of `conn` is one connection: `pc`
  is the place in `StreamEventsHandler`, `queue` the subscription's channel, `todo` what is left of
  the change being written, `last` is `lastDiags`, `wire` what the browser has not read. `es` is the
  page's `EventSource`: a connection, its own retry ("native"), the page's timer ("backoff"), ended by
  an HTTP error ("dead"), or closed with the page. `get`, `feed` and `card` are the first request, the
  `tasks` state and the one quick action without an answer. `off` is a history variable: the tasks
  of which the browser missed something, each action saying exactly what it makes it miss. `lost` is
  one, too: diagnostics that a failed read took away and no publication has mentioned yet. `told`
  is a history variable: the diagnostics of a client that believes what it is sent.
- *Directives*: `line` is the sequence of bytes of a line; `i` and `spans` are the locals of `Lex`,
  one turn of its outer loop an action and its inner loops the operator `Until`. `job` is who called
  it: a reading of the index, or a stamp, which replaces the line when the lexer has ended. `stamped` and
  `seen` are history variables: the last stamp with the line it saw, and the next reading.

## 3. Runs

| Run | Checks | Bounds |
|---|---|---|
| `VaultWriter` | the registry never goes back, refinement of `SerialVault`, `Write` returns | 2 goroutines, 2 paths, 2 contents, calls unbounded |
| `ReactiveCycle` | types, a file is stale only behind own bytes or in the start-up window, one echo per write | 1 file, 2 contents, 1 edit or deletion, 2 daemon writes, 1 restart, 2 timer goroutines, channel of 1 |
| `ReactiveEdits` | outside edits reach the index; a cancelled `Run` returns unless the channel is full | 1 file, 3 contents, 2 edits, 1 lost event or failed walk or read, of the watcher or the engine, cancellation after 1 edit at most, channel of 1 |
| `TaskIndex` | the debug trigger agrees with the index, ownership, accountability, mirror, diagnostics, `Build` | 2 files, 2 ids, 10 possible files, 3 changes, a walk that visits the second path first |
| `TaskActions` | types, stamps hit their own task's line, own writes of words keep a valid file valid, completed is left only behind an outdated view | 2 handlers, 1 file of 1 or 2 lines that may be wrong or odd, 3 ids of which one is elsewhere, 2 requests, 3 kinds of text with 3 ways to garble a line, 1 other change, 1 failed write or restart |
| `FirePolicy` | the previous fire, the ladder against SDD G7 and G8, missed triggers (G10), what clients are told of the next fire | every schedule over 6 moments, windows of 1, 2 and 4, 35 lines, one call after another |
| `PushDelivery` | types, what clients were told holds in memory and on disk, everybody is tried once, gone endpoints are pruned | 2 endpoints, 2 kinds of keys, 1 dispatch after another, 3 requests, 2 endpoints that expire or appear, 2 faults |
| `EventFeed` | types, the feed shows the index but for what was missed, diagnostics catch up, subscriptions end with their clients, the stream comes back | 1 task with 2 appearances, 1 diagnostic, 1 connection at a time, buffer and wire of 1, 2 changes, 2 faults, the page's own retry from the 2nd failure on, 1 quick action |
| `Directives` | the lexer finds the leftmost directives, a stamp is what the index reads next | lines of up to 3 of 8 pieces (whole, opened and broken directives, text, a checkbox) with 3 endings, 2 stamps of 4 kinds |
| `Scheduler` | types, order of fire points, timer covers heap, heap follows index, nothing stays overdue | 2 tasks, a cron and a once, 3 changes or failed reads, clock 1..4, subscription of 1, due channel of 1 |

Why these are enough: files interact in the watcher only through the order of the channel and
the rescan's walk, and every property of `ReactiveCycle` speaks of one path, so one file with
every interleaving of two goroutines and the loop shows each race (a third goroutine of
one path needs a third event within the time the first two take). A lost update of the
registry needs two writes; the swallowed edit two edits around one write. The index's
conflicts are between pairs of files over pairs of ids: taking over an id needs three changes
(two holders, the first gives up, the second is touched). For the scheduler a full
channel of one and a subscription of one reach every drop, the third change is the one that
makes good what was dropped, and four moments hold two firings
of the cron with a once between them. Two requests are what a lost update or a duplicated id
needs, one that garbles a line and one that comes later included, and one change from outside under
a request invalidates the file, or moves its task; the theorems hold for any number. Six moments and a lookback of four put every fire inside, on
the edge of and outside every window; three windows reach a first, a middle and a last one.
Three requests are an enrolment, a removal and a third client's write that rewrites the file; two
faults are a failed persist and a restart; dispatches meet in the store only, whose operations
are atomic, and the theorems hold for any number of them. One connection at a time is enough for
the feed, because handlers share the bus only and the bus serves each subscription by itself; a
buffer and a wire of one with two changes fill both, and two faults reach both kinds of retry. A
stamp reads a line with at most one directive it looks for, one that it must not touch and one that
disturbs it: three pieces; two stamps in a row are an insertion that is then replaced. With
`Rank` against the order of paths, `Walk` and `Build` disagree wherever they can.

Runs whose property the code does not satisfy, each a statement of the repository itself:

| Run | Statement | What happens |
|---|---|---|
| `WriteNotIndexed` | openapi.yaml:543-545 "a vault write reaches the index" | the echo of the daemon's own write is dropped, and nobody else re-indexes it |
| `TaskCompleted` | task_actions.go:29-31 "the response DTO reflects what was just written", fulfillment.go:15 "@once completes outright" | a fulfilment that failed between its two stamps is answered as completed on the retry, and the task stays active |

Fairness. `VaultWriter`: Go's mutex hands over to a starved waiter, so `Acquire` is strongly
fair, and a running goroutine goes on (weak fairness). `ReactiveCycle`: the event, the tick
and `ctx.Done` compete in a `select`, which picks at random among the ready cases, hence strong
fairness for each; timers and goroutines are weakly fair; faults, edits, restarts and the
cancellation are never forced. `Scheduler`: the same for its `select`; the clock advances.
`PushDelivery`: a running dispatch goes on, requests end
because the HTTP client has a timeout of 10 s, and somebody dispatches again (an assumption on
the trigger endpoint's clients: a gone endpoint is pruned by dispatches alone).
`EventFeed`: handlers, the publisher and the browser go on (weak fairness); `Leave` is strongly fair,
because `ctx.Done` competes in the handler's `select` with changes that keep coming; reconnecting is
weakly fair, and faults are bounded, so in the end a connection succeeds. Nothing forces the
first answer, a quick action or the end of the page.
`TaskIndex`, `TaskActions`, `FirePolicy` and `Directives` have safety properties only and assume no fairness.

## 4. Proofs

- `ReactiveCycle_proofs`. `WriterInv` adds to the types that a goroutine past `idle` has a job,
  that inside the critical section it holds its path's mutex, and that what it has renamed is
  the latest rename: without the last part `Record` could write an older hash.
  `WriterImplementsSerial` maps `busy` to the paths renamed and not recorded; each action
  is a step of `SerialVault` or a stutter. Every step of the composed system is a step of the
  writer or leaves it alone, so both carry over to the cycle (`CycleKeepsRegistry`).
  `OnlyOwnBytesAreMissed` rests on `NothingForgotten`: while nothing has failed, a file whose
  bytes the index does not have is still to be read by `Build`, or has a notice, a timer, a goroutine in `processPath`
  or a report that will bring it there, or holds the daemon's own bytes, or was changed before it was watched.
  Each step moves it along this chain; a check that drops bytes does so because they are the
  daemon's own (`TagsAreOwn`). `OneEchoPerWrite` counts: the reports taken for echoes of a path,
  its tag in the registry and the calls of `Write` for it that have not returned are together no
  more than the calls there have been (`EchoesArePaid`), since a check that drops a report takes the tag away.
- `TaskActions_proofs`. `ActionsInv` adds to the types that a task of the index, of a request, or found in what a
  request has read, stands on its line unless `version` has grown since (`IndexFits`, `RequestsFit`);
  a step that leaves `version` alone changes no id of a line and at most appends (`Carries`). Then a stamp whose
  request saw the file's latest `version` hits its own line (`StampsAlwaysHit`), and a stamp or a creation keeps a valid
  file valid (`WritesAlwaysKeepValid`), since a creation's id is not among those it has read; blank and raw
  texts and odd lines are excepted, as they must be. A stamp that garbles a line counts
  in `version`, so the theorems hold for every `Garbled` there is. No plan of a
  handler that saw its task completed takes it out again (`KeepsCompleted`): `TerminalAlwaysUnlessOutdated`
  leaves a request that writes over a newer file, and one that did not see its own task completed.
- `TaskIndex_proofs`. `IndexInv` (types, `OwnersAgree`, `EveryIdAccounted`) is inductive as
  one; the lemmas `IndexFileEffect` and `IndexNothingEffect` say what a reading does to any
  file. `MirrorInv` strengthens the mirror with what is known of files that failed to be read.
  `BuildFirstWins` uses `Won`: during `Build` the tasks are those of the first holders among
  the files already read. `TriggerAlwaysAgrees` follows
  from `IndexInv` alone: where the index has read the vault as it is, every task's file holds its id
  (`AllListed`), so `Walk` finds a holder, and the only one there is is the task's.
- `Scheduler_proofs`. `SchedInv` adds that before `Run` everything is quiet and that what
  `fire` popped is due. `SchedInvariant` and `SlotsAdvanceAlways` assume `CronAdvances`
  (the library's answer lies after the moment asked about), which expressions that never fire do
  not (section 5). `FollowInv` relates each id's heap entry to the last queued change that
  mentions it; an id whose latest change was dropped, or went with a file that could not be read, is
  taken up again by the next change that mentions it (`FollowFails` has the failed read).
- `FirePolicy_proofs`. `PolicyInv` says where the search stands: at the first fire of its window,
  or behind the last one it met, both as the library's `Next` gives them (`NextIsFirst` proves
  that a first fire exists, by well-foundedness of the naturals). When it ends, the fire is the
  latest up to the bound (`SearchFinds`); the ladder with its error, the window of a fulfilment and the missed
  triggers follow by arithmetic. The only assumption on the windows is that they grow. `AnswerAlwaysForesees` combines
  `LadderIsG7` and `PreviousIsLatest`: between now and the next fire nothing fires, so outside the four
  named cases every rung reads the same at both moments.
- `PushDelivery_proofs`. `DeliveryInv` adds to `AnswersSurvive` that an endpoint whose client was
  told 201 is live and has no "gone" answer on its way to the pruner; without it a prune could
  remove an enrolled device. `JobInv` partitions the snapshot into what is to do, under way,
  accepted and failed, which gives `EverybodyIsTried`.
- `EventFeed_proofs`. `FeedTypes` bounds every buffer, for any number of connections. `DiagsInv` says
  that what the client was told is `last` behind the seed, and that a handler that waits with old
  diagnostics has a change in its queue or about to be published: a full buffer drops a change only
  where another one is still to be read. `FeedInv` adds to `FeedFollowsIndex` that what is about to be
  published and what was answered is what the index has (but for what changed since), that a handler takes the next
  change only when the last is written, and that whatever a broken connection still carries, and what
  a failed read takes away, counts as missed. `QueueGrows`, `QueueMoves`, `WireGrows` and `WireMoves` say that a change on its way from the
  bus through the queue, the handler and the wire to the feed never falls behind an older one.
- `Directives_proofs`. `UntilIsFirst` and `UntilIsUnique` describe the inner loops; from them
  `LexIsGrammar` shows that `Terminated` and `SpanAt` are exactly the grammar's directives. `LexInv` is
  the loop invariant (types, `SpansAreLeftmost`, all spans behind `i`), for lines of any length.
  For `StampIsRead`: a line has one set of leftmost directives (`OneLeftmost`), and `Lex` returns
  it (`LexEnds`); the index keeps the last directive of each name of it (`IndexedIsLast`). So it is
  enough to say which set the patched line has. `EditedLeftmost` does: the directives outside the edited
  stretch, moved by the difference in length, and the new one, provided the edit `Fits`, that is, no
  directive that begins in front of the stretch ends elsewhere for it, and none but the new one begins
  within it. `ReplacedPuts` shows that of a new value for a name that is there once, `InsertedPuts` of a directive behind
  the content, where only a directive that was never closed could run into it: the three disjuncts of
  `Unreadable` are what the two need. `CheckSpans` and `TextSpans` do the same for a checked box and for
  the newline that `strings.Split` takes away. `ReadInv` ties them to the steps: a stamp lexes the line
  that is in the vault, a read its text, what the latest stamp and read kept are all spans of what they
  saw, and the line is the first line of what the latest stamp made (`FirstLine`: a value
  with a newline breaks it). It is inductive, and `StampIsAlwaysRead` follows.

Assumptions: the ASSUMEs of the modules (distinct model values, natural bounds) and
`CronAdvances`. Of `Garbled` nothing is assumed but that it yields lines. `GrammarAssumption` says of the constants what the code guarantees: what brackets, '@', blanks and
line endings mean is no byte of a name; a line the write-back or the index takes from a file ends with its
newline, if it has one (`IsLine`: writeback.go:101 and `strings.Split` cut there); and a handler stamps names
that the lexer reads as names (`Names`: they are constants of the source, such as "state" and "last_completed"). The values
stamped and the rest of the line are any bytes. Only model-checked: all liveness (`WriteReturns`, `EditsReachIndex`, `RunReturnsUnlessFull`, `OverdueFires`,
`GoneIsPruned`, `StreamsEnd`, `StreamComesBack`), since liveness under fairness is out of the prover's reach.
`VaultWriter`'s types and mutual exclusion, and that the scheduler is never early, are proved and no
longer part of a run.

## 5. Other divergences seen

Beside those of the two runs that end in a violation (section 3):

- engine.go:69 says of a file that cannot be read that it "stays as last known-good (SDD.md G15)", but
  `ReconcileFile` deletes its tasks, ids and diagnostics (index.go:145-149) before the read (151). They
  are gone; no event says so, so the feed and the scheduler keep them; and as the watcher has recorded
  the hash already, no rescan brings them back before the file changes again. `EditsReachIndex`
  (`unread`), `FeedFollowsIndex`, `DiagsCaughtUp` and `HeapFollowsIndex` name the case.
- engine.go:51-53 has `Run` return after a cancellation; with a full buffer of reports the rescan blocks
  in its send (watcher.go:280), and `Run` waits for it for good (`RunReturnsUnlessFull`).
- writeback.go:38 "StampDirective patches task's line": it patches the line with the number the index
  knew, without comparing the `@id`; a line put before the task is stamped instead (`StampHitsOwnLine`
  says when it may be).
- task_actions.go:100 has pausing an "already paused/completed" task a "no-op success", and state_test.go:38
  "completed is terminal": the handlers of a `@once` fulfilled a moment ago still see the index's
  active task, so a pause puts it back to paused (`TerminalUnlessOutdated` says exactly when).
- subscriptions.go:119-121: a removal whose persist failed is answered 400, its retry finds the
  endpoint absent in memory and is answered 204 without writing, and a restart brings the
  subscription back. `AnswersSurvive` leaves out this case, and an enrolment for an endpoint that a
  service has called gone in a dispatch still under way, which then prunes it.
- SDD.md:158 "the task fails only if no subscriptions remain"; `Dispatch` fails when none accepts,
  though some remain (module.go:92 says so).
- A subscription whose keys do not decode is never sent to, so never pruned (module.go:121).
- writer.go:98-101 says prune-on-check keeps an outside write with the daemon's bytes from being
  dropped; the tag of the daemon's latest write survives until some check meets those bytes, so
  an edit that goes through other bytes and then brings them back is dropped
  (`StaleOnlyBehindOwnBytes` names exactly this exception; it speaks of behaviours in which nothing
  has failed, since a lost event leaves a file stale until the rescan, and a failed read of the engine
  until its next edit).
- fire.go:50 promises a fire "strictly after", but an expression that never fires (`0 0 30 2 *`)
  gets the library's zero time: the entry is due at once and again on every turn of the loop.
  fire.go:44 handles the same value; `SlotsAdvance` is proved for expressions that advance.
- missed.go:38-46 prefers `@once` and scheduler.go:180 `@schedule` on a line with both.
- missed.go:64-73: when `now` is itself a fire, earlier missed fires are not reported.
- SDD.md:132 (G4) and index.go:309 speak of an "earlier" holder of an id; after
  reconciliations the owner may be the later file (the known limitation at index.go:130-135).
- index.go:265 says unparsable values are "already diagnosed by ValidateFile": true of unknown
  names, empty values and enums, not of schedules, integers or datetimes.
- openapi.yaml:935-937 has a removed task for a deleted file; the watcher ignores
  deletions (watcher.go:167 and 250), so the tasks stay until a restart.
- SDD.md:205 wants the index to reflect an edit within a second; one made between `Build` and
  the baseline is not seen until the next edit (`lastBy = "early"` in ReactiveCycle).
- scheduler.go:47 "rebuilt as the index changes" does not hold for dropped changes.
- engine_test.go:76-98 expects no event for an own write; the watcher may look between the
  rename and the Record.
- scheduler.go:192-193 "a @once fires exactly once": a change to the task applied at the very
  moment it is due finds nothing strictly after now (scheduler.go:154) and removes the entry.
- A blank reason of a pause (task_actions.go:110 asks only whether it is empty) is stamped as
  `@reason( )`, which validate.go:127 calls an error, so that the daemon's own write makes it refuse
  every later stamp in the file; a created title may bring an `@id` or `@state` of its own
  (task_create.go:214), and a line break in either moves the tasks below. `OwnWritesKeepValid` and
  `StampHitsOwnLine` name these texts.
- missed.go:26-28: one task whose five `@schedule` fields the cron library does not parse, which
  `ValidateFile` does not diagnose, makes `DetectMissed` fail for all tasks.
- task_actions.go:71 answers `@state(completed)` for a fulfilled task with both `@once` and
  `@schedule`, while fulfillment.go:25 treats every task with a schedule as recurring.
- Two concurrent creations in one file lose one of the lines, and a stamp over an older reading
  undoes the creation, because only the write holds the mutex (writer.go:41).
- task_create.go appends to an invalid file; only stamps check it (G15, writeback.go).
- patch.go:45 patches the first of repeated directives on a line while the index keeps the
  last (index.go:262-268).
- suppress.go:38-39 takes "the fire point Scheduler.Due() just handed the caller", but the
  channel carries the task alone; an instant a second later does not match the window exactly.
- openapi.yaml:639 "Whether the next scheduled fire point will be bypassed": the answer is computed as
  of now (task_actions.go:79, tasks.go:83). After an early fulfilment it says no, since the fulfilment is
  not before now yet (suppress.go:63), and the next fire is bypassed all the same; a `@skip_until` that
  ends between now and the next fire is reported as a bypass of it. `AnswerForesees` names every such case.
- walker.go:60-62 "visited in lexical path order": `filepath.WalkDir` visits the entries of each
  directory in lexical order, hence "a/b.md" before "a.md", which `sort.Strings` puts first
  (index.go:115 "don't rely on WalkDir's own guarantee"). For an id of several files the debug trigger
  and the index may choose different lines (`TriggerAgrees`).
- task-feed.tsx:14-15 "keeps `tasks` in sync": a first answer that is late overwrites newer events, a
  reconnect fetches nothing, and dropped changes are not made up for. `off` in EventFeed lists it all.
- events.ts:9 relies on the browser's built-in reconnect, which does not happen after an HTTP error; below
  three failures the page does not retry either, and the stream is gone until the page is loaded again.
- task-card.tsx:85: the rollback of a quick action puts back the state of before, over any newer event.
- value.go:145 "Round trips with ParseValue", patch.go:32 "writes value under name on line": not for a
  value with ")" or a newline (a pause's @reason, task_actions.go:110), nor on a line where an earlier
  "@name(" was never closed and swallows what is inserted behind it. `StampIsRead` names both.
- checkbox.go checks the first "- [ ]" of a line, one inside a directive's value included.
- missed.go detectSchedule reports a brand-new, a paused or a skipped task as missed, since it
  looks at `@last_triggered` alone.

## 6. Plan

Done: the writer, the watcher and the engine's cycle, the index with the debug trigger, the scheduler, the
fire policy, the requests, the subscriptions and their delivery, the event stream with the web
app's feed, and the directives of a line, with the proofs of section 4. What would come next:

1. A composition of `ReactiveCycle`, `TaskIndex` and `Scheduler`, and `ApplyWriteBack`,
   `ApplyDeliveryOutcome` and the payload's template once the daemon calls them.

Not modelled, and why:

- The conversions of `directive/value.go`: numbers, timestamps and cron fields are parsed by Go's
  and the cron library, so a model would be of those.
- Dispatch core: the registry is filled once at start-up, and `BuildPayload` with the template
  has no caller outside tests.
- Read-only handlers and the synthetic index lines: one snapshot of the index or one line each, with no
  state and no order to get wrong. What `tasks.go` says of the next fire is in FirePolicy.
- Encryption and VAPID keys: cryptography and file I/O. Heartbeats of the event stream: one more
  write that may fail.
- Generated code, the daemon's wiring, the debug printer, the code generator, test support, and
  the web app's editor and presentation.

See the components in PROJECT.json.
