# glide-mq: specifications, checks and proofs

glide-mq is a message queue for Node.js on Valkey streams.  All state of a queue
lives on the server.  A client (`src/src/queue.ts`, `producer.ts`, `job.ts`), a
worker (`base-worker.ts`, `worker.ts`) or the scheduler inside a worker
(`scheduler.ts`) changes it by calling functions of one Lua library,
`src/src/functions/glidemq.lua`, each of which runs atomically.  What is hard is
what happens *between* two calls: a worker claims an entry, activates the job,
runs the processor and reports the outcome in separate calls, and every other
client, scheduler, crash or timeout may act between any two of them.  Inside one
process the same holds between two `await`s.

Paths below are relative to `src/`; `glidemq.lua` is `src/functions/glidemq.lua`.

## The system

| Component | State | Operations | What is hard | What makes it correct |
|---|---|---|---|---|
| Job lifecycle (`glidemq.lua`, `base-worker.ts`, `worker.ts`) | job hashes, the stream and its pending-entries list, the sorted sets scheduled, completed and failed, `meta.paused` | add, promote, claim, activate, heartbeat, complete, complete-and-fetch, fail, retry, delay, revoke, remove, clean, drain, pause, reclaim stalled | crashes and missed heartbeats between calls, stale claims, clients acting on a job that runs | no job is lost, one runner, one final outcome, every job settles |
| A worker's loop and its connections | flags, loop and job promises, two clients, timers | init, poll, pause, resume, drain, close, reconnect | each of these lands at an `await` of another | exactly one loop while running; nothing starts after pause; close leaves nothing |
| A worker's dispatch slot | the claims in hand, batch, heartbeats, abort controllers | activate, limit, process, settle, chain, hand back | one of several calls fails or is overtaken by a stop | each job ends with its own outcome; nothing claimed is left behind |
| Ordering keys and group limits | `group:<key>` (active, nextSeq, skip marks, window), `groupq:<key>`, `groupreturn:<key>`, `ratelimited`; `orderingSeq`, `retainedSlot` of each job | gates at activation, release and promote, close a hole, rate-limit and resume, sweep, undo a claim | a counter kept by hand on some twenty paths; jobs parked with nobody to wake them | exact slot count, limit, strict order, nothing stranded |
| Priority and LIFO lists | lists, the counter `list-active` and its id set | reserve, activate, release, hand back, heal, recover | a job in nobody's hands between pop and activation | counter covers the list jobs in work; global concurrency holds; every job ends |
| Flows and DAG (`flow-producer.ts`, `glidemq.lua`) | `deps:<parent>`, `parents:<child>`, per parent `depsCompleted` and the markers `depdone`/`depearly`, `deps-early`, `xq-pending` | add, addDAG, complete and remove a child, registerParent, registerChildDep, moveToWaitingChildren, deliver, heal | children finish or vanish while the producer is still wiring them; parents in another slot hear of it later, or twice | each child counted once, none forgotten, a parent runs after its last child and not before |
| Job schedulers (`scheduler.ts`, `queue.ts`, `base-worker.ts`) | one entry per name, a lock with a ttl | upsert, remove, tick, advance after completion | the lock expires under its holder; a crash between read and write | what was asked last is what runs; runs do not overlap; never stuck |
| Cron search (`utils.ts`) | - | next occurrence of a pattern in a zone | changes of offset, rare and impossible dates | the nearest due instant; a daily pattern once a day |
| Sandbox pool (`sandbox/pool.ts`, `runner.ts`) | threads, waiters, grace timers, messages in flight | run, abort, terminate, exit, close | exits and timers racing with results and acquires | no slot lost or shared, runs do not affect each other, all end |
| HTTP proxy (`proxy/routes.ts`, `queue.ts`) | shared client, queues, shared broadcast streams, blocking connections | subscribe, add-and-wait, event streams, close | clients leave and the server shuts down while connections are being made | the shared stream lives exactly while used; nothing left open; ends are noticed |
| In-memory test queue (`testing.ts`) | jobs, dispatch queue, timers, workers' flights and batches | the API of queue and worker | coalesced wake-ups, records in a batch worker's hands | one runner, nothing stranded, nobody forgotten |
| Broadcast, dedup, budgets, telemetry, queue events, types | - | - | - | not modelled: see the end |

A worker's poll loop reads an entry (`XREADGROUP`, or a pop of a list), calls
`moveToActive`, runs the processor with a heartbeat timer, and calls `complete` or
`fail`, or the combined call that also fetches and activates the next job.  The
scheduler promotes delayed jobs, fires job schedulers, sweeps rate-limited groups
and suspended jobs, and hands entries of dead workers back.  Clients act on a job
in any state.

## Modules

| Module | Models |
|---|---|
| `StreamQueue` | the lifecycle of plain FIFO jobs on the server: hashes, stream, pending list, sorted sets, worker slots |
| `JobLease` | abstract: what the queue promises about one job; `StreamQueue` implements it |
| `StreamQueueProofs` | theorems about `StreamQueue`, among them that it implements `JobLease` |
| `GroupOrdering`, `GroupOrderingProofs` | the jobs of one ordering key: sequence, slots, parking, rate limit; theorems |
| `FlowDeps`, `FlowDepsProofs` | parents and children across queues, and the producer that wires them; theorems |
| `ListClaims`, `ListClaimsProofs` | priority and LIFO jobs beside stream jobs, under `globalConcurrency`; theorems |
| `WorkerLoop`, `WorkerLoopProofs` | one worker object: poll loop, promises, pause, drain, close, reconnect; theorems |
| `DispatchSlot`, `DispatchSlotProofs` | what a worker does with the claims of one slot, single and batch; theorems |
| `RepeatScheduler`, `RepeatSchedulerProofs` | one job scheduler: ticks, upserts, removals, completions; theorems |
| `CronSearch` | `nextCronOccurrence` against its definition |
| `SandboxPool`, `SandboxPoolProofs` | pool, runners and the messages between them; theorems, that of `ProxyServer` too |
| `ProxyServer` | the long-lived requests of the HTTP proxy; its theorem is at the end of `SandboxPoolProofs` |
| `TestQueue` | the in-memory queue and its workers |
| `MC...` | the instances TLC checks |

`StreamQueue`, `WorkerLoop` and `DispatchSlot` see the same worker at three levels:
server calls and hashes; the loop and its flags; the statements of one slot.  A
lower level reduces the one above to its effect: in `DispatchSlot` a job is where
its owner last put it, in `WorkerLoop` also, and in `StreamQueue` a worker is the
call it makes next.

Two conventions.  **Profiles**: where options and calls multiply, a variable that no
step changes (`conf`, `ordering`, `flow`, `mode`) holds the instance of a behaviour,
chosen in `Init` from a constant, so that one run explores several mixes.
**Races**: `Races` names windows in which the code does not keep a property; the
configurations leave them closed and *Known disagreements* says what happens when
one is opened by adding its name.  Outside such a window every operation that the
profile of the behaviour lists is possible.

An operator `Mut<Something>` (in `WorkerLoop` also `StartUnchecked`,
`RecBlockingUnchecked`, `PromiseKept` and `PollsForever`) defined before another one
is a plausible bug in it: a missing reset, a dropped guard, an off-by-one.  Nothing
uses it.  Put in place of the operator after it, it makes TLC report the property
it is listed with in `PROJECT.json`, which shows that the property can fail.

### StreamQueue, JobLease

`job[j]` holds the fields of the hash the code branches on.  A state `"ghost"`
is a hash without a state field, which a heartbeat creates after a removal.
`backlog` is the unread stream, `pel` the pending entries, and an entry is a
pair of a job and a copy number: a job can be named by several entries at once,
and `Copies` bounds how many.  A worker slot is `pc[w]` and the entry `hand[w]`.
Every function of `glidemq.lua` is one step; the functions that loop over many
jobs handle each of them independently and stop at a batch limit, so a step is
one iteration.  `completeAndFetchNext` is one step: it settles a job, skips at
most three stale entries (`ChainAttempts`) and activates the next.

`Races` names what may befall a job *between two steps of the worker that holds
it*: its worker misses heartbeats (`hang`, at most while the job has not stalled
before), a client revokes or removes it, its time-to-live passes (`late`), or the
claimed entry is deleted before it is activated (`steal`).

`JobLease` is the contract: one owner at a time, only a leased job finishes, only
its owner finishes it, an abandoned lease is taken back, a completed job is never
queued again.  A removal does not end a lease: until the owner lets go it may still
record an outcome or a retry (the code's behaviour, see *Known disagreements*).
The refinement mapping reads the phase off the job's state and the owner off the
worker slots.

### GroupOrdering

`job[j]` holds state, sequence number, `retainedSlot`, the revoked flag and
where its stream entry is; `grp` is the group hash with `groupq` (as `parked`),
`groupreturn`, the key's member of `ratelimited` (`resume`) and the window.  The
Lua helpers (`advancePastSkips`, `releaseGroupSlotAndPromote`,
`closeOrderingHoleAndPromote`) are operators from a group to a group.  The
stream is a set: any unread entry may be claimed next, which covers every order
of delivery.  Abstracted away: the token bucket, hashes deleted by hand, the caps
of 128 and 1000 entries per call, queue-wide pause, `waiting-children` (the same as
suspended for the group).

### FlowDeps

`job[j]` holds the state, `parentId`, the sets of `depdone` and `depearly`
markers and `depsCompleted`; `deps`, `parents`, `earlyIndex` (`deps-early`) and
`xqPending` are the server's sets, and `stream[j]` counts the entries of a job.
`completeParentDependency`, `countEarlyDeps` and `releaseParentIfReady` are
operators from a parent's hash to its next hash.  The producer's progress with a
job is `stage[j]` and the edges it has yet to finish `todo[j]`; each of its calls is
one action.  `FlowProducer.add` goes through its children one at a time, `addDAG`
takes all nodes of a level through a phase in one pipelined batch, whose members
other clients' calls can separate, so the jobs of a level move in any order but no
phase begins before the previous one is over.  A producer that takes no step any
more has crashed.  Jobs of two queues live in different slots: `Near` decides
whether a child reports in the same call or leaves a note.  `resolved` is a history
variable.  Abstracted away: a debounced child that takes over the dependency of the
child it replaces (`replacedIds`), ids that are used again after a removal,
retention by count or age, failing calls of the producer other than a crash.

### ListClaims

`db` is the server as one record: job hashes, the priority and LIFO lists, the
stream with its pending entries, the counter `list-active` with the id set that
healing trusts, `meta.paused`.  A function of `glidemq.lua` is an operator from the
record before to the record after, shared by the calls that run it (`Settle`,
`Wait`, `DecrListActive`).  `claims` is what workers hold: a popped job is in no list
and no pending list, only there.  `HealListActive`, `ReclaimListJob` and
`ReclaimStreamJob` are the scheduler's recoveries.  Left out: the events budget, a
scan that takes several calls, group keys, batches, `removeOnComplete`, `retryJob`.

### WorkerLoop

Every `await` of `pollLoop`, `processJob`, `reconnectAndResume`, `init`, `close`,
`pause` and `drain` is a step; the flags are read where the code reads them.  Two
loop identities exist because `resume()` may start a loop while an old one is still
returning.  `open` counts connections that were made and not closed, whatever
variable holds them.  What the server does with a job is reduced to where it is.

### DispatchSlot

`pc` and `at` are the statement and the index of the loop at it in `processJob`,
`activateAndProcessBatch` and `processBatch`; `claims`, `reply`, `batch`, `said`,
`back`, `done` are its locals.  Any call may fail once (`MaxErrors`), with or without
having taken effect.  A revocation, a pause of the queue, and a pause, close or
forced close of the worker may come between any two statements.  Left out: suspend
continuations, the requeue on a rate-limit error, the dead letter queue, events.
Stalled recovery acts only on jobs the slot has let go of; before that it is
`StreamQueue`'s subject.

### RepeatScheduler, CronSearch

One entry and the lock are the shared state; every call of a tick, of an upsert or
of the update after a completion is a step, and a compare-and-set compares the
whole entry.  `asked` is a history variable: what the last successful upsert or
removal asked for and what was fired since.  One name is enough: names share only
the tick and the lock.  Left out: `lastRun` and the template (no decision reads
them), a tick that does not get the lock (it does nothing), clients that retry
failed jobs; a clock read and the read after it are one step; a cron pattern is
the multiples of its gap.

`CronSearch` takes the pattern expanded to tokens and follows the walk of
`nextCronOccurrence` branch by branch, with the scan before an offset falls and the
resolution of a wall time that exists twice or not at all.  The calendar is scaled:
two-second minutes, two-minute hours, eight-hour days, months of nine and ten (or
nine) days, weeks of seven days, two years of search and 300 steps.  A zone changes
its offset once.  Left out: the text of tokens and sub-second times.

### SandboxPool

The main thread and each runner exchange messages that are in order per direction.
A step of the main thread is a callback with the microtasks it starts, so no
message is seen between the grant of a worker and the `postMessage` that follows
it (`Quiet`).  A run stands for its invocation id.  Processors work, wait for the
abort, or ignore it; a thread may die by itself, and one that dies may be picked
before its exit is noticed.

### ProxyServer

`req[r]` is where a request is and what it holds (a blocking connection, a place on
a shared stream); `streams` are broadcast streams with their worker and the requests
that wait for it; `shared` and `queue` the cached client and Queue; `phase` and
`draining` the shutdown.  A request follows its route up to every `await`, where its
client may have left.  Left out: routes that forward one call, flows, publish,
validation and the allow list, a job that is removed while it is streamed, events
between two reads from `$`.

### TestQueue

A handler of the in-memory queue runs without interruption, so each is one step,
and what it does to the queue is an operator on the queue object `q`; `k` holds the
workers.  Microtasks come before timers.  A record is an object, not an id: after
`remove()` the id may belong to a newer record.  Left out: copies to a dead letter
queue and replay, limiter windows and token counts, retention by count or age,
metrics, search and getters, `readStream`, several queues, `queue.close`, limits of
schedulers, `addDAG`.  A client that calls `addAndWait` listens in a later microtask
than its add (`Listen`), and looks at the state then.

Of `SchedulerGoesOn`: only a worker tells a `repeatAfterComplete` entry that its job has
ended.  The other endings (`revoke()`, `remove()`, `drain()`, a suspend timeout, a ttl) are
guarded by `Heard`: they happen to every job except the one an entry waits for, unless
`Races` has `"untold"`.  `obliterate()` deletes the entry too and needs no guard.

## Runs

| Run | Instance | What it shows |
|---|---|---|
| `stream_safety` | 2 jobs, 2 workers, 3 copies, 1 attempt, 1 stall; revoke and remove while running (362 000 states) | custody, nothing lost, one runner, one outcome, completed is final, a revoked run never completes; implements `JobLease` |
| `stream_settles` | 1 job with ttl, 2 workers that may hang and wake (85 000) | every job settles |
| `group_order` | 2 jobs; concurrency 1 and ttl, with and without a window of one start; concurrency 2 with a window (84 000) | limit and strict order (`InTurn`), exact slot count, parked jobs and nothing stranded (`Accounted`), every job of a key settles |
| `flow_deps` | five flows of 4 jobs over 2 queues: a tree of 3 levels, two trees with a child added at run time, the first tree as a DAG, a DAG that shares a leaf; cluster mode (91 000) | counting, no forgotten child, a parent enqueued once and only after its children, and it wakes |
| `list_claims` | six mixes of up to 3 jobs, 2 workers (148 000) | the cap and its counter, nothing lost, every job ends |
| `worker_loop` | six mixes of options and calls, 2 jobs (495 000) | one loop while running, nothing starts after a pause, a close leaves nothing open or claimed and comes to its end |
| `dispatch_slot` | 3 jobs, batch of 2 and single, list and stream; two of: a failing call, a revocation, a pause of the queue, a stop (2.6M) | each job ends with what was said about it; no heartbeat, no claim is left; list jobs keep their order |
| `repeat_jobs` | six mixes of schedules, 2 ticks, 1 client, 3 jobs, 3 instants (349 000) | runs do not overlap; the entry is what was asked for, until spent; it goes on |
| `cron_search` | 28 patterns, UTC and 6 changes of offset, 17 starting instants (46 000) | the nearest due instant, or none in the horizon; a daily pattern once in each local day |
| `sandbox_pool` | four mixes of 3 runs on 2 threads (91 000) | no slot lost or shared, a run stopped only for itself, every aborted run and after close every thread ends |
| `proxy_server` | seven mixes of up to 3 requests (63 000) | the shared stream lives exactly while used, nothing left open, the end of a job is noticed |
| `test_queue` | eleven mixes of up to 3 jobs, single and batch workers (916 000) | one runner, nothing stranded, no lost wake-up, a scheduler goes on after every run that a worker ends |

**Bounds.**  Two workers are enough for every race of an owner with one thief; a
third only repeats it, since a function of the library never looks at workers other
than through the entry.  Two jobs are needed for the call that ends one and starts
another, and for one job of a key that runs while another is parked or returns from
a retry; three for a batch beside a job that stays in line, and for a cap below the
number of jobs.  Three copies of an entry never run out in `stream_safety`: it has
the same states with two.  One attempt and one stall reach both sides of each
comparison: a job whose stall count is at the limit and one over it, and in
`stream_settles`, with a second attempt, a job that is retried and one that is not.
`maxSeq` leaves one retry with a fresh sequence number; `maxCount` bounds the starts
counted in one window, and is larger than the limit for concurrency 1, where
returning jobs exceed it.  The flows have between them a nested child, a nested leaf
in another queue, a child added at run time in another queue, a DAG node in the queue
of its parent and one in another, a leaf with one dependent and one with two: one of
each way the producer wires an edge.  A third level is needed because inner nodes are
parents and children at once; a fourth job, because two siblings under a parent that
has one itself is what completions race about.  In `dispatch_slot` `MaxTroubles`
bounds what disturbs the slot to any two of a failing call, a revocation, a pause of
the queue and a stop: one disturbance, and one while the slot deals with it.  In the
profile runs `events`, `pauses`, `errs`, `calls`, `crashes` and `faults` bound what
comes from outside (calls, crashes, failures) to one to three, which is enough for one disturbance
inside the window that another one opened.  Three instants allow a run, its successor
and an end date between; two pages of output are one more than the page read.  The
scaled calendar keeps a month's last day, a leap day, every weekday and both sides of
a change of offset within a few days.

`CHECK_DEADLOCK FALSE` stands in all runs but `group_order`: their jobs end, their
clients stop calling, a search returns, a server is closed, and then nothing is left to do.
In `group_order` the system never stops, since a group can always be paused and
resumed, and deadlock is checked.

**Fairness.**  The poll loop of a worker and the timers of the scheduler run as
long as the process does (`worker.ts`, `scheduler.ts`), which gives weak fairness
of a worker's steps on the entry it holds, of promotion, of the sweeps and of
the recovery of idle entries and of the healing of the list counter.  Suspended
jobs are assumed to have a timeout, processors to end unless the model lets them
hang.  What a person, a limiter or a fault does has no fairness, and the liveness
properties of `StreamQueue` and `GroupOrdering` say *once it stops*: `Disturb` lists
it.  Crashes need not stop in `stream_settles`: the stall count ends a job whose
workers keep dying.  In `flow_deps` the producer finishes its calls and the
scheduler keeps delivering notes and healing early completions; workers and clients
have no fairness, so `ParentsWake` asks only that a parent whose children are over
leaves `waiting-children`.  `WorkerLoop` has weak fairness of the process's own steps
(`Internal`): an `await` in progress comes to its end; the calls of the user have
none.  `RepeatScheduler`: ticks recur, calls that began go on, every job ends, an abandoned
lock expires.  `SandboxPool` and `ProxyServer`: callbacks, messages and exits that are
due come; calls, aborts, crashes and departures need not.  `TestQueue`,
`DispatchSlot` and `CronSearch` have safety properties only: that a wake-up or a
next run is owed is stated there as a relation of the state (`NobodyForgotten`,
`SchedulerGoesOn`), not as a liveness property.

## Proofs

Everything in this section is proved for every value of the constants: any set of
jobs, workers, threads, flows, profiles and any limits that satisfy the named
assumptions of the modules (`EntryAssumption`, `FlowAssumption`, ...), which only say
what the constants are.  Where a theorem assumes that a name is not in `Races`, the
window of that name is one in which the code does not keep the property (see *Known
disagreements*); nothing else is assumed.  Each inductive invariant was first checked
by TLC as an invariant of the component's run.

| Module | Theorem | Statement | Assumption |
|---|---|---|---|
| `StreamQueueProofs` | `TypeCorrect` | `Spec => []TypeOK` | none |
| | `RevokedIsRespected` | `Spec => RevokedNeverCompletes` | none |
| | `CustodyHolds`, `NoJobLost` | `Spec => []Custody`, `Spec => []NothingLost` | `Orderly` |
| | `NeverTwoRunners`, `OneOutcome` | `Spec => []OneRunner`, `Spec => []OutcomeUnique` | `Orderly` |
| | `CompletedStays` | `Spec => CompletedIsFinal` | `Orderly` |
| | `Invariance` | `Spec => []Inv` | `Orderly` |
| | `LeaseImplemented` | `Spec => ImplementsLease` | `Orderly` |
| `FlowDepsProofs` | `TypeCorrect`, `QueuedOnce` | `Spec => []TypeOK`, `Spec => []ReleasedOnce` | none |
| | `ChildrenReachParents` | `Spec => []ChildrenCounted` | `"clean"` closed |
| | `ParentsRunLast` | `Spec => []RunsAfterChildren` | `Races = {}` |
| `WorkerLoopProofs` | `OneLoop` | `Spec => []LoopAlive` | `"start"` closed |
| | `NothingWhilePaused` | `Spec => []PauseHolds` | `"batch"` closed |
| | `CleanAtTheEnd` | `Spec => []ClosedIsClean` | `"library"` closed |
| `RepeatSchedulerProofs` | `OneRunAtATime` | `Spec => []NoOverlap` | `"late"` closed |
| | `StaysAsAsked` | `Spec => AsAsked` | `Races = {}` |
| | `NextCronRun` | `Cron!Spec => [](tz.utc /\ InCalendar => Cron!FoundIsNearest)`, with `Cron` an instance of `CronSearch` | UTC, in the calendar |
| `SandboxPoolProofs` | `Invariance`, `TypeCorrect` | `Spec => []Inv`, `Spec => []TypeOK` | none |
| | `NeighboursApart` | `Spec => []RunsApart` | none |
| | `SlotsHandedOn` | `Spec => []SlotsServed` | `Sendable` |
| | `SubscriptionShared` | `Proxy!Spec => []Proxy!SharedWhileUsed`, with `Proxy` an instance of `ProxyServer` | none |
| `ListClaimsProofs` | `CustodyAlways`, `TypeCorrect` | `Spec => []Custody(conf, db, claims)`, `Spec => []TypeOK` | `"hang"`, `"steal"` closed |
| | `OneHolder` | `Spec => [](\A a, b \in claims : a.job = b.job => a = b)` | `"hang"`, `"steal"` closed |
| | `CapAlwaysHeld` | `Spec => []CapHeld` | those and `"heal"` closed |
| | `JobsAlwaysKept` | `Spec => []JobKept` | `"hang"`, `"steal"`, `"crash"`, `"revoke"` closed |
| `GroupOrderingProofs` | `Invariance`, `TypeCorrect` | `Spec => []IInv`, `Spec => []TypeOK` | `Races = {}` |
| | `JobsInTurn` | `Spec => []InTurn` | `Races = {}` |
| | `BooksAgree` | `Spec => []Accounted` | `Races = {}` |
| `DispatchSlotProofs` | `SlotInvHolds` | `Spec => []SlotInv` | none |
| | `SpecOwnOutcome`, `SpecNothingLeft` | `Spec => []OwnOutcome`, `Spec => []NothingLeft` | none |
| | `SpecOrderKept` | `Spec => []OrderKept` | `Races = {}` |

**StreamQueue.**  `Orderly == Races \subseteq {"revoke", "remove"}`: no worker hangs, no
claim is stolen, no running job expires.  `NothingLost` is not inductive: whether the
pending entry of an active job survives the next call depends on who else holds an
entry of that job.  `Inv` therefore says for every job what its entries, its
sorted-set memberships and its holders can be at once (`JobFits`): at most one entry
names a job, at most one worker holds it, a worker that has started owns the pending
entry of an active job unless the job was removed under it, and scheduled, completed
and failed agree with the state.  `InitInv` and one lemma per action establish it;
`LocalStep` reduces each action to the job it touches, and the sequence lemmas at the
top say what reading, appending and deleting do to the members of the stream.
`TypeCorrect` and `RevokedIsRespected` need none of it: `StepOK` says what any step may
write, and `Outcome` that no write completes a job that was revoked.

**JobLease.**  The refinement goes job by job.  `Change` lists what one step may do to
the state and the owners of a job, in terms of `StreamQueue`; `AllowedMoves` turns each
such change into a step of the lease or a stutter, and one lemma per action, from
`Inv`, shows that it makes no other change.  A step that settles one job and activates
the next is a step of two leases at once, which is why `JobLease` lets several leases
move in one step.

**FlowDeps.**  `Basic` (types, one stream entry exactly while a job waits, and which
stage of the producer goes with which states) is inductive by itself and gives
`QueuedOnce` for every race.  That no child is forgotten needs `FlowInv`: `AllWired`
says for each edge of a child how far its producer has come with it and what the
server's sets hold meanwhile, and `Known` that every marker, note and member of
`deps-early` stands for a child that is over and was, or will be, told to this parent
once.  `ParentsRunLast` adds `Ordered`: before the leaves of a DAG are reserved nothing
can finish (`FreshFits`), levels are wired from the top (`LevelFits`), and the `deps`
of a waiting parent hold every child that is neither over nor yet to be wired
(`DepsFits`), so that a parent with nothing left in `deps` may go.

**WorkerLoop.**  `Shape` is the type invariant and `Alone` says that at most one loop
lives, and that a loop, a reconnect and its retry timer exclude each other.  Three
further parts serve one theorem each: `Wakes` (a promise stands for a loop or a
reconnect that will start one), `Awaited` (what `pause()` waits for covers everything
that runs), and for close `Counted` (the open connections are those the variables name),
`Stopped`, `Commanded` and `Found` (each step of `close()` finds what it has to end, and
every claim of a gracefully closing worker belongs to a task it waits for).

**RepeatScheduler.**  `Fits` says what a tick, a client and an update in progress know:
the entry a holder of the lock has read is the entry unless only the end of a job
changed it since, and an update belongs to a job that ended.  `Sees` relates the same
records to what clients asked for last.  Both are needed because a write depends on a
read several steps before it.

**SandboxPool.**  `Inv` is about pairs of a thread and a run: what the main thread
(`Serves`) and the runner with the messages between them (`Talks`) can know of the run
at once.  Of a run there is one token on a thread - its process message, the processor
itself, or its result - and a call and its answer are one token too; that is what keeps
a late result or a late call of one run from the next run on the thread.  `Granting` and
`Waiting` say that no thread is given twice and that nobody waits beside a free one.
`Sendable` says that `postMessage` never throws.

**ListClaims.**  A call is a chain of functions of the server, so the invariant is a
predicate of a server record and a set of claims, and `Onward(d, cs, e, es)` says that
what holds of the one pair holds of the next: it is transitive, and the lemma about
`completeAndFetchNext` composes the lemma about the job that ends with that about the
job fetched next.  `Custody` is the ground: for every job, `Agree` says which state,
lines, pending entry, membership of the scheduled set and claims go together - a job in a
line has no claim, a job has one claim at most, and a claim on a waiting or active job is
a list claim exactly if no entry is pending.  Three invariants stand on it.  `Covered`: the
jobs that are active from a list or popped and not yet active (`Counted`) are no more than
the counter says, and the id set knows the active ones, so that healing, which trusts it,
lowers the counter no further.  `Capped`: the k-th pending entry may be active only if k
and the counter together are within the cap, an order that acknowledging older entries
can only improve.  `CapHeld` follows by counting: active list jobs are counted, and active
stream jobs have different places among the first `cap - count`.  `Kept`: a waiting job is
in a line, pending or in a worker's hands.

**GroupOrdering.**  A server function is a chain of helpers that map hashes and a group to
new ones, so `Good(jb, g)` is a predicate of such a pair and there is a lemma for each
helper (advance, promote, free a slot, close a hole, wake, park, take) before the lemma
for each operation.  It has six parts.  `AllFit`: where the entry of a job may be in each
of its states.  `Sequenced`: numbers are not shared, and every number from `nextSeq` to
the last one issued is skipped or belongs to a job that is still to come; without it
closing one hole would not be known to lead to a job that can run.  `Slotted`: `active`
is the number of `Holders`, the unfinished jobs below `nextSeq`, and the marks on a job
(`Marked`) tell its paths whether it is one; without them a path that frees by
`retainedSlot` and one that frees by state could disagree.  `Queued`: groupq holds the
parked jobs, under their own sequence numbers unless they are returning, and returning
jobs have a sweep to come; a promotion loop that stops at the first job beyond the
sequence relies on those scores.  `Served`: without a sweep, a parked job has a holder that
is not parked, or a free slot and the job whose turn it is; `NotStranded` follows from it,
but would not survive the end of the last holder by itself.  `StrictOrder` follows by
counting: with concurrency 1 there is one holder at most, and any other unfinished job
has a number from `nextSeq` on.  The windows in `Races` are ways out of a job that skip
exactly these marks, and so `Races = {}` is assumed throughout.

**DispatchSlot.**  What is promised holds when the slot comes free, so `SlotInv` says at
every statement what is still to be done.  `Open` is the set of jobs in hand, read off the
program counter: the claims whose answer has not come or was not final, the jobs of the
batch that are not settled, those that go back and are not back yet.  `Books` says where
all jobs are: a job in hand is claimed or active unless its processor has moved it itself,
a waiting one has no outcome, and while no call failed and nothing was forced a job that
is claimed or active is in hand - with nothing in hand, `NoClaimLeft`.  `Verdicts` is `OwnOutcome` with
what the later statements rely on: an answer belongs to the job at its place, although
the arrays of claims, of answers and of jobs to complete are filtered in between; that is
what `Shape` is for, which relates their lengths and members.  `Timers` says whose
heartbeats may run at which statement.  A step changes one job by an operator of the
server (`Outcome` lists its effects) and moves one index or one array, so each action is a
lemma about what stays in hand (`RestStep`, `RestEnd`) and what happened to the job that
left it.  `InOrder` alone needs `Races = {}`: the claims are in the order of the list and
ahead of what is still in it, jobs refused by a pause come behind the batch because the
queue is not resumed while a slot is busy (`PauseLasts`, a bound of the model), and what goes back does so
last first.

**ProxyServer.**  A broadcast stream is opened for its first user, counted, and closed after
its last, and any `await` in between may find another request where the last one was.
`ProxyInv` speaks of the time before the shutdown.  `StreamFits`: the worker of a stream is
open exactly while the stream is present and in the map, and `pending` is the number of
requests that hold it before they are attached, plus a creator that failed.  `UsersFit`: a
stream that starts or has failed has its one creator until it is closing, and a ready one is
closing exactly when nobody holds or follows it; `SharedWhileUsed` is read off the two.
`RequestsMove` disposes of every step of the other routes, because no request changes its
stream there; `OneStream` does the same for the other streams when one moves.  The
assumptions of `ProxyServer` on its constants are hypotheses of the theorem.

**CronSearch.**  `FoundIsNearest`, the part of `NextIsNearest` about a search that returns, is
proved for every pattern that parses, every calendar and every start, in UTC, while the search
stays within the years the calendar of the model has (`InCalendar`: the model numbers the days
of finitely many years, the code's clock has no such end).  `SearchInv` says that no wall time between the
start and the one the walk has reached matches (`Skips`), and each branch of the walk keeps it
because it is a `Jump`: it moves to a later wall time and passes over none that matches - months and
hours that are not in the field, the 30th of a short month, the carry from the last minute into
the next hour.  `DaysOrdered`, `MonthNumbered` and `ThereAndBack` turn that order of wall
times into the order of instants.  `DayRule` shows that what the code computes for a day from
one weekday and remainders by seven is what the documentation says of it: the working day nearest to
the nth (`NearestIs`), the last or the nth of a weekday (`WeeksCounted`, by counting).  The induction
over days that this needs is hidden in the cardinality of a set of earlier days.

**Only model-checked.**  Liveness (`JobsSettle`, `GroupSettles`, `ParentsWake`, `AllEnd`,
`CloseEnds`, `GoesOn`, `AllFreed`, `EndNoticed`): fairness and ENABLED are outside the
prover.  What the windows in `Races` do not break, when they are open, is proved only
where the table says "none".  Of `CronSearch`, the search in a zone that changes its offset,
the search that throws, and `OncePerDay`: the end of a gap is found by a recursive function, and
what that computes for every input needs an induction the provers cannot do here.  The
invariants of `TestQueue`: its steps take jobs from lists by folds, whose result for
every list needs the same induction.

## Known disagreements

Each of these is reproduced by adding the quoted name to `Races` (or to the named
constant) of the run's configuration and checking the property.

`StreamQueue`
- `"steal"` (`NothingLost`): `moveToActive` (`glidemq.lua:3060`) activates a job without
  checking that the claimed entry is still pending.  After claim, `changeDelay`,
  `promoteJob` the old claim activates the job; a crash of that worker then strands it,
  against `docs/DURABILITY.md:21`.
- `"late"` (`OutcomeUnique`): `reclaimStalled` fails a *running*, heartbeating job whose
  ttl has passed, although `docs/ADVANCED.md:341` says that active jobs are not
  interrupted; its worker completes it later, and it is in both sets.
- `RemovedStaysRemoved` with `"remove"`: the heartbeat of a removed job re-creates part
  of its hash, and the failure of its processor then schedules a retry of the removed
  job (against the comment at `glidemq.lua:2025`).
- `"hang"` (`OneRunner`, `CompletedIsFinal`): a worker that wakes up after its entry was
  taken back still completes or fails the job; the calls do not ask who owns it.

`GroupOrdering`
- `"leak"` (`Accounted`): a slot kept by a stall redispatch or a hand-back carries no
  `retainedSlot` (`glidemq.lua:367`); if the job is revoked, removed, drained or expires
  while it waits, the slot is lost for ever, against the comment at line 355 and
  `docs/ADVANCED.md:451`.
- `"phantom"` (`InTurn`): a job that died between claim and activation, failed past
  `maxStalledCount`, frees a slot it never took (`glidemq.lua:970`).  The same happens
  when a job that was revoked while active is undone by a closing worker, or retried,
  and then answered `REVOKED`; its sequence number is then never closed.

`FlowDeps`
- `"remove"` (`RunsAfterChildren`): `addDAG` puts only leaves into their dependents' `deps`
  before anything can report (`flow-producer.ts:613`, `1010`).  An inner node removed while
  the level is being wired is reported to a dependent whose `deps` do not hold its
  siblings yet, and the dependent is released before they ran (`docs/WORKFLOWS.md:99`).
- `"clean"` (`RunsAfterChildren`): a nested child that failed and was deleted before the
  producer wires it cannot be told from a removed one, and unblocks its parent, although
  `docs/WORKFLOWS.md:21` says that failed children do not.

`ListClaims`
- `"crash"` (`JobKept`): a popped job that is not yet active is lost when its worker dies,
  against `docs/DURABILITY.md:21`.
- `"heal"`, `"hang"` (`CapHeld`): healing counts only active hashes, so it drops the claims
  that live workers have popped and not activated, and a worker that outlives its
  lease gives back a slot twice; more jobs run than `globalConcurrency` allows
  (`glidemq.lua:22-31`, `docs/ADVANCED.md:637`).
- `"steal"` (`CapHeld`): `changePriority` deletes the stream entry a worker has claimed.
- `"revoke"` (`JobKept`): a job that is revoked while it runs and comes back to a list (its
  failure is retried, its worker dies, a stopping worker hands it back) is popped there by a
  chained call, which drops it (`glidemq.lua:1491`): it stays `waiting` in no list.

`WorkerLoop`
- `"start"` (`LoopAlive`): `init()` or a reconnect starts the poll loop of a paused worker
  (`base-worker.ts:453-454`); it ends at once and its promise keeps `resume()` from starting another.
- `"library"` (`ClosedIsClean`): a client whose library cannot be loaded is not closed
  (`base-worker.ts:477-481`).
- `"batch"` (`PauseHolds`): a batch that is being activated when `pause()` lands still runs,
  against `docs/USAGE.md:268`.
- Seen on the way: `drain()` does not look at the priority and LIFO lists.

`DispatchSlot`
- `"limiter"` (`OrderKept`): when `close()` cuts the limiter wait of a batch short, list jobs
  are handed back in claim order and so change places (`base-worker.ts:865-870`), against
  the comments at 709-711 and 741-743.
- A call that fails after `completeAndFetchNext` has claimed the next job (notifications,
  budget, token counter, scheduler; `ChainThrows`) leaves that job claimed until stalled
  recovery; `NothingLeft` therefore speaks of slots in which no call failed.
- A failing limiter call fails every job of a batch, and leaves a single job to recovery.

`RepeatScheduler`
- `"late"`, `"slow"` (`AsAsked`): a tick or an upsert whose lock expires before its last write
  overwrites what another one wrote.
- `"delete"` (`AsAsked`): an upsert between the read and the deletion of a completion is
  deleted with the old entry (`base-worker.ts:1619-1620` says so).  The limitations 1 and 2
  at 1614-1618 are outdated.
- The batch path (`completeBatchEntries`) never updates the scheduler; ticks repair it.

`SandboxPool`
- The manner `"unsendable"` (`SlotsServed`): a job that cannot be cloned makes `postMessage`
  throw after the worker was taken; the worker stays busy (`pool.ts:307`).

`ProxyServer`
- The stream route reads one page of 100 entries after the job has ended
  (`routes.ts:1554`), against `docs/USAGE.md:706`; more output than that is not delivered.

`TestQueue`
- `"held"` (`OneRunner`, `NotStranded`): a client that changes a job which a batch worker
  holds back (`testing.ts:1127-1131`) makes it run twice, or not at all.
- `"early"` (`OneRunner`): a job signalled before its processor has ended runs twice at once.
- `"untold"` (`SchedulerGoesOn`): `onSchedulerJobFinished` is called where a worker completes a
  job or fails it for good, and nowhere else.  A job of a `repeatAfterComplete` entry that is
  revoked (`testing.ts:1323`), removed (1169) or drained (1475), whose suspension times out
  (2312) or whose ttl passes (2770) leaves the entry with `nextRun = 0` for ever, although
  `docs/TESTING.md:497` says that it waits for the job "to complete or fail terminally", and the
  limitations from line 515 on name no exception.  TLC finds each of the five by itself when a
  profile allows only that ending.

## Not modelled

- Broadcast: subscriptions that share the hash of a message, with retries, claims and
  trimming of their own.
- Deduplication and the charging of budgets are each one atomic call on one key; a worker
  that diverts a job over budget is in `DispatchSlot`, the in-memory budget in `TestQueue`.
- The token bucket of ordering keys: arithmetic on elapsed time and remainders.
- Queue events, telemetry, type declarations, errors, loading of the library, the
  serverless cache and the signal handlers forward, declare or cache.
- Routes of the proxy and calls of the client API that build the arguments of one server
  function; the function is modelled.

What is left of the plan, in this order: theorems about `TestQueue`; `Broadcast`;
the token bucket over bounded inputs.
