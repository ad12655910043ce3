------------------------------ MODULE WorkerLoop ------------------------------
(* One Worker object (worker.ts on top of base-worker.ts): the poll loop, the *)
(* promises of the jobs it runs, pause, resume, drain and close, and the      *)
(* reconnection of its two clients. Every await is a step of its own, so a    *)
(* call of the user may land at any of them. What the server does with a job  *)
(* is reduced to where the job is; StreamQueue and ListClaims model the rest. *)
EXTENDS Naturals, FiniteSets

CONSTANTS
  Jobs,      \* the jobs of the queue
  Profiles,  \* the worker options and user calls to explore, see ProfileType
  Races      \* "start": the loop may be (re)started while the worker is paused
             \* "library": loading the library may fail after its client is open
             \* "batch": pause() may land while a batch is being activated

ProfileType ==
  [lists: SUBSET Jobs,      \* jobs with a priority or lifo: they go to a list
   prefetch: 1 .. 2,        \* concurrency, or concurrency * batch.size
   batch: BOOLEAN,          \* batch processor
   limited: BOOLEAN,        \* a limiter is configured
   shared: BOOLEAN,         \* the command client was injected
   calls: SUBSET {"pause", "close", "force", "drain"},
   pauses: 0 .. 2,          \* bound on pause() calls
   errs: 0 .. 2]            \* bound on failing connection calls

ASSUME ProfilesAssumption == Profiles \subseteq ProfileType
ASSUME RacesAssumption == Races \subseteq {"start", "library", "batch"}

VARIABLES
  conf,       \* the profile, chosen at the start
  where,      \* [Jobs -> "new", in a "list" or the "stream", claimed in "hand", "active", "done"]
  task,       \* [Jobs -> what the promise that carries the job awaits]
  held,       \* jobs a batch poll has collected
  loops,      \* [LoopIds -> what each running pollLoop() awaits]
  want,       \* fetchCount of the current poll
  fresh,      \* listsEmptyAt is recent
  promise,    \* pollLoopPromise is not null
  init,       \* the step of init()
  running, paused, closing, closed, forceClosing,
  rec,        \* the step of reconnectAndResume()
  retry,      \* reconnectRetryTimer is set
  cmd, blk,   \* commandClient and blockingClient are not null
  pend,       \* pendingCommand of the reconnect holds a client
  open,       \* connections opened by this worker and not closed
  sched, beat,  \* the scheduler and the registration timer run
  closer,     \* the step of performClose()
  closeForce, \* its argument
  pauser,     \* the last pause(): none, waiting for the promises in awaiting, or returned
  awaiting,
  drainer,    \* the step of drain()
  owed,       \* jobs that were in the queue when drain() was called
  pauses, errs

vars == <<conf, where, task, held, loops, want, fresh, promise, init, running, paused, closing,
          closed, forceClosing, rec, retry, cmd, blk, pend, open, sched, beat, closer, closeForce,
          pauser, awaiting, drainer, owed, pauses, errs>>

queueVars == <<where, task, held, want, fresh>>
loopVars == <<loops, promise>>
flagVars == <<running, paused, closing, closed, forceClosing>>
clientVars == <<rec, retry, cmd, blk, pend, open, sched, beat>>
callVars == <<closer, closeForce, pauser, awaiting, drainer, owed, pauses>>

LoopIds == 1 .. 2
LoopSteps == {"none", "top", "slot", "pop", "read", "post", "inline", "activate", "return",
              "backoff", "reconnect"}
TaskSteps == {"none", "back", "activate", "limit", "run", "aborted", "complete", "chain"}

TypeOK ==
  /\ conf \in Profiles
  /\ where \in [Jobs -> {"new", "list", "stream", "hand", "active", "done"}]
  /\ task \in [Jobs -> TaskSteps]
  /\ held \subseteq Jobs /\ awaiting \subseteq Jobs /\ owed \subseteq Jobs
  /\ loops \in [LoopIds -> LoopSteps]
  /\ want \in 0 .. 2
  /\ init \in {"command", "blocking", "prepare", "register", "done", "failed"}
  /\ rec \in {"none", "command", "library", "ping", "blocking", "group", "register"}
  /\ closer \in {"none", "init", "scheduler", "settle", "blocking", "jobs", "deregister", "end", "done"}
  /\ pauser \in {"none", "waits", "returned"}
  /\ drainer \in {"none", "asks", "empty", "closes"}
  /\ {fresh, promise, running, paused, closing, closed, forceClosing, retry, cmd, blk, pend,
      sched, beat, closeForce} \subseteq BOOLEAN
  /\ open \in 0 .. 6 /\ pauses \in 0 .. 2 /\ errs \in 0 .. 2

Init ==
  /\ conf \in Profiles
  /\ where = [j \in Jobs |-> "new"]
  /\ task = [j \in Jobs |-> "none"]
  /\ held = {} /\ awaiting = {} /\ owed = {}
  /\ loops = [l \in LoopIds |-> "none"]
  /\ want = 0 /\ fresh = FALSE /\ promise = FALSE
  /\ init = "command"
  /\ running = FALSE /\ paused = FALSE /\ closing = FALSE /\ closed = FALSE /\ forceClosing = FALSE
  /\ rec = "none" /\ retry = FALSE
  /\ cmd = FALSE /\ blk = FALSE /\ pend = FALSE /\ open = 0
  /\ sched = FALSE /\ beat = FALSE
  /\ closer = "none" /\ closeForce = FALSE /\ pauser = "none" /\ drainer = "none"
  /\ pauses = 0 /\ errs = 0

----------------------------------------------------------------------------
(* Jobs and promises                                                         *)

Stopping == paused \/ closing
Active == running /\ ~closing              \* isActive() of the reconnect
Busy == {j \in Jobs : task[j] # "none"}    \* activePromises
InList == {j \in Jobs : where[j] = "list"}
InStream == {j \in Jobs : where[j] = "stream"}
Place(j) == IF j \in conf.lists THEN "list" ELSE "stream"
Inline == conf.prefetch = 1 \/ conf.batch  \* concurrency 1: the loop awaits the promise

\* Queue.add: a job with a priority or lifo goes to a list, any other to the stream
Add(j) ==
  /\ where[j] = "new" /\ ~closed
  /\ where' = [where EXCEPT ![j] = Place(j)]
  /\ UNCHANGED <<conf, task, held, want, fresh, loopVars, init, flagVars, clientVars, callVars, errs>>

TaskUnchanged == UNCHANGED <<conf, held, want, loopVars, init, flagVars, clientVars, closer,
                             closeForce, pauser, drainer, owed, pauses, errs>>

\* the promise of j ends, or goes on with the chained job k
Settle(j) == awaiting' = awaiting \ {j}
Continue(j, k) == awaiting' = IF j \in awaiting THEN (awaiting \ {j}) \union {k} ELSE awaiting

\* mutant: the claim of a read in flight is run whatever happened meanwhile
StartUnchecked(D) == [j \in Jobs |-> IF j \in D THEN "activate" ELSE task[j]]

\* a claim of a poll: processJob looks at the flags before its first call
Start(D) == [j \in Jobs |-> IF j \in D THEN (IF Stopping THEN "back" ELSE "activate") ELSE task[j]]
\* an activated job: runProcessor waits for the limiter first
Processing == IF conf.limited THEN "limit" ELSE "run"

\* moveToActive: the job runs, or is refused (removed, expired, stale) and settled
Activate(j) ==
  /\ task[j] = "activate" /\ cmd
  /\ \/ /\ where' = [where EXCEPT ![j] = "active"]
        /\ task' = [task EXCEPT ![j] = Processing]
        /\ UNCHANGED awaiting
     \/ /\ where' = [where EXCEPT ![j] = "done"]
        /\ task' = [task EXCEPT ![j] = "none"]
        /\ Settle(j)
  /\ UNCHANGED fresh /\ TaskUnchanged

\* waitForRateLimit: close() cuts the wait short and the job goes back unrun
EndLimit(j) ==
  /\ task[j] = "limit"
  /\ task' = [task EXCEPT ![j] = IF closing THEN "back" ELSE "run"]
  /\ UNCHANGED <<where, fresh, awaiting>> /\ TaskUnchanged

\* the processor ends: the flags decide whether the completion fetches the next job
EndProcessor(j) ==
  /\ task[j] = "run"
  /\ task' = [task EXCEPT ![j] = IF Stopping \/ conf.batch THEN "complete" ELSE "chain"]
  /\ UNCHANGED <<where, fresh, awaiting>> /\ TaskUnchanged

\* close(true) aborted it: the job stays active for the stalled recovery
EndAborted(j) ==
  /\ task[j] = "aborted"
  /\ task' = [task EXCEPT ![j] = "none"]
  /\ Settle(j)
  /\ UNCHANGED <<where, fresh>> /\ TaskUnchanged

\* completeJob or failJob without a fetch
Complete(j) ==
  /\ task[j] = "complete" /\ cmd
  /\ where' = [where EXCEPT ![j] = "done"]
  /\ task' = [task EXCEPT ![j] = "none"]
  /\ Settle(j)
  /\ UNCHANGED fresh /\ TaskUnchanged

\* completeAndFetchNext: lists before the stream; the flags are read again at the reply
Chain(j) ==
  /\ task[j] = "chain" /\ cmd
  /\ IF InList \union InStream = {}
     THEN /\ where' = [where EXCEPT ![j] = "done"]
          /\ task' = [task EXCEPT ![j] = "none"]
          /\ fresh' = TRUE
          /\ Settle(j)
     ELSE \E k \in IF InList # {} THEN InList ELSE InStream :
            /\ where' = [where EXCEPT ![j] = "done", ![k] = "active"]
            /\ task' = [task EXCEPT ![j] = "none", ![k] = IF Stopping THEN "back" ELSE Processing]
            /\ Continue(j, k)
            /\ UNCHANGED fresh
  /\ TaskUnchanged

\* deferPausedActivation: the claim goes back to where it came from
HandBack(j) ==
  /\ task[j] = "back" /\ cmd
  /\ where' = [where EXCEPT ![j] = Place(j)]
  /\ task' = [task EXCEPT ![j] = "none"]
  /\ Settle(j)
  /\ UNCHANGED fresh /\ TaskUnchanged

\* without a command client every call of the promise returns or rejects
LoseClient(j) ==
  /\ task[j] \in {"back", "activate", "complete", "chain"} /\ ~cmd
  /\ task' = [task EXCEPT ![j] = "none"]
  /\ Settle(j)
  /\ UNCHANGED <<where, fresh>> /\ TaskUnchanged

----------------------------------------------------------------------------
(* The poll loop                                                             *)

\* pollLoop() called: it runs up to its first await. Without that await it has
\* set pollLoopPromise to null before the caller assigns the finished promise.
StartLoop(others, starts) ==
  /\ \E l \in LoopIds : /\ others[l] = "none"
                      /\ loops' = [others EXCEPT ![l] = IF starts THEN "top" ELSE "none"]
  /\ promise' = TRUE

LoopUnchanged == UNCHANGED <<conf, init, flagVars, clientVars, callVars>>

GoTo(l, step) == loops' = [loops EXCEPT ![l] = step]

\* mutants: the loop goes on while the worker closes; it keeps its finished promise
PollsForever == ~paused
PromiseKept == promise

\* the condition of the while, and what happens to the promise after it
Polls == running /\ ~paused /\ ~closing
PromiseAfter == IF paused /\ ~closing THEN FALSE ELSE promise

\* the head of the while, and of pollOnce
PollTop(l) ==
  /\ loops[l] = "top"
  /\ LET available == conf.prefetch - Cardinality(Busy) IN
     IF Polls
     THEN /\ blk /\ cmd
          /\ want' = available
          /\ \/ /\ available > 0 /\ GoTo(l, "pop")
             \/ /\ available > 0 /\ fresh /\ GoTo(l, "read")
             \/ /\ available = 0 /\ GoTo(l, "slot")
          /\ fresh' = IF available = 0 THEN fresh ELSE FALSE
          /\ UNCHANGED promise
     ELSE /\ GoTo(l, "none")
          /\ promise' = PromiseAfter
          /\ UNCHANGED <<want, fresh>>
  /\ UNCHANGED <<where, task, held, errs>> /\ LoopUnchanged

\* waitForSlot: a slot came free, or its timer
SlotFree(l) ==
  /\ loops[l] = "slot"
  /\ GoTo(l, "top")
  /\ UNCHANGED <<queueVars, promise, errs>> /\ LoopUnchanged

\* the jobs D of a reply: a batch is collected, single jobs are dispatched
Deliver(l, D) ==
  /\ where' = [j \in Jobs |-> IF j \in D THEN "hand" ELSE where[j]]
  /\ IF conf.batch
     THEN /\ held' = D
          /\ GoTo(l, IF Stopping THEN "return" ELSE "activate")
          /\ UNCHANGED task
     ELSE /\ task' = Start(D)
          /\ GoTo(l, IF Inline THEN "inline" ELSE "top")
          /\ UNCHANGED held

UpTo(S, n) == {D \in SUBSET S : D # {} /\ Cardinality(D) <= n}

\* tryPopFromLists, before the blocking read and after it found nothing
Pop(l) ==
  /\ loops[l] \in {"pop", "post"}
  /\ \/ /\ cmd
        /\ \E D \in UpTo(InList, want) : Deliver(l, D)
        /\ UNCHANGED errs
     \/ /\ \/ InList = {} /\ UNCHANGED errs
           \/ errs < conf.errs /\ errs' = errs + 1     \* caught: an error event
        /\ GoTo(l, IF loops[l] = "post" \/ Stopping THEN "top" ELSE "read")
        /\ UNCHANGED <<where, task, held>>
  /\ UNCHANGED <<want, fresh, promise>> /\ LoopUnchanged

\* XREADGROUP BLOCK: entries, nothing after blockTimeout, or an error
Read(l) ==
  /\ loops[l] = "read"
  /\ \/ /\ blk
        /\ \E D \in UpTo(InStream, want) : Deliver(l, D)
        /\ UNCHANGED errs
     \/ /\ blk
        /\ GoTo(l, IF Stopping THEN "top" ELSE "post")
        /\ UNCHANGED <<where, task, held, errs>>
     \/ /\ \/ ~blk /\ UNCHANGED errs                   \* closed under the read
           \/ /\ paused => "start" \in Races
              /\ errs < conf.errs /\ errs' = errs + 1
        /\ GoTo(l, IF Active THEN "backoff" ELSE "top")
        /\ UNCHANGED <<where, task, held>>
  /\ UNCHANGED <<want, fresh, promise>> /\ LoopUnchanged

\* concurrency 1: the promise of the job, or of the batch, has ended
PollInline(l) ==
  /\ loops[l] = "inline" /\ Busy = {}
  /\ GoTo(l, "top")
  /\ UNCHANGED <<queueVars, promise, errs>> /\ LoopUnchanged

\* activateAndProcessBatch: moveToActiveMany, then processBatch is dispatched at once
ActivateBatch(l) ==
  /\ loops[l] = "activate" /\ cmd
  /\ where' = [j \in Jobs |-> IF j \in held THEN "active" ELSE where[j]]
  /\ task' = [j \in Jobs |-> IF j \in held THEN Processing ELSE task[j]]
  /\ held' = {}
  /\ GoTo(l, "inline")
  /\ UNCHANGED <<want, fresh, promise, errs>> /\ LoopUnchanged

\* activateAndProcessBatch after pause() or close(): one entry after the other goes back
ReturnHeld(l) ==
  /\ loops[l] = "return"
  /\ \/ \E j \in held :
          /\ where' = IF cmd THEN [where EXCEPT ![j] = Place(j)] ELSE where
          /\ held' = held \ {j}
          /\ UNCHANGED loops
     \/ held = {} /\ GoTo(l, "top") /\ UNCHANGED <<where, held>>
  /\ UNCHANGED <<task, want, fresh, promise, errs>> /\ LoopUnchanged

----------------------------------------------------------------------------
(* reconnectAndResume                                                        *)

\* whether the command client is replaced: jobs in flight, or its owner, still need it
Renew == ~conf.shared /\ Busy = {}

\* the attempt begins: the blocking client is closed, and the command client to be replaced
BeginReconnect ==
  /\ blk' = FALSE
  /\ cmd' = IF Renew THEN FALSE ELSE cmd
  /\ open' = open - (IF blk THEN 1 ELSE 0) - (IF Renew /\ cmd THEN 1 ELSE 0)
  /\ rec' = IF Renew THEN "command" ELSE "ping"
  /\ UNCHANGED <<pend, sched, beat>>

RecUnchanged == UNCHANGED <<conf, queueVars, init, flagVars, callVars>>

\* the loop slept and calls reconnectAndResume, unless the worker is closing
EndBackoff(l) ==
  /\ loops[l] = "backoff"
  /\ IF Active
     THEN BeginReconnect /\ GoTo(l, "reconnect") /\ UNCHANGED <<retry, promise>>
     ELSE GoTo(l, "none") /\ UNCHANGED <<clientVars, promise>>
  /\ UNCHANGED errs /\ RecUnchanged

\* setTimeout of the last failed attempt
RetryFires ==
  /\ retry
  /\ retry' = FALSE
  /\ IF Active THEN BeginReconnect ELSE UNCHANGED <<rec, cmd, blk, pend, open, sched, beat>>
  /\ UNCHANGED <<loopVars, errs>> /\ RecUnchanged

\* the loop that waits for the attempt returns with it
Returned == [l \in LoopIds |-> IF loops[l] = "reconnect" THEN "none" ELSE loops[l]]

\* abortIfClosing at a step that has opened a client not yet assigned (extra),
\* or has assigned the blocking client
Abort(extra) ==
  /\ open' = open - (IF extra THEN 1 ELSE 0) - (IF blk THEN 1 ELSE 0)
  /\ blk' = FALSE /\ pend' = FALSE /\ rec' = "none"
  /\ loops' = Returned
  /\ UNCHANGED <<promise, retry, cmd, sched, beat>>

\* an await of the attempt rejects: onError and a retry timer, unless closing
AttemptFails ==
  /\ rec' = "none"
  /\ retry' = Active
  /\ pend' = FALSE        \* the local variable goes with its client still open
  /\ loops' = Returned
  /\ errs < conf.errs /\ errs' = errs + 1
  /\ UNCHANGED <<promise, cmd, blk, open, sched, beat>> /\ RecUnchanged

RecFails ==
  /\ rec \in {"command", "ping", "blocking", "group"} \union (IF "library" \in Races THEN {"library"} ELSE {})
  /\ AttemptFails

RecCommand ==      \* createClient
  /\ rec = "command"
  /\ IF closing
     THEN open' = open /\ rec' = "none" /\ loops' = Returned /\ UNCHANGED pend
     ELSE open' = open + 1 /\ pend' = TRUE /\ rec' = "library" /\ UNCHANGED loops
  /\ UNCHANGED <<promise, retry, cmd, blk, sched, beat, errs>> /\ RecUnchanged

RecLibrary ==      \* ensureFunctionLibrary of the new client
  /\ rec = "library"
  /\ IF closing THEN Abort(pend)
     ELSE /\ cmd' = TRUE /\ pend' = FALSE /\ rec' = "blocking"
          /\ UNCHANGED <<loopVars, retry, blk, open, sched, beat>>
  /\ UNCHANGED errs /\ RecUnchanged

RecPing ==         \* the kept client answers
  /\ rec = "ping"
  /\ IF closing THEN Abort(FALSE)
     ELSE rec' = "blocking" /\ UNCHANGED <<loopVars, retry, cmd, blk, pend, open, sched, beat>>
  /\ UNCHANGED errs /\ RecUnchanged

\* mutant: close() during the call is not noticed until the next one
RecBlockingUnchecked ==
  /\ rec = "blocking"
  /\ blk' = TRUE /\ open' = open + 1 /\ rec' = "group"
  /\ UNCHANGED <<loopVars, retry, cmd, pend, sched, beat, errs>> /\ RecUnchanged

RecBlocking ==     \* createBlockingClient
  /\ rec = "blocking"
  /\ IF closing
     THEN rec' = "none" /\ loops' = Returned /\ UNCHANGED <<blk, open>>
     ELSE blk' = TRUE /\ open' = open + 1 /\ rec' = "group" /\ UNCHANGED loops
  /\ UNCHANGED <<promise, retry, cmd, pend, sched, beat, errs>> /\ RecUnchanged

RecGroup ==        \* createConsumerGroup
  /\ rec = "group"
  /\ IF closing THEN Abort(FALSE)
     ELSE rec' = "register" /\ UNCHANGED <<loopVars, retry, cmd, blk, pend, open, sched, beat>>
  /\ UNCHANGED errs /\ RecUnchanged

\* registerWorker never rejects; then scheduler, timer and poll loop start in one go
RecRegister ==
  /\ rec = "register"
  /\ IF closing THEN Abort(FALSE)
     ELSE /\ rec' = "none" /\ sched' = TRUE /\ beat' = TRUE
          /\ IF running
             THEN StartLoop(Returned, ~paused)
             ELSE loops' = Returned /\ UNCHANGED promise
          /\ UNCHANGED <<retry, cmd, blk, pend, open>>
  /\ UNCHANGED errs /\ RecUnchanged

----------------------------------------------------------------------------
(* init, pause, resume, drain, close                                         *)

InitFails == errs < conf.errs /\ errs' = errs + 1 /\ init' = "failed"

\* init(): createClient with the library, the blocking client, group and flags, registration
InitCommand ==
  /\ init = "command"
  /\ \/ /\ init' = "blocking" /\ cmd' = TRUE
        /\ open' = IF conf.shared THEN open ELSE open + 1
        /\ UNCHANGED errs
     \/ InitFails /\ UNCHANGED <<cmd, open>>
  /\ UNCHANGED <<conf, queueVars, loopVars, flagVars, callVars, rec, retry, blk, pend, sched, beat>>

InitBlocking ==
  /\ init = "blocking"
  /\ \/ init' = "prepare" /\ blk' = TRUE /\ open' = open + 1 /\ UNCHANGED errs
     \/ InitFails /\ UNCHANGED <<blk, open>>
  /\ UNCHANGED <<conf, queueVars, loopVars, flagVars, callVars, rec, retry, cmd, pend, sched, beat>>

InitPrepare ==
  /\ init = "prepare"
  /\ \/ init' = "register" /\ sched' = TRUE /\ UNCHANGED errs
     \/ InitFails /\ UNCHANGED sched
  /\ UNCHANGED <<conf, queueVars, loopVars, flagVars, callVars, rec, retry, cmd, blk, pend, open, beat>>

InitRegister ==
  /\ init = "register"
  /\ init' = "done"
  /\ beat' = TRUE
  /\ running' = TRUE
  /\ StartLoop(loops, ~paused /\ ~closing)
  /\ UNCHANGED <<conf, queueVars, callVars, paused, closing, closed, forceClosing,
                 rec, retry, cmd, blk, pend, open, sched, errs>>

CallUnchanged == UNCHANGED <<conf, queueVars, init, clientVars, errs>>

\* a loop is about to start: pause() at this moment is the race "start"
Starting == init \notin {"done", "failed"} \/ rec # "none" \/ retry \/ \E l \in LoopIds : loops[l] = "backoff"

\* pause(force): without force it waits for the promises of this moment
Pause(force) ==
  /\ "pause" \in conf.calls /\ pauses < conf.pauses /\ ~closed
  /\ Starting => "start" \in Races
  /\ (\E l \in LoopIds : loops[l] = "activate") => "batch" \in Races
  /\ pauses' = pauses + 1
  /\ paused' = TRUE
  /\ awaiting' = IF force THEN {} ELSE Busy
  /\ pauser' = IF force THEN "none" ELSE "waits"
  /\ UNCHANGED <<loopVars, running, closing, closed, forceClosing, closer, closeForce, drainer, owed>>
  /\ CallUnchanged

PauseReturns ==
  /\ pauser = "waits" /\ awaiting = {}
  /\ pauser' = "returned"
  /\ UNCHANGED <<loopVars, flagVars, closer, closeForce, awaiting, drainer, owed, pauses>>
  /\ CallUnchanged

\* resume() waits for init, and starts a loop if the last one cleared the promise
Resume ==
  /\ paused /\ init = "done" /\ ~closed
  /\ paused' = FALSE
  /\ pauser' = "none" /\ awaiting' = {}
  /\ IF promise THEN UNCHANGED loopVars ELSE StartLoop(loops, Active)
  /\ UNCHANGED <<running, closing, closed, forceClosing, closer, closeForce, drainer, owed, pauses>>
  /\ CallUnchanged

\* close(force): a forced one aborts the processors, also when a graceful one waits for them
CloseEffects(force) ==
  /\ forceClosing' = (forceClosing \/ force)
  /\ task' = [j \in Jobs |-> IF force /\ task[j] \in {"limit", "run"} THEN "aborted" ELSE task[j]]
  /\ IF closer = "none"
     THEN closing' = TRUE /\ running' = FALSE /\ closer' = "init" /\ closeForce' = force
     ELSE UNCHANGED <<closing, running, closer, closeForce>>
  /\ UNCHANGED <<conf, where, held, want, fresh, loopVars, init, clientVars, paused, closed, pauser,
                 awaiting, owed, pauses, errs>>

Close(force) ==
  /\ (IF force THEN "force" ELSE "close") \in conf.calls /\ ~closed
  /\ closer # "none" => force /\ ~forceClosing
  /\ CloseEffects(force)
  /\ UNCHANGED drainer

\* drain(): the stream's length and the scheduled set are read, then activeCount
Drain ==
  /\ "drain" \in conf.calls /\ init = "done" /\ drainer = "none" /\ closer = "none"
  /\ drainer' = "asks"
  /\ owed' = {j \in Jobs : where[j] \notin {"new", "done"}}
  /\ UNCHANGED <<loopVars, flagVars, closer, closeForce, pauser, awaiting, pauses>> /\ CallUnchanged

\* xlen: an entry is deleted from the stream only when its job is settled
StreamLen0 == \A j \in Jobs \ conf.lists : where[j] \notin {"stream", "hand", "active"}

\* isDrainComplete
DrainAsks ==
  /\ drainer = "asks" /\ cmd
  /\ StreamLen0
  /\ drainer' = "empty"
  /\ UNCHANGED <<loopVars, flagVars, closer, closeForce, pauser, awaiting, owed, pauses>> /\ CallUnchanged

DrainCloses ==
  /\ drainer = "empty"
  /\ IF Busy = {}
     THEN drainer' = "closes" /\ CloseEffects(FALSE)
     ELSE /\ drainer' = "asks"
          /\ UNCHANGED <<loopVars, flagVars, closer, closeForce, pauser, awaiting, owed, pauses>>
          /\ CallUnchanged

\* performClose, one await after the other
NextStep(from, to) == closer = from /\ closer' = to
PerformUnchanged == UNCHANGED <<conf, queueVars, loops, init, running, paused, closing, forceClosing, rec,
                                pend, closeForce, pauser, awaiting, drainer, owed, pauses, errs>>

CloseInit ==
  /\ init \in {"done", "failed"} /\ NextStep("init", "scheduler")
  /\ retry' = FALSE
  /\ UNCHANGED <<promise, closed, cmd, blk, open, sched, beat>> /\ PerformUnchanged

CloseScheduler ==
  /\ NextStep("scheduler", IF closeForce THEN "blocking" ELSE "settle")
  /\ sched' = FALSE
  /\ UNCHANGED <<promise, closed, retry, cmd, blk, open, beat>> /\ PerformUnchanged

\* settlePollLoop: the loop has returned, or the cap ran out while a job or a reconnect held it
CloseSettle ==
  /\ NextStep("settle", "blocking")
  /\ \A l \in LoopIds : loops[l] \in {"none", "inline", "reconnect"}
  /\ UNCHANGED <<promise, closed, retry, cmd, blk, open, sched, beat>> /\ PerformUnchanged

CloseBlocking ==
  /\ NextStep("blocking", IF closeForce THEN "deregister" ELSE "jobs")
  /\ blk' = FALSE
  /\ open' = IF blk THEN open - 1 ELSE open
  /\ UNCHANGED <<promise, closed, retry, cmd, sched, beat>> /\ PerformUnchanged

CloseJobs ==
  /\ Busy = {} /\ NextStep("jobs", "deregister")
  /\ UNCHANGED <<promise, closed, retry, cmd, blk, open, sched, beat>> /\ PerformUnchanged

CloseDeregister ==
  /\ NextStep("deregister", "end")
  /\ beat' = FALSE
  /\ UNCHANGED <<promise, closed, retry, cmd, blk, open, sched>> /\ PerformUnchanged

ClosesCommand == cmd /\ ~conf.shared

CloseEnd ==
  /\ NextStep("end", "done")
  /\ promise' = FALSE /\ cmd' = FALSE /\ closed' = TRUE
  /\ open' = IF ClosesCommand THEN open - 1 ELSE open
  /\ UNCHANGED <<retry, blk, sched, beat>> /\ PerformUnchanged

----------------------------------------------------------------------------
LoopNext ==
  \E l \in LoopIds : \/ PollTop(l) \/ SlotFree(l) \/ Pop(l) \/ Read(l) \/ PollInline(l)
                     \/ ActivateBatch(l) \/ ReturnHeld(l) \/ EndBackoff(l)
TaskNext ==
  \E j \in Jobs : \/ Activate(j) \/ EndLimit(j) \/ EndProcessor(j) \/ EndAborted(j) \/ Complete(j)
                  \/ Chain(j) \/ HandBack(j) \/ LoseClient(j)
ReconnectNext ==
  \/ RetryFires \/ RecFails \/ RecCommand \/ RecLibrary \/ RecPing \/ RecBlocking \/ RecGroup \/ RecRegister
InitNext == InitCommand \/ InitBlocking \/ InitPrepare \/ InitRegister
CloseNext ==
  \/ CloseInit \/ CloseScheduler \/ CloseSettle \/ CloseBlocking \/ CloseJobs \/ CloseDeregister \/ CloseEnd
\* what goes on without a call of the user
Internal == LoopNext \/ TaskNext \/ ReconnectNext \/ InitNext \/ CloseNext \/ PauseReturns \/ DrainAsks \/ DrainCloses
UserNext ==
  \/ \E j \in Jobs : Add(j)
  \/ \E force \in BOOLEAN : Pause(force) \/ Close(force)
  \/ Resume \/ Drain
Next == Internal \/ UserNext

Spec == Init /\ [][Next]_vars
\* the event loop of the process goes on, and processors end
FairSpec == Spec /\ WF_vars(Internal)

----------------------------------------------------------------------------
(* Properties                                                                *)

\* A worker that is neither paused nor closing has exactly one poll loop, or a
\* timer that will start it: no order of pause, resume and reconnect leaves two
\* loops that together exceed the prefetch, or a resumed worker without any.
\* A loop that is started while the worker is paused is the window "start".
LoopAlive ==
  LET alive == {l \in LoopIds : loops[l] # "none"} IN
  /\ Cardinality(alive) <= 1
  /\ init = "done" /\ running /\ ~paused /\ ~closing => alive # {} \/ retry \/ rec # "none"

\* After pause() has returned nothing is processed until resume(): reads and
\* pops that were in flight, limiter waits and chained claims included.
PauseHolds == pauser = "returned" /\ paused /\ ~closing => \A j \in Jobs : task[j] \notin {"activate", "limit", "run", "aborted"}

\* A closed worker leaves nothing behind, whatever reconnect its close
\* overtook: no connection, timer or scheduler, and after a graceful close no
\* claim that only the stalled recovery would find.
ClosedIsClean ==
  closed /\ rec = "none" =>
    /\ open = 0 /\ ~blk /\ ~cmd /\ ~sched /\ ~beat /\ ~retry
    /\ ~forceClosing => \A j \in Jobs : where[j] \notin {"hand", "active"}

\* close() always comes to its end.
CloseEnds == closing ~> closed
=============================================================================
