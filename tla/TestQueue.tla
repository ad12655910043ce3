----------------------------- MODULE TestQueue -----------------------------
(***************************************************************************)
(* The in-memory test double: a TestQueue and the TestWorkers attached to  *)
(* it, in one JavaScript process.  A handler runs without interruption, so *)
(* it is one step; what it does to the queue is an operator from the queue *)
(* object to the queue object.  Between handlers anything may happen: a    *)
(* client call, a microtask (a worker that was woken, the end of a         *)
(* processor), and, once the microtasks are done, a timer.                 *)
(*                                                                         *)
(* A record is an object: after remove() or obliterate() its id may belong *)
(* to a newer record while the old one is still in a worker's hands.       *)
(***************************************************************************)
EXTENDS Naturals, FiniteSets, SequencesExt

CONSTANTS
  Recs,          \* job records
  Id,            \* the id of each record; two records may have the same custom id
  Up,            \* the records a record names as its parents, in order
  Lifo, Timed, Vanish,  \* records with lifo, with a ttl, with removeOnComplete/-Fail true
  Attempts,      \* opts.attempts
  Budgeted,      \* records with the budget key of their flow; each reports one token
  OnExceeded,    \* "pause" or "fail"
  Watched,       \* the ids given to waitForJobs
  Awaited,       \* records added with addAndWait
  Workers,
  Batch,         \* batch.size of each worker, 0 for a worker without batches
  Linger,        \* workers whose batch.timeout is positive
  Slots,         \* concurrency of each worker
  Profiles,      \* which jobs, workers, client calls and processor endings occur together
  Races          \* "held": a client changes a job that a batch worker holds back
                 \* "early": a job is signalled before its processor has ended
                 \* "untold": a client or a timer ends the job a scheduler waits for

Ids  == {Id[r] : r \in Recs}
Gone == "gone"

ASSUME TestQueueAssumption ==
  /\ Gone \notin Recs /\ Up \in [Recs -> Seq(Recs)]
  /\ Lifo \cup Timed \cup Vanish \cup Awaited \cup Budgeted \subseteq Recs
  /\ Watched \subseteq Ids /\ OnExceeded \in {"pause", "fail"}
  /\ Batch \in [Workers -> Nat] /\ Slots \in [Workers -> Nat \ {0}] /\ Linger \subseteq Workers
  /\ Attempts \in Nat /\ Races \subseteq {"held", "early", "untold"}
  /\ \A p \in Profiles : p.jobs \subseteq Recs /\ p.workers \subseteq Workers

VARIABLES
  conf, \* the profile of this run, which no step changes
  q,    \* the TestQueue: store (jobs), job (the records), wq (waitingQueue), promo and
        \* susp (promotionTimers, suspendedTimeoutTimers), paused, workers, wake (workers
        \* with a processAvailable microtask), sweep and told (the client's waits), budget,
        \* sched (the entry of one job scheduler), tick (schedulerTimer)
  k     \* the TestWorkers: active (activeCount), paused, flights, pend (pendingBatch),
        \* flush (batchTimer), limited (rateLimitUntil is ahead), rated (rateLimitTimer)

vars == <<conf, q, k>>

Settled == {"completed", "failed"}
States == Settled \cup {"new", "waiting", "prioritized", "active", "delayed", "suspended",
                        "waiting-children"}

Record == [state |-> "new", priority |-> 0, attemptsMade |-> 0, late |-> FALSE,
           movedToFailed |-> FALSE, scheduled |-> FALSE, deps |-> {}, depsDone |-> {}]

NoScheduler == [mode |-> "none", next |-> "none"]

Init ==
  /\ conf \in Profiles
  /\ q = [store |-> [i \in Ids |-> Gone], job |-> [r \in Recs |-> Record], wq |-> <<>>,
          promo |-> {}, susp |-> {}, paused |-> FALSE, workers |-> conf.workers, wake |-> {},
          sweep |-> [pending |-> {}, answer |-> "none"],
          told |-> [i \in Ids |-> "none"],
          budget |-> [limit |-> 1, used |-> 0, exceeded |-> FALSE],
          sched |-> NoScheduler, tick |-> FALSE]
  /\ k = [w \in Workers |-> [active |-> 0, paused |-> FALSE, flights |-> <<>>, pend |-> <<>>,
                             flush |-> FALSE, limited |-> FALSE, rated |-> FALSE]]

Current(o, r) == o.store[Id[r]] = r
Stored(o)     == {r \in Recs : Current(o, r)}

-----------------------------------------------------------------------------
(* The waits of a client: waitForJobs (sweep) and addAndWait (told, which   *)
(* is "adding" until it listens).  Their listeners know a job by its id.    *)

(* settle(id) in waitForJobs *)
SettleIds(o, ids) ==
  LET left == o.sweep.pending \ ids
  IN  IF o.sweep.answer /= "none" \/ left = o.sweep.pending THEN o
      ELSE [o EXCEPT !.sweep = [pending |-> left, answer |-> IF left = {} THEN "ok" ELSE "none"]]

(* sweep: an id without a record counts as settled *)
Sweep(o) == SettleIds(o, {i \in Ids : o.store[i] = Gone})

Reject(o, i) ==
  IF o.sweep.answer = "none" /\ i \in o.sweep.pending THEN [o EXCEPT !.sweep.answer = "failed"] ELSE o
Tell(o, i, answer) == IF o.told[i] = "waiting" THEN [o EXCEPT !.told[i] = answer] ELSE o

Outcome(state) == CASE state = "completed" -> "ok" [] state = "failed" -> "failed" [] OTHER -> "waiting"

(* waitForJobResult: the listeners first, then the current state *)
Listened(o, i) ==
  [o EXCEPT !.told[i] = IF o.store[i] = Gone THEN "waiting" ELSE Outcome(o.job[o.store[i]].state)]

OnCompleted(o, i) == Tell(SettleIds(o, {i}), i, "ok")
OnFailed(o, i)    == Tell(Reject(o, i), i, "failed")
OnRevoked(o, r)   ==
  Tell(IF o.job[r].state = "failed" THEN Reject(o, Id[r]) ELSE o, Id[r], "failed")

-----------------------------------------------------------------------------
(* The dispatch queue and the timers of delayed and suspended jobs *)

WakeAll(o) == [o EXCEPT !.wake = @ \cup o.workers]

(* dequeueRecord *)
Dequeue(o, r) == [o EXCEPT !.wq = SelectSeq(@, LAMBDA x : Id[x] /= Id[r])]

Queued(o, r, state) ==
  [Dequeue(o, r) EXCEPT !.job[r].state = state, !.wq = Append(@, r)]

EnqueueWaiting(o, r) ==
  IF o.paused THEN Queued(o, r, "waiting") ELSE WakeAll(Queued(o, r, "waiting"))

(* enqueuePrioritized wakes the workers of a paused queue too *)
EnqueuePrioritized(o, r) == WakeAll(Queued(o, r, "prioritized"))

PromotePrioritized(o) ==
  [o EXCEPT !.job = [r \in Recs |->
     IF @[r].state = "prioritized" /\ Current(o, r) /\ r \in ToSet(o.wq)
     THEN [@[r] EXCEPT !.state = "waiting"] ELSE @[r]]]

ClearPromotion(o, r) == [o EXCEPT !.promo = {x \in @ : Id[x] /= Id[r]}]
ClearSuspended(o, r) == [o EXCEPT !.susp = @ \ {Id[r]}]

(* parkDelayed with schedulePromotion *)
ParkDelayed(o, r) ==
  [ClearPromotion(Dequeue(o, r), r) EXCEPT !.promo = @ \cup {r}, !.job[r].state = "delayed"]

ReleaseDelayed(o, r, prioritized) ==
  IF prioritized THEN EnqueuePrioritized(ClearPromotion(o, r), r)
  ELSE EnqueueWaiting(ClearPromotion(o, r), r)

RemoveJob(o, r) ==
  Sweep([Dequeue(ClearSuspended(ClearPromotion(o, r), r), r) EXCEPT !.store[Id[r]] = Gone])

(* nextWaitingIndex first promotes, then drops every entry that is not a *)
(* waiting record of the store, and repetitions.                         *)
Ready(o) ==
  LET p == PromotePrioritized(o)
      keep(s, r) == IF p.job[r].state = "waiting" /\ Current(p, r) /\ r \notin ToSet(s)
                    THEN Append(s, r) ELSE s
  IN  [p EXCEPT !.wq = FoldLeft(keep, <<>>, @)]

(* The lowest priority number, else the newest lifo job, else the oldest. *)
NextIndex(o) ==
  LET prio == {i \in DOMAIN o.wq : o.wq[i] \notin Lifo /\ o.job[o.wq[i]].priority > 0}
      rank(i) == o.job[o.wq[i]].priority
      best == {i \in prio : \A j \in prio : rank(i) <= rank(j)}
      lifo == {i \in DOMAIN o.wq : o.wq[i] \in Lifo}
  IN  IF best /= {} THEN CHOOSE i \in best : \A j \in best : i <= j
      ELSE IF lifo /= {} THEN CHOOSE i \in lifo : \A j \in lifo : j <= i
      ELSE 1

-----------------------------------------------------------------------------
(* Adding jobs, and the links of a flow *)

(* registerDependency in every parent that is in the store *)
Linked(o, r) ==
  [o EXCEPT !.job = [p \in Recs |->
     IF Current(o, p) /\ \E x \in ToSet(Up[r]) : Id[x] = Id[p]
     THEN [@[p] EXCEPT !.deps = @ \cup {Id[r]}] ELSE @[p]]]

(* A record that can still be made, and whose id is not taken *)
Free(r) == r \in conf.jobs /\ q.job[r].state = "new" /\ q.store[Id[r]] = Gone

(* insertRecord *)
Insert(o, r, delayed, priority) ==
  LET s == [o EXCEPT !.store[Id[r]] = r, !.job[r].priority = priority]
  IN  IF delayed THEN ParkDelayed(s, r)
      ELSE IF priority > 0 THEN EnqueuePrioritized(s, r) ELSE EnqueueWaiting(s, r)

Kids(p) == {c \in Recs : p \in ToSet(Up[c])}

(* buildTree of a parent and its leaves: the parent is stored before them. *)
InsertFlow(o, p) ==
  LET s == [Linked(o, p) EXCEPT !.store[Id[p]] = p, !.job[p].state = "waiting-children"]
      child(a, c) == Insert(Linked(a, c), c, FALSE, 0)
  IN  FoldLeft(child, s, SetToSeq(Kids(p)))

Pending(o, p) == Cardinality(o.job[p].deps) - Cardinality(o.job[p].depsDone)

SettleParents(o, r) ==
  LET settle(a, x) ==
        IF a.store[Id[x]] = Gone THEN a
        ELSE LET p == a.store[Id[x]]
                 b == [a EXCEPT !.job[p].depsDone = @ \cup (a.job[p].deps \cap {Id[r]})]
             IN  IF b.job[p].state = "waiting-children" /\ Pending(b, p) <= 0
                 THEN EnqueueWaiting(b, p) ELSE b
  IN  FoldLeft(settle, o, Up[r])

ParkWaitingChildren(o, r) ==
  IF Pending(o, r) <= 0 THEN EnqueueWaiting(o, r)
  ELSE [o EXCEPT !.job[r].state = "waiting-children"]

-----------------------------------------------------------------------------
(* A job scheduler: "every", or "after" for repeatAfterComplete.  next is the *)
(* time of the next run, or "awaits" (nextRun 0) while a run is in progress.  *)

(* ensureSchedulerLoop *)
EnsureLoop(o) ==
  [o EXCEPT !.tick = @ \/ (o.workers /= {} /\ o.sched.next \in {"due", "later"})]

MutNeverNext(o, r) == o
(* onSchedulerJobFinished; an entry past its last run is dropped *)
OnSchedulerJobFinished(o, r) ==
  IF o.job[r].scheduled /\ o.sched = [mode |-> "after", next |-> "awaits"]
  THEN EnsureLoop([o EXCEPT !.sched.next = "later"]) ELSE o

(* Only a worker tells an entry that its job has ended: outside of the window *)
(* "untold" a client or a timer ends no job of rs that an entry waits for.    *)
Heard(rs) ==
  "untold" \in Races \/ q.sched.next /= "awaits" \/
  \A r \in rs : q.job[r].scheduled => q.job[r].state \in Settled

(* The usage of a completed job is charged to the budget of its flow. *)
Charge(o, r) ==
  IF r \notin Budgeted THEN o
  ELSE [o EXCEPT !.budget.used = @ + 1,
                 !.budget.exceeded = @ \/ o.budget.used + 1 > o.budget.limit]

-----------------------------------------------------------------------------
(* How a job ends *)

(* applyRetention, with removeOnComplete and removeOnFail true or absent *)
ApplyRetention(o, r) == IF r \in Vanish THEN [o EXCEPT !.store[Id[r]] = Gone] ELSE o

(* The completion of processJob and executeBatch, with settleGoneCompletion *)
Complete(o, r) ==
  LET done == ApplyRetention(SettleParents([o EXCEPT !.job[r].state = "completed"], r), r)
  IN  IF ~Current(o, r) THEN Charge(o, r)
      ELSE OnSchedulerJobFinished(OnCompleted(done, Id[r]), r)

(* handleFailure; a rate limit costs no attempt *)
HandleFailure(o, r, how) ==
  LET failed == [o EXCEPT !.job[r].attemptsMade = @ + 1]
  IN  IF ~Current(o, r) THEN o
      ELSE IF how = "limit" THEN ParkDelayed(o, r)
      ELSE IF how = "error" /\ failed.job[r].attemptsMade < Attempts THEN ParkDelayed(failed, r)
      ELSE OnSchedulerJobFinished(
             OnFailed(ApplyRetention([failed EXCEPT !.job[r].state = "failed"], r), Id[r]), r)

(* moveToFailed() inside the processor overrides what the processor returns. *)
SettleMovedToFailed(o, r) == HandleFailure([o EXCEPT !.job[r].movedToFailed = FALSE], r, "error")

(* The promise of the processor: what the worker makes of how it ended *)
Settle(o, r, how) ==
  CASE how \in {"wait", "delay", "suspend"} /\ ~Current(o, r) -> o
    [] how = "wait"    -> ParkWaitingChildren(o, r)
    [] how = "swallowed wait" /\ ~o.job[r].movedToFailed ->
         IF Current(o, r) THEN ParkWaitingChildren(o, r) ELSE o
    [] how = "delay"   -> ParkDelayed(o, r)
    [] how = "suspend" -> ClearSuspended(o, r)
    [] how = "suspend for a time" -> [o EXCEPT !.susp = IF Current(o, r) THEN @ \cup {Id[r]} ELSE @]
    [] OTHER -> IF o.job[r].movedToFailed THEN SettleMovedToFailed(o, r)
                ELSE IF how = "batched" THEN Complete(o, r)
                ELSE IF how = "ok" THEN IF Current(o, r) THEN Charge(Complete(o, r), r) ELSE Complete(o, r)
                ELSE HandleFailure(o, r, how)

-----------------------------------------------------------------------------
(* A worker takes jobs.  s is the queue and one worker: [o, c]. *)

Room(w, c) ==
  IF Batch[w] = 0 THEN Slots[w] - c.active
  ELSE IF Slots[w] = 1 THEN IF c.active = 0 THEN Batch[w] ELSE 0
  ELSE Slots[w] * Batch[w] - c.active

(* processAvailable and executeBatch: the fields of a job that starts *)
Activated(o, rs) ==
  [o EXCEPT !.job = [r \in Recs |-> IF r \in rs THEN [@[r] EXCEPT !.state = "active", !.movedToFailed = FALSE]
                                    ELSE @[r]]]

Start(s, rs) ==
  [o |-> Activated(s.o, ToSet(rs)),
   c |-> [s.c EXCEPT !.active = @ + Len(rs),
                     !.flights = Append(@, [jobs |-> rs, asked |-> FALSE, over |-> FALSE])]]

(* findNextWaiting: the job to take, if any; a limited worker takes none and *)
(* sets its timer.                                                           *)
Found(s)   == Ready(s.o).wq /= <<>> /\ ~s.c.limited
Taken(s)   == LET o == Ready(s.o) IN o.wq[NextIndex(o)]
LookedIn(s) ==
  LET o == Ready(s.o) IN [o |-> o, c |-> [s.c EXCEPT !.rated = @ \/ (o.wq /= <<>> /\ s.c.limited)]]
MutPeeked(s) == [s EXCEPT !.o = Ready(@)]
Popped(s)  == LET o == Ready(s.o) IN [s EXCEPT !.o = [o EXCEPT !.wq = RemoveAt(@, NextIndex(o))]]

(* processJob of a job whose ttl is over *)
Expire(o, r) == OnFailed([Activated(o, {r}) EXCEPT !.job[r].state = "failed"], Id[r])

(* checkBudget *)
Exceeded(o, r) == r \in Budgeted /\ o.budget.exceeded

(* processJob of a job whose budget is exceeded *)
OverBudget(o, r) ==
  LET a == Activated(o, {r})
  IN  IF OnExceeded = "pause" THEN ParkDelayed(a, r) ELSE HandleFailure(a, r, "error")

FetchOne(s, w) ==
  IF Room(w, s.c) <= 0 THEN s
  ELSE IF ~Found(s) THEN LookedIn(s)
  ELSE IF s.o.job[Taken(s)].late THEN [Popped(s) EXCEPT !.o = Expire(@, Taken(s))]
  ELSE IF Exceeded(s.o, Taken(s)) THEN [Popped(s) EXCEPT !.o = OverBudget(@, Taken(s))]
  ELSE Start(Popped(s), <<Taken(s)>>)

Upto(n) == [i \in 1 .. n |-> i]

(* processAvailableBatch and flushBatch: records that are still theirs *)
Kept(o, pend) == SelectSeq(pend, LAMBDA r : Current(o, r) /\ o.job[r].state = "waiting")

ExecuteBatch(s) == [Start(s, s.c.pend) EXCEPT !.c.pend = <<>>]

ScheduleFlush(c, w) == [c EXCEPT !.flush = @ \/ (w \in Linger /\ c.pend /= <<>>)]

FetchBatch(s, w) ==
  LET cap == IF Room(w, s.c) < Batch[w] THEN Room(w, s.c) ELSE Batch[w]
      hold(t, i) == IF Len(t.c.pend) >= cap THEN t
                    ELSE IF ~Found(t) THEN LookedIn(t)
                    ELSE [Popped(t) EXCEPT !.c.pend = Append(@, Taken(t))]
      f == FoldLeft(hold, [s EXCEPT !.c.pend = Kept(s.o, @)], Upto(Batch[w]))
      full == ExecuteBatch([f EXCEPT !.c.flush = FALSE])
  IN  IF Room(w, s.c) <= 0 THEN s
      ELSE IF f.c.pend = <<>> THEN f
      ELSE IF Len(f.c.pend) >= cap
           THEN [full EXCEPT !.o.wake = IF full.o.wq /= <<>> THEN @ \cup {w} ELSE @]
      ELSE IF w \in Linger THEN [f EXCEPT !.c = ScheduleFlush(@, w)]
      ELSE ExecuteBatch(f)

(* processAvailable *)
ProcessAvailable(s, w) ==
  LET p == [s EXCEPT !.o = PromotePrioritized(@)]
      one(t, i) == FetchOne(t, w)
  IN  IF w \notin s.o.workers THEN s
      ELSE IF p.o.paused \/ s.c.paused THEN p
      ELSE IF Batch[w] > 0 THEN FetchBatch(p, w)
      ELSE FoldLeft(one, p, Upto(Slots[w] + Cardinality(Recs)))

(* finally: a worker whose queue is not paused takes more *)
Finished(s, w, i) ==
  LET f == [s EXCEPT !.c.active = @ - Len(s.c.flights[i].jobs), !.c.flights = RemoveAt(@, i)]
      p == IF f.o.paused THEN f ELSE ProcessAvailable(f, w)
  IN  IF w \notin f.o.workers THEN f ELSE [p EXCEPT !.c = ScheduleFlush(@, w)]

-----------------------------------------------------------------------------
(* The steps of the workers *)

Pair(w) == [o |-> q, c |-> k[w]]
Put(w, s) == q' = s.o /\ k' = [k EXCEPT ![w] = s.c]

Flights(w) == DOMAIN k[w].flights

(* A processor that called suspend() has thrown: microtasks are all that runs *)
(* before the worker catches it, unless the processor goes on (a finally      *)
(* block that awaits).                                                        *)
Calm == "early" \in Races \/ \A w \in Workers : \A i \in Flights(w) :
                               k[w].flights[i].asked => k[w].flights[i].over
(* No microtask is left: timers may fire. *)
Idle == /\ Calm /\ q.wake = {} /\ \A i \in Ids : q.told[i] /= "adding"
        /\ \A w \in Workers : \A i \in Flights(w) : ~k[w].flights[i].over

(* wake: the microtask of onJobAdded *)
Wake(w) ==
  /\ Calm /\ w \in q.wake
  /\ Put(w, ProcessAvailable([Pair(w) EXCEPT !.o.wake = @ \ {w}], w))

(* TestJob.suspend *)
Suspend(w, i) ==
  LET r == k[w].flights[i].jobs[1] IN
  /\ Calm /\ "suspend" \in conf.ends /\ Batch[w] = 0
  /\ ~k[w].flights[i].asked /\ ~k[w].flights[i].over
  /\ q' = [q EXCEPT !.job[r].state = "suspended"]
  /\ k' = [k EXCEPT ![w].flights[i].asked = TRUE]

(* What the processor of a single job may do *)
Endings(r, asked) ==
  IF asked THEN {"suspend", "suspend for a time"}
  ELSE conf.ends \cap
       ({"ok", "error", "fatal", "limit"} \cup
        IF q.job[r].state = "active" THEN {"wait", "swallowed wait", "delay"} ELSE {})

(* processJob: then and catch *)
End(w, i, how) ==
  LET f == k[w].flights[i] IN
  /\ Batch[w] = 0 /\ ~f.over /\ (f.asked \/ Calm) /\ how \in Endings(f.jobs[1], f.asked)
  /\ q' = Settle(q, f.jobs[1], how)
  /\ k' = [k EXCEPT ![w].flights[i].over = TRUE, ![w].limited = @ \/ how = "limit"]

(* executeBatch: then and catch; hows is what becomes of each job *)
EndBatch(w, i, hows) ==
  LET f == k[w].flights[i]
      one(o, j) == Settle(o, f.jobs[j], hows[j])
  IN  /\ Calm /\ Batch[w] > 0 /\ ~f.over
      /\ q' = FoldLeft(one, q, Upto(Len(f.jobs)))
      /\ k' = [k EXCEPT ![w].flights[i].over = TRUE]

Finally(w, i) == Calm /\ k[w].flights[i].over /\ Put(w, Finished(Pair(w), w, i))

(* scheduleBatchFlush: the timer, with flushBatch *)
Flush(w) ==
  LET kept == [Pair(w) EXCEPT !.c.pend = Kept(q, @), !.c.flush = FALSE] IN
  /\ Idle /\ k[w].flush
  /\ Put(w, IF kept.c.pend = <<>> THEN kept ELSE ExecuteBatch(kept))

(* wakeAfterRateLimit: the timer *)
RateTimer(w) ==
  LET fired == [Pair(w) EXCEPT !.c.rated = FALSE] IN
  /\ Idle /\ k[w].rated
  /\ Put(w, IF q.paused THEN fired ELSE ProcessAvailable(fired, w))

LimitEnds(w) == Calm /\ k[w].limited /\ k' = [k EXCEPT ![w].limited = FALSE] /\ UNCHANGED q

(* schedulePromotion: the timer *)
PromotionDue(r) ==
  LET fired == [q EXCEPT !.promo = @ \ {r}]
      queued == Queued(fired, r, "waiting")
  IN  /\ Idle /\ r \in q.promo
      /\ q' = IF ~Current(q, r) \/ q.job[r].state /= "delayed" THEN fired
              ELSE IF q.paused THEN queued ELSE WakeAll(queued)
      /\ UNCHANGED k

(* scheduleSuspendedTimeout: the timer; it looks the record up by its id *)
SuspendTimeout(i) ==
  LET fired == [q EXCEPT !.susp = @ \ {i}]
      r == q.store[i]
  IN  /\ Idle /\ i \in q.susp /\ Heard({r} \ {Gone})
      /\ q' = IF r = Gone \/ q.job[r].state /= "suspended" THEN fired
              ELSE OnFailed([fired EXCEPT !.job[r].state = "failed"], i)
      /\ UNCHANGED k

(* runDueSchedulers: r is the new job, last says that the limit or endDate is reached *)
RunScheduler(r, last) ==
  LET fired == [q EXCEPT !.tick = FALSE]
      made == [Insert(fired, r, FALSE, 0) EXCEPT !.job[r].scheduled = q.sched.mode = "after"]
      next == IF last THEN NoScheduler
              ELSE [q.sched EXCEPT !.next = IF q.sched.mode = "after" THEN "awaits" ELSE "later"]
  IN  /\ Idle /\ q.tick /\ q.workers /= {} /\ q.sched.next = "due" /\ Free(r)
      /\ q' = EnsureLoop([made EXCEPT !.sched = next]) /\ UNCHANGED k

(* The timer of a scheduler that is gone, or whose next run is not set *)
RunNothing ==
  /\ Idle /\ q.tick /\ q.sched.next \in {"none", "awaits"}
  /\ q' = [q EXCEPT !.tick = FALSE] /\ UNCHANGED k

Due == Calm /\ q.sched.next = "later" /\ q' = [q EXCEPT !.sched.next = "due"] /\ UNCHANGED k

(* The ttl of a job runs out. *)
Late(r) ==
  /\ Calm /\ r \in Timed \cap Stored(q) /\ ~q.job[r].late /\ Heard({r})
  /\ q' = [q EXCEPT !.job[r].late = TRUE] /\ UNCHANGED k

(* pause and resume of a worker, rateLimit(ms), close *)
PauseWorker(w) ==
  /\ Calm /\ "pauseWorker" \in conf.calls /\ w \in q.workers /\ ~k[w].paused
  /\ k' = [k EXCEPT ![w].paused = TRUE] /\ UNCHANGED q

MutResumeQuietly(w) ==
  /\ Calm /\ "pauseWorker" \in conf.calls /\ w \in q.workers /\ k[w].paused
  /\ k' = [k EXCEPT ![w].paused = FALSE] /\ UNCHANGED q
ResumeWorker(w) ==
  /\ Calm /\ "pauseWorker" \in conf.calls /\ w \in q.workers /\ k[w].paused
  /\ k' = [k EXCEPT ![w].paused = FALSE] /\ q' = [q EXCEPT !.wake = @ \cup {w}]

RateLimit(w) ==
  /\ Calm /\ "rateLimit" \in conf.calls /\ w \in q.workers /\ ~k[w].limited
  /\ k' = [k EXCEPT ![w].limited = TRUE] /\ UNCHANGED q

MutCloseHolding(w) ==
  /\ Calm /\ "close" \in conf.calls /\ w \in q.workers
  /\ q' = WakeAll([q EXCEPT !.workers = @ \ {w}, !.wake = @ \ {w}, !.tick = @ /\ q.workers /= {w}])
  /\ k' = [k EXCEPT ![w].flush = FALSE, ![w].rated = FALSE, ![w].pend = <<>>]
CloseWorker(w) ==
  /\ Calm /\ "close" \in conf.calls /\ w \in q.workers
  /\ q' = WakeAll([q EXCEPT !.workers = @ \ {w}, !.wake = @ \ {w}, !.tick = @ /\ q.workers /= {w}, !.wq = Kept(q, k[w].pend) \o @])
  /\ k' = [k EXCEPT ![w].flush = FALSE, ![w].rated = FALSE, ![w].pend = <<>>]

-----------------------------------------------------------------------------
(* The calls of the client *)

Held(r) == "held" \notin Races /\ \E w \in Workers : r \in ToSet(k[w].pend)

Client(call, o) == Calm /\ call \in conf.calls /\ q' = o /\ UNCHANGED k

(* add and, for r in Awaited, addAndWait, which listens once add has answered *)
Add(r, delayed, priority) ==
  LET o == Insert(Linked(q, r), r, delayed, priority) IN
  /\ Free(r) /\ (delayed => "delay" \in conf.calls) /\ (priority > 0 => "priority" \in conf.calls)
  /\ Client("add", IF r \in Awaited THEN [o EXCEPT !.told[Id[r]] = "adding"] ELSE o)

Listen(i) == Calm /\ q.told[i] = "adding" /\ q' = Listened(q, i) /\ UNCHANGED k

AddFlow(p) ==
  /\ Kids(p) /= {} /\ \A r \in Kids(p) \cup {p} : Free(r)
  /\ Cardinality({Id[r] : r \in Kids(p) \cup {p}}) = Cardinality(Kids(p)) + 1
  /\ Client("addFlow", InsertFlow(q, p))

RemoveById(r) == Current(q, r) /\ Heard({r}) /\ Client("remove", RemoveJob(q, r))

Revoke(r) ==
  LET failed == [Dequeue(ClearPromotion(q, r), r) EXCEPT !.job[r].state = "failed"]
      idle   == q.job[r].state \in {"waiting", "delayed", "prioritized"}
  IN  /\ Current(q, r) /\ idle => Heard({r})
      /\ Client("revoke", OnRevoked(IF idle THEN failed ELSE q, r))

ChangePriority(r, p) ==
  LET s == q.job[r].state IN
  /\ Current(q, r) /\ ~Held(r) /\ s \in {"waiting", "prioritized", "delayed"}
  /\ s = "waiting" => p > 0 \/ q.job[r].priority > 0
  /\ Client("changePriority", [q EXCEPT !.job[r].priority = p,
                      !.job[r].state = CASE s = "waiting" /\ p > 0 -> "prioritized"
                                         [] s = "prioritized" /\ p = 0 -> "waiting"
                                         [] OTHER -> s])

ChangeDelay(r, later) ==
  LET s == q.job[r].state IN
  /\ Current(q, r) /\ ~Held(r)
  /\ s = "delayed" \/ (s \in {"waiting", "prioritized"} /\ later)
  /\ Client("changeDelay", IF later THEN ParkDelayed(q, r) ELSE ReleaseDelayed(q, r, q.job[r].priority > 0))

Promote(r) ==
  Current(q, r) /\ q.job[r].state = "delayed" /\ Client("promote", ReleaseDelayed(q, r, FALSE))

(* retryRecord *)
Retried(o, r) ==
  EnqueueWaiting([o EXCEPT !.job[r].attemptsMade = 0, !.job[r].late = FALSE], r)
Retry(r) ==
  Current(q, r) /\ ~Held(r) /\ q.job[r].state = "failed" /\ Client("retry", Retried(q, r))

MoveToFailed(r) ==
  /\ Current(q, r) /\ q.job[r].state = "active" /\ ~q.job[r].movedToFailed
  /\ Client("moveToFailed", [q EXCEPT !.job[r].movedToFailed = TRUE])

(* signal pushes the record without looking for an older entry *)
Signal(r) ==
  /\ Current(q, r) /\ q.job[r].state = "suspended"
  /\ Client("signal", WakeAll([ClearSuspended(q, r) EXCEPT !.job[r].state = "waiting", !.wq = Append(@, r)]))

Without(o, rs) == [o EXCEPT !.store = [i \in Ids |-> IF @[i] \in rs THEN Gone ELSE @[i]]]

Drain(delayed) ==
  LET rs == {r \in Stored(q) : q.job[r].state = "waiting" \/
                               (delayed /\ q.job[r].state \in {"delayed", "prioritized"})}
      o == [Without(q, rs) EXCEPT !.promo = {x \in @ : \A r \in rs : Id[x] /= Id[r]}]
  IN  /\ rs /= {} /\ Heard(rs)
      /\ Client("drain", Sweep([o EXCEPT !.wq = SelectSeq(@, LAMBDA r : q.job[r].state = "prioritized" /\ Current(o, r))]))

(* clean deletes the oldest finished jobs of a state; which ones is left open. *)
Clean(r) == Current(q, r) /\ q.job[r].state \in Settled /\ Client("clean", Without(q, {r}))

Obliterate(force) ==
  /\ Stored(q) /= {} /\ (force \/ \A r \in Stored(q) : q.job[r].state /= "active")
  /\ Client("obliterate", [Sweep(Without(q, Recs)) EXCEPT
                             !.promo = {}, !.susp = {}, !.wq = <<>>, !.sched = NoScheduler, !.tick = FALSE])

Pause  == ~q.paused /\ Client("pause", [q EXCEPT !.paused = TRUE])
Resume == q.paused /\ Client("pause", EnsureLoop(WakeAll([q EXCEPT !.paused = FALSE])))

(* upsertJobScheduler keeps the next run of an unchanged schedule, and holds *)
(* a switch to repeatAfterComplete until then (holdSchedulerModeSwitch).     *)
UpsertScheduler(mode) ==
  LET old  == q.sched
      next == CASE old.mode = mode -> old.next
                [] old.mode = "every" -> old.next
                [] OTHER -> IF mode = "after" THEN "due" ELSE "later"
  IN  Client("upsert", EnsureLoop([q EXCEPT !.sched = [mode |-> mode, next |-> next]]))

RemoveScheduler == q.sched /= NoScheduler /\ Client("upsert", [q EXCEPT !.sched = NoScheduler])

(* updateFlowBudget *)
RaiseBudget ==
  /\ q.budget.limit = 1
  /\ Client("budget", [q EXCEPT !.budget.limit = 2, !.budget.exceeded = q.budget.used > 2])

(* waitForJobs: the listeners first, then the current state *)
WaitForJobs ==
  LET heard == [q EXCEPT !.sweep = [pending |-> Watched, answer |-> "none"]]
      ended(state) == {Id[r] : r \in {x \in Stored(q) : q.job[x].state = state}}
  IN  /\ Watched /= {} /\ q.sweep = [pending |-> {}, answer |-> "none"]
      /\ Client("waitForJobs", IF ended("failed") \cap Watched /= {} THEN [heard EXCEPT !.sweep.answer = "failed"]
                ELSE Sweep(SettleIds(heard, ended("completed"))))

Step ==
  \/ \E w \in Workers : Wake(w) \/ Flush(w) \/ RateTimer(w) \/ LimitEnds(w)
  \/ \E w \in Workers : PauseWorker(w) \/ ResumeWorker(w) \/ RateLimit(w) \/ CloseWorker(w)
  \/ \E w \in Workers : \E i \in Flights(w) :
       \/ Suspend(w, i) \/ Finally(w, i)
       \/ \E how \in Endings(k[w].flights[i].jobs[1], k[w].flights[i].asked) : End(w, i, how)
       \/ \E hows \in [DOMAIN k[w].flights[i].jobs -> {"batched", "error"}] : EndBatch(w, i, hows)
  \/ \E r \in Recs : \/ PromotionDue(r) \/ Late(r) \/ AddFlow(r) \/ RemoveById(r) \/ Revoke(r) \/ Promote(r)
                     \/ Retry(r) \/ MoveToFailed(r) \/ Signal(r) \/ Clean(r)
                     \/ \E p \in {0, 1} : ChangePriority(r, p)
                     \/ \E later \in BOOLEAN : ChangeDelay(r, later)
                     \/ \E delayed \in BOOLEAN, p \in {0, 1} : Add(r, delayed, p)
  \/ \E i \in Ids : SuspendTimeout(i) \/ Listen(i)
  \/ \E b \in BOOLEAN : Drain(b) \/ Obliterate(b)
  \/ Pause \/ Resume \/ WaitForJobs \/ RaiseBudget
  \/ RunNothing \/ Due \/ RemoveScheduler
  \/ \E r \in Recs, last \in BOOLEAN : RunScheduler(r, last)
  \/ \E mode \in {"every", "after"} : UpsertScheduler(mode)

Next == Step /\ UNCHANGED conf

Spec == Init /\ [][Next]_vars

-----------------------------------------------------------------------------
(* Shapes of the queue and the workers; activeCount counts the jobs of the *)
(* calls in progress, and stays within concurrency times batch.size.       *)
TypeOK ==
  /\ q.store \in [Ids -> Recs \cup {Gone}] /\ \A r \in Recs : q.job[r].state \in States
  /\ \A i \in Ids : q.store[i] = Gone \/ Id[q.store[i]] = i
  /\ q.promo \subseteq Recs /\ q.susp \subseteq Ids /\ q.wake \subseteq q.workers
  /\ \A w \in Workers :
       /\ k[w].active = FoldLeft(LAMBDA n, f : n + Len(f.jobs), 0, k[w].flights)
       /\ k[w].active <= Slots[w] * (IF Batch[w] = 0 THEN 1 ELSE Batch[w])

(* The calls of processors that a record is in, by worker, flight and place. *)
Holders(r) ==
  UNION {{<<w, i, j>> : j \in {x \in DOMAIN k[w].flights[i].jobs : k[w].flights[i].jobs[x] = r}} :
           <<w, i>> \in {p \in Workers \X (1 .. Cardinality(Recs)) :
                           p[2] \in Flights(p[1]) /\ ~k[p[1]].flights[p[2]].over}}

(* A job is in the hands of one processor at a time, whatever calls and timers *)
(* move it between the dispatch queue, the held batch and the timers           *)
(* (takeNextWaiting, processAvailableBatch).                                   *)
OneRunner == \A r \in Recs : Cardinality(Holders(r)) <= 1

(* Every job of the store has something that takes it on: an entry of the      *)
(* dispatch queue, a batch that is being filled, a timer, a processor, or a    *)
(* child (enqueueWaiting, schedulePromotion, settleParents, close).            *)
NotStranded ==
  \A r \in Stored(q) :
    CASE q.job[r].state \in {"waiting", "prioritized"} ->
           r \in ToSet(q.wq) \/ \E w \in q.workers : r \in ToSet(k[w].pend)
      [] q.job[r].state = "delayed" -> r \in q.promo
      [] q.job[r].state = "active" -> Holders(r) /= {}
      [] q.job[r].state = "waiting-children" -> ~(q.job[r].deps \subseteq q.job[r].depsDone)
      [] OTHER -> TRUE

(* No wake-up is lost: a worker with room beside a job it could take is about *)
(* to look for one (wake, finally, wakeAfterRateLimit, scheduleBatchFlush).   *)
NoLostWake ==
  \A w \in q.workers :
    (/\ ~q.paused /\ ~k[w].paused /\ Room(w, k[w]) > 0
     /\ \E r \in ToSet(q.wq) : Current(q, r) /\ q.job[r].state \in {"waiting", "prioritized"})
    => w \in q.wake \/ k[w].rated \/ k[w].flush \/ \E i \in Flights(w) : k[w].flights[i].over

(* A scheduler waits for its timer, or for a run of its own that has not ended: *)
(* each completion and each final failure by a worker reaches the entry, also   *)
(* of a job that was suspended, signalled, retried, revoked while active or     *)
(* parked, beside upserts and removals of the entry (ensureSchedulerLoop,       *)
(* onSchedulerJobFinished).  Endings without a worker are the window "untold".  *)
SchedulerGoesOn ==
  /\ q.sched.next \in {"due", "later"} /\ q.workers /= {} => q.tick
  /\ q.sched.next = "awaits" =>
       \E r \in Stored(q) : q.job[r].scheduled /\ q.job[r].state \notin Settled

(* A wait is open only while a job it asked for is (waitForJobs: listeners     *)
(* first, then the state; the sweep of removed jobs; waitForJobResult).        *)
NoWaiterForgotten ==
  /\ (q.sweep.answer = "none" /\ q.sweep.pending /= {}) =>
       \E i \in q.sweep.pending : q.store[i] /= Gone /\ q.job[q.store[i]].state \notin Settled
  /\ \A i \in Ids : q.told[i] = "waiting" =>
       q.store[i] = Gone \/ q.job[q.store[i]].state \notin Settled

(* Neither a worker nor a client waits for something that has happened. *)
NobodyForgotten == NoLostWake /\ NoWaiterForgotten
=============================================================================
