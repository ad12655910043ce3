---------------------------- MODULE SandboxPool ----------------------------
(***************************************************************************)
(* Sandboxed processors: the pool of threads or child processes on the     *)
(* main thread, the runner in each of them, and the messages between the   *)
(* two, in order per direction.  Every job is run once, so it stands for   *)
(* its invocation id.  A step of the main thread is a callback with the    *)
(* microtasks it starts: messages and exits are not seen while a worker    *)
(* has been given to a job that has not gone on yet (see Quiet).           *)
(***************************************************************************)
EXTENDS Integers, FiniteSets, Sequences, SequencesExt

CONSTANTS
  Jobs,
  None,       \* no job
  MaxWorkers, \* the limit of the pool
  Profiles    \* the instances a behaviour may be about, see conf

(* A processor that works by itself, that stops only when it is aborted, that ignores the *)
(* abort, and a job whose data cannot be sent.                                             *)
Manners == {"works", "waits", "hangs", "unsendable"}

ASSUME ConstantsAssumption ==
  /\ None \notin Jobs /\ MaxWorkers \in Nat \ {0}
ASSUME ProfilesAssumption ==
  \A p \in Profiles :
    /\ p.manner \in [Jobs -> Manners]
    /\ p.aborts \subseteq Jobs \* the jobs whose abort signal may fire
    /\ p.calls \in Nat         \* bounds the calls a processor proxies
    /\ p.crashes \in Nat       \* bounds the threads that die by themselves
    /\ p.closes \in BOOLEAN    \* close() is called

VARIABLES
  conf,     \* the profile of this behaviour
  closed,   \* _closed
  pool,     \* workers: the ones spawned and not removed
  waiters,  \* the jobs waiting for a worker, first come first
  worker,   \* threads or processes: the fields of PoolWorker, and the runner's side
  job,      \* the runs
  crashes

vars == <<conf, closed, pool, waiters, worker, job, crashes>>

(* A thread that is gone and its replacement may have the same number. *)
Workers == 1..MaxWorkers

NoWorker == [life |-> "none", busy |-> FALSE, ending |-> FALSE, current |-> None,
             inbox |-> <<>>, outbox |-> <<>>, active |-> None, told |-> FALSE, pending |-> FALSE,
             floating |-> None]  \* a processor that returned and left a promise behind

Init ==
  /\ conf \in Profiles /\ closed = FALSE /\ pool = {} /\ waiters = <<>> /\ crashes = 0
  /\ worker = [w \in Workers |-> NoWorker]
  /\ job = [j \in Jobs |-> [at |-> "new", on |-> 0, signal |-> FALSE, grace |-> FALSE, out |-> "none",
                         calls |-> 0, writes |-> 0]]

At(j, pcs)   == job[j].at \in pcs
Settled(q, out) == [q EXCEPT !.at = "settled", !.out = out, !.grace = FALSE, !.on = 0, !.calls = 0, !.writes = 0]
Granted      == {j \in Jobs : At(j, {"granted"})}
Quiet        == Granted = {}
Message(kind, j) == [kind |-> kind, id |-> j]
Spawned      == [NoWorker EXCEPT !.life = "live", !.busy = TRUE]

-----------------------------------------------------------------------------
(* The main thread *)

(* run and acquire *)
Run(j) ==
  /\ At(j, {"new"})
  /\ LET idle == {w \in pool : ~worker[w].busy} IN
     \/ /\ closed \/ job[j].signal
        /\ job' = [job EXCEPT ![j] = Settled(@, IF closed THEN "closed" ELSE "aborted")]
        /\ UNCHANGED <<pool, waiters, worker>>
     \/ /\ ~closed /\ ~job[j].signal
        /\ \/ \E w \in idle :
                /\ worker' = [worker EXCEPT ![w].busy = TRUE]
                /\ job' = [job EXCEPT ![j].at = "granted", ![j].on = w]
                /\ UNCHANGED <<pool, waiters>>
           \/ /\ idle = {} /\ Cardinality(pool) < MaxWorkers
              /\ LET w == CHOOSE x \in Workers \ pool : TRUE IN
                   /\ worker' = [worker EXCEPT ![w] = Spawned] /\ pool' = pool \cup {w}
                   /\ job' = [job EXCEPT ![j].at = "granted", ![j].on = w]
              /\ UNCHANGED waiters
           \/ /\ idle = {} /\ Cardinality(pool) >= MaxWorkers
              /\ waiters' = Append(waiters, j) /\ job' = [job EXCEPT ![j].at = "waiting"]
              /\ UNCHANGED <<pool, worker>>
  /\ UNCHANGED <<conf, closed, crashes>>

(* A worker being terminated stays busy; its exit hands on the slot. *)
MutKept(pw) == [pw EXCEPT !.current = None]
Free(pw) == [pw EXCEPT !.current = None, !.busy = pw.ending]

(* The worker is handed to the first waiter, if any, when it is free. *)
Release(w, jobs, workers) ==
  IF workers[w].ending \/ waiters = <<>>
  THEN /\ job' = jobs /\ worker' = [workers EXCEPT ![w] = Free(@)] /\ UNCHANGED waiters
  ELSE /\ job' = [jobs EXCEPT ![Head(waiters)].at = "granted", ![Head(waiters)].on = w]
       /\ worker' = [workers EXCEPT ![w] = [Free(@) EXCEPT !.busy = TRUE]]
       /\ waiters' = Tail(waiters)

(* The rest of run, once the worker is there.  A send that throws rejects the run and *)
(* leaves the worker as it is.                                                          *)
Start(j) ==
  /\ At(j, {"granted"})
  /\ LET w == job[j].on IN
     IF job[j].signal THEN Release(w, [job EXCEPT ![j] = Settled(@, "aborted")], worker)
     ELSE /\ worker' = [worker EXCEPT ![w].current = j,
                          ![w].inbox = IF conf.manner[j] = "unsendable" THEN @ ELSE Append(@, Message("process", j))]
          /\ job' = [job EXCEPT ![j] = IF conf.manner[j] = "unsendable" THEN Settled(@, "unsent") ELSE [@ EXCEPT !.at = "run"]]
          /\ UNCHANGED waiters
  /\ UNCHANGED <<conf, closed, pool, crashes>>

(* The abort signal fires: a waiter gives up, a run forwards it and starts the grace period. *)
MutForwarded(q) == [q EXCEPT !.signal = TRUE]
Aborted(q) == [q EXCEPT !.signal = TRUE, !.grace = q.at = "run"]
GivesUp(ws, j) == IF j \in ToSet(ws) THEN RemoveAt(ws, CHOOSE i \in DOMAIN ws : ws[i] = j) ELSE ws
Signal(j) ==
  /\ j \in conf.aborts /\ ~job[j].signal /\ ~At(j, {"settled"})
  /\ waiters' = GivesUp(waiters, j)
  /\ job' = [job EXCEPT ![j] = IF At(j, {"waiting"}) THEN Settled([@ EXCEPT !.signal = TRUE], "aborted")
                               ELSE Aborted(@)]
  /\ worker' = IF At(j, {"run"}) THEN [worker EXCEPT ![job[j].on].inbox = Append(@, Message("abort", j))] ELSE worker
  /\ UNCHANGED <<conf, closed, pool, crashes>>

Dying(pw) == [pw EXCEPT !.life = IF @ = "live" THEN "dying" ELSE @]

(* The grace period is over. *)
Terminate(j) ==
  /\ Quiet /\ job[j].grace
  /\ job' = [job EXCEPT ![j].grace = FALSE]
  /\ worker' = [worker EXCEPT ![job[j].on] = Dying([@ EXCEPT !.ending = TRUE])]
  /\ UNCHANGED <<conf, closed, pool, waiters, crashes>>

(* cleanup: the timer of a run that has settled is cleared. *)
MutCleaned(q, out) == [q EXCEPT !.at = "settled", !.out = out, !.calls = 0, !.writes = 0]
Cleaned(q, out) == Settled(q, out)

(* A message is for the run whose id it carries. *)
Accepted(m, j) == m.id = j

(* The answer to a call; after the abort the write is refused. *)
HandleProxyRequest(j, m, w, workers) ==
  /\ worker' = [workers EXCEPT ![w].inbox = Append(@, Message("answer", m.id))]
  /\ job' = IF job[j].signal THEN job ELSE [job EXCEPT ![j].writes = @ + 1]
  /\ UNCHANGED waiters

(* onMessage *)
Receive(w) ==
  /\ Quiet /\ w \in pool /\ worker[w].outbox /= <<>>
  /\ LET m  == Head(worker[w].outbox)
         pw == [worker EXCEPT ![w].outbox = Tail(@)]
         j  == worker[w].current
     IN  \/ ~Accepted(m, j) /\ worker' = pw /\ UNCHANGED <<job, waiters>>
         \/ Accepted(m, j) /\ m.kind = "result" /\ Release(w, [job EXCEPT ![j] = Cleaned(@, "result")], pw)
         \/ Accepted(m, j) /\ m.kind = "call" /\ HandleProxyRequest(j, m, w, pw)
  /\ UNCHANGED <<conf, closed, pool, crashes>>

(* The thread is gone: removeAndCleanup *)
Replaces == ~closed /\ waiters /= <<>>
Exit(w) ==
  /\ Quiet /\ worker[w].life = "dying"
  /\ LET j    == worker[w].current
         jobs == IF j = None \/ At(j, {"settled"}) THEN job
                 ELSE [job EXCEPT ![j] = Settled(@, IF worker[w].ending THEN "terminated" ELSE "exited")]
         h    == Head(waiters)
     IN  IF Replaces
         THEN /\ worker' = [worker EXCEPT ![w] = Spawned] /\ UNCHANGED pool
              /\ job' = [jobs EXCEPT ![h].at = "granted", ![h].on = w] /\ waiters' = Tail(waiters)
         ELSE /\ worker' = [worker EXCEPT ![w] = NoWorker] /\ pool' = pool \ {w}
              /\ job' = jobs /\ UNCHANGED waiters
  /\ UNCHANGED <<conf, closed, crashes>>

(* close: the waiters are rejected, every worker is stopped ... *)
Stops(w) == w \in pool
Close ==
  /\ conf.closes /\ ~closed /\ closed' = TRUE
  /\ waiters' = <<>>
  /\ job' = [j \in Jobs |-> IF At(j, {"waiting"}) THEN Settled(job[j], "closed") ELSE job[j]]
  /\ worker' = [w \in Workers |-> IF Stops(w) THEN Dying(worker[w]) ELSE worker[w]]
  /\ UNCHANGED <<conf, pool, crashes>>

(* ... and forgotten when it is gone or the timeout has passed. *)
CloseEnds ==
  /\ Quiet /\ closed /\ pool /= {} /\ pool' = {}
  /\ UNCHANGED <<conf, closed, waiters, worker, job, crashes>>

-----------------------------------------------------------------------------
(* The runner *)

Live(w) == worker[w].life = "live"

(* handleMessage *)
Handle(w) ==
  /\ Live(w) /\ worker[w].inbox /= <<>>
  /\ LET m  == Head(worker[w].inbox)
         pw == [worker[w] EXCEPT !.inbox = Tail(@)]
     IN  worker' = [worker EXCEPT ![w] =
           CASE m.kind = "process" -> [pw EXCEPT !.active = m.id, !.told = FALSE, !.pending = FALSE]
             [] m.kind = "abort"   -> [pw EXCEPT !.told = @ \/ pw.active = m.id]
             [] m.kind = "answer"  -> [pw EXCEPT !.pending = @ /\ pw.active /= m.id]]
  /\ UNCHANGED <<conf, closed, pool, waiters, job, crashes>>

(* The processor calls the job and waits for the answer; after the abort the call is refused here. *)
Call(w) ==
  /\ Live(w) /\ worker[w].active /= None /\ ~worker[w].pending /\ ~worker[w].told
  /\ LET j == worker[w].active IN
       /\ job[j].calls < conf.calls /\ job' = [job EXCEPT ![j].calls = @ + 1]
       /\ worker' = [worker EXCEPT ![w].pending = TRUE, ![w].outbox = Append(@, Message("call", j))]
  /\ UNCHANGED <<conf, closed, pool, waiters, crashes>>

(* The processor returns or throws: completed or failed, which are handled alike.  It may *)
(* leave a promise behind that calls the job once more.                                     *)
Finish(w) ==
  /\ Live(w) /\ worker[w].active /= None /\ ~worker[w].pending
  /\ LET j == worker[w].active IN
       /\ conf.manner[j] = "works" \/ (conf.manner[j] = "waits" /\ worker[w].told)
       /\ worker' = [worker EXCEPT ![w].active = None, ![w].outbox = Append(@, Message("result", j)),
                       ![w].floating = IF job[j].calls < conf.calls THEN j ELSE @]
  /\ UNCHANGED <<conf, closed, pool, waiters, job, crashes>>

FloatingCall(w) ==
  /\ Live(w) /\ worker[w].floating /= None
  /\ worker' = [worker EXCEPT ![w].floating = None, ![w].outbox = Append(@, Message("call", worker[w].floating))]
  /\ UNCHANGED <<conf, closed, pool, waiters, job, crashes>>

(* The process dies by itself; the main thread does not know yet. *)
Crash(w) ==
  /\ Live(w) /\ crashes < conf.crashes /\ crashes' = crashes + 1
  /\ worker' = [worker EXCEPT ![w] = Dying(@)]
  /\ UNCHANGED <<conf, closed, pool, waiters, job>>

-----------------------------------------------------------------------------
WorkerStep(w) == Receive(w) \/ Exit(w) \/ Handle(w) \/ Call(w) \/ Finish(w)
JobStep(j)    == Start(j) \/ Terminate(j)

Next ==
  \/ \E j \in Jobs : Run(j) \/ JobStep(j) \/ Signal(j)
  \/ \E w \in Workers : WorkerStep(w) \/ FloatingCall(w) \/ Crash(w)
  \/ Close \/ CloseEnds

(* Messages and exits arrive, timers fire, a processor that works goes on. *)
Fairness ==
  /\ \A j \in Jobs : WF_vars(JobStep(j))
  /\ \A w \in Workers : WF_vars(WorkerStep(w))

Spec == Init /\ [][Next]_vars /\ Fairness

-----------------------------------------------------------------------------
TypeOK ==
  /\ conf \in Profiles /\ closed \in BOOLEAN /\ pool \subseteq Workers /\ waiters \in Seq(Jobs)
  /\ crashes \in 0..conf.crashes
  /\ \A w \in Workers : /\ worker[w].life \in {"none", "live", "dying"}
                        /\ worker[w].current \in Jobs \cup {None} /\ worker[w].active \in Jobs \cup {None}
  /\ \A j \in Jobs : /\ job[j].at \in {"new", "waiting", "granted", "run", "settled"}
                     /\ job[j].out \in {"none", "result", "unsent", "aborted", "terminated", "exited", "closed"}

Holders(w) == {j \in Jobs : At(j, {"granted", "run"}) /\ job[j].on = w}

(* A slot is never lost and never shared: the pool stays within maxWorkers, a worker serves  *)
(* at most one job, and a busy one serves a job or is about to be replaced (types.ts:112).    *)
SlotsKept ==
  /\ Cardinality(pool) <= MaxWorkers
  /\ \A w \in pool : /\ Cardinality(Holders(w)) <= 1
                     /\ worker[w].busy => Holders(w) /= {} \/ worker[w].life /= "live"

(* Nobody waits beside a worker that could be used: who waits has all slots taken, and is     *)
(* still a job that wants one.                                                                  *)
WaitsForSlot ==
  /\ waiters /= <<>> => Cardinality(pool) = MaxWorkers /\ \A w \in pool : worker[w].busy
  /\ \A j \in Jobs : At(j, {"waiting"}) <=> j \in ToSet(waiters)

(* Slots are handed on: none is lost, and nobody waits beside a free one (release, acquire). *)
SlotsServed == SlotsKept /\ WaitsForSlot

(* The thread of a job is stopped only for that job: the grace period of one run never ends   *)
(* the run that got the worker after it.                                                       *)
StoppedForItself ==
  \A j \in Jobs : job[j].out = "terminated" => job[j].signal

(* The data of a job is written only by its own processor, whatever an earlier one on the    *)
(* same thread still does.                                                                     *)
WritesOwn == \A j \in Jobs : job[j].writes <= job[j].calls

(* What a live runner executes is a run that has not settled, except one that is being ended:  *)
(* its job is not retried elsewhere while it is still at work.                                  *)
NoGhost ==
  \A w \in Workers : Live(w) /\ worker[w].active /= None => Holders(w) = {worker[w].active}

(* Runs that use the same thread one after the other do not touch each other. *)
RunsApart == StoppedForItself /\ WritesOwn /\ NoGhost

(* A run whose job was aborted or whose pool was closed settles, whatever its processor does;  *)
(* any other settles too while no processor holds a slot for good.                              *)
Stuck  == \E j \in Jobs : At(j, {"run"}) /\ conf.manner[j] /= "works"
Settles ==
  \A j \in Jobs :
    /\ (~At(j, {"new"}) /\ (job[j].signal \/ closed)) ~> At(j, {"settled"})
    /\ ~At(j, {"new"}) ~> (At(j, {"settled"}) \/ Stuck)

(* After close no thread or process is left, and none is started. *)
AllStopped == closed ~> [](\A w \in Workers : worker[w].life = "none")

(* Every run ends, and every thread. *)
AllEnd == Settles /\ AllStopped
=============================================================================
