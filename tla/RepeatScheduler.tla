-------------------------- MODULE RepeatScheduler --------------------------
(***************************************************************************)
(* A job scheduler: one entry of the schedulers hash, from which the       *)
(* promotion ticks of all workers fire jobs.  Ticks, upserts and removals  *)
(* take one lock that expires by itself; the end of a job advances the     *)
(* entry without the lock, by compare-and-set or inside the server call    *)
(* that ends the job.  Every step below is one call to the server.         *)
(*                                                                         *)
(* Entries of several names share only the lock and the tick, so one name  *)
(* is enough.  Times are small integers; a cron pattern is the multiples   *)
(* of its gap.  lastRun and the template are left out: lastRun changes     *)
(* only together with the job recorded, and no decision reads it.          *)
(***************************************************************************)
EXTENDS Integers, FiniteSets

CONSTANTS
  Ticks,      \* the schedulers, one in every worker process
  Clients,    \* the callers of upsertJobScheduler and removeJobScheduler
  Profiles,   \* the instances a behaviour may be about, see conf
  MaxJobs,    \* bounds the jobs fired in a behaviour
  MaxTime,    \* bounds the clock
  NoEntry,    \* no such field in the hash
  NoOne,      \* the lock is free
  Races       \* what is let happen:
              \*   "late"    the tick's lock expires after its last renewal, before the batch
              \*   "slow"    a client's lock expires before its write
              \*   "delete"  an upsert lands between the read and the deletion of a completion

Modes     == {"every", "pattern", "after"}  \* after: repeatAfterComplete
Schedules == [mode : Modes, gap : 1..MaxTime, start : 0..MaxTime, end : 0..MaxTime, limit : 0..MaxJobs]
EntryRecords ==
  [mode : Modes, gap : 1..MaxTime, start : 0..MaxTime, end : 0..MaxTime, limit : 0..MaxJobs,
   iter : Nat, next : Nat, job : 0..MaxJobs]

ASSUME ConstantsAssumption ==
  /\ MaxJobs \in Nat \ {0} /\ MaxTime \in Nat \ {0} /\ NoEntry \notin Schedules \cup EntryRecords
  /\ Ticks \cap Clients = {} /\ NoOne \notin Ticks \cup Clients
  /\ Races \subseteq {"late", "slow", "delete"}
ASSUME ProfilesAssumption ==
  \A p \in Profiles :
    /\ p.schedules \in SUBSET Schedules \* what clients ask for; start, end and limit 0: none
    /\ p.remove \in BOOLEAN             \* clients also remove the scheduler
    /\ p.tries \in Nat \ {0}            \* the attempts of an upsert (5 in the code)
    /\ p.events \in Nat                 \* bounds calls, crashes and expiries of a live holder

VARIABLES
  conf,     \* the profile of this behaviour
  now,      \* the clock
  entry,    \* the entry: its schedule, iter, next (0: awaits the end of job) and job, the last one fired
  lock,     \* who holds schedulers:lock:__tick__
  jobs,     \* the jobs fired: state, whether fired in mode after, and the one fired before
  ticks,    \* where each tick is
  clients,  \* where each client call is
  updates,  \* the completions that are about to advance the entry
  asked,    \* history: the schedule of the last upsert that succeeded, NoEntry after a removal,
            \* with what was fired since iter was last reset, and the last job of this entry
  events

vars == <<conf, now, entry, lock, jobs, ticks, clients, updates, asked, events>>

Null == -1  \* null, for a nextRun
IdleTick   == [at |-> "idle", now |-> 0, raw |-> NoEntry]
IdleClient == [at |-> "idle", want |-> NoEntry, raw |-> NoEntry, new |-> NoEntry, tries |-> 0]

Init ==
  /\ conf \in Profiles
  /\ now = 1 /\ entry = NoEntry /\ lock = NoOne
  /\ jobs = [i \in 1..MaxJobs |-> [state |-> "none", after |-> FALSE, prev |-> 0]]
  /\ ticks = [s \in Ticks |-> IdleTick]
  /\ clients = [c \in Clients |-> IdleClient]
  /\ updates = {}
  /\ asked = [want |-> NoEntry, fired |-> 0, last |-> 0]
  /\ events = 0

Event == events < conf.events /\ events' = events + 1

-----------------------------------------------------------------------------
(* The times of the runs *)

Later(a, b) == IF a > b THEN a ELSE b
Until(end, t) == IF end > 0 /\ t > end THEN Null ELSE t
NextCronOccurrence(gap, t) == (t \div gap + 1) * gap

(* computeInitialSchedulerNextRun *)
Initial(s, t) ==
  Until(s.end,
    CASE s.mode = "after"   -> Later(s.start, t)
      [] s.mode = "pattern" -> NextCronOccurrence(s.gap, Later(s.start, t) - 1)
      [] s.mode = "every" /\ s.start = 0 -> t + s.gap
      [] s.mode = "every" /\ s.start > t -> s.start
      [] OTHER -> s.start + ((t - s.start + s.gap - 1) \div s.gap) * s.gap)

(* computeFollowingSchedulerNextRun: runs that were missed are skipped. *)
Following(e, t) ==
  Until(e.end,
    CASE e.mode = "after"   -> t + e.gap
      [] e.mode = "pattern" -> NextCronOccurrence(e.gap, t)
      [] e.mode = "every" /\ e.next <= t -> e.next + ((t - e.next) \div e.gap + 1) * e.gap
      [] OTHER -> e.next)

Schedule(e) == [mode |-> e.mode, gap |-> e.gap, start |-> e.start, end |-> e.end, limit |-> e.limit]
Parked(e)   == e.next = 0 /\ e.mode = "after"
OutOf(e)    == e.limit > 0 /\ e.iter >= e.limit
Live(i)     == jobs[i].state = "live"
Unused      == {i \in 1..MaxJobs : jobs[i].state = "none"}

(* An entry that waited for a job's end: the time of its next run, or gone. *)
Advanced(e, t) ==
  IF OutOf(e) \/ Following(e, t) = Null THEN NoEntry ELSE [e EXCEPT !.next = Following(e, t)]

CasSchedulerEntry(old, new) == entry' = IF entry = old THEN new ELSE entry

-----------------------------------------------------------------------------
(* The lock *)

TryLock(p)   == lock = NoOne /\ lock' = p
Unlock(p)    == lock' = IF lock = p THEN NoOne ELSE lock
RenewLock(p) == lock = p

Abandoned == \/ \E s \in Ticks : lock = s /\ ticks[s].at = "idle"
             \/ \E c \in Clients : lock = c /\ clients[c].at = "idle"
Critical  == \/ "late" \notin Races /\ \E s \in Ticks : lock = s /\ ticks[s].at \in {"batch", "batchDelete"}
             \/ "slow" \notin Races /\ \E c \in Clients : lock = c /\ clients[c].at /= "idle"

(* The ttl of a holder that crashed, or of one too slow to renew. *)
LockExpires ==
  /\ lock /= NoOne /\ lock' = NoOne
  /\ \/ Abandoned /\ UNCHANGED events
     \/ ~Abandoned /\ ~Critical /\ Event
  /\ UNCHANGED <<conf, now, entry, jobs, ticks, clients, updates, asked>>

-----------------------------------------------------------------------------
(* runSchedulers *)

Goto(s, at) == ticks' = [ticks EXCEPT ![s].at = at] /\ UNCHANGED lock
(* finally: releaseSchedulerLock *)
Leave(s)    == ticks' = [ticks EXCEPT ![s] = IdleTick] /\ Unlock(s)

(* A tick that does not get the lock does nothing. *)
TickLock(s) ==
  /\ ticks[s].at = "idle"
  /\ TryLock(s) /\ ticks' = [ticks EXCEPT ![s] = [IdleTick EXCEPT !.at = "read", !.now = now]]
  /\ UNCHANGED <<conf, now, entry, jobs, clients, updates, asked, events>>

(* What the loop does with an entry read at time t. *)
Verdict(e, t) ==
  CASE Parked(e) /\ e.job /= 0 -> "parked"
    [] e.next = 0 \/ e.next > t -> "leave"
    [] OTHER ->
         IF OutOf(e) \/ Until(e.end, e.next) = Null THEN "delete"
         ELSE IF e.mode = "after" /\ e.job /= 0 THEN "await" ELSE "fire"

TickRead(s) ==
  /\ ticks[s].at = "read"
  /\ IF entry = NoEntry \/ Unused = {} THEN Leave(s)
     ELSE IF Verdict(entry, ticks[s].now) = "leave" THEN Leave(s)
     ELSE ticks' = [ticks EXCEPT ![s].at = Verdict(entry, ticks[s].now), ![s].raw = entry] /\ UNCHANGED lock
  /\ UNCHANGED <<conf, now, entry, jobs, clients, updates, asked, events>>

(* advanceParkedEntry reads the state of the job ... *)
MutOver(i) == FALSE
Over(i) == ~Live(i)
TickParked(s) ==
  /\ ticks[s].at = "parked"
  /\ LET e == ticks[s].raw IN
       IF ~Over(e.job) THEN Leave(s)
       ELSE Goto(s, IF Advanced(e, ticks[s].now) = NoEntry THEN "delete" ELSE "advance")
  /\ UNCHANGED <<conf, now, entry, jobs, clients, updates, asked, events>>

(* ... and moves the entry on if it is still the one it read. *)
TickAdvance(s) ==
  /\ ticks[s].at = "advance"
  /\ CasSchedulerEntry(ticks[s].raw, Advanced(ticks[s].raw, ticks[s].now))
  /\ Leave(s)
  /\ UNCHANGED <<conf, now, jobs, clients, updates, asked, events>>

(* schedulerAwaitInflight: the job of the old mode, or of an earlier interval, still runs. *)
MutHolds(i) == FALSE
Holds(i) == Live(i)
TickAwait(s) ==
  /\ ticks[s].at = "await"
  /\ LET e == ticks[s].raw IN
       \/ entry /= e /\ Leave(s) /\ UNCHANGED entry
       \/ entry = e /\ Holds(e.job) /\ entry' = [e EXCEPT !.next = 0] /\ Leave(s)
       \/ entry = e /\ ~Holds(e.job) /\ Goto(s, "fire") /\ UNCHANGED entry
  /\ UNCHANGED <<conf, now, jobs, clients, updates, asked, events>>

(* The last renewal.  A tick that has lost its lock writes nothing. *)
StillHeld(s) == RenewLock(s)
TickRenew(s) ==
  /\ ticks[s].at \in {"fire", "delete"}
  /\ IF StillHeld(s) THEN Goto(s, IF ticks[s].at = "fire" THEN "batch" ELSE "batchDelete") ELSE Leave(s)
  /\ UNCHANGED <<conf, now, entry, jobs, clients, updates, asked, events>>

(* What a run leaves of the entry e when job i is fired at t. *)
Fired(e, i, t) ==
  LET f == [e EXCEPT !.iter = @ + 1, !.job = i, !.next = IF e.mode = "after" THEN 0 ELSE Following(e, t)]
  IN  IF OutOf(f) \/ f.next = Null THEN NoEntry ELSE f

(* The transaction: addJob, HSET and HDEL at once, over whatever is there now. *)
TickBatch(s) ==
  /\ ticks[s].at = "batch" /\ Unused /= {}
  /\ LET e == ticks[s].raw
         i == CHOOSE i \in Unused : TRUE
     IN  /\ entry' = Fired(e, i, ticks[s].now)
         /\ jobs' = [jobs EXCEPT ![i] = [state |-> "live", after |-> e.mode = "after", prev |-> asked.last]]
         /\ asked' = [asked EXCEPT !.fired = @ + 1, !.last = i]
  /\ Leave(s)
  /\ UNCHANGED <<conf, now, clients, updates, events>>

TickBatchDelete(s) ==
  /\ ticks[s].at = "batchDelete"
  /\ entry' = NoEntry /\ Leave(s)
  /\ UNCHANGED <<conf, now, jobs, clients, updates, asked, events>>

TickCrash(s) ==
  /\ ticks[s].at /= "idle" /\ Event
  /\ ticks' = [ticks EXCEPT ![s] = IdleTick]
  /\ UNCHANGED <<conf, now, entry, lock, jobs, clients, updates, asked>>

-----------------------------------------------------------------------------
(* upsertJobScheduler and removeJobScheduler *)

ClientLeave(c) == clients' = [clients EXCEPT ![c] = IdleClient] /\ Unlock(c)

(* acquireSchedulerMutationLock: a call waits for the lock; one that gives up did nothing. *)
Call(c) ==
  /\ clients[c].at = "idle" /\ Event /\ TryLock(c)
  /\ \/ \E s \in conf.schedules : clients' = [clients EXCEPT ![c].at = "read", ![c].want = s]
     \/ conf.remove /\ clients' = [clients EXCEPT ![c].at = "remove"]
  /\ UNCHANGED <<conf, now, entry, jobs, ticks, updates, asked>>

(* holdSchedulerModeSwitch *)
Held(old, next, end) ==
  IF old.mode = "after" \/ old.next <= 0 THEN next ELSE Until(end, Later(next, old.next))

(* An entry that waits for its job keeps waiting in mode after. *)
Awaiting(old, s) == Parked(old) /\ s.mode = "after"

SameBounds(old, s) == old.start = s.start /\ old.end = s.end
Unchanged(old, s)  == SameBounds(old, s) /\ old.mode = s.mode /\ old.gap = s.gap /\ old.next /= 0

NextRun(old, s, t) ==
  LET n == Initial(s, t)
  IN  CASE old = NoEntry -> n
        [] OTHER -> IF Awaiting(old, s) THEN (IF n = Null THEN Null ELSE 0)
                    ELSE IF Unchanged(old, s) THEN old.next
                    ELSE IF n /= Null /\ s.mode = "after" THEN Held(old, n, s.end) ELSE n

Upserted(old, s, t) ==
  LET keeps == old /= NoEntry /\ IF Awaiting(old, s) THEN SameBounds(old, s) ELSE Unchanged(old, s)
  IN  [mode |-> s.mode, gap |-> s.gap, start |-> s.start, end |-> s.end, limit |-> s.limit,
       iter |-> IF keeps THEN old.iter ELSE 0, next |-> NextRun(old, s, t),
       job  |-> IF old = NoEntry THEN 0 ELSE old.job]

(* A schedule that has no run left is refused. *)
NoRun(next) == next = Null

UpsertRead(c) ==
  /\ clients[c].at = "read"
  /\ LET s == clients[c].want IN
       IF NoRun(NextRun(entry, s, now)) THEN ClientLeave(c)
       ELSE /\ clients' = [clients EXCEPT ![c].at = "cas", ![c].raw = entry, ![c].new = Upserted(entry, s, now)]
            /\ UNCHANGED lock
  /\ UNCHANGED <<conf, now, entry, jobs, ticks, updates, asked, events>>

UpsertCas(c) ==
  /\ clients[c].at = "cas"
  /\ "delete" \in Races \/ ~\E u \in updates : u.at = "delete"
  /\ LET old == clients[c].raw
         new == clients[c].new
     IN  /\ CasSchedulerEntry(old, new)
         /\ \/ /\ entry = old /\ ClientLeave(c)
               /\ asked' = [want  |-> clients[c].want,
                            fired |-> IF new.iter = 0 THEN 0 ELSE asked.fired,
                            last  |-> IF old = NoEntry THEN 0 ELSE asked.last]
            \/ /\ entry /= old /\ clients[c].tries + 1 = conf.tries
               /\ ClientLeave(c) /\ UNCHANGED asked
            \/ /\ entry /= old /\ clients[c].tries + 1 < conf.tries
               /\ clients' = [clients EXCEPT ![c].at = "read", ![c].tries = @ + 1]
               /\ UNCHANGED <<lock, asked>>
  /\ UNCHANGED <<conf, now, jobs, ticks, updates, events>>

RemoveJobScheduler(c) ==
  /\ clients[c].at = "remove"
  /\ entry' = NoEntry /\ asked' = [want |-> NoEntry, fired |-> 0, last |-> 0]
  /\ ClientLeave(c)
  /\ UNCHANGED <<conf, now, jobs, ticks, updates, events>>

-----------------------------------------------------------------------------
(* The jobs.  A job ends, and its end moves the entry on. *)

(* Its hash is completed, failed or deleted. *)
Ends(i) == Live(i) /\ jobs' = [jobs EXCEPT ![i].state = "ended"]

(* By a worker that goes on to updateSchedulerAfterComplete. *)
Completed(i) ==
  /\ Ends(i)
  /\ updates' = updates \cup {[job |-> i, at |-> "read", now |-> now, raw |-> NoEntry, tries |-> 0]}
  /\ UNCHANGED <<conf, now, entry, lock, ticks, clients, asked, events>>

(* advanceRepeatAfterComplete, in the call that fails the job (stalled, expired ...). *)
FailedByServer(i) ==
  /\ Ends(i)
  /\ entry' = IF entry = NoEntry THEN entry
              ELSE IF Parked(entry) /\ entry.job \in {0, i} THEN Advanced(entry, now) ELSE entry
  /\ UNCHANGED <<conf, now, lock, ticks, clients, updates, asked, events>>

(* Nobody moves the entry on: the worker died after the completion, or the job was *)
(* removed, revoked before it started or completed in a batch.                     *)
EndsUnseen(i) ==
  /\ Ends(i)
  /\ UNCHANGED <<conf, now, entry, lock, ticks, clients, updates, asked, events>>

(* updateSchedulerAfterComplete *)
Becomes(u, us) == updates' = (updates \ {u}) \cup us

UpdateRead(u) ==
  /\ u.at = "read"
  /\ IF entry = NoEntry THEN Becomes(u, {})
     ELSE IF ~Parked(entry) \/ entry.job \notin {0, u.job} THEN Becomes(u, {})
     ELSE Becomes(u, {[u EXCEPT !.raw = entry,
                                !.at = IF Advanced(entry, u.now) = NoEntry THEN "delete" ELSE "cas"]})
  /\ UNCHANGED <<conf, now, entry, lock, jobs, ticks, clients, asked, events>>

MutUpdateWrites(u) == entry' = Advanced(u.raw, u.now)
UpdateWrites(u) == CasSchedulerEntry(u.raw, Advanced(u.raw, u.now))

UpdateCas(u) ==
  /\ u.at = "cas" /\ UpdateWrites(u)
  /\ IF entry = u.raw \/ u.tries = 2 THEN Becomes(u, {})
     ELSE Becomes(u, {[u EXCEPT !.at = "read", !.raw = NoEntry, !.tries = @ + 1]})
  /\ UNCHANGED <<conf, now, lock, jobs, ticks, clients, asked, events>>

(* The deletion is a plain HDEL. *)
UpdateDelete(u) ==
  /\ u.at = "delete" /\ entry' = NoEntry /\ Becomes(u, {})
  /\ UNCHANGED <<conf, now, lock, jobs, ticks, clients, asked, events>>

Clock == now < MaxTime /\ now' = now + 1 /\ UNCHANGED <<conf, entry, lock, jobs, ticks, clients, updates, asked, events>>

-----------------------------------------------------------------------------
Tick(s) == \/ TickLock(s) \/ TickRead(s) \/ TickParked(s) \/ TickAdvance(s) \/ TickAwait(s)
           \/ TickRenew(s) \/ TickBatch(s) \/ TickBatchDelete(s)
Client(c) == UpsertRead(c) \/ UpsertCas(c) \/ RemoveJobScheduler(c)
JobEnds(i) == Completed(i) \/ FailedByServer(i) \/ EndsUnseen(i)
Update(u) == UpdateRead(u) \/ UpdateCas(u) \/ UpdateDelete(u)

Next == \/ \E s \in Ticks : Tick(s) \/ TickCrash(s)
        \/ \E c \in Clients : Call(c) \/ Client(c)
        \/ \E i \in 1..MaxJobs : JobEnds(i)
        \/ \E u \in updates : Update(u)
        \/ LockExpires \/ Clock

Spec == Init /\ [][Next]_vars

(* Ticks recur, clients and workers go on with what they began, every job ends, and *)
(* the lock has a ttl.                                                              *)
Fairness ==
  /\ \A s \in Ticks : WF_vars(Tick(s))
  /\ \A c \in Clients : WF_vars(Client(c))
  /\ \A i \in 1..MaxJobs : WF_vars(JobEnds(i)) /\ WF_vars(\E u \in updates : u.job = i /\ Update(u))
  /\ WF_vars(LockExpires /\ Abandoned)

FairSpec == Spec /\ Fairness

-----------------------------------------------------------------------------
(* Properties *)

Entries ==
  [mode : Modes, gap : 1..MaxTime, start : 0..MaxTime, end : 0..MaxTime, limit : 0..MaxJobs,
   iter : 0..MaxJobs, next : 0..2 * MaxTime, job : 0..MaxJobs]

(* Every variable has its type. *)
TypeOK ==
  /\ conf \in Profiles /\ now \in 1..MaxTime /\ entry \in Entries \cup {NoEntry}
  /\ lock \in Ticks \cup Clients \cup {NoOne}
  /\ jobs \in [1..MaxJobs -> [state : {"none", "live", "ended"}, after : BOOLEAN, prev : 0..MaxJobs]]
  /\ \A s \in Ticks : ticks[s].raw \in Entries \cup {NoEntry} /\ ticks[s].now \in 0..MaxTime
  /\ \A c \in Clients : clients[c].tries \in 0..conf.tries
  /\ \A u \in updates : u.job \in 1..MaxJobs /\ u.tries \in 0..2 /\ u.at \in {"read", "cas", "delete"}
  /\ events \in 0..conf.events

(* repeatAfterComplete never starts a run next to the one before it, whatever upserts, *)
(* switches of mode, crashes and repairs come between them.                            *)
NoOverlap == \A i \in 1..MaxJobs : Live(i) /\ jobs[i].after /\ jobs[i].prev /= 0 => ~Live(jobs[i].prev)

(* What the last successful upsert or removal asked for is what the entry says: a tick *)
(* or a completion that read an older entry does not bring it back.                    *)
UpsertKept == entry /= NoEntry => asked.want = Schedule(entry)

Fires == \E i \in 1..MaxJobs : jobs[i].state = "none" /\ jobs'[i].state = "live"

(* An entry disappears when it is removed or when it has no run left, not otherwise. *)
Spent == \/ entry.limit > 0 /\ entry.iter + (IF Fires THEN 1 ELSE 0) >= entry.limit
         \/ Until(entry.end, entry.next) = Null
         \/ \E t \in 1..now : Following(entry, t) = Null
DeletedWhenSpent == entry /= NoEntry /\ entry' = NoEntry => asked'.want = NoEntry \/ Spent

(* No tick fires beyond the limit; ticks that outlive their lock are the window "late". *)
LimitKept == Fires => asked.want /= NoEntry /\ (asked.want.limit = 0 \/ asked.fired < asked.want.limit)

(* The entry stays what clients asked for last, until it is spent and no further. *)
AsAsked == [][UpsertKept' /\ DeletedWhenSpent /\ LimitKept]_vars

(* An entry that is due, or that awaits a job, gets a later run or ends: no crash between *)
(* a completion and its update leaves it waiting for ever.                               *)
GoesOn == (entry /= NoEntry /\ (Parked(entry) \/ entry.next <= now))
            ~> (entry = NoEntry \/ entry.next > now \/ Unused = {})
=============================================================================
