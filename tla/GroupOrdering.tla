--------------------------- MODULE GroupOrdering ---------------------------
(***************************************************************************)
(* The jobs of one ordering key.  Every job takes the next sequence number *)
(* of its key.  The group hash admits them in that order: nextSeq is the   *)
(* sequence to start next, active counts the slots in use, a job that      *)
(* arrives too early or finds no slot is parked in the sorted set groupq,  *)
(* and whoever frees a slot or closes a hole in the sequence moves parked  *)
(* jobs back to the stream.  An ordered job keeps its slot while it is     *)
(* delayed for a retry, suspended or rate limited.                         *)
(*                                                                         *)
(* One server-side function is one step.  The stream is a set: any unread  *)
(* entry may be claimed next, which covers every order of delivery.  A job *)
(* has one entry at a time (Custody of StreamQueue).                       *)
(***************************************************************************)
EXTENDS Integers, FiniteSets

CONSTANTS
  MaxJobs,         \* job ids are 1..MaxJobs, as the id counter issues them
  Orderings,       \* the options of the key, one record in each behaviour
  Races            \* "leak":    a job that holds its slot without retainedSlot may end while it waits
                   \* "phantom": a job that holds no slot may be failed through the path that frees one

Jobs == 1..MaxJobs

VARIABLES
  ordering, \* the options of this behaviour, which no step changes
  job,   \* job[j]: state, seq (orderingSeq), retained (retainedSlot), revoked, and entry,
         \* where its stream entry is
  grp    \* group:<key>, groupq:<key>, groupreturn:<key>, the key's member of ratelimited,
         \* and its counter in ordering

vars == <<ordering, job, grp>>

MaxConcurrency == ordering.concurrency
RateMax        == ordering.rateMax   \* ordering.rateLimit.max, 0 without a limit
HasTtl         == ordering.ttl       \* jobs carry a ttl
MaxSeq         == ordering.maxSeq    \* bound on the sequence numbers issued (a retry takes a new one)
MaxCount       == ordering.maxCount  \* bound on the starts counted in one window (returning jobs are never refused)
Seqs == 1..MaxSeq

ASSUME SizeAssumption ==
  /\ MaxJobs \in Nat
  /\ \A o \in Orderings :
       /\ o.maxSeq \in Nat /\ o.concurrency \in Nat \ {0} /\ o.rateMax \in Nat
       /\ o.maxCount \in Nat /\ o.maxCount >= o.rateMax /\ o.ttl \in BOOLEAN
ASSUME RaceAssumption == Races \subseteq {"leak", "phantom"}

(* Of an entry: unread; delivered; answered REVOKED; activated; running; its worker died. *)
Places  == {"none", "stream", "claimed", "refused", "ready", "running", "dead"}
Held    == {"claimed", "refused", "ready", "running"}
Pending == {"waiting", "active", "delayed", "parked", "suspended"}
States  == Pending \cup {"new", "completed", "failed", "gone"}

NewJob == [state |-> "new", seq |-> 0, retained |-> FALSE, revoked |-> FALSE, entry |-> "none"]

(* resume: the time in ratelimited, as no member, in the future, or reached. *)
(* open, count: the sliding window rateWindowStart, rateCount.               *)
Init ==
  /\ ordering \in Orderings
  /\ job = [j \in Jobs |-> NewJob]
  /\ grp = [active |-> 0, nextSeq |-> 1, skips |-> {}, parked |-> {}, returning |-> {},
            resume |-> "none", open |-> FALSE, count |-> 0, issued |-> 0]

Least(a, b) == IF a < b THEN a ELSE b
(* Every decrement of active and rateCount stops at zero. *)
Minus1(n)   == IF n > 0 THEN n - 1 ELSE 0

-----------------------------------------------------------------------------
(* The group's helpers: each maps the hashes jb or the group g it is given *)

Waiting(g, j) == \E p \in g.parked : p.id = j
Park(g, j, score) == [g EXCEPT !.parked = {p \in @ : p.id /= j} \cup {[id |-> j, score |-> score]}]
Unpark(g, ids)    == [g EXCEPT !.parked = {p \in @ : p.id \notin ids}]

(* groupq in the order of ZPOPMIN. *)
Before(p, r) == p.score < r.score \/ (p.score = r.score /\ p.id < r.id)

(* advancePastSkips *)
MutAdvanceOne(g) == IF g.nextSeq \in g.skips THEN [g EXCEPT !.nextSeq = @ + 1, !.skips = @ \ {g.nextSeq}] ELSE g
Advance(g) ==
  LET n == CHOOSE k \in g.nextSeq..(MaxSeq + 1) :
             k \notin g.skips /\ \A i \in g.nextSeq..(k - 1) : i \in g.skips
  IN  [g EXCEPT !.nextSeq = n, !.skips = @ \ (g.nextSeq..(n - 1))]

(* The parked jobs a promotion loop takes with so many slots free: it pops in *)
(* order and stops at a job beyond the sequence it has reached.  one: every   *)
(* pop moves that sequence, otherwise only those that are not returning.      *)
Promotable(jb, g, slots, one) ==
  LET ahead(p) == {r \in g.parked : Before(r, p)}
      moved(p) == {r \in ahead(p) : one \/ jb[r.id].seq >= g.nextSeq}
      due(p)   == jb[p.id].seq <= g.nextSeq + Cardinality(moved(p))
  IN  {p.id : p \in {r \in g.parked : /\ Cardinality(ahead(r)) < slots
                                       /\ due(r) /\ \A s \in ahead(r) : due(s)}}

ToStream(jb, ids) ==
  [j \in Jobs |-> IF j \in ids THEN [jb[j] EXCEPT !.state = "waiting", !.entry = "stream"] ELSE jb[j]]

Settle(jb, g) == job' = jb /\ grp' = g
Promote(jb, g, ids) == Settle(ToStream(jb, ids), Unpark(g, ids))

RateBlocked(g) == RateMax > 0 /\ g.open /\ g.count >= RateMax

(* releaseGroupSlotAndPromote after the slot; removeJob passes no time, which *)
(* turns the rate gate off.                                                   *)
Wake(jb, g, timed) ==
  LET free  == MaxConcurrency - g.active
      slots == IF timed /\ RateMax > 0 /\ g.open THEN Least(free, RateMax - g.count) ELSE free
  IN  \/ /\ g.parked = {} \/ free <= 0
         /\ Settle(jb, g)
      \/ /\ g.parked /= {} /\ free > 0 /\ timed /\ RateBlocked(g)
         /\ Settle(jb, [g EXCEPT !.resume = "later"])
      \/ /\ g.parked /= {} /\ free > 0 /\ ~(timed /\ RateBlocked(g))
         /\ Promote(jb, Advance(g), Promotable(jb, Advance(g), slots, TRUE))

Freed(g, j) == [g EXCEPT !.active = Minus1(@), !.returning = @ \ {j}]

(* closeOrderingHole: job j of jb will never run under its sequence number. *)
Closed(g, jb, j) ==
  [g EXCEPT !.skips = @ \cup {jb[j].seq}, !.returning = @ \ {j},
            !.active = IF jb[j].retained THEN Minus1(@) ELSE @]

(* closeOrderingHoleAndPromote *)
CloseHole(jb, g, j, timed) ==
  LET c == Closed(g, job, j)
  IN  IF g.resume = "later" \/ (g.resume = "due" /\ ~timed) THEN Settle(jb, c)
      ELSE Wake(jb, c, timed)

Ends(j, s)  == [job EXCEPT ![j].state = s, ![j].retained = FALSE, ![j].entry = "none"]
Frees(j, s) == Wake(Ends(j, s), Freed(grp, j), TRUE)

(* A slot held without retainedSlot, which closing the hole does not give back. *)
Unmarked(j) == job[j].state \in {"waiting", "parked"} /\ job[j].seq < grp.nextSeq /\ ~job[j].retained
MayEnd(j)   == "leak" \in Races \/ ~Unmarked(j)
Holds(j)    == job[j].state \in Pending /\ job[j].seq < grp.nextSeq
MayFree(j)  == "phantom" \in Races \/ Holds(j)

-----------------------------------------------------------------------------
(* Producers, the scheduler and time *)

AddJob(j, delayed) ==
  /\ job[j].state = "new" /\ \A i \in 1..(j - 1) : job[i].state /= "new"
  /\ grp.issued < MaxSeq
  /\ job' = [job EXCEPT ![j] = [NewJob EXCEPT !.seq = grp.issued + 1,
                                  !.state = IF delayed THEN "delayed" ELSE "waiting",
                                  !.entry = IF delayed THEN "none" ELSE "stream"]]
  /\ grp' = [grp EXCEPT !.issued = @ + 1]

(* promote and promoteJob *)
PromoteDelayed(j) ==
  /\ job[j].state = "delayed"
  /\ Settle(ToStream(job, {j}), grp)

(* promoteRateLimited for this key, once its time is reached.  The returning  *)
(* jobs hold their slots, so they resume even when no slot is free.           *)
Sweep ==
  LET g     == [Advance(grp) EXCEPT !.resume = "none"]
      free  == MaxConcurrency - grp.active
      room  == IF RateMax > 0 THEN Least(RateMax, free) ELSE free
      back  == {j \in g.returning : job[j].state = "parked" /\ Waiting(g, j)}
      rest  == [Unpark(g, back) EXCEPT !.returning = {}]
      early == {p \in g.parked : job[p.id].seq < g.nextSeq}
      first == CHOOSE p \in early : \A r \in early : r = p \/ Before(p, r)
  IN  /\ grp.resume = "due"
      /\ \/ /\ back /= {} \/ room > 0 \/ early = {}
            /\ Promote(job, rest, back \cup Promotable(job, rest, room, FALSE))
         \/ /\ back = {} /\ room <= 0 /\ early /= {}
            /\ Promote(job, rest, {first.id})

(* expireJob, where checkExpired runs: at activation, when a delayed or parked *)
(* job is promoted, and in the stalled sweep.                                 *)
Expire(j) ==
  LET s == job[j].state
  IN  /\ HasTtl
      /\ \/ s = "waiting" /\ ~job[j].revoked /\ job[j].entry \in {"stream", "claimed"}
         \/ s = "delayed"
         \/ s = "parked" /\ grp.resume = "due"
         \/ s \in {"waiting", "active"} /\ job[j].entry = "dead"
      /\ MayEnd(j)
      /\ IF s = "active" THEN Frees(j, "failed")
         ELSE CloseHole(Ends(j, "failed"), Unpark(grp, {j}), j, TRUE)

ResumeDue  == grp.resume = "later" /\ grp' = [grp EXCEPT !.resume = "due"] /\ UNCHANGED job
WindowEnds == grp.open /\ grp' = [grp EXCEPT !.open = FALSE] /\ UNCHANGED job

-----------------------------------------------------------------------------
(* Workers: claim and activate *)

Claim(j) ==
  /\ job[j].entry = "stream"
  /\ job' = [job EXCEPT ![j].entry = "claimed"] /\ UNCHANGED grp

Returning(seq, g) == seq < g.nextSeq

(* The group gates of moveToActive and, with chain, of fetchNextForChain,     *)
(* which lets the rate limit park a returning job too.                        *)
Gate(j, chain) ==
  LET g     == Advance(grp)
      seq   == job[j].seq
      back  == Returning(seq, g)
      full  == ~back /\ g.active >= MaxConcurrency
      slow  == RateBlocked(g) /\ (chain \/ ~back)
      parks == [job EXCEPT ![j].state = "parked", ![j].entry = "none"]
      waits == Park(g, j, seq)
      rated == IF RateMax = 0 THEN g
               ELSE [g EXCEPT !.open = TRUE, !.count = IF g.open THEN @ + 1 ELSE 1]
      taken == IF back THEN rated ELSE [rated EXCEPT !.active = @ + 1, !.nextSeq = seq + 1]
  IN  \/ seq > g.nextSeq /\ Settle(parks, waits)
      \/ seq <= g.nextSeq /\ full /\ Settle(parks, waits)
      \/ seq <= g.nextSeq /\ ~full /\ slow /\ Settle(parks, [waits EXCEPT !.resume = "later"])
      \/ /\ seq <= g.nextSeq /\ ~full /\ ~slow /\ taken.count <= MaxCount
         /\ Settle([job EXCEPT ![j].state = "active", ![j].entry = "ready"], Unpark(taken, {j}))

MoveToActive(j) ==
  LET r == job[j]
  IN  /\ r.entry = "claimed"
      /\ \/ r.state /= "waiting" /\ job' = [job EXCEPT ![j].entry = "none"] /\ UNCHANGED grp
         \/ r.state = "waiting" /\ r.revoked /\ job' = [job EXCEPT ![j].entry = "refused"] /\ UNCHANGED grp
         \/ r.state = "waiting" /\ ~r.revoked /\ Gate(j, FALSE)

(* A worker that ends a job fetches and activates the next one in that call. *)
FetchNext(j) ==
  LET r == job[j]
  IN  /\ r.entry = "stream"
      /\ \/ r.revoked /\ job' = [job EXCEPT ![j].entry = "refused"] /\ UNCHANGED grp
         \/ ~r.revoked /\ Gate(j, TRUE)

Start(j) == job[j].entry = "ready" /\ job' = [job EXCEPT ![j].entry = "running"] /\ UNCHANGED grp

(* deferActive of a claim that was not activated: PAUSED, GLOBAL_FULL, or a   *)
(* worker that closed.  It does not look at the state of the job.             *)
HandBack(j) ==
  /\ job[j].entry = "claimed"
  /\ job[j].state = "waiting" \/ job[j].state = "gone" \/ "phantom" \in Races
  /\ job' = IF job[j].state = "gone" THEN [job EXCEPT ![j].entry = "none"] ELSE ToStream(job, {j})
  /\ UNCHANGED grp

Undone(g, seq) == [g EXCEPT !.active = Minus1(@), !.nextSeq = IF @ = seq + 1 THEN seq ELSE @]

(* deferActive with undoGroupClaim, of a job activated while its worker closed. *)
UndoClaim(j) ==
  LET r     == job[j]
      keeps == r.retained \/ (r.seq < grp.nextSeq /\ grp.nextSeq /= r.seq + 1)
      g     == IF keeps THEN grp ELSE Undone(grp, r.seq)
  IN  /\ r.entry = "ready"
      /\ "phantom" \in Races \/ keeps \/ ~r.revoked
      /\ IF r.state = "gone" THEN Settle([job EXCEPT ![j].entry = "none"], grp)
         ELSE Settle(ToStream(job, {j}), [g EXCEPT !.count = Minus1(@)])

-----------------------------------------------------------------------------
(* Workers: the processor ends, yields or limits its group *)

Dismiss(j) == job[j].state = "gone" /\ job' = [job EXCEPT ![j].entry = "none"] /\ UNCHANGED grp

Complete(j) ==
  /\ job[j].entry = "running"
  /\ Dismiss(j) \/ (job[j].state = "active" /\ ~job[j].revoked /\ Frees(j, "completed"))

(* failJobCore without a retry, also after REVOKED. *)
Fail(j) ==
  /\ job[j].entry \in {"running", "refused"}
  /\ Dismiss(j) \/ (job[j].state /= "gone" /\ MayFree(j) /\ Frees(j, "failed"))

(* What they do to the group: a job of an ordering key keeps its slot. *)
Yielded(g, j) == g

(* failJobCore with a retry, a RateLimitError, moveActiveToDelayed and suspend: *)
(* the job keeps its slot.                                                      *)
Yield(j, s) ==
  /\ job[j].entry = "running" /\ job[j].state = "active"
  /\ Settle([job EXCEPT ![j].state = s, ![j].retained = TRUE, ![j].entry = "none"], Yielded(grp, j))

LastScore == IF grp.parked = {} THEN 0
             ELSE CHOOSE n \in {p.score : p \in grp.parked} : \A p \in grp.parked : p.score <= n

(* rateLimitGroup with currentJob requeue: the job returns once the pause ends. *)
LimitRequeue(j, front) ==
  LET seq   == job[j].seq
      score == IF front \/ grp.parked = {} THEN seq ELSE LastScore + 1
  IN  /\ job[j].entry = "running" /\ job[j].state = "active"
      /\ Settle([job EXCEPT ![j].state = "parked", ![j].retained = TRUE, ![j].entry = "none"],
                [Park(grp, j, score) EXCEPT !.returning = @ \cup {j}, !.resume = "later"])

(* ... and with currentJob fail: the successors stay parked until the pause ends. *)
LimitFail(j) ==
  /\ job[j].entry = "running" /\ job[j].state = "active"
  /\ Settle(Ends(j, "failed"), [Freed(grp, j) EXCEPT !.resume = "later"])

-----------------------------------------------------------------------------
(* Stalled jobs *)

Crash(j) ==
  /\ job[j].entry \in Held
  /\ job' = [job EXCEPT ![j].entry = IF job[j].state \in {"waiting", "active"} THEN "dead" ELSE "none"]
  /\ UNCHANGED grp

(* reclaimStalled: redispatch with the slot, or fail past maxStalledCount. *)
Redispatch(j) == job[j].entry = "dead" /\ Settle(ToStream(job, {j}), grp)
GiveUp(j)     == job[j].entry = "dead" /\ MayFree(j) /\ Frees(j, "failed")

-----------------------------------------------------------------------------
(* Suspended jobs and clients *)

Signal(j)         == job[j].state = "suspended" /\ Settle(ToStream(job, {j}), grp)
SuspendTimeout(j) == job[j].state = "suspended" /\ Frees(j, "failed")

DropEntry(e) == IF e \in Held THEN e ELSE "none"

Revoke(j) ==
  LET s    == job[j].state
      flag == [job EXCEPT ![j].revoked = TRUE]
  IN  \/ /\ s \in {"active", "suspended", "completed", "failed"} /\ ~job[j].revoked
         /\ Settle(flag, grp)
      \/ /\ s \in {"waiting", "delayed", "parked"} /\ MayEnd(j)
         /\ "phantom" \in Races \/ job[j].entry /= "refused"
         /\ CloseHole([flag EXCEPT ![j].state = "failed", ![j].retained = FALSE, ![j].entry = DropEntry(@)],
                      Unpark(grp, {j}), j, TRUE)

(* removeJob.  A worker that runs the job is not told. *)
Remove(j) ==
  LET s    == job[j].state
      gone == [job EXCEPT ![j] = [NewJob EXCEPT !.state = "gone", !.entry = DropEntry(job[j].entry)]]
  IN  /\ s \notin {"new", "gone"} /\ MayEnd(j)
      /\ IF s = "active" THEN Wake(gone, Freed(grp, j), FALSE)
         ELSE CloseHole(gone, Unpark(grp, {j}), j, FALSE)

MutRetrySameSeq(j) == job[j].seq
(* retryFailedJob takes a fresh sequence number; the revoked flag stays. *)
FreshSeq(j) == grp.issued + 1
Retry(j) ==
  /\ job[j].state = "failed" /\ job[j].entry = "none" /\ grp.issued < MaxSeq
  /\ "phantom" \in Races \/ ~job[j].revoked
  /\ Settle([job EXCEPT ![j].state = "delayed", ![j].retained = FALSE, ![j].seq = FreshSeq(j)],
            [grp EXCEPT !.issued = @ + 1])

(* drain: unread entries and, if asked, the delayed jobs; one promotion at the end. *)
Drain(delayed) ==
  LET out  == {j \in Jobs : job[j].entry = "stream" \/ (delayed /\ job[j].state = "delayed")}
      kept == Cardinality({j \in out : job[j].retained})
      jb   == [j \in Jobs |-> IF j \in out THEN [NewJob EXCEPT !.state = "gone"] ELSE job[j]]
      g    == [grp EXCEPT !.skips = @ \cup {job[j].seq : j \in out}, !.returning = @ \ out,
                          !.active = IF @ > kept THEN @ - kept ELSE 0]
  IN  /\ out /= {} /\ \A j \in out : MayEnd(j)
      /\ IF g.resume = "later" THEN Settle(jb, g) ELSE Wake(jb, g, TRUE)

(* rateLimitGroupExternal *)
PauseGroup == grp.resume /= "later" /\ grp' = [grp EXCEPT !.resume = "later"] /\ UNCHANGED job

-----------------------------------------------------------------------------

WorkerStep(j) == Claim(j) \/ MoveToActive(j) \/ Start(j) \/ Complete(j) \/ Fail(j)
Recovery(j)   == Redispatch(j) \/ GiveUp(j)
Awaken(j)     == Signal(j) \/ SuspendTimeout(j)

(* What keeps a job from its end: retries, rate limits, crashes, closing workers. *)
Disturb ==
  \/ \E j \in Jobs : \/ \E s \in {"delayed", "suspended"} : Yield(j, s)
                      \/ \E front \in BOOLEAN : LimitRequeue(j, front)
                      \/ LimitFail(j) \/ Crash(j) \/ HandBack(j) \/ UndoClaim(j)
                      \/ Retry(j)
  \/ PauseGroup

Step ==
  \/ \E j \in Jobs : WorkerStep(j) \/ FetchNext(j)
  \/ \E j \in Jobs : Recovery(j) \/ Awaken(j) \/ Expire(j)
  \/ \E j \in Jobs : Revoke(j) \/ Remove(j) \/ PromoteDelayed(j)
  \/ \E j \in Jobs, delayed \in BOOLEAN : AddJob(j, delayed)
  \/ \E delayed \in BOOLEAN : Drain(delayed)
  \/ Sweep \/ ResumeDue \/ WindowEnds
  \/ Disturb

Next == Step /\ UNCHANGED ordering

Spec == Init /\ [][Next]_vars

(* The worker loops poll, the scheduler promotes delayed jobs, sweeps rate    *)
(* limited groups, suspended jobs with a timeout and stalled entries.         *)
Fairness ==
  /\ \A j \in Jobs : /\ WF_vars(WorkerStep(j) /\ UNCHANGED ordering)
                      /\ WF_vars(Recovery(j) /\ UNCHANGED ordering)
                      /\ WF_vars(Awaken(j) /\ UNCHANGED ordering)
                      /\ WF_vars(PromoteDelayed(j) /\ UNCHANGED ordering)
  /\ WF_vars(Sweep /\ UNCHANGED ordering) /\ WF_vars(ResumeDue /\ UNCHANGED ordering) /\ WF_vars(WindowEnds /\ UNCHANGED ordering)

FairSpec == Spec /\ Fairness

-----------------------------------------------------------------------------
(* Properties *)

Terminal == {"completed", "failed", "gone"}

TypeOK ==
  /\ job \in [Jobs -> [state : States, seq : 0..MaxSeq, retained : BOOLEAN,
                       revoked : BOOLEAN, entry : Places]]
  /\ grp \in [active : 0..MaxJobs, nextSeq : 1..(MaxSeq + 1), skips : SUBSET Seqs,
              parked : SUBSET [id : Jobs, score : Nat], returning : SUBSET Jobs,
              resume : {"none", "later", "due"}, open : BOOLEAN, count : 0..MaxCount,
              issued : 0..MaxSeq]

(* The counter active of the group hash is the number of jobs that own a     *)
(* slot, those waiting for a retry, a signal or the end of a rate limit too:  *)
(* no path that ends, parks, redispatches or removes a job leaks a slot or    *)
(* gives one back twice.                                                      *)
SlotsCounted == grp.active = Cardinality({j \in Jobs : Holds(j)})

(* No more jobs of a key are active than ordering.concurrency allows. *)
WithinLimit == Cardinality({j \in Jobs : job[j].state = "active"}) <= MaxConcurrency

(* With concurrency 1 a job is active only when every job ordered before it   *)
(* has ended: neither retries nor stalls nor a suspension let one overtake.   *)
StrictOrder ==
  MaxConcurrency = 1 =>
    \A j, k \in Jobs : job[j].state = "active" /\ job[k].state \in Pending => job[j].seq <= job[k].seq

(* Jobs are admitted in their turn: as many as allowed, in the order of their  *)
(* sequence numbers.                                                           *)
InTurn == WithinLimit /\ StrictOrder

(* groupq holds exactly the jobs whose state is group-waiting, once each: a   *)
(* parked job has no stream entry, so one that is missing there is lost.      *)
ParkedFits ==
  /\ {p.id : p \in grp.parked} = {j \in Jobs : job[j].state = "parked"}
  /\ \A p, r \in grp.parked : p.id = r.id => p = r

(* A parked job has something to wake it: the sweep of rate limited groups,   *)
(* or another job of the key whose end, or whose own turn, will promote it.   *)
NotStranded ==
  grp.parked = {} \/ grp.resume /= "none"
  \/ \E j \in Jobs : job[j].state \in Pending \ {"parked"}

(* The books of a key agree with its jobs: slots, parked jobs, and what wakes  *)
(* them.                                                                       *)
Accounted == SlotsCounted /\ ParkedFits /\ NotStranded

(* Once retries, crashes and rate limits stop, every job of the key ends: the *)
(* sequence never waits for a job that will not come.                         *)
GroupSettles ==
  (<>[][~Disturb]_vars) =>
    \A j \in Jobs : job[j].state \in Pending ~> job[j].state \in Terminal
=============================================================================
