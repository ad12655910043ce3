----------------------------- MODULE ListClaims -----------------------------
(***************************************************************************)
(* Priority and LIFO jobs.  They wait in lists that workers pop, so no     *)
(* pending-entries list remembers who has one: a job exists only in the    *)
(* worker's hands from the pop to its activation, and the queue's          *)
(* globalConcurrency counts list claims in list-active, a counter that     *)
(* pops increment, every end of a claim decrements, and the scheduler      *)
(* repairs from the job hashes.  Stream jobs are here as far as they share *)
(* the cap and the calls; StreamQueue has their lifecycle.                 *)
(*                                                                         *)
(* The server's state is one record, db.  A function of glidemq.lua is an  *)
(* operator from the record before to the record after; a worker makes     *)
(* one such call per step.                                                 *)
(***************************************************************************)
EXTENDS Integers, Sequences, FiniteSets

CONSTANTS
  Jobs,      \* the job ids
  Workers,   \* the worker processes
  Profiles,  \* the instances a behaviour may be about, see conf
  Races      \* what is let happen to a claim that is not yet active:
             \*   "crash"  its worker dies
             \*   "heal"   the counter is repaired
             \*   "steal"  changePriority takes away the stream entry it holds
             \* to one that is, that its worker misses its heartbeats:  "hang"
             \* and to a revoked job that waits in a list, that a chained call pops it:  "revoke"

Kinds == {"fifo", "lifo", "priority"}
Calls == {"remove", "revoke", "changePriority", "pause", "handBack", "crash", "expire"}

ASSUME JobsAssumption == IsFiniteSet(Jobs)
ASSUME ProfilesAssumption ==
  \A p \in Profiles :
    /\ p.cap \in Nat          \* globalConcurrency, 0 for none
    /\ p.slots \in Nat \ {0}  \* the claims a worker handles at once
    /\ p.jobs \in SUBSET Jobs /\ p.kinds \in SUBSET Kinds  \* what is added
    /\ p.retries \in Nat      \* the failures of a job that are retried
    /\ p.stalls \in Nat       \* maxStalledCount
    /\ p.calls \in SUBSET Calls
    /\ p.events \in Nat       \* bounds the calls, crashes, hand-backs and expiries of a behaviour
ASSUME RacesAssumption == Races \subseteq {"crash", "heal", "steal", "hang", "revoke"}

VARIABLES
  conf,    \* the profile of this behaviour
  db,      \* job hashes, lists, stream, pending entries, scheduled set, counter, id set, meta.paused
  claims,  \* what the workers hold: [by, job, list, at]
  events   \* the calls and faults so far

vars == <<conf, db, claims, events>>

States == {"new", "gone", "prioritized", "delayed", "waiting", "active", "completed", "failed"}
NoHash == {"new", "gone"}
Ended  == {"completed", "failed", "gone"}

(* The lists are written in the order they are popped: RPOP takes the head, *)
(* RPUSH puts a new head, LPUSH appends.                                    *)
Fresh == [state |-> "new", lifo |-> FALSE, pri |-> 0, listed |-> FALSE,
          revoked |-> FALSE, late |-> FALSE, stalls |-> 0, tries |-> 0]

Init ==
  /\ conf \in Profiles
  /\ db = [job |-> [j \in Jobs |-> Fresh],
           priority |-> <<>>, lifo |-> <<>>, stream |-> <<>>, pel |-> <<>>, scheduled |-> {},
           count |-> 0, ids |-> {}, paused |-> FALSE]
  /\ claims = {} /\ events = 0

-----------------------------------------------------------------------------
(* Parts of the server's functions *)

Members(s)     == {s[i] : i \in 1..Len(s)}
Lesser(a, b)   == IF a < b THEN a ELSE b

(* LREM 0, or XDEL: the others move up. *)
Without(s, j) ==
  LET rest == {i \in 1..Len(s) : s[i] /= j}
  IN  [k \in 1..Cardinality(rest) |-> s[CHOOSE i \in rest : Cardinality({l \in rest : l <= i}) = k]]

Exists(d, j)      == d.job[j].state \notin NoHash
Activatable(d, j) == d.job[j].state \in {"waiting", "prioritized"}
Becomes(d, j, s)  == [d EXCEPT !.job[j].state = s]
Listed(d)         == {j \in Jobs : d.job[j].state = "active" /\ d.job[j].listed}

IncrListActive(d, js) == [d EXCEPT !.count = @ + Cardinality(js), !.ids = @ \cup js]
DecrListActive(d, j)  == [d EXCEPT !.count = IF @ > 0 THEN @ - 1 ELSE @, !.ids = @ \ {j}]

(* XACK and XDEL of the entry that names j *)
Ack(d, j) == [d EXCEPT !.pel = Without(@, j)]
(* a claim ends: entryId '' is a list claim *)
Settle(d, j, list) == IF list THEN DecrListActive(d, j) ELSE Ack(d, j)

(* Where a job waits.  next: RPUSH on the priority list, ahead of the others; else LPUSH. *)
Place(d, j, next) ==
  IF d.job[j].lifo         THEN [d EXCEPT !.lifo = <<j>> \o @]
  ELSE IF d.job[j].pri > 0 THEN [d EXCEPT !.priority = IF next THEN <<j>> \o @ ELSE Append(@, j)]
  ELSE [d EXCEPT !.stream = Append(@, j)]

Wait(d, j, next) == Place(Becomes(d, j, "waiting"), j, next)

(* globalConcurrency minus what is claimed, for the calls that pop or chain *)
Room(d) == conf.cap - Len(d.pel) - d.count
Full(d) == conf.cap > 0 /\ Room(d) <= 0

Started(d, j, list) == [d EXCEPT !.job[j].state = "active", !.job[j].listed = list,
                                 !.ids = IF list THEN @ \cup {j} ELSE @]

(* activeListIds with the id set seeded: a set smaller than the counter is not trusted. *)
ActiveListIds(d) == IF Cardinality(d.ids) >= d.count THEN d.ids \cap Listed(d) ELSE Listed(d)

(* A claim whose job has been activated *)
Begun(c) == c.at \in {"running", "aborting"}

-----------------------------------------------------------------------------
(* Producers and clients *)

Call(c) == c \in conf.calls /\ events < conf.events /\ events' = events + 1

AddJob(j, kind) ==
  /\ j \in conf.jobs /\ db.job[j].state = "new"
  /\ LET d == [db EXCEPT !.job[j].lifo = (kind = "lifo"), !.job[j].pri = IF kind = "priority" THEN 1 ELSE 0]
     IN  db' = IF kind = "priority" THEN [Becomes(d, j, "prioritized") EXCEPT !.scheduled = @ \cup {j}]
                                    ELSE Wait(d, j, TRUE)
  /\ UNCHANGED <<conf, claims, events>>

RemoveJob(j) ==
  /\ Call("remove") /\ Exists(db, j)
  /\ LET s == db.job[j].state
         d == IF j \in Listed(db) THEN DecrListActive(db, j) ELSE db
         inList   == j \in Members(db.lifo) \cup Members(db.priority)
         inStream == ~inList /\ (s = "waiting" \/ (s = "active" /\ j \notin Listed(db)))
     IN  db' = [d EXCEPT !.job[j] = [Fresh EXCEPT !.state = "gone"],
                  !.scheduled = @ \ {j}, !.lifo = Without(@, j), !.priority = Without(@, j),
                  !.stream = IF inStream THEN Without(@, j) ELSE @,
                  !.pel    = IF inStream THEN Without(@, j) ELSE @]
  /\ UNCHANGED <<conf, claims>>

Revoke(j) ==
  /\ Call("revoke")
  /\ \/ /\ db.job[j].state \in {"waiting", "delayed", "prioritized"}
        /\ LET inList   == j \in Members(db.lifo) \cup Members(db.priority)
               inStream == db.job[j].state = "waiting" /\ ~inList
           IN  db' = [Becomes(db, j, "failed") EXCEPT
                        !.job[j].revoked = TRUE,
                        !.scheduled = @ \ {j}, !.lifo = Without(@, j), !.priority = Without(@, j),
                        !.stream = IF inStream THEN Without(@, j) ELSE @,
                        !.pel    = IF inStream THEN Without(@, j) ELSE @]
     \/ /\ db.job[j].state = "active"
        /\ db' = [db EXCEPT !.job[j].revoked = TRUE]
  /\ UNCHANGED <<conf, claims>>

(* detachWaitingJob, then the scheduled set; nothing if a worker has popped the job. *)
Detached(d, j) ==
  CASE j \in Members(d.priority) -> [d EXCEPT !.priority = Without(@, j)]
    [] j \notin Members(d.priority) /\ j \in Members(d.lifo) -> [d EXCEPT !.lifo = Without(@, j)]
    [] OTHER -> [d EXCEPT !.stream = Without(@, j), !.pel = Without(@, j)]

Raised(j) ==
  \/ /\ db.job[j].state = "waiting"
     /\ j \in Members(db.priority) \cup Members(db.lifo) \cup Members(db.stream) \cup Members(db.pel)
     /\ db' = [Detached(Becomes(db, j, "prioritized"), j) EXCEPT !.job[j].pri = 1, !.scheduled = @ \cup {j}]
  \/ /\ db.job[j].state = "delayed"
     /\ db' = [db EXCEPT !.job[j].pri = 1]

Lowered(j) ==
  \/ /\ db.job[j].state = "waiting" /\ db.job[j].pri > 0
     /\ LET d == [db EXCEPT !.job[j].pri = 0]
        IN  db' = IF j \in Members(d.priority) THEN Place([d EXCEPT !.priority = Without(@, j)], j, TRUE) ELSE d
  \/ /\ db.job[j].state = "prioritized"
     /\ db' = [db EXCEPT !.job[j].pri = 0, !.job[j].state = "waiting",
                         !.scheduled = @ \ {j}, !.stream = Append(@, j)]
  \/ /\ db.job[j].state = "delayed"
     /\ db' = [db EXCEPT !.job[j].pri = 0]

ChangePriority(j) ==
  /\ Call("changePriority")
  /\ "steal" \in Races \/ j \notin Members(db.pel)
  /\ Raised(j) \/ Lowered(j)
  /\ UNCHANGED <<conf, claims>>

Pause  == Call("pause") /\ ~db.paused /\ db' = [db EXCEPT !.paused = TRUE] /\ UNCHANGED <<conf, claims>>
Resume == db.paused /\ db' = [db EXCEPT !.paused = FALSE] /\ UNCHANGED <<conf, claims, events>>

(* A job's ttl passes. *)
Expire(j) ==
  /\ Call("expire") /\ db.job[j].state \notin Ended \cup {"new"} /\ ~db.job[j].late
  /\ db' = [db EXCEPT !.job[j].late = TRUE]
  /\ UNCHANGED <<conf, claims>>

-----------------------------------------------------------------------------
(* Workers *)

HeldBy(w)  == {c \in claims : c.by = w}
Free(w)    == conf.slots - Cardinality(HeldBy(w))
Claim(w, j, list, at) == [by |-> w, job |-> j, list |-> list, at |-> at]
Step(c, at) == claims' = (claims \ {c}) \cup {[c EXCEPT !.at = at]}
Drop(c)     == claims' = claims \ {c}

(* How many jobs a pop may take: rpopAndReserve looks at the cap, popListsReserve does not. *)
Popped(w, list) ==
  LET n == Lesser(Free(w), Len(db[list])) IN IF conf.cap > 0 THEN Lesser(n, Room(db)) ELSE n

(* tryPopFromLists *)
Reserve(w, list) ==
  /\ ~db.paused
  /\ conf.cap = 0 => (list = "lifo" => db.priority = <<>>)
  /\ Popped(w, list) > 0
  /\ LET n  == Popped(w, list)
         js == Members(SubSeq(db[list], 1, n))
     IN  /\ db' = IncrListActive([db EXCEPT ![list] = SubSeq(@, n + 1, Len(@))], js)
         /\ claims' = claims \cup {Claim(w, j, TRUE, "claimed") : j \in js}
  /\ UNCHANGED <<conf, events>>

(* XREADGROUP.  The check of the cap and of the pause before it is another call, *)
(* whose answer may be old by now: the read does not look.                       *)
Read(w) ==
  /\ db.stream /= <<>> /\ Free(w) > 0
  /\ LET j == Head(db.stream) IN
       /\ db' = [db EXCEPT !.stream = Tail(@), !.pel = Append(@, j)]
       /\ claims' = claims \cup {Claim(w, j, FALSE, "claimed")}
  /\ UNCHANGED <<conf, events>>

(* moveToActive: a stream claim must be among the oldest the cap leaves room for. *)
Outranked(d, c) ==
  /\ ~c.list /\ conf.cap > 0
  /\ ~\E i \in 1..Len(d.pel) : d.pel[i] = c.job /\ i <= conf.cap - d.count

Outcome(d, c) ==
  IF ~Exists(d, c.job)           THEN "missing"
  ELSE IF ~Activatable(d, c.job) THEN "stale"
  ELSE IF d.job[c.job].revoked   THEN "revoked"
  ELSE IF d.paused               THEN "returning"
  ELSE IF d.job[c.job].late      THEN "expired"
  ELSE IF Outranked(d, c)        THEN "full"
  ELSE "running"

(* RELEASED_LIST_CLAIM: the script takes the id out of the set, the worker decrements. *)
Refuse(c) ==
  /\ Outcome(db, c) \in {"missing", "stale", "expired"}
  /\ LET d == IF Outcome(db, c) = "expired" THEN Becomes(db, c.job, "failed") ELSE db
     IN  IF c.list THEN db' = [d EXCEPT !.ids = @ \ {c.job}] /\ Step(c, "release")
                   ELSE db' = Ack(d, c.job) /\ Drop(c)

(* activateStreamClaim and handleMoveToActiveEdgeCase up to their next call.  A claim *)
(* found "full" changes nothing: it is held and tried again.                          *)
Activate(c) ==
  /\ c.at = "claimed"
  /\ \/ Refuse(c)
     \/ /\ Outcome(db, c) \in {"revoked", "returning"}
        /\ Step(c, Outcome(db, c)) /\ UNCHANGED db
     \/ Outcome(db, c) = "running" /\ db' = Started(db, c.job, c.list) /\ Step(c, "running")
  /\ UNCHANGED <<conf, events>>

(* releaseListActiveSlot: a plain DECRBY. *)
ReleaseListActiveSlot(c) ==
  /\ c.at = "release"
  /\ db' = [db EXCEPT !.count = @ - 1] /\ Drop(c)
  /\ UNCHANGED <<conf, events>>

(* deferActive *)
MutDeferActive(d, c) == Settle(d, c.job, c.list)
DeferActive(d, c) ==
  LET e == Settle(d, c.job, c.list)
  IN  IF ~Exists(d, c.job) THEN e
      ELSE IF c.list THEN Wait(e, c.job, TRUE)
      ELSE [Becomes(e, c.job, "waiting") EXCEPT !.stream = Append(@, c.job)]

Return(c) == c.at = "returning" /\ db' = DeferActive(db, c) /\ Drop(c) /\ UNCHANGED <<conf, events>>

(* close() or pause() of the worker came before the activation, or while a claim was *)
(* held that did not fit the cap; or the hold lasted too long.                       *)
HandBack(c) == c.at = "claimed" /\ Call("handBack") /\ db' = DeferActive(db, c) /\ Drop(c) /\ UNCHANGED conf

(* failJob with no attempts left: only the entry or the id goes if the hash is gone. *)
Fail(d, j, list) ==
  IF Exists(d, j) THEN Settle(Becomes(d, j, "failed"), j, list)
  ELSE IF list THEN [d EXCEPT !.ids = @ \ {j}] ELSE Ack(d, j)

FailRevoked(c) ==
  /\ c.at \in {"revoked", "aborting"}
  /\ db' = Fail(db, c.job, c.list) /\ Drop(c)
  /\ UNCHANGED <<conf, events>>

-----------------------------------------------------------------------------
(* completeAndFetchNext and failAndFetchNext: end the job and activate another *)

MutComplete(d, j, list) == Settle(IF Exists(d, j) THEN Becomes(d, j, "completed") ELSE d, j, list)
Complete(d, j, list) ==
  IF Exists(d, j) THEN Settle(Becomes(d, j, "completed"), j, list)
  ELSE IF list THEN [d EXCEPT !.ids = @ \ {j}] ELSE Ack(d, j)

Retry(d, j, list) ==
  IF Exists(d, j)
  THEN Settle([d EXCEPT !.job[j].state = "delayed", !.job[j].tries = @ + 1, !.scheduled = @ \cup {j}], j, list)
  ELSE Fail(d, j, list)

(* A phase of fetchNextForChain pops at most three jobs, up to the first of some kind.  It *)
(* passes over jobs that cannot start, failing those past their ttl; a revoked list job it  *)
(* just leaves out.                                                                         *)
Fits(d)      == {j \in Jobs : Activatable(d, j) /\ ~d.job[j].revoked /\ ~d.job[j].late}
Tries(s)     == Lesser(3, Len(s))
Passed(s, S) == CHOOSE n \in 0..Tries(s) : (n < Tries(s) => s[n + 1] \in S) /\ \A i \in 1..n : s[i] \notin S

Expired(d, js) ==
  [d EXCEPT !.job = [j \in Jobs |->
     IF j \in js /\ Activatable(d, j) /\ ~d.job[j].revoked THEN [d.job[j] EXCEPT !.state = "failed"]
                                                           ELSE d.job[j]]]
Skipped(d, line, n) ==
  [Expired(d, Members(SubSeq(d[line], 1, n))) EXCEPT ![line] = SubSeq(@, n + 1, Len(@))]

(* What a chain call may leave: the record after it, and the claim it made, if any. *)
FromList(d, w, line) ==
  LET n == Passed(d[line], Fits(d))
      e == Skipped(d, line, n)
      j == Head(e[line])
  IN  IF n < Tries(d[line])
      THEN [db |-> IncrListActive(Started([e EXCEPT ![line] = Tail(@)], j, TRUE), {j}),
            got |-> {Claim(w, j, TRUE, "running")}]
      ELSE [db |-> e, got |-> {}]

(* A stream job found revoked ends the phase: the worker fails it.  An entry without a *)
(* hash ends it too, and stays pending.                                                 *)
FromStream(d, w) ==
  LET ends == Fits(d) \cup {j \in Jobs : ~Exists(d, j) \/ d.job[j].revoked}
      n == Passed(d.stream, ends)
      e == Skipped(d, "stream", n)
      j == Head(e.stream)
      f == [e EXCEPT !.stream = Tail(@), !.pel = Append(@, j)]
  IN  IF n = Tries(d.stream) THEN [db |-> e, got |-> {}]
      ELSE IF ~Exists(d, j)  THEN [db |-> f, got |-> {}]
      ELSE IF d.job[j].revoked THEN [db |-> f, got |-> {Claim(w, j, FALSE, "revoked")}]
      ELSE [db |-> Started(f, j, FALSE), got |-> {Claim(w, j, FALSE, "running")}]

NextJob(d, w) ==
  LET p == FromList(d, w, "priority")
      l == FromList(p.db, w, "lifo")
  IN  IF d.paused \/ Full(d) THEN [db |-> d, got |-> {}]
      ELSE IF p.got /= {} THEN p
      ELSE IF l.got /= {} THEN l
      ELSE FromStream(l.db, w)

(* The end of a processor.  chain: the worker is neither closing nor paused. *)
RevokedWaits == \E j \in Members(db.priority) \cup Members(db.lifo) : db.job[j].revoked
Finish(c, d, chain) ==
  LET next == IF chain THEN NextJob(d, c.by) ELSE [db |-> d, got |-> {}]
  IN  (chain /\ RevokedWaits => "revoke" \in Races) /\ db' = next.db /\ claims' = (claims \ {c}) \cup next.got

EndJob(c, chain) ==
  /\ c.at = "running"
  /\ \/ db.job[c.job].revoked /\ Step(c, "aborting") /\ UNCHANGED db
     \/ ~db.job[c.job].revoked /\ Finish(c, Complete(db, c.job, c.list), chain)
     \/ Finish(c, Fail(db, c.job, c.list), chain)
     \/ db.job[c.job].tries < conf.retries /\ Finish(c, Retry(db, c.job, c.list), chain)
  /\ UNCHANGED <<conf, events>>

-----------------------------------------------------------------------------
(* The scheduler, and what it repairs *)

Promote(j) ==
  /\ j \in db.scheduled
  /\ LET d == [db EXCEPT !.scheduled = @ \ {j}]
     IN  db' = IF d.job[j].late THEN Becomes(d, j, "failed") ELSE Wait(d, j, FALSE)
  /\ UNCHANGED <<conf, claims, events>>

(* No worker refreshes lastActive of j any more. *)
Silent(j) == "hang" \in Races \/ ~\E c \in claims : c.job = j /\ Begun(c)

(* What both reclaimers do with a job: expire it, fail it, or let it wait again. *)
Stalled(d, j) ==
  IF d.job[j].late THEN Becomes(d, j, "failed")
  ELSE IF d.job[j].stalls = conf.stalls THEN Becomes(d, j, "failed")
  ELSE Place([d EXCEPT !.job[j].state = "waiting", !.job[j].stalls = @ + 1], j, FALSE)

ReclaimListJob(j) ==
  /\ ~db.paused /\ db.count > 0 /\ j \in ActiveListIds(db) /\ Silent(j)
  /\ db' = DecrListActive(Stalled(db, j), j)
  /\ UNCHANGED <<conf, claims, events>>

(* glidemq_reclaimStalled, for an entry whose worker is gone: back to the stream. *)
ReclaimStreamJob(j) ==
  /\ ~db.paused /\ j \in Members(db.pel) /\ ~\E c \in claims : c.job = j /\ ~c.list
  /\ LET d == Ack(db, j) IN
       db' = CASE ~Exists(d, j) -> d
               [] Exists(d, j) /\ (d.job[j].late \/ d.job[j].stalls = conf.stalls) -> Becomes(d, j, "failed")
               [] OTHER -> [d EXCEPT !.job[j].state = "waiting", !.job[j].stalls = @ + 1,
                                     !.stream = Append(@, j)]
  /\ UNCHANGED <<conf, claims, events>>

(* A list claim whose job is not active yet *)
Unstarted == {c \in claims : c.list /\ ~Begun(c)}

MutHealTrustsSet ==
  /\ db.count > 0 /\ Cardinality(db.ids) >= db.count /\ Unstarted = {}
  /\ LET live == db.ids \cap Listed(db)
     IN  db' = [db EXCEPT !.ids = live, !.count = IF @ > Cardinality(live) THEN Cardinality(live) ELSE @]
  /\ UNCHANGED <<conf, claims, events>>
HealListActive ==
  /\ db.count > 0
  /\ "heal" \in Races \/ Unstarted = {}
  /\ LET live == Cardinality(Listed(db) \cap (IF Cardinality(db.ids) >= db.count THEN db.ids ELSE Jobs))
     IN  db' = [db EXCEPT !.ids   = IF Cardinality(@) >= db.count THEN @ \cap Listed(db) ELSE Listed(db),
                          !.count = IF @ > live THEN live ELSE @]
  /\ UNCHANGED <<conf, claims, events>>

(* A worker process dies; another takes its place. *)
Crash(w) ==
  /\ Call("crash") /\ HeldBy(w) /= {}
  /\ "crash" \in Races \/ ~\E c \in Unstarted : c.by = w /\ c.at /= "release"
  /\ claims' = claims \ HeldBy(w)
  /\ UNCHANGED <<conf, db>>

-----------------------------------------------------------------------------
Client == Resume \/ Pause \/ \E j \in Jobs :
  (\E k \in conf.kinds : AddJob(j, k)) \/ RemoveJob(j) \/ Revoke(j) \/ ChangePriority(j) \/ Expire(j)
Handle(c) == \/ Activate(c) \/ ReleaseListActiveSlot(c) \/ Return(c) \/ FailRevoked(c)
             \/ \E chain \in BOOLEAN : EndJob(c, chain)
Worker == \/ \E w \in Workers : Read(w) \/ Crash(w) \/ \E list \in {"priority", "lifo"} : Reserve(w, list)
          \/ \E c \in claims : Handle(c) \/ HandBack(c)
Scheduler == HealListActive \/ \E j \in Jobs : Promote(j) \/ ReclaimListJob(j) \/ ReclaimStreamJob(j)

Next == Client \/ Worker \/ Scheduler
Spec == Init /\ [][Next]_vars

-----------------------------------------------------------------------------
(* Properties *)

(* Every field has its type. *)
TypeOK ==
  /\ conf \in Profiles
  /\ db.job \in [Jobs -> [state : States, lifo : BOOLEAN, pri : 0..1, listed : BOOLEAN, revoked : BOOLEAN,
                          late : BOOLEAN, stalls : 0..conf.stalls, tries : 0..conf.retries]]
  /\ \A line \in {"priority", "lifo", "stream", "pel"} : db[line] \in Seq(Jobs)
  /\ db.scheduled \subseteq Jobs /\ db.ids \subseteq Jobs
  /\ db.count \in Int /\ db.paused \in BOOLEAN
  /\ claims \subseteq [by : Workers, job : Jobs, list : BOOLEAN,
                       at : {"claimed", "release", "returning", "revoked", "aborting", "running"}]
  /\ events \in 0..conf.events

(* list-active never counts fewer than the claims there are: the pops whose  *)
(* worker has not come to activation or has yet to release its slot, and the *)
(* list jobs that are active.  Counting fewer lets a pop through the cap and *)
(* leaves reclaim and healing, which return early at zero, without work.     *)
CounterCovers == db.count >= Cardinality(Unstarted) + Cardinality(Listed(db))

(* A job that waits is somewhere a worker will find it, or in a worker's hands. *)
JobKept ==
  \A j \in Jobs : db.job[j].state \in {"waiting", "prioritized", "delayed"} =>
    \/ j \in Members(db.priority) \cup Members(db.lifo) \cup Members(db.stream) \cup Members(db.pel)
    \/ j \in db.scheduled
    \/ \E c \in Unstarted : c.job = j /\ c.at /= "release"

(* The workers together run no more jobs than globalConcurrency, not counting *)
(* one that a client has removed meanwhile: removeJob gives its slot back.    *)
WithinCap ==
  conf.cap > 0 => Cardinality({c \in claims : Begun(c) /\ Exists(db, c.job)}) <= conf.cap

(* globalConcurrency holds, and so does the counter it is read from. *)
CapHeld == CounterCovers /\ WithinCap

(* Whatever a crash, a pause or a client does to a claim, every job that was *)
(* added ends: a slot counted for a dead worker is found and freed.          *)
AllEnd == \A j \in Jobs : db.job[j].state /= "new" ~> db.job[j].state \in Ended

(* A server that keeps promoting, reclaiming and healing, workers that keep polling *)
(* and processors that return.  chain = FALSE costs a poll, no more.                *)
Fairness ==
  /\ WF_vars(Resume) /\ WF_vars(HealListActive)
  /\ \A j \in Jobs : WF_vars(Promote(j)) /\ WF_vars(ReclaimListJob(j)) /\ WF_vars(ReclaimStreamJob(j))
  /\ \A w \in Workers : WF_vars(Read(w)) /\ \A list \in {"priority", "lifo"} : WF_vars(Reserve(w, list))
  /\ \A w \in Workers, j \in Jobs : WF_vars(\E c \in claims : c.by = w /\ c.job = j /\ Handle(c))

FairSpec == Spec /\ Fairness
=============================================================================
