----------------------- MODULE RepeatSchedulerProofs -----------------------
(***************************************************************************)
(* Proofs about RepeatScheduler for every number of ticks, clients, jobs   *)
(* and times and every profile: repeatAfterComplete never overlaps a run   *)
(* with the one before it, and the entry stays what clients asked for.     *)
(* The last part is about CronSearch, for every calendar and pattern: in   *)
(* UTC the run found is the nearest instant the pattern allows.            *)
(***************************************************************************)
EXTENDS RepeatScheduler, FiniteSetTheorems, TLAPS

Field == EntryRecords \cup {NoEntry}

TickRecords ==
  [at : {"idle", "read", "parked", "advance", "await", "fire", "delete", "batch", "batchDelete"},
   now : 0..MaxTime, raw : Field]
ClientRecords ==
  [at : {"idle", "read", "cas", "remove"}, want : Schedules \cup {NoEntry}, raw : Field, new : Field, tries : Nat]
UpdateRecords ==
  [job : 1..MaxJobs, at : {"read", "cas", "delete"}, now : 1..MaxTime, raw : Field, tries : Nat]

Shape ==
  /\ conf \in Profiles /\ now \in 1..MaxTime /\ entry \in Field
  /\ jobs \in [1..MaxJobs -> [state : {"none", "live", "ended"}, after : BOOLEAN, prev : 0..MaxJobs]]
  /\ ticks \in [Ticks -> TickRecords] /\ clients \in [Clients -> ClientRecords]
  /\ updates \subseteq UpdateRecords
  /\ asked \in [want : Schedules \cup {NoEntry}, fired : Nat, last : 0..MaxJobs]

-----------------------------------------------------------------------------
(* The operators on entries.                                                 *)

Time == Nat \cup {Null}

LEMMA Arithmetic ==
  /\ \A a, b \in Nat : a * b \in Nat /\ a + b \in Nat
  /\ \A a, b \in Nat : b > 0 => a \div b \in Nat
  /\ \A end \in Nat, x \in Nat : Until(end, x) \in Time
<1>1. \A a, b \in Nat : a * b \in Nat /\ a + b \in Nat
  OBVIOUS
<1>2. \A a, b \in Nat : b > 0 => a \div b \in Nat
  OBVIOUS
<1>3. \A end \in Nat, x \in Nat : Until(end, x) \in Time
  BY DEF Until, Time
<1> QED BY <1>1, <1>2, <1>3

LEMMA FollowingTime ==
  ASSUME NEW e \in EntryRecords, NEW t \in Nat
  PROVE  Following(e, t) \in Time
<1>1. e.gap \in Nat /\ e.gap > 0 /\ e.next \in Nat /\ e.end \in Nat
  BY ConstantsAssumption DEF EntryRecords
<1>2. /\ (t \div e.gap + 1) * e.gap \in Nat
      /\ e.next <= t => e.next + ((t - e.next) \div e.gap + 1) * e.gap \in Nat
      /\ t + e.gap \in Nat
  <2>1. t \div e.gap \in Nat /\ (e.next <= t => (t - e.next) \div e.gap \in Nat)
    BY <1>1, Arithmetic
  <2>2. t \div e.gap + 1 \in Nat /\ (e.next <= t => (t - e.next) \div e.gap + 1 \in Nat)
    BY <2>1
  <2>3. (t \div e.gap + 1) * e.gap \in Nat /\ (e.next <= t => ((t - e.next) \div e.gap + 1) * e.gap \in Nat)
    BY <1>1, <2>2, Arithmetic
  <2> QED BY <1>1, <2>3
<1> QED BY <1>1, <1>2, Arithmetic DEF Following, NextCronOccurrence

LEMMA InitialTime ==
  ASSUME NEW s \in Schedules, NEW t \in Nat \ {0}
  PROVE  Initial(s, t) \in Time
<1>1. s.gap \in Nat /\ s.gap > 0 /\ s.start \in Nat /\ s.end \in Nat
  BY ConstantsAssumption DEF Schedules
<1>2. Later(s.start, t) - 1 \in Nat /\ Later(s.start, t) \in Nat
  BY <1>1 DEF Later
<1>3. /\ ((Later(s.start, t) - 1) \div s.gap + 1) * s.gap \in Nat
      /\ s.start <= t => s.start + ((t - s.start + s.gap - 1) \div s.gap) * s.gap \in Nat
      /\ t + s.gap \in Nat
  <2>1. s.start <= t => t - s.start + s.gap - 1 \in Nat
    BY <1>1
  <2>2. /\ (Later(s.start, t) - 1) \div s.gap \in Nat
        /\ s.start <= t => (t - s.start + s.gap - 1) \div s.gap \in Nat
    BY <1>1, <1>2, <2>1, Arithmetic
  <2>3. (Later(s.start, t) - 1) \div s.gap + 1 \in Nat
    BY <2>2
  <2>4. /\ ((Later(s.start, t) - 1) \div s.gap + 1) * s.gap \in Nat
        /\ s.start <= t => ((t - s.start + s.gap - 1) \div s.gap) * s.gap \in Nat
    BY <1>1, <2>2, <2>3, Arithmetic
  <2> QED BY <1>1, <2>4
<1> DEFINE x == CASE s.mode = "after"   -> Later(s.start, t)
                  [] s.mode = "pattern" -> NextCronOccurrence(s.gap, Later(s.start, t) - 1)
                  [] s.mode = "every" /\ s.start = 0 -> t + s.gap
                  [] s.mode = "every" /\ s.start > t -> s.start
                  [] OTHER -> s.start + ((t - s.start + s.gap - 1) \div s.gap) * s.gap
<1>4. x \in Nat
  <2>1. s.mode = "every" \/ s.mode = "pattern" \/ s.mode = "after"
    BY DEF Schedules, Modes
  <2>2. CASE s.mode = "after"
    BY <1>2, <2>2
  <2>3. CASE s.mode = "pattern"
    BY <1>3, <2>3 DEF NextCronOccurrence
  <2>4. CASE s.mode = "every"
    BY <1>1, <1>3, <2>4
  <2> QED BY <2>1, <2>2, <2>3, <2>4
<1>5. Initial(s, t) = Until(s.end, x)
  BY DEF Initial
<1> HIDE DEF x
<1> QED BY <1>1, <1>4, <1>5, Arithmetic

(* The same schedule, job and count. *)
Same(e, f) == f \in EntryRecords /\ Schedule(f) = Schedule(e) /\ f.iter = e.iter /\ f.job = e.job

LEMMA SameFields ==
  ASSUME NEW e, NEW f, Schedule(e) = Schedule(f)
  PROVE  e.mode = f.mode /\ e.gap = f.gap /\ e.start = f.start /\ e.end = f.end /\ e.limit = f.limit
BY DEF Schedule

LEMMA AdvancedFacts ==
  ASSUME NEW e \in EntryRecords, NEW t \in Nat
  PROVE  \/ Advanced(e, t) = NoEntry /\ (OutOf(e) \/ Following(e, t) = Null)
         \/ Advanced(e, t) /= NoEntry /\ Same(e, Advanced(e, t))
<1>1. CASE OutOf(e) \/ Following(e, t) = Null
  BY <1>1 DEF Advanced
<1>2. CASE ~OutOf(e) /\ Following(e, t) \in Nat
  <2> DEFINE f == [e EXCEPT !.next = Following(e, t)]
  <2>1. f \in EntryRecords /\ Schedule(f) = Schedule(e) /\ f.iter = e.iter /\ f.job = e.job
    BY <1>2 DEF EntryRecords, Schedule
  <2>2. f /= NoEntry
    BY <2>1, ConstantsAssumption
  <2>3. Advanced(e, t) = f
    BY <1>2 DEF Advanced, Null
  <2> QED BY <2>1, <2>2, <2>3 DEF Same
<1> QED BY <1>1, <1>2, FollowingTime DEF Time

LEMMA FiredFacts ==
  ASSUME NEW e \in EntryRecords, NEW i \in 1..MaxJobs, NEW t \in Nat
  PROVE  LET f == Fired(e, i, t)
         IN  \/ /\ f = NoEntry
                /\ (e.limit > 0 /\ e.iter + 1 >= e.limit) \/ (e.mode /= "after" /\ Following(e, t) = Null)
             \/ f \in EntryRecords /\ Schedule(f) = Schedule(e) /\ f.iter = e.iter + 1 /\ f.job = i
<1> DEFINE n == IF e.mode = "after" THEN 0 ELSE Following(e, t)
           f == [e EXCEPT !.iter = @ + 1, !.job = i, !.next = n]
<1>1. n \in Time /\ e.iter + 1 \in Nat /\ i \in 0..MaxJobs
  BY FollowingTime, ConstantsAssumption DEF EntryRecords, Time
<1>2. Fired(e, i, t) = IF OutOf(f) \/ f.next = Null THEN NoEntry ELSE f
  BY DEF Fired
<1>3. n = Null => e.mode /= "after" /\ Following(e, t) = Null
  BY DEF Null
<1> HIDE DEF n
<1>4. f.limit = e.limit /\ f.next = n /\ f.iter = e.iter + 1
  BY DEF EntryRecords
<1>5. n \in Nat => f \in EntryRecords /\ Schedule(f) = Schedule(e) /\ f.job = i
  BY <1>1 DEF EntryRecords, Schedule
<1> HIDE DEF f
<1> QED BY <1>1, <1>2, <1>3, <1>4, <1>5 DEF OutOf, Time

LEMMA UpsertedFacts ==
  ASSUME NEW old \in Field, NEW s \in Schedules, NEW t \in Nat \ {0}, ~NoRun(NextRun(old, s, t))
  PROVE  LET new == Upserted(old, s, t)
         IN  /\ new \in EntryRecords /\ Schedule(new) = s
             /\ new.job = IF old = NoEntry THEN 0 ELSE old.job
             /\ new.iter = 0 \/ (old /= NoEntry /\ new.iter = old.iter)
<1>1. Initial(s, t) \in Time
  BY InitialTime
<1>2. NextRun(old, s, t) \in Nat
  <2>1. ASSUME old \in EntryRecords, Initial(s, t) \in Nat
        PROVE  Held(old, Initial(s, t), s.end) \in Time
    <3>1. s.end \in Nat /\ old.next \in Nat
      BY <2>1, ConstantsAssumption DEF EntryRecords, Schedules
    <3>2. Later(Initial(s, t), old.next) \in Nat
      BY <2>1, <3>1 DEF Later
    <3>3. Until(s.end, Later(Initial(s, t), old.next)) \in Time
      BY <3>1, <3>2, Arithmetic
    <3> QED BY <1>1, <3>3 DEF Held
  <2>2. old /= NoEntry => old \in EntryRecords /\ old.next \in Nat
    BY DEF Field, EntryRecords
  <2>3. NextRun(old, s, t) \in Time
    BY <1>1, <2>1, <2>2 DEF NextRun, Time
  <2> QED BY <2>3 DEF NoRun, Time
<1> DEFINE keeps == old /= NoEntry /\ IF Awaiting(old, s) THEN SameBounds(old, s) ELSE Unchanged(old, s)
           it == IF keeps THEN old.iter ELSE 0
           jb == IF old = NoEntry THEN 0 ELSE old.job
           nx == NextRun(old, s, t)
           new == Upserted(old, s, t)
<1>3. it \in Nat /\ jb \in 0..MaxJobs /\ (it = 0 \/ (old /= NoEntry /\ it = old.iter))
  BY ConstantsAssumption DEF Field, EntryRecords
<1>4. new = [mode |-> s.mode, gap |-> s.gap, start |-> s.start, end |-> s.end, limit |-> s.limit,
             iter |-> it, next |-> nx, job |-> jb]
  BY DEF Upserted
<1> HIDE DEF new, it, nx
<1>5. new \in EntryRecords /\ Schedule(new) = s /\ new.job = jb /\ new.iter = it
  BY <1>2, <1>3, <1>4 DEF EntryRecords, Schedules, Schedule, nx
<1> QED BY <1>3, <1>5 DEF new

-----------------------------------------------------------------------------
(* What a tick, a client call and a completion know, n being the clock.      *)

TickKnows(k, n) ==
  /\ k.raw = NoEntry <=> k.at \in {"idle", "read"}
  /\ k.at /= "idle" => k.now \in 1..n
  /\ k.at \in {"parked", "advance"} => Parked(k.raw)
  /\ k.at = "await" => k.raw.mode = "after"
  /\ k.at \in {"await", "fire", "batch"} => ~OutOf(k.raw)
  /\ k.at \in {"delete", "batchDelete"} =>
       \/ OutOf(k.raw)
       \/ Until(k.raw.end, k.raw.next) = Null /\ k.raw.next <= k.now
       \/ k.raw.mode = "after" /\ Following(k.raw, k.now) = Null

ClientKnows(k) ==
  /\ k.at \in {"read", "cas"} => k.want \in Schedules
  /\ k.at = "cas" => /\ k.new \in EntryRecords /\ Schedule(k.new) = k.want
                     /\ k.new.job = IF k.raw = NoEntry THEN 0 ELSE k.raw.job
                     /\ k.new.iter = 0 \/ (k.raw /= NoEntry /\ k.new.iter = k.raw.iter)

UpdateKnows(u, n) ==
  /\ u.now \in 1..n
  /\ u.at \in {"cas", "delete"} => u.raw \in EntryRecords /\ Parked(u.raw)
  /\ u.at = "delete" => OutOf(u.raw) \/ Following(u.raw, u.now) = Null

(* The last job fired has ended, or there is none. *)
Free(a, js) == a.last = 0 \/ js[a.last].state /= "live"

(* Only the holder of the lock fires, and mode after only when the last job is over. *)
TickHolds(s) ==
  /\ ticks[s].at \in {"batch", "batchDelete"} => lock = s
  /\ lock = s /\ ticks[s].at \in {"fire", "batch"} /\ ticks[s].raw.mode = "after" => Free(asked, jobs)

(* The entry names the last job fired; jobs are fired once, one after the other. *)
Recorded ==
  /\ entry /= NoEntry => entry.job = asked.last
  /\ asked.last /= 0 => jobs[asked.last].state /= "none"
  /\ \A i \in 1..MaxJobs : jobs[i].prev /= 0 => jobs[jobs[i].prev].state /= "none"

Fits ==
  /\ \A s \in Ticks : TickKnows(ticks[s], now) /\ TickHolds(s)
  /\ \A c \in Clients : ClientKnows(clients[c])
  /\ \A u \in updates : UpdateKnows(u, now)
  /\ Recorded /\ NoOverlap

(* What the end of a job, or a tick that waits for one, does to the entry. *)
Turns == \/ entry' = entry
         \/ entry' = NoEntry
         \/ entry \in EntryRecords /\ entry.mode = "after" /\ Same(entry, entry')

LEMMA KnowsOn ==
  ASSUME NEW n \in Nat, NEW m \in Nat, n <= m
  PROVE  /\ \A k : TickKnows(k, n) => TickKnows(k, m)
         /\ \A u : UpdateKnows(u, n) => UpdateKnows(u, m)
BY DEF TickKnows, UpdateKnows

(* One tick moves, and fires nothing. *)
TickMove(s, k) ==
  /\ ticks' = [ticks EXCEPT ![s] = k]
  /\ k \in TickRecords /\ TickKnows(k, now)
  /\ lock' = lock \/ (lock = s /\ lock' = NoOne) \/ (lock = NoOne /\ lock' = s)
  /\ k.at \in {"batch", "batchDelete"} => lock' = s
  /\ lock' = s /\ k.at \in {"fire", "batch"} /\ k.raw.mode = "after" => Free(asked, jobs)
  /\ Turns
  /\ UNCHANGED <<conf, now, jobs, clients, updates, asked>>

LEMMA TickMoveFits ==
  ASSUME Shape, Fits, NEW s \in Ticks, NEW k, TickMove(s, k)
  PROVE  Shape' /\ Fits'
<1>1. /\ ticks' \in [Ticks -> TickRecords] /\ ticks'[s] = k /\ \A r \in Ticks \ {s} : ticks'[r] = ticks[r]
      /\ UNCHANGED <<conf, now, jobs, clients, updates, asked>> /\ NoOne \notin Ticks
  BY ConstantsAssumption DEF TickMove, Shape
<1>2. Shape'
  BY <1>1 DEF TickMove, Turns, Same, Shape, Field
<1>3. \A r \in Ticks : TickKnows(ticks'[r], now')
  BY <1>1 DEF TickMove, Fits
<1>4. \A r \in Ticks : TickHolds(r)'
  <2> TAKE r \in Ticks
  <2>1. CASE r = s
    BY <1>1, <2>1 DEF TickMove, TickHolds, Free
  <2>2. CASE r /= s
    BY <1>1, <2>2 DEF TickMove, TickHolds, Free, Fits
  <2> QED BY <2>1, <2>2
<1>5. Recorded'
  BY <1>1, ConstantsAssumption DEF TickMove, Turns, Same, Fits, Recorded
<1>6. NoOverlap'
  BY <1>1 DEF Fits, NoOverlap, Live
<1> QED BY <1>1, <1>2, <1>3, <1>4, <1>5, <1>6 DEF Fits

(* Jobs end, completions move on, the clock ticks. *)
EndMove ==
  /\ now' \in 1..MaxTime /\ now <= now'
  /\ \/ jobs' = jobs
     \/ \E i \in 1..MaxJobs : jobs[i].state = "live" /\ jobs' = [jobs EXCEPT ![i].state = "ended"]
  /\ \A u \in updates' \ updates : u \in UpdateRecords /\ UpdateKnows(u, now)
  /\ Turns
  /\ UNCHANGED <<conf, lock, ticks, clients, asked>>

LEMMA EndMoveFits ==
  ASSUME Shape, Fits, EndMove
  PROVE  Shape' /\ Fits'
<1>1. /\ UNCHANGED <<conf, lock, ticks, clients, asked>>
      /\ jobs' \in [1..MaxJobs -> [state : {"none", "live", "ended"}, after : BOOLEAN, prev : 0..MaxJobs]]
      /\ \A i \in 1..MaxJobs : /\ jobs'[i].after = jobs[i].after /\ jobs'[i].prev = jobs[i].prev
                               /\ jobs'[i].state = "live" => jobs[i].state = "live"
                               /\ jobs[i].state /= "none" => jobs'[i].state /= "none"
  <2>1. CASE jobs' = jobs
    BY <2>1 DEF EndMove, Shape
  <2>2. ASSUME NEW i \in 1..MaxJobs, jobs[i].state = "live", jobs' = [jobs EXCEPT ![i].state = "ended"]
        PROVE  /\ jobs' \in [1..MaxJobs -> [state : {"none", "live", "ended"}, after : BOOLEAN, prev : 0..MaxJobs]]
               /\ jobs'[i].state = "ended" /\ jobs'[i].after = jobs[i].after /\ jobs'[i].prev = jobs[i].prev
               /\ \A j \in 1..MaxJobs \ {i} : jobs'[j] = jobs[j]
    BY <2>2 DEF Shape
  <2> QED BY <2>1, <2>2 DEF EndMove
<1>2. now \in Nat /\ now' \in Nat /\ now <= now'
  BY ConstantsAssumption DEF Shape, EndMove
<1>3. Shape'
  BY <1>1 DEF EndMove, Shape, Turns, Same, Field
<1>4. \A r \in Ticks : TickKnows(ticks'[r], now')
  BY <1>1, <1>2, KnowsOn DEF Fits
<1>5. \A u \in updates' : UpdateKnows(u, now')
  BY <1>1, <1>2, KnowsOn DEF EndMove, Fits
<1>6. asked.last \in 0..MaxJobs /\ \A i \in 1..MaxJobs : jobs[i].prev \in 0..MaxJobs
  BY DEF Shape
<1>7. \A r \in Ticks : TickHolds(r)'
  BY <1>1, <1>6 DEF TickHolds, Free, Fits
<1>8. Recorded'
  <2>1. entry' /= NoEntry => entry'.job = asked.last
    BY ConstantsAssumption DEF EndMove, Turns, Same, Fits, Recorded
  <2> QED BY <1>1, <1>6, <2>1 DEF Fits, Recorded
<1>9. NoOverlap'
  BY <1>1, <1>6 DEF Fits, NoOverlap, Live
<1> QED BY <1>1, <1>3, <1>4, <1>5, <1>7, <1>8, <1>9 DEF Fits

LEMMA IdleKnows ==
  /\ IdleTick \in TickRecords /\ IdleTick.at = "idle" /\ IdleTick.raw = NoEntry
  /\ \A n \in Nat : TickKnows(IdleTick, n)
BY ConstantsAssumption DEF IdleTick, TickRecords, Field, TickKnows

LEMMA LeaveMoves ==
  ASSUME Shape, NEW s \in Ticks, Leave(s), Turns, UNCHANGED <<conf, now, jobs, clients, updates, asked>>
  PROVE  TickMove(s, IdleTick)
BY IdleKnows DEF Leave, Unlock, TickMove, Shape

LEMMA GotoMoves ==
  ASSUME Shape, NEW s \in Ticks, NEW at, Goto(s, at), Turns, UNCHANGED <<conf, now, jobs, clients, updates, asked>>,
         LET k == [ticks[s] EXCEPT !.at = at]
         IN  /\ k \in TickRecords /\ TickKnows(k, now)
             /\ at \in {"batch", "batchDelete"} => lock = s
             /\ lock = s /\ at \in {"fire", "batch"} /\ k.raw.mode = "after" => Free(asked, jobs)
  PROVE  TickMove(s, [ticks[s] EXCEPT !.at = at])
<1>1. ticks[s] \in TickRecords
  BY DEF Shape
<1>2. ticks' = [ticks EXCEPT ![s].at = at] /\ lock' = lock
  BY DEF Goto
<1> QED BY <1>1, <1>2 DEF TickMove, TickRecords

LEMMA TickMoves ==
  ASSUME Shape, Fits, NEW s \in Ticks,
         \/ TickLock(s) \/ TickRead(s) \/ TickParked(s) \/ TickAdvance(s) \/ TickAwait(s)
         \/ TickRenew(s) \/ TickBatchDelete(s) \/ TickCrash(s)
  PROVE  \E k : TickMove(s, k)
<1>1. /\ ticks[s] \in TickRecords /\ TickKnows(ticks[s], now) /\ TickHolds(s) /\ now \in 1..MaxTime
      /\ ticks[s].raw \in Field /\ ticks[s].now \in 0..MaxTime /\ entry \in Field
      /\ entry' = entry => Turns
  BY DEF Shape, Fits, Turns, TickRecords
<1>2. CASE TickLock(s)
  <2> DEFINE k == [IdleTick EXCEPT !.at = "read", !.now = now]
  <2>1. k \in TickRecords /\ k.at = "read" /\ k.now = now /\ k.raw = NoEntry
    <3>1. now \in 0..MaxTime /\ IdleTick \in TickRecords /\ IdleTick.raw = NoEntry
      BY <1>1, IdleKnows, ConstantsAssumption
    <3> QED BY <3>1 DEF TickRecords
  <2>2. ticks' = [ticks EXCEPT ![s] = k] /\ lock = NoOne /\ lock' = s /\ UNCHANGED <<conf, now, entry, jobs, clients, updates, asked>>
    BY <1>2 DEF TickLock, TryLock
  <2> HIDE DEF k
  <2>3. TickKnows(k, now)
    BY <1>1, <2>1, ConstantsAssumption DEF TickKnows
  <2> QED BY <1>1, <2>1, <2>2, <2>3 DEF TickMove
<1>3. CASE TickRead(s)
  <2> DEFINE v == Verdict(entry, ticks[s].now)
             k == [ticks[s] EXCEPT !.at = v, !.raw = entry]
  <2>1. Leave(s) \/ (entry /= NoEntry /\ v /= "leave" /\ ticks' = [ticks EXCEPT ![s].at = v, ![s].raw = entry] /\ lock' = lock)
    BY <1>3 DEF TickRead
  <2>2. UNCHANGED <<conf, now, entry, jobs, clients, updates, asked>> /\ ticks[s].at = "read"
    BY <1>3 DEF TickRead
  <2>3. CASE Leave(s)
    BY <1>1, <2>2, <2>3, LeaveMoves
  <2>4. CASE entry /= NoEntry /\ v /= "leave" /\ ticks' = [ticks EXCEPT ![s].at = v, ![s].raw = entry] /\ lock' = lock
    <3>1. entry \in EntryRecords /\ v \in {"parked", "delete", "await", "fire"}
      BY <1>1, <2>4 DEF Field, Verdict
    <3>2. k \in TickRecords /\ k.at = v /\ k.now = ticks[s].now /\ k.raw = entry
      BY <1>1, <3>1 DEF TickRecords, Field
    <3>3. ticks' = [ticks EXCEPT ![s] = k]
      BY <1>1, <2>4 DEF Shape, TickRecords
    <3>4. /\ v = "parked" => Parked(entry)
          /\ v = "await" => entry.mode = "after" /\ ~OutOf(entry)
          /\ v = "fire" => ~OutOf(entry) /\ (entry.mode = "after" => entry.job = 0)
          /\ v = "delete" => OutOf(entry) \/ (Until(entry.end, entry.next) = Null /\ entry.next <= ticks[s].now)
      <4>1. entry.next \in Int /\ ticks[s].now \in Int
        BY <1>1, <3>1, ConstantsAssumption DEF EntryRecords
      <4> QED BY <3>1, <4>1 DEF Verdict
    <3> HIDE DEF v, k
    <3>5. TickKnows(k, now)
      BY <1>1, <2>2, <2>4, <3>1, <3>2, <3>4 DEF TickKnows
    <3>6. v = "fire" /\ entry.mode = "after" => Free(asked, jobs)
      BY <2>4, <3>4 DEF Fits, Recorded, Free
    <3> QED BY <1>1, <2>2, <2>4, <3>1, <3>2, <3>3, <3>5, <3>6 DEF TickMove
  <2> QED BY <2>1, <2>3, <2>4
<1>4. CASE TickParked(s)
  <2> DEFINE e == ticks[s].raw
             at == IF Advanced(e, ticks[s].now) = NoEntry THEN "delete" ELSE "advance"
  <2>1. Leave(s) \/ Goto(s, at)
    BY <1>4 DEF TickParked
  <2>2. UNCHANGED <<conf, now, entry, jobs, clients, updates, asked>> /\ ticks[s].at = "parked"
    BY <1>4 DEF TickParked
  <2>3. CASE Leave(s)
    BY <1>1, <2>2, <2>3, LeaveMoves
  <2>4. CASE Goto(s, at)
    <3> DEFINE k == [ticks[s] EXCEPT !.at = at]
    <3>1. k \in TickRecords /\ k.at = at /\ k.raw = e /\ k.now = ticks[s].now
      BY <1>1 DEF TickRecords
    <3>2. e \in EntryRecords /\ ticks[s].now \in Nat /\ Parked(e)
      BY <1>1, <2>2, ConstantsAssumption DEF TickKnows, Field
    <3>3. at = "delete" => OutOf(e) \/ (e.mode = "after" /\ Following(e, ticks[s].now) = Null)
      BY <3>2, AdvancedFacts DEF Parked
    <3>4. TickKnows(k, now)
      <4> HIDE DEF k, e
      <4>1. at \in {"delete", "advance"}
        OBVIOUS
      <4>2. e /= NoEntry
        BY <3>2, ConstantsAssumption
      <4> HIDE DEF at
      <4> QED BY <1>1, <2>2, <3>1, <3>2, <3>3, <4>1, <4>2 DEF TickKnows
    <3>5. TickMove(s, k)
      BY <1>1, <2>2, <2>4, <3>1, <3>4, GotoMoves
    <3> QED BY <3>5
  <2> QED BY <2>1, <2>3, <2>4
<1>5. CASE TickAdvance(s)
  <2> DEFINE e == ticks[s].raw
  <2>1. /\ entry' = IF entry = e THEN Advanced(e, ticks[s].now) ELSE entry
        /\ Leave(s) /\ UNCHANGED <<conf, now, jobs, clients, updates, asked>> /\ ticks[s].at = "advance"
    BY <1>5 DEF TickAdvance, CasSchedulerEntry
  <2>2. e \in EntryRecords /\ ticks[s].now \in Nat /\ Parked(e)
    BY <1>1, <2>1, ConstantsAssumption DEF TickKnows, Field
  <2>3. Turns
    BY <2>1, <2>2, AdvancedFacts DEF Turns, Parked
  <2> QED BY <2>1, <2>3, LeaveMoves
<1>6. CASE TickAwait(s)
  <2> DEFINE e == ticks[s].raw
  <2>1. ticks[s].at = "await" /\ UNCHANGED <<conf, now, jobs, clients, updates, asked>>
    BY <1>6 DEF TickAwait
  <2>2. e \in EntryRecords /\ e.mode = "after" /\ ~OutOf(e)
    BY <1>1, <2>1 DEF TickKnows, Field
  <2>3. CASE entry' = entry /\ Leave(s)
    BY <1>1, <2>1, <2>3, LeaveMoves
  <2>4. CASE entry = e /\ entry' = [e EXCEPT !.next = 0] /\ Leave(s)
    <3>1. Turns
      BY <2>2, <2>4 DEF Turns, Same, EntryRecords, Schedule
    <3> QED BY <2>1, <2>4, <3>1, LeaveMoves
  <2>5. CASE entry = e /\ ~Holds(e.job) /\ Goto(s, "fire") /\ entry' = entry
    <3> DEFINE k == [ticks[s] EXCEPT !.at = "fire"]
    <3>1. k \in TickRecords /\ k.at = "fire" /\ k.raw = e /\ k.now = ticks[s].now
      BY <1>1 DEF TickRecords
    <3>2. TickKnows(k, now)
      <4> HIDE DEF k, e
      <4> QED BY <1>1, <2>1, <2>2, <3>1, ConstantsAssumption DEF TickKnows
    <3>3. e.job = asked.last
      BY <2>2, <2>5, ConstantsAssumption DEF Fits, Recorded
    <3>4. Free(asked, jobs)
      BY <2>5, <3>3 DEF Free, Holds, Live
    <3>5. TickMove(s, k)
      BY <1>1, <2>1, <2>5, <3>1, <3>2, <3>4, GotoMoves
    <3> QED BY <3>5
  <2> QED BY <1>6, <2>3, <2>4, <2>5 DEF TickAwait
<1>7. CASE TickRenew(s)
  <2> DEFINE at == IF ticks[s].at = "fire" THEN "batch" ELSE "batchDelete"
  <2>1. /\ UNCHANGED <<conf, now, entry, jobs, clients, updates, asked>> /\ ticks[s].at \in {"fire", "delete"}
        /\ Leave(s) \/ (lock = s /\ Goto(s, at))
    BY <1>7 DEF TickRenew, StillHeld, RenewLock
  <2>2. CASE Leave(s)
    BY <1>1, <2>1, <2>2, LeaveMoves
  <2>3. CASE lock = s /\ Goto(s, at)
    <3> DEFINE k == [ticks[s] EXCEPT !.at = at]
    <3>1. k \in TickRecords /\ k.at = at /\ k.raw = ticks[s].raw /\ k.now = ticks[s].now
      BY <1>1 DEF TickRecords
    <3>2. TickKnows(k, now)
      <4> HIDE DEF k
      <4> QED BY <1>1, <2>1, <3>1 DEF TickKnows
    <3>3. at = "batch" /\ k.raw.mode = "after" => Free(asked, jobs)
      <4> HIDE DEF k
      <4> QED BY <1>1, <2>1, <2>3, <3>1 DEF TickHolds
    <3>4. TickMove(s, k)
      BY <1>1, <2>1, <2>3, <3>1, <3>2, <3>3, GotoMoves
    <3> QED BY <3>4
  <2> QED BY <2>1, <2>2, <2>3
<1>8. CASE TickBatchDelete(s)
  BY <1>8, LeaveMoves DEF TickBatchDelete, Turns
<1>9. CASE TickCrash(s)
  <2>1. /\ ticks' = [ticks EXCEPT ![s] = IdleTick]
        /\ UNCHANGED <<conf, now, entry, lock, jobs, clients, updates, asked>>
    BY <1>9 DEF TickCrash
  <2>2. now \in Nat
    BY <1>1, ConstantsAssumption
  <2> QED BY <1>1, <2>1, <2>2, IdleKnows DEF TickMove
<1> QED BY <1>2, <1>3, <1>4, <1>5, <1>6, <1>7, <1>8, <1>9

LEMMA UpdateMoved ==
  ASSUME Shape, Turns, UNCHANGED <<conf, now, lock, jobs, ticks, clients, asked>>,
         NEW v \in UpdateRecords, UpdateKnows(v, now), updates' \subseteq updates \cup {v}
  PROVE  EndMove
<1>1. now \in 1..MaxTime /\ now <= now
  BY ConstantsAssumption DEF Shape
<1> QED BY <1>1 DEF EndMove

LEMMA UpdateMoves ==
  ASSUME Shape, Fits, NEW u \in updates, Update(u)
  PROVE  EndMove
<1>1. /\ u \in UpdateRecords /\ UpdateKnows(u, now) /\ u.now \in Int
      /\ u.job \in 1..MaxJobs /\ u.now \in 1..MaxTime /\ u.tries \in Nat /\ entry \in Field
  BY ConstantsAssumption DEF Shape, Fits, UpdateRecords
<1>2. ASSUME NEW at \in {"delete", "cas"}, entry \in EntryRecords, Parked(entry),
             at = "delete" => OutOf(entry) \/ Following(entry, u.now) = Null
      PROVE  LET v == [u EXCEPT !.raw = entry, !.at = at] IN v \in UpdateRecords /\ UpdateKnows(v, now)
  <2> DEFINE v == [u EXCEPT !.raw = entry, !.at = at]
  <2>1. v \in UpdateRecords /\ v.at = at /\ v.raw = entry /\ v.now = u.now
    BY <1>1 DEF UpdateRecords
  <2> HIDE DEF v
  <2>2. UpdateKnows(v, now)
    BY <1>1, <1>2, <2>1 DEF UpdateKnows
  <2> QED BY <2>1, <2>2 DEF v
<1>3. LET v == [u EXCEPT !.at = "read", !.raw = NoEntry, !.tries = @ + 1] IN v \in UpdateRecords /\ UpdateKnows(v, now)
  <2> DEFINE n == u.tries + 1
             v == [u EXCEPT !.at = "read", !.raw = NoEntry, !.tries = n]
  <2>1. n \in Nat /\ NoEntry \in Field
    BY <1>1 DEF Field
  <2> HIDE DEF n
  <2>2. v \in UpdateRecords /\ v.at = "read" /\ v.now = u.now
    BY <1>1, <2>1 DEF UpdateRecords
  <2> HIDE DEF v
  <2>3. UpdateKnows(v, now)
    BY <1>1, <2>2 DEF UpdateKnows
  <2> QED BY <2>2, <2>3 DEF v, n
<1>4. CASE UpdateRead(u)
  <2>1. UNCHANGED <<conf, now, entry, lock, jobs, ticks, clients, asked>> /\ Turns
    BY <1>4 DEF UpdateRead, Turns
  <2>2. CASE updates' = updates \ {u}
    BY <1>1, <2>1, <2>2, UpdateMoved
  <2>3. CASE /\ entry /= NoEntry /\ Parked(entry)
             /\ Becomes(u, {[u EXCEPT !.raw = entry, !.at = IF Advanced(entry, u.now) = NoEntry THEN "delete" ELSE "cas"]})
    <3>1. PICK at \in {"delete", "cas"} : at = IF Advanced(entry, u.now) = NoEntry THEN "delete" ELSE "cas"
      OBVIOUS
    <3> DEFINE v == [u EXCEPT !.raw = entry, !.at = at]
    <3>2. updates' = (updates \ {u}) \cup {v}
      BY <2>3, <3>1, Zenon DEF Becomes
    <3>3. entry \in EntryRecords
      BY <1>1, <2>3 DEF Field
    <3>4. at = "delete" => OutOf(entry) \/ Following(entry, u.now) = Null
      BY <1>1, <3>1, <3>3, AdvancedFacts
    <3>5. v \in UpdateRecords /\ UpdateKnows(v, now)
      BY <1>2, <2>3, <3>3, <3>4
    <3> HIDE DEF v
    <3> QED BY <2>1, <3>2, <3>5, UpdateMoved
  <2> QED BY <1>4, <2>2, <2>3, Zenon DEF UpdateRead, Becomes
<1>5. CASE UpdateCas(u)
  <2> DEFINE v == [u EXCEPT !.at = "read", !.raw = NoEntry, !.tries = @ + 1]
  <2>1. /\ UNCHANGED <<conf, now, lock, jobs, ticks, clients, asked>> /\ u.at = "cas"
        /\ entry' = IF entry = u.raw THEN Advanced(u.raw, u.now) ELSE entry
        /\ updates' = updates \ {u} \/ updates' = (updates \ {u}) \cup {v}
    BY <1>5 DEF UpdateCas, UpdateWrites, CasSchedulerEntry, Becomes
  <2>2. v \in UpdateRecords /\ UpdateKnows(v, now)
    BY <1>3
  <2> HIDE DEF v
  <2>3. u.raw \in EntryRecords /\ Parked(u.raw)
    BY <1>1, <2>1 DEF UpdateKnows
  <2>4. Turns
    BY <1>1, <2>1, <2>3, AdvancedFacts DEF Turns, Parked
  <2>5. updates' \subseteq updates \cup {v}
    BY <2>1
  <2> QED BY <2>1, <2>2, <2>4, <2>5, UpdateMoved
<1>6. CASE UpdateDelete(u)
  <2>1. /\ UNCHANGED <<conf, now, lock, jobs, ticks, clients, asked>> /\ Turns
        /\ updates' = updates \ {u}
    BY <1>6 DEF UpdateDelete, Becomes, Turns
  <2> QED BY <1>1, <2>1, UpdateMoved
<1> QED BY <1>4, <1>5, <1>6 DEF Update

LEMMA EndMoves ==
  ASSUME Shape, Fits, Clock \/ \E i \in 1..MaxJobs : JobEnds(i)
  PROVE  EndMove
<1>1. now \in 1..MaxTime /\ entry \in Field /\ (entry' = entry => Turns)
  BY DEF Shape, Turns
<1>2. CASE Clock
  BY <1>1, <1>2, ConstantsAssumption DEF Clock, EndMove
<1>3. ASSUME NEW i \in 1..MaxJobs, JobEnds(i) PROVE EndMove
  <2> DEFINE u == [job |-> i, at |-> "read", now |-> now, raw |-> NoEntry, tries |-> 0]
  <2>1. /\ jobs[i].state = "live" /\ jobs' = [jobs EXCEPT ![i].state = "ended"]
        /\ UNCHANGED <<conf, now, lock, ticks, clients, asked>>
        /\ updates' = updates \/ updates' = updates \cup {u}
    BY <1>3 DEF JobEnds, Completed, FailedByServer, EndsUnseen, Ends, Live
  <2>2. u \in UpdateRecords /\ UpdateKnows(u, now)
    BY <1>1, ConstantsAssumption DEF UpdateRecords, UpdateKnows, Field
  <2>3. Turns
    <3>1. entry' = entry \/ (entry \in EntryRecords /\ Parked(entry) /\ entry' = Advanced(entry, now))
      BY <1>1, <1>3 DEF JobEnds, Completed, FailedByServer, EndsUnseen, Field
    <3>2. now \in Int
      BY <1>1, ConstantsAssumption
    <3> QED BY <1>1, <3>1, <3>2, AdvancedFacts DEF Turns, Parked
  <2> HIDE DEF u
  <2>4. now <= now
    BY <1>1, ConstantsAssumption
  <2> QED BY <1>1, <2>1, <2>2, <2>3, <2>4 DEF EndMove
<1> QED BY <1>2, <1>3

(* A client takes the lock, reads, writes or gives up. *)
ClientMove(c, k) ==
  /\ clients' = [clients EXCEPT ![c] = k]
  /\ k \in ClientRecords /\ ClientKnows(k)
  /\ lock' = lock \/ (lock = c /\ lock' = NoOne) \/ (lock = NoOne /\ lock' = c)
  /\ entry' \in Field /\ (entry' /= NoEntry => entry'.job = asked'.last)
  /\ asked' \in [want : Schedules \cup {NoEntry}, fired : Nat, last : 0..MaxJobs]
  /\ asked'.last \in {0, asked.last}
  /\ UNCHANGED <<conf, now, jobs, ticks, updates>>

LEMMA ClientMoveFits ==
  ASSUME Shape, Fits, NEW c \in Clients, NEW k, ClientMove(c, k)
  PROVE  Shape' /\ Fits'
<1>1. UNCHANGED <<conf, now, jobs, ticks, updates>> /\ NoOne \notin Ticks /\ c \notin Ticks
  BY ConstantsAssumption DEF ClientMove
<1>2. Shape'
  BY <1>1 DEF ClientMove, Shape
<1>3. \A d \in Clients : ClientKnows(clients'[d])
  BY DEF ClientMove, Shape, Fits
<1>4. \A s \in Ticks : TickHolds(s)'
  BY <1>1 DEF ClientMove, Fits, TickHolds, Free
<1>5. Recorded' /\ NoOverlap'
  BY <1>1 DEF ClientMove, Fits, Recorded, NoOverlap, Live
<1> QED BY <1>1, <1>2, <1>3, <1>4, <1>5 DEF Fits

LEMMA ClientMoves ==
  ASSUME Shape, Fits, NEW c \in Clients, Call(c) \/ Client(c)
  PROVE  \E k : ClientMove(c, k)
<1>1. /\ clients[c] \in ClientRecords /\ ClientKnows(clients[c]) /\ now \in Nat \ {0} /\ entry \in Field
      /\ clients[c].want \in Schedules \cup {NoEntry} /\ clients[c].raw \in Field /\ clients[c].new \in Field
      /\ clients[c].tries \in Nat
      /\ asked \in [want : Schedules \cup {NoEntry}, fired : Nat, last : 0..MaxJobs]
      /\ entry /= NoEntry => entry.job = asked.last
  BY ConstantsAssumption DEF Shape, Fits, ClientRecords, Recorded
<1>2. IdleClient \in ClientRecords /\ ClientKnows(IdleClient)
  BY DEF IdleClient, ClientRecords, Field, ClientKnows
<1>3. ASSUME Unlock(c) PROVE lock' = lock \/ (lock = c /\ lock' = NoOne)
  BY <1>3 DEF Unlock
<1>4. CASE Call(c)
  <2>1. UNCHANGED <<conf, now, entry, jobs, ticks, updates, asked>> /\ lock = NoOne /\ lock' = c
    BY <1>4 DEF Call, TryLock
  <2>2. ASSUME NEW s \in conf.schedules, clients' = [clients EXCEPT ![c].at = "read", ![c].want = s]
        PROVE  \E k : ClientMove(c, k)
    <3> DEFINE k == [clients[c] EXCEPT !.at = "read", !.want = s]
    <3>1. s \in Schedules
      BY ProfilesAssumption DEF Shape
    <3>2. k \in ClientRecords /\ k.at = "read" /\ k.want = s
      BY <1>1, <3>1 DEF ClientRecords
    <3>3. clients' = [clients EXCEPT ![c] = k]
      BY <1>1, <2>2 DEF Shape, ClientRecords
    <3> HIDE DEF k
    <3>4. ClientKnows(k)
      BY <3>1, <3>2 DEF ClientKnows
    <3> QED BY <1>1, <2>1, <3>2, <3>3, <3>4 DEF ClientMove
  <2>3. ASSUME clients' = [clients EXCEPT ![c].at = "remove"]
        PROVE  \E k : ClientMove(c, k)
    <3> DEFINE k == [clients[c] EXCEPT !.at = "remove"]
    <3>1. k \in ClientRecords /\ k.at = "remove" /\ clients' = [clients EXCEPT ![c] = k]
      BY <1>1, <2>3 DEF ClientRecords, Shape
    <3> HIDE DEF k
    <3>2. ClientKnows(k)
      BY <3>1 DEF ClientKnows
    <3> QED BY <1>1, <2>1, <3>1, <3>2 DEF ClientMove
  <2> QED BY <1>4, <2>2, <2>3 DEF Call
<1>5. CASE UpsertRead(c)
  <2> DEFINE s == clients[c].want
             new == Upserted(entry, s, now)
             k == [clients[c] EXCEPT !.at = "cas", !.raw = entry, !.new = new]
  <2>1. /\ UNCHANGED <<conf, now, entry, jobs, ticks, updates, asked>> /\ clients[c].at = "read"
        /\ \/ ClientLeave(c)
           \/ ~NoRun(NextRun(entry, s, now)) /\ clients' = [clients EXCEPT ![c].at = "cas", ![c].raw = entry, ![c].new = new] /\ lock' = lock
    BY <1>5 DEF UpsertRead
  <2>2. CASE ClientLeave(c)
    BY <1>1, <1>2, <1>3, <2>1, <2>2 DEF ClientMove, ClientLeave
  <2>3. CASE ~NoRun(NextRun(entry, s, now)) /\ clients' = [clients EXCEPT ![c].at = "cas", ![c].raw = entry, ![c].new = new] /\ lock' = lock
    <3>1. s \in Schedules
      BY <1>1, <2>1 DEF ClientKnows
    <3>2. /\ new \in EntryRecords /\ Schedule(new) = s
          /\ new.job = IF entry = NoEntry THEN 0 ELSE entry.job
          /\ new.iter = 0 \/ (entry /= NoEntry /\ new.iter = entry.iter)
      BY <1>1, <2>3, <3>1, UpsertedFacts
    <3> HIDE DEF new
    <3>3. k \in ClientRecords /\ k.at = "cas" /\ k.raw = entry /\ k.new = new /\ k.want = s
      BY <1>1, <3>2 DEF ClientRecords, Field
    <3>4. clients' = [clients EXCEPT ![c] = k]
      BY <1>1, <2>3 DEF Shape, ClientRecords
    <3> HIDE DEF k
    <3>5. ClientKnows(k)
      BY <3>1, <3>2, <3>3 DEF ClientKnows
    <3> QED BY <1>1, <2>1, <2>3, <3>3, <3>4, <3>5 DEF ClientMove
  <2> QED BY <2>1, <2>2, <2>3
<1>6. CASE UpsertCas(c)
  <2> DEFINE old == clients[c].raw
             new == clients[c].new
  <2>1. /\ UNCHANGED <<conf, now, jobs, ticks, updates>> /\ clients[c].at = "cas"
        /\ entry' = IF entry = old THEN new ELSE entry
    BY <1>6 DEF UpsertCas, CasSchedulerEntry
  <2>2. clients[c].want \in Schedules /\ new \in EntryRecords /\ new.job = IF old = NoEntry THEN 0 ELSE old.job
    BY <1>1, <2>1 DEF ClientKnows
  <2>3. CASE /\ entry = old /\ ClientLeave(c)
             /\ asked' = [want |-> clients[c].want, fired |-> IF new.iter = 0 THEN 0 ELSE asked.fired,
                          last |-> IF old = NoEntry THEN 0 ELSE asked.last]
    <3>1. asked' \in [want : Schedules \cup {NoEntry}, fired : Nat, last : 0..MaxJobs]
      BY <1>1, <2>2, <2>3, ConstantsAssumption
    <3>2. asked'.last = IF old = NoEntry THEN 0 ELSE asked.last
      BY <2>3
    <3> QED BY <1>1, <1>2, <1>3, <2>1, <2>2, <2>3, <3>1, <3>2 DEF ClientMove, ClientLeave, Field
  <2>4. CASE entry /= old /\ ClientLeave(c) /\ UNCHANGED asked
    BY <1>1, <1>2, <1>3, <2>1, <2>4 DEF ClientMove, ClientLeave
  <2>5. CASE /\ entry /= old /\ clients' = [clients EXCEPT ![c].at = "read", ![c].tries = @ + 1]
             /\ UNCHANGED <<lock, asked>>
    <3> DEFINE k == [clients[c] EXCEPT !.at = "read", !.tries = @ + 1]
    <3>1. clients[c].tries + 1 \in Nat
      BY <1>1
    <3>2. k \in ClientRecords /\ k.at = "read" /\ k.want = clients[c].want
      BY <1>1, <3>1 DEF ClientRecords
    <3>3. clients' = [clients EXCEPT ![c] = k]
      BY <1>1, <2>5 DEF Shape, ClientRecords
    <3> HIDE DEF k
    <3>4. ClientKnows(k)
      BY <2>2, <3>2 DEF ClientKnows
    <3> QED BY <1>1, <2>1, <2>5, <3>2, <3>3, <3>4 DEF ClientMove
  <2> QED BY <1>6, <2>3, <2>4, <2>5 DEF UpsertCas
<1>7. CASE RemoveJobScheduler(c)
  <2>1. /\ UNCHANGED <<conf, now, jobs, ticks, updates>> /\ ClientLeave(c)
        /\ entry' = NoEntry /\ asked' = [want |-> NoEntry, fired |-> 0, last |-> 0]
    BY <1>7 DEF RemoveJobScheduler
  <2>2. asked' \in [want : Schedules \cup {NoEntry}, fired : Nat, last : 0..MaxJobs] /\ asked'.last = 0
    BY <2>1, ConstantsAssumption
  <2> QED BY <1>1, <1>2, <1>3, <2>1, <2>2 DEF ClientMove, ClientLeave, Field
<1> QED BY <1>4, <1>5, <1>6, <1>7 DEF Client

(* The lock of a tick that is about to write does not expire. *)
LEMMA ExpiryFits ==
  ASSUME Shape, Fits, LockExpires, "late" \notin Races
  PROVE  Shape' /\ Fits'
<1>1. lock' = NoOne /\ UNCHANGED <<conf, now, entry, jobs, ticks, clients, updates, asked>> /\ NoOne \notin Ticks
  BY ConstantsAssumption DEF LockExpires
<1>2. \A s \in Ticks : ticks[s].at \in {"batch", "batchDelete"} => lock /= s
  <2> SUFFICES ASSUME NEW s \in Ticks, ticks[s].at \in {"batch", "batchDelete"}, lock = s PROVE FALSE
    OBVIOUS
  <2>1. Critical
    BY DEF Critical
  <2>2. ~Abandoned
    <3>1. s \notin Clients
      BY ConstantsAssumption
    <3> QED BY <3>1 DEF Abandoned
  <2> QED BY <2>1, <2>2 DEF LockExpires
<1>3. \A s \in Ticks : TickHolds(s)'
  BY <1>1, <1>2 DEF TickHolds, Fits
<1> QED BY <1>1, <1>3 DEF Shape, Fits, Recorded, NoOverlap, Live

(* The transaction of a tick that read e at t: job i is fired after the last one. *)
BatchOf(s, e, i, t) ==
  /\ e = ticks[s].raw /\ ticks[s].at = "batch" /\ t = ticks[s].now /\ ~OutOf(e)
  /\ jobs[i].state = "none" /\ i /= asked.last
  /\ entry' = Fired(e, i, t) /\ entry' \in Field
  /\ jobs' \in [1..MaxJobs -> [state : {"none", "live", "ended"}, after : BOOLEAN, prev : 0..MaxJobs]]
  /\ jobs'[i] = [state |-> "live", after |-> e.mode = "after", prev |-> asked.last]
  /\ \A j \in 1..MaxJobs \ {i} : jobs'[j] = jobs[j]
  /\ asked' \in [want : Schedules \cup {NoEntry}, fired : Nat, last : 0..MaxJobs]
  /\ asked'.want = asked.want /\ asked'.fired = asked.fired + 1 /\ asked'.last = i
  /\ ticks' = [ticks EXCEPT ![s] = IdleTick] /\ lock = s /\ lock' = NoOne
  /\ UNCHANGED <<conf, now, clients, updates>>

LEMMA BatchFacts ==
  ASSUME Shape, Fits, NEW s \in Ticks, TickBatch(s)
  PROVE  \E e \in EntryRecords, i \in 1..MaxJobs, t \in 1..now : BatchOf(s, e, i, t)
<1>1. /\ ticks[s] \in TickRecords /\ TickKnows(ticks[s], now) /\ TickHolds(s) /\ now \in 1..MaxTime
      /\ asked \in [want : Schedules \cup {NoEntry}, fired : Nat, last : 0..MaxJobs]
      /\ jobs \in [1..MaxJobs -> [state : {"none", "live", "ended"}, after : BOOLEAN, prev : 0..MaxJobs]]
  BY DEF Shape, Fits
<1>2. ticks[s].at = "batch" /\ Unused /= {}
  BY DEF TickBatch
<1>3. ticks[s].raw \in EntryRecords /\ ~OutOf(ticks[s].raw) /\ ticks[s].now \in 1..now /\ lock = s
  BY <1>1, <1>2 DEF TickKnows, TickHolds, TickRecords, Field
<1>4. PICK e \in EntryRecords, i \in Unused, t \in 1..now :
         e = ticks[s].raw /\ t = ticks[s].now /\ i = CHOOSE j \in Unused : TRUE
  BY <1>2, <1>3
<1>5. i \in 1..MaxJobs /\ jobs[i].state = "none"
  BY DEF Unused
<1>6. /\ entry' = Fired(e, i, t)
      /\ jobs' = [jobs EXCEPT ![i] = [state |-> "live", after |-> e.mode = "after", prev |-> asked.last]]
      /\ asked' = [asked EXCEPT !.fired = @ + 1, !.last = i]
      /\ Leave(s) /\ UNCHANGED <<conf, now, clients, updates>>
  BY <1>4, Zenon DEF TickBatch
<1>7. /\ asked' \in [want : Schedules \cup {NoEntry}, fired : Nat, last : 0..MaxJobs]
      /\ asked'.want = asked.want /\ asked'.fired = asked.fired + 1 /\ asked'.last = i
  <2>1. asked.fired + 1 \in Nat /\ i \in 0..MaxJobs
    BY <1>1, <1>5, ConstantsAssumption
  <2> QED BY <1>1, <1>6, <2>1
<1>8. /\ jobs' \in [1..MaxJobs -> [state : {"none", "live", "ended"}, after : BOOLEAN, prev : 0..MaxJobs]]
      /\ jobs'[i] = [state |-> "live", after |-> e.mode = "after", prev |-> asked.last]
      /\ \A j \in 1..MaxJobs \ {i} : jobs'[j] = jobs[j]
  <2> DEFINE b == e.mode = "after"
             r == [state |-> "live", after |-> b, prev |-> asked.last]
  <2>1. b \in BOOLEAN /\ asked.last \in 0..MaxJobs
    BY <1>1
  <2>2. jobs' = [jobs EXCEPT ![i] = r]
    BY <1>6
  <2> HIDE DEF b
  <2>3. r \in [state : {"none", "live", "ended"}, after : BOOLEAN, prev : 0..MaxJobs]
    BY <2>1
  <2>4. r = [state |-> "live", after |-> e.mode = "after", prev |-> asked.last]
    BY DEF b
  <2> HIDE DEF r
  <2> QED BY <1>1, <1>5, <2>2, <2>3, <2>4
<1>9. entry' \in Field
  <2>1. t \in Int
    BY <1>1, ConstantsAssumption
  <2> QED BY <1>5, <1>6, <2>1, FiredFacts DEF Field
<1>10. i /= asked.last
  BY <1>5 DEF Fits, Recorded
<1>11. ticks' = [ticks EXCEPT ![s] = IdleTick] /\ lock' = NoOne
  BY <1>3, <1>6 DEF Leave, Unlock
<1>12. BatchOf(s, e, i, t)
  BY <1>2, <1>3, <1>4, <1>5, <1>6, <1>7, <1>8, <1>9, <1>10, <1>11 DEF BatchOf
<1> QED BY <1>5, <1>12

LEMMA BatchFits ==
  ASSUME Shape, Fits, NEW s \in Ticks, TickBatch(s)
  PROVE  Shape' /\ Fits'
<1>0. PICK e \in EntryRecords, i \in 1..MaxJobs, t \in 1..now : BatchOf(s, e, i, t)
  BY BatchFacts
<1>1. /\ e = ticks[s].raw /\ ticks[s].at = "batch"
      /\ jobs[i].state = "none" /\ i /= asked.last
      /\ entry' = Fired(e, i, t) /\ entry' \in Field
      /\ jobs' \in [1..MaxJobs -> [state : {"none", "live", "ended"}, after : BOOLEAN, prev : 0..MaxJobs]]
      /\ jobs'[i] = [state |-> "live", after |-> e.mode = "after", prev |-> asked.last]
      /\ \A j \in 1..MaxJobs \ {i} : jobs'[j] = jobs[j]
      /\ asked' \in [want : Schedules \cup {NoEntry}, fired : Nat, last : 0..MaxJobs]
      /\ asked'.last = i
      /\ ticks' = [ticks EXCEPT ![s] = IdleTick] /\ lock = s /\ lock' = NoOne
      /\ UNCHANGED <<conf, now, clients, updates>>
  BY <1>0, Zenon DEF BatchOf
<1>2. ticks' \in [Ticks -> TickRecords] /\ ticks'[s] = IdleTick /\ \A r \in Ticks \ {s} : ticks'[r] = ticks[r]
  BY <1>1, IdleKnows DEF Shape
<1>3. Shape'
  BY <1>1, <1>2 DEF Shape
<1>4. \A r \in Ticks : TickKnows(ticks'[r], now')
  <2>1. now \in Nat
    BY ConstantsAssumption DEF Shape
  <2> QED BY <1>1, <1>2, <2>1, IdleKnows DEF Fits
<1>5. \A r \in Ticks : TickHolds(r)'
  <2>1. NoOne \notin Ticks
    BY ConstantsAssumption
  <2> QED BY <1>1, <1>2, <2>1, IdleKnows DEF TickHolds, Fits
<1>6. Recorded'
  <2>1. entry' /= NoEntry => entry'.job = i
    <3>1. t \in Int
      BY ConstantsAssumption DEF Shape
    <3> QED BY <1>1, <3>1, FiredFacts
  <2>2. asked.last \in 0..MaxJobs /\ \A j \in 1..MaxJobs : jobs[j].prev \in 0..MaxJobs
    BY DEF Shape
  <2> QED BY <1>1, <2>1, <2>2 DEF Fits, Recorded
<1>7. NoOverlap'
  <2>1. e.mode = "after" => Free(asked, jobs)
    BY <1>1 DEF Fits, TickHolds
  <2>2. \A j \in 1..MaxJobs : jobs[j].prev \in 0..MaxJobs /\ (jobs[j].prev /= 0 => jobs[j].prev /= i)
    BY <1>1 DEF Shape, Fits, Recorded
  <2>3. asked.last \in 0..MaxJobs
    BY DEF Shape
  <2> SUFFICES ASSUME NEW j \in 1..MaxJobs, jobs'[j].state = "live", jobs'[j].after, jobs'[j].prev /= 0
               PROVE  jobs'[jobs'[j].prev].state /= "live"
    BY DEF NoOverlap, Live
  <2>4. CASE j = i
    BY <1>1, <2>1, <2>3, <2>4 DEF Free
  <2>5. CASE j /= i
    BY <1>1, <2>2, <2>5 DEF Fits, NoOverlap, Live
  <2> QED BY <2>4, <2>5
<1> QED BY <1>1, <1>3, <1>4, <1>5, <1>6, <1>7 DEF Fits

LEMMA FitsInit ==
  ASSUME Init
  PROVE  Shape /\ Fits
<1>1. Shape
  <2>1. asked \in [want : Schedules \cup {NoEntry}, fired : Nat, last : 0..MaxJobs]
    BY ConstantsAssumption DEF Init
  <2>2. \A i \in 1..MaxJobs : [state |-> "none", after |-> FALSE, prev |-> 0]
                               \in [state : {"none", "live", "ended"}, after : BOOLEAN, prev : 0..MaxJobs]
    BY ConstantsAssumption
  <2>3. IdleClient \in ClientRecords
    BY DEF IdleClient, ClientRecords, Field
  <2>4. now \in 1..MaxTime
    BY ConstantsAssumption DEF Init
  <2> QED BY <2>1, <2>2, <2>3, <2>4, IdleKnows DEF Init, Shape, Field
<1>2. \A c \in Clients : ClientKnows(clients[c])
  BY DEF Init, IdleClient, ClientKnows
<1>3. \A s \in Ticks : ticks[s] = IdleTick /\ lock /= s
  BY ConstantsAssumption DEF Init
<1>4. \A s \in Ticks : TickKnows(ticks[s], now) /\ TickHolds(s)
  BY <1>3, IdleKnows DEF Init, TickHolds
<1> QED BY <1>1, <1>2, <1>4 DEF Init, Fits, Recorded, NoOverlap, Live

LEMMA FitsStep ==
  ASSUME Shape, Fits, [Next]_vars, "late" \notin Races
  PROVE  Shape' /\ Fits'
<1>1. ASSUME NEW s \in Ticks, Tick(s) \/ TickCrash(s) PROVE Shape' /\ Fits'
  BY <1>1, BatchFits, TickMoves, TickMoveFits DEF Tick
<1>2. ASSUME NEW c \in Clients, Call(c) \/ Client(c) PROVE Shape' /\ Fits'
  BY <1>2, ClientMoves, ClientMoveFits
<1>3. ASSUME Clock \/ (\E i \in 1..MaxJobs : JobEnds(i)) \/ \E u \in updates : Update(u) PROVE Shape' /\ Fits'
  BY <1>3, EndMoves, UpdateMoves, EndMoveFits
<1>4. CASE UNCHANGED vars
  BY <1>4 DEF vars, Shape, Fits, TickHolds, Recorded, NoOverlap, Live
<1> QED BY <1>1, <1>2, <1>3, <1>4, ExpiryFits DEF Next

(* repeatAfterComplete never starts a run next to the one before it, whatever *)
(* upserts, switches of mode, removals, crashes and repairs come between them *)
(* and however the completions race with them.  It is proved for the runs in  *)
(* which the lock of a tick outlives its last renewal by the one transaction  *)
(* that fires the job; a lost client lock does no harm.                       *)
THEOREM OneRunAtATime ==
  ASSUME "late" \notin Races
  PROVE  Spec => []NoOverlap
<1>1. Init => Shape /\ Fits
  BY FitsInit
<1>2. Shape /\ Fits /\ [Next]_vars => (Shape /\ Fits)'
  BY FitsStep
<1>3. Fits => NoOverlap
  BY DEF Fits
<1> QED BY <1>1, <1>2, <1>3, PTL DEF Spec

-----------------------------------------------------------------------------
(* The entry stays what clients asked for.  What the holder of the lock and a *)
(* completion about to delete have read agrees with what was asked for last.  *)

TickSees(k, a, e) ==
  k.raw /= NoEntry => /\ a.want = Schedule(k.raw) /\ a.fired = k.raw.iter
                      /\ k.raw.mode /= "after" => e \in {k.raw, NoEntry}
UpdateSees(u, a) == u.at = "delete" /\ a.want /= NoEntry => a.want = Schedule(u.raw) /\ a.fired >= u.raw.iter
EntrySees(e, a) == e /= NoEntry => a.want = Schedule(e) /\ a.fired = e.iter

Sees ==
  /\ \A s \in Ticks : lock = s => TickSees(ticks[s], asked, entry)
  /\ \A c \in Clients : clients[c].at /= "idle" => lock = c
  /\ \A u \in updates : UpdateSees(u, asked)
  /\ EntrySees(entry, asked)

Keeps == UpsertKept' /\ DeletedWhenSpent /\ LimitKept

LEMMA SpentBy ==
  ASSUME Shape, entry \in EntryRecords, NEW t \in 1..now,
         OutOf(entry) \/ Until(entry.end, entry.next) = Null \/ Following(entry, t) = Null
  PROVE  Spent
<1>1. entry.iter \in Nat /\ entry.limit \in Nat
  BY ConstantsAssumption DEF EntryRecords
<1>2. OutOf(entry) => entry.limit > 0 /\ entry.iter + (IF Fires THEN 1 ELSE 0) >= entry.limit
  BY <1>1 DEF OutOf
<1> QED BY <1>2 DEF Spent

LEMMA TurnSees ==
  ASSUME entry \in Field, Turns
  PROVE  /\ \A k, a : TickSees(k, a, entry) => TickSees(k, a, entry')
         /\ \A a : EntrySees(entry, a) => EntrySees(entry', a)
<1>1. entry' = entry \/ entry' = NoEntry \/ (entry /= NoEntry /\ entry.mode = "after" /\ Same(entry, entry'))
  BY ConstantsAssumption DEF Turns
<1> QED BY <1>1 DEF TickSees, EntrySees, Same

(* The cause that a tick or a completion found in e holds of an entry of the same schedule. *)
LEMMA CauseKept ==
  ASSUME NEW e \in EntryRecords, NEW f \in EntryRecords, Schedule(e) = Schedule(f), f.iter >= e.iter, NEW t \in Int
  PROVE  /\ OutOf(e) => OutOf(f)
         /\ e.mode = "after" /\ Following(e, t) = Null => Following(f, t) = Null
         /\ e.mode = "after" /\ e.next <= t /\ Until(e.end, e.next) = Null => Following(f, t) = Null
<1>1. e.mode = f.mode /\ e.gap = f.gap /\ e.end = f.end /\ e.limit = f.limit
  BY SameFields
<1>2. /\ e.iter \in Nat /\ f.iter \in Nat /\ e.limit \in Nat /\ e.gap \in Nat /\ e.end \in Nat
      /\ e.next \in Nat
  BY ConstantsAssumption DEF EntryRecords
<1>3. OutOf(e) => OutOf(f)
  BY <1>1, <1>2 DEF OutOf
<1>4. e.mode = "after" => Following(e, t) = Until(e.end, t + e.gap) /\ Following(f, t) = Until(e.end, t + e.gap)
  BY <1>1 DEF Following
<1>5. e.next <= t /\ Until(e.end, e.next) = Null => Until(e.end, t + e.gap) = Null
  BY <1>2 DEF Until, Null
<1> QED BY <1>3, <1>4, <1>5

(* Nothing fires. *)
LEMMA Quiet ==
  ASSUME Shape, \/ jobs' = jobs
                \/ \E i \in 1..MaxJobs : jobs[i].state = "live" /\ jobs' = [jobs EXCEPT ![i].state = "ended"]
  PROVE  ~Fires /\ LimitKept
<1>1. ~Fires
  BY DEF Fires, Shape
<1> QED BY <1>1 DEF LimitKept

(* A tick takes over what it reads only from the entry, and the lock only when free. *)
LEMMA TickReads ==
  ASSUME Shape, NEW s \in Ticks,
         \/ TickLock(s) \/ TickRead(s) \/ TickParked(s) \/ TickAdvance(s) \/ TickAwait(s)
         \/ TickRenew(s) \/ TickBatchDelete(s) \/ TickCrash(s)
  PROVE  /\ \A r \in Ticks \ {s} : ticks'[r] = ticks[r]
         /\ \/ ticks'[s].raw = NoEntry
            \/ lock' = lock /\ ticks'[s].raw \in {ticks[s].raw, entry}
               /\ (ticks'[s].raw = ticks[s].raw \/ entry' = entry)
         /\ lock' = lock \/ (lock = s /\ lock' = NoOne) \/ (lock = NoOne /\ lock' = s)
<1>1. IdleTick.raw = NoEntry /\ ticks[s] \in TickRecords /\ ticks \in [Ticks -> TickRecords]
  BY DEF IdleTick, Shape
<1>2. ASSUME Leave(s)
      PROVE  /\ \A r \in Ticks \ {s} : ticks'[r] = ticks[r]
             /\ ticks'[s].raw = NoEntry /\ (lock' = lock \/ (lock = s /\ lock' = NoOne))
  BY <1>1, <1>2 DEF Leave, Unlock
<1>3. ASSUME NEW at, Goto(s, at)
      PROVE  (\A r \in Ticks \ {s} : ticks'[r] = ticks[r]) /\ ticks'[s].raw = ticks[s].raw /\ lock' = lock
  BY <1>1, <1>3 DEF Goto, TickRecords
<1>4. CASE TickLock(s)
  BY <1>1, <1>4 DEF TickLock, TryLock, IdleTick
<1>5. CASE TickRead(s)
  <2>1. CASE Leave(s)
    BY <1>2, <2>1
  <2>2. ASSUME NEW v, ticks' = [ticks EXCEPT ![s].at = v, ![s].raw = entry], lock' = lock, entry' = entry
        PROVE  (\A r \in Ticks \ {s} : ticks'[r] = ticks[r]) /\ ticks'[s].raw = entry
    BY <1>1, <2>2 DEF TickRecords
  <2> QED BY <1>5, <2>1, <2>2 DEF TickRead
<1>6. CASE TickParked(s)
  BY <1>2, <1>3, <1>6, Zenon DEF TickParked
<1>7. CASE TickAdvance(s)
  BY <1>2, <1>7 DEF TickAdvance
<1>8. CASE TickAwait(s)
  BY <1>2, <1>3, <1>8, Zenon DEF TickAwait
<1>9. CASE TickRenew(s)
  BY <1>2, <1>3, <1>9, Zenon DEF TickRenew
<1>10. CASE TickBatchDelete(s)
  BY <1>2, <1>10 DEF TickBatchDelete
<1>11. CASE TickCrash(s)
  BY <1>1, <1>11 DEF TickCrash
<1> QED BY <1>4, <1>5, <1>6, <1>7, <1>8, <1>9, <1>10, <1>11

(* Nothing but a tick about to delete, or the end of a wait, deletes the entry. *)
LEMMA TickKeeps ==
  ASSUME Shape, Fits, Sees, NEW s \in Ticks,
         \/ TickLock(s) \/ TickRead(s) \/ TickParked(s) \/ TickAdvance(s) \/ TickAwait(s)
         \/ TickRenew(s) \/ TickBatchDelete(s) \/ TickCrash(s)
  PROVE  DeletedWhenSpent
<1> SUFFICES ASSUME entry /= NoEntry, entry' = NoEntry PROVE Spent
  BY DEF DeletedWhenSpent
<1> DEFINE e == ticks[s].raw
           t == ticks[s].now
<1>1. /\ entry \in EntryRecords /\ e \in Field /\ now \in Nat /\ TickKnows(ticks[s], now)
      /\ TickHolds(s)
  BY ConstantsAssumption DEF Shape, Fits, Field, TickRecords
<1>2. TickAdvance(s) \/ TickBatchDelete(s) \/ entry' = entry
        \/ (TickAwait(s) /\ entry = e /\ entry' = [e EXCEPT !.next = 0])
  BY DEF TickLock, TickRead, TickParked, TickAwait, TickRenew, TickCrash
<1>3. CASE TickAdvance(s)
  <2>1. entry = e /\ Advanced(e, t) = NoEntry /\ t \in 1..now /\ t \in Nat
    BY <1>1, <1>3 DEF TickAdvance, CasSchedulerEntry, TickKnows
  <2>2. OutOf(entry) \/ Following(entry, t) = Null
    BY <1>1, <2>1, AdvancedFacts
  <2> QED BY <1>1, <2>1, <2>2, SpentBy
<1>4. CASE TickBatchDelete(s)
  <2>1. lock = s /\ e \in EntryRecords /\ t \in 1..now /\ t \in Nat
        /\ \/ OutOf(e)
           \/ Until(e.end, e.next) = Null /\ e.next <= t
           \/ e.mode = "after" /\ Following(e, t) = Null
    BY <1>1, <1>4 DEF TickBatchDelete, TickKnows, TickHolds, Field
  <2>2. e /= NoEntry
    BY <2>1, ConstantsAssumption
  <2>3. Schedule(e) = Schedule(entry) /\ entry.iter = e.iter /\ (e.mode /= "after" => entry = e)
    BY <2>1, <2>2 DEF Sees, TickSees, EntrySees
  <2>4. entry.iter >= e.iter
    BY <1>1, <2>3 DEF EntryRecords
  <2>5. OutOf(entry) \/ Until(entry.end, entry.next) = Null \/ Following(entry, t) = Null
    BY <1>1, <2>1, <2>3, <2>4, CauseKept
  <2> QED BY <1>1, <2>1, <2>5, SpentBy
<1>5. CASE TickAwait(s) /\ entry = e /\ entry' = [e EXCEPT !.next = 0]
  <2>1. [e EXCEPT !.next = 0] \in EntryRecords
    BY <1>1, <1>5 DEF EntryRecords
  <2> QED BY <1>5, <2>1, ConstantsAssumption
<1> QED BY <1>2, <1>3, <1>4, <1>5

LEMMA TickStaysTrue ==
  ASSUME Shape, Fits, Sees, NEW s \in Ticks,
         \/ TickLock(s) \/ TickRead(s) \/ TickParked(s) \/ TickAdvance(s) \/ TickAwait(s)
         \/ TickRenew(s) \/ TickBatchDelete(s) \/ TickCrash(s)
  PROVE  Sees' /\ Keeps
<1>1. PICK k : TickMove(s, k)
  BY TickMoves
<1>2. /\ Turns /\ jobs' = jobs /\ clients' = clients /\ updates' = updates /\ asked' = asked /\ entry \in Field
      /\ NoOne \notin Ticks /\ NoOne \notin Clients /\ s \notin Clients
  BY <1>1, ConstantsAssumption DEF TickMove, Shape
<1>3. EntrySees(entry', asked')
  BY <1>2, TurnSees DEF Sees
<1>4. \A r \in Ticks : lock' = r => TickSees(ticks'[r], asked', entry')
  <2> SUFFICES ASSUME NEW r \in Ticks, lock' = r PROVE TickSees(ticks'[r], asked', entry')
    OBVIOUS
  <2>1. CASE r /= s
    <3>1. lock = r /\ ticks'[r] = ticks[r]
      BY <1>2, <2>1, TickReads
    <3> QED BY <1>2, <3>1, TurnSees DEF Sees
  <2>2. CASE r = s /\ ticks'[s].raw = NoEntry
    BY <2>2 DEF TickSees
  <2>3. CASE r = s /\ lock = s /\ ticks'[s].raw = ticks[s].raw
    <3>1. TickSees(ticks[s], asked, entry')
      BY <1>2, <2>3, TurnSees DEF Sees
    <3> QED BY <1>2, <2>3, <3>1 DEF TickSees
  <2>4. CASE r = s /\ ticks'[s].raw = entry /\ entry' = entry
    BY <1>2, <2>4 DEF TickSees, Sees, EntrySees
  <2> QED BY <2>1, <2>2, <2>3, <2>4, TickReads
<1>5. \A c \in Clients : clients'[c].at /= "idle" => lock' = c
  <2>1. lock' = lock \/ (lock = s /\ lock' = NoOne) \/ (lock = NoOne /\ lock' = s)
    BY TickReads
  <2> QED BY <1>2, <2>1 DEF Sees
<1>6. \A u \in updates' : UpdateSees(u, asked')
  BY <1>2 DEF Sees
<1>7. Sees'
  BY <1>3, <1>4, <1>5, <1>6 DEF Sees
<1>8. UpsertKept'
  BY <1>3 DEF EntrySees, UpsertKept
<1> QED BY <1>2, <1>7, <1>8, TickKeeps, Quiet DEF Keeps

LEMMA BatchStaysTrue ==
  ASSUME Shape, Fits, Sees, NEW s \in Ticks, TickBatch(s)
  PROVE  Sees' /\ Keeps
<1>1. PICK e \in EntryRecords, i \in 1..MaxJobs, t \in 1..now : BatchOf(s, e, i, t)
  BY BatchFacts
<1>2. /\ e = ticks[s].raw /\ ~OutOf(e) /\ entry' = Fired(e, i, t)
      /\ jobs[i].state = "none" /\ jobs'[i].state = "live"
      /\ asked'.want = asked.want /\ asked'.fired = asked.fired + 1
      /\ lock = s /\ lock' = NoOne /\ clients' = clients /\ updates' = updates
      /\ NoOne \notin Ticks /\ s \notin Clients /\ NoEntry \notin EntryRecords /\ t \in Nat /\ entry \in Field
      /\ asked.fired \in Nat
  BY <1>1, ConstantsAssumption DEF BatchOf, Shape
<1>3. asked.want = Schedule(e) /\ asked.fired = e.iter /\ (e.mode /= "after" => entry \in {e, NoEntry})
  BY <1>2 DEF Sees, TickSees
<1>4. \/ entry' = NoEntry /\ ((e.limit > 0 /\ e.iter + 1 >= e.limit) \/ (e.mode /= "after" /\ Following(e, t) = Null))
      \/ entry' \in EntryRecords /\ Schedule(entry') = Schedule(e) /\ entry'.iter = e.iter + 1
  BY <1>2, FiredFacts
<1>5. EntrySees(entry', asked')
  BY <1>2, <1>3, <1>4 DEF EntrySees
<1>6. \A u \in updates' : UpdateSees(u, asked')
  <2>1. \A u \in updates : u \in UpdateRecords /\ (u.at = "delete" => u.raw \in EntryRecords)
    BY DEF Shape, Fits, UpdateKnows
  <2>2. \A f \in EntryRecords : f.iter \in Nat
    BY DEF EntryRecords
  <2> QED BY <1>2, <2>1, <2>2 DEF Sees, UpdateSees
<1>7. Sees'
  BY <1>2, <1>5, <1>6 DEF Sees
<1>8. Fires
  BY <1>2 DEF Fires
<1>9. DeletedWhenSpent
  <2> SUFFICES ASSUME entry /= NoEntry, entry' = NoEntry PROVE Spent
    BY DEF DeletedWhenSpent
  <2>1. entry \in EntryRecords /\ Schedule(entry) = Schedule(e) /\ entry.iter = e.iter
    BY <1>2, <1>3 DEF Sees, EntrySees, Field
  <2>2. CASE e.limit > 0 /\ e.iter + 1 >= e.limit
    <3>1. entry.limit = e.limit
      BY <2>1, SameFields
    <3> QED BY <1>8, <2>1, <2>2, <3>1 DEF Spent
  <2>3. CASE e.mode /= "after" /\ Following(e, t) = Null
    <3>1. entry = e
      BY <1>3, <2>3
    <3> QED BY <2>1, <2>3, <3>1, SpentBy
  <2> QED BY <1>2, <1>4, <2>2, <2>3
<1>10. LimitKept
  <2>1. asked.want /= NoEntry /\ asked.want.limit = e.limit /\ e.limit \in Nat /\ e.iter \in Nat
    <3>1. Schedule(e) \in Schedules /\ Schedule(e).limit = e.limit /\ e.limit \in Nat /\ e.iter \in Nat
      BY ConstantsAssumption DEF EntryRecords, Schedules, Schedule
    <3> QED BY <1>3, <3>1, ConstantsAssumption
  <2> QED BY <1>2, <1>3, <2>1 DEF LimitKept, OutOf
<1> QED BY <1>5, <1>7, <1>9, <1>10 DEF Keeps, EntrySees, UpsertKept

(* No client acts on a lock that it has lost, and no upsert lands before a deletion. *)
LEMMA ClientStaysTrue ==
  ASSUME Shape, Fits, Sees, NEW c \in Clients, Call(c) \/ Client(c), "delete" \notin Races
  PROVE  Sees' /\ Keeps
<1>1. /\ UNCHANGED <<jobs, ticks, updates>> /\ NoOne \notin Clients /\ c \notin Ticks /\ NoOne \notin Ticks
      /\ entry \in Field /\ clients \in [Clients -> ClientRecords] /\ IdleClient.at = "idle"
  BY ConstantsAssumption DEF Call, Client, UpsertRead, UpsertCas, RemoveJobScheduler, Shape, IdleClient
<1>2. lock \in {c, NoOne} /\ lock' \in {c, NoOne} /\ (clients'[c].at /= "idle" => lock' = c)
  <2>1. CASE Call(c)
    BY <2>1 DEF Call, TryLock
  <2>2. CASE clients[c].at /= "idle" /\ ClientLeave(c)
    <3>1. lock = c /\ clients'[c] = IdleClient
      BY <1>1, <2>2 DEF ClientLeave, Sees
    <3> QED BY <1>1, <2>2, <3>1 DEF ClientLeave, Unlock
  <2>3. CASE clients[c].at /= "idle" /\ lock' = lock
    BY <2>3 DEF Sees
  <2> QED BY <2>1, <2>2, <2>3 DEF Client, UpsertRead, UpsertCas, RemoveJobScheduler
<1>3. \A s \in Ticks : lock' = s => TickSees(ticks'[s], asked', entry')
  BY <1>1, <1>2
<1>4. \A d \in Clients : clients'[d].at /= "idle" => lock' = d
  <2> SUFFICES ASSUME NEW d \in Clients, clients'[d].at /= "idle", d /= c PROVE FALSE
    BY <1>2
  <2>1. clients'[d] = clients[d]
    BY <1>1 DEF Call, Client, UpsertRead, UpsertCas, RemoveJobScheduler, ClientLeave
  <2> QED BY <1>1, <1>2, <2>1 DEF Sees
<1>5. /\ EntrySees(entry', asked') /\ (\A u \in updates' : UpdateSees(u, asked'))
      /\ entry' = entry \/ entry' /= NoEntry \/ asked'.want = NoEntry
  <2>1. CASE entry' = entry /\ asked' = asked
    BY <1>1, <2>1 DEF Sees
  <2>2. CASE UpsertCas(c) /\ entry = clients[c].raw
    <3> DEFINE old == clients[c].raw
               new == clients[c].new
    <3>1. /\ entry' = new /\ asked'.want = clients[c].want
          /\ asked'.fired = IF new.iter = 0 THEN 0 ELSE asked.fired
          /\ clients[c].at = "cas"
      BY <2>2 DEF UpsertCas, CasSchedulerEntry
    <3>2. /\ new \in EntryRecords /\ Schedule(new) = clients[c].want
          /\ new.iter = 0 \/ (old /= NoEntry /\ new.iter = old.iter)
      BY <3>1 DEF Fits, ClientKnows
    <3>3. EntrySees(entry', asked')
      BY <2>2, <3>1, <3>2 DEF Sees, EntrySees
    <3>4. \A u \in updates : u.at /= "delete"
      BY <2>2 DEF UpsertCas
    <3>5. entry' /= NoEntry
      BY <3>1, <3>2, ConstantsAssumption
    <3> QED BY <1>1, <3>3, <3>4, <3>5 DEF UpdateSees
  <2>3. CASE RemoveJobScheduler(c)
    <3>1. entry' = NoEntry /\ asked'.want = NoEntry
      BY <2>3 DEF RemoveJobScheduler
    <3> QED BY <3>1 DEF EntrySees, UpdateSees
  <2>4. UpsertCas(c) /\ entry /= clients[c].raw => entry' = entry /\ asked' = asked
    BY DEF UpsertCas, CasSchedulerEntry
  <2> QED BY <2>1, <2>2, <2>3, <2>4 DEF Call, Client, UpsertRead
<1>6. Sees'
  BY <1>3, <1>4, <1>5 DEF Sees
<1>7. UpsertKept' /\ DeletedWhenSpent
  BY <1>5 DEF EntrySees, UpsertKept, DeletedWhenSpent
<1> QED BY <1>1, <1>6, <1>7, Quiet DEF Keeps

(* A job ends, or a completion moves the entry on. *)
LEMMA EndStaysTrue ==
  ASSUME Shape, Fits, Sees, EndMove, DeletedWhenSpent,
         \A u \in updates' \ updates : u.at = "delete" => entry /= NoEntry /\ u.raw = entry
  PROVE  Sees' /\ Keeps
<1>1. Turns /\ UNCHANGED <<lock, ticks, clients, asked>> /\ entry \in Field /\ asked.fired \in Nat
  BY DEF EndMove, Shape
<1>2. EntrySees(entry', asked')
  BY <1>1, TurnSees DEF Sees
<1>3. \A s \in Ticks : lock' = s => TickSees(ticks'[s], asked', entry')
  BY <1>1, TurnSees DEF Sees
<1>4. \A u \in updates' : UpdateSees(u, asked')
  <2>1. entry /= NoEntry => asked.want = Schedule(entry) /\ asked.fired = entry.iter
    BY DEF Sees, EntrySees
  <2> SUFFICES ASSUME NEW u \in updates', u \notin updates PROVE UpdateSees(u, asked)
    BY <1>1 DEF Sees
  <2> QED BY <1>1, <2>1 DEF UpdateSees
<1>5. Sees'
  BY <1>1, <1>2, <1>3, <1>4 DEF Sees
<1>6. LimitKept
  BY Quiet DEF EndMove
<1> QED BY <1>2, <1>5, <1>6 DEF Keeps, EntrySees, UpsertKept

LEMMA JobStaysTrue ==
  ASSUME Shape, Fits, Sees, Clock \/ \E i \in 1..MaxJobs : JobEnds(i)
  PROVE  Sees' /\ Keeps
<1>1. EndMove
  BY EndMoves
<1>2. \A u \in updates' \ updates : u.at = "read"
  BY DEF Clock, JobEnds, Completed, FailedByServer, EndsUnseen
<1>3. DeletedWhenSpent
  <2> SUFFICES ASSUME entry /= NoEntry, entry' = NoEntry PROVE Spent
    BY DEF DeletedWhenSpent
  <2>1. entry \in EntryRecords /\ now \in 1..now /\ now \in Nat
    BY ConstantsAssumption DEF Shape, Field
  <2>2. entry' = entry \/ Advanced(entry, now) = NoEntry
    BY DEF Clock, JobEnds, Completed, FailedByServer, EndsUnseen
  <2> QED BY <2>1, <2>2, AdvancedFacts, SpentBy
<1> QED BY <1>1, <1>2, <1>3, EndStaysTrue

LEMMA UpdateStaysTrue ==
  ASSUME Shape, Fits, Sees, NEW u \in updates, Update(u)
  PROVE  Sees' /\ Keeps
<1>1. EndMove
  BY UpdateMoves
<1>2. \A v \in updates' \ updates : v.at = "delete" => entry /= NoEntry /\ v.raw = entry
  <2>1. u \in UpdateRecords
    BY DEF Shape
  <2>2. CASE UpdateRead(u)
    <3>1. ASSUME NEW at, NEW v, v = [u EXCEPT !.raw = entry, !.at = at] PROVE v.raw = entry
      BY <2>1, <3>1 DEF UpdateRecords
    <3> QED BY <2>2, <3>1 DEF UpdateRead, Becomes
  <2>3. CASE UpdateCas(u)
    <3>1. ASSUME NEW v, v = [u EXCEPT !.at = "read", !.raw = NoEntry, !.tries = @ + 1] PROVE v.at = "read"
      BY <2>1, <3>1 DEF UpdateRecords
    <3> QED BY <2>3, <3>1 DEF UpdateCas, Becomes
  <2>4. CASE UpdateDelete(u)
    BY <2>4 DEF UpdateDelete, Becomes
  <2> QED BY <2>2, <2>3, <2>4 DEF Update
<1>3. DeletedWhenSpent
  <2> SUFFICES ASSUME entry /= NoEntry, entry' = NoEntry PROVE Spent
    BY DEF DeletedWhenSpent
  <2> DEFINE e == u.raw
             t == u.now
  <2>1. /\ entry \in EntryRecords /\ t \in 1..now /\ t \in Nat /\ UpdateKnows(u, now)
        /\ asked.want = Schedule(entry) /\ asked.fired = entry.iter /\ asked.want /= NoEntry
    <3>1. entry \in EntryRecords /\ Schedule(entry) \in Schedules
      BY DEF Shape, Field, EntryRecords, Schedules, Schedule
    <3> QED BY <3>1, ConstantsAssumption DEF Shape, Fits, UpdateKnows, Sees, EntrySees
  <2>2. CASE UpdateCas(u)
    <3>1. entry = e /\ Advanced(e, t) = NoEntry
      BY <2>2 DEF UpdateCas, UpdateWrites, CasSchedulerEntry
    <3>2. OutOf(entry) \/ Following(entry, t) = Null
      BY <2>1, <3>1, AdvancedFacts
    <3> QED BY <2>1, <3>2, SpentBy
  <2>3. CASE UpdateDelete(u)
    <3>1. e \in EntryRecords /\ e.mode = "after" /\ (OutOf(e) \/ Following(e, t) = Null)
      BY <2>1, <2>3 DEF UpdateDelete, UpdateKnows, Parked
    <3>2. Schedule(e) = Schedule(entry) /\ entry.iter >= e.iter
      BY <2>1, <2>3 DEF UpdateDelete, Sees, UpdateSees
    <3>3. OutOf(entry) \/ Following(entry, t) = Null
      BY <2>1, <3>1, <3>2, CauseKept
    <3> QED BY <2>1, <3>3, SpentBy
  <2>4. UpdateRead(u) => entry' = entry
    BY DEF UpdateRead
  <2> QED BY <2>2, <2>3, <2>4 DEF Update
<1> QED BY <1>1, <1>2, <1>3, EndStaysTrue

LEMMA ExpiryStaysTrue ==
  ASSUME Shape, Fits, Sees, LockExpires, "slow" \notin Races
  PROVE  Sees' /\ Keeps
<1>1. /\ lock' = NoOne /\ UNCHANGED <<entry, jobs, ticks, clients, updates, asked>>
      /\ NoOne \notin Ticks /\ NoOne \notin Clients
  BY ConstantsAssumption DEF LockExpires
<1>2. \A c \in Clients : clients[c].at = "idle"
  <2> SUFFICES ASSUME NEW c \in Clients, clients[c].at /= "idle" PROVE FALSE
    OBVIOUS
  <2>1. lock = c /\ c \notin Ticks
    BY ConstantsAssumption DEF Sees
  <2> QED BY <2>1 DEF LockExpires, Abandoned, Critical
<1>3. Sees'
  BY <1>1, <1>2 DEF Sees
<1>4. UpsertKept' /\ DeletedWhenSpent
  BY <1>1, <1>3 DEF Sees, EntrySees, UpsertKept, DeletedWhenSpent
<1> QED BY <1>1, <1>3, <1>4, Quiet DEF Keeps

(* The entry is what the last successful upsert asked for, it is deleted only   *)
(* by a removal or when it has no run left, and nothing is fired beyond its     *)
(* limit, whatever ticks, completions and crashes come between.  It is proved   *)
(* for the runs in which a live holder's lock outlives the one write it guards, *)
(* and no upsert lands between the read and the plain deletion of a completion. *)
THEOREM StaysAsAsked ==
  ASSUME Races = {}
  PROVE  Spec => AsAsked
<1> DEFINE IInv == Shape /\ Fits /\ Sees
<1>1. Init => IInv
  <2>1. Init => Sees
    <3>1. NoOne \notin Ticks /\ NoOne \notin Clients /\ IdleClient.at = "idle"
      BY ConstantsAssumption DEF IdleClient
    <3>2. Init => /\ lock = NoOne /\ entry = NoEntry /\ updates = {}
                  /\ \A c \in Clients : clients[c] = IdleClient
      BY DEF Init
    <3> QED BY <3>1, <3>2 DEF Sees, EntrySees
  <2> QED BY <2>1, FitsInit
<1>2. IInv /\ Next => Sees' /\ Keeps
  <2> SUFFICES ASSUME IInv, Next PROVE Sees' /\ Keeps
    OBVIOUS
  <2>1. ASSUME NEW s \in Ticks, Tick(s) \/ TickCrash(s) PROVE Sees' /\ Keeps
    BY <2>1, BatchStaysTrue, TickStaysTrue DEF Tick
  <2>2. ASSUME NEW c \in Clients, Call(c) \/ Client(c) PROVE Sees' /\ Keeps
    BY <2>2, ClientStaysTrue
  <2> QED BY <2>1, <2>2, JobStaysTrue, UpdateStaysTrue, ExpiryStaysTrue DEF Next
<1>3. IInv /\ [Next]_vars => IInv'
  <2>1. Shape /\ Fits /\ [Next]_vars => (Shape /\ Fits)'
    BY FitsStep
  <2>2. Sees /\ UNCHANGED vars => Sees'
    BY DEF vars, Sees
  <2> QED BY <1>2, <2>1, <2>2
<1>4. IInv /\ [Next]_vars => [Keeps]_vars
  BY <1>2
<1>5. [Keeps]_vars => [UpsertKept' /\ DeletedWhenSpent /\ LimitKept]_vars
  BY DEF Keeps
<1> QED BY <1>1, <1>3, <1>4, <1>5, PTL DEF Spec, AsAsked

-----------------------------------------------------------------------------
(* When a cron pattern is due next (CronSearch): the search that upserts and ticks call.    *)
(* Nothing above is used below, and the assumptions of CronSearch are hypotheses of its     *)
(* theorem.                                                                                 *)

CONSTANTS
  Seconds, Minutes, Hours, MonthLength, LeapMonth, LeapEvery, Years, FirstDow, MaxSearchYears, MaxSearchSteps,
  Patterns, Zones, Starts, MaxRuns
VARIABLES cron, tz, after, wall, endYear, steps, pc, found, runs

Cron == INSTANCE CronSearch

(* CronSearch counts as this module does. *)
LEMMA SameCount ==
  ASSUME NEW S
  PROVE  (Cron!IsFiniteSet(S) <=> IsFiniteSet(S)) /\ Cron!Cardinality(S) = Cardinality(S)
<1>1. Cron!IsFiniteSet(S) <=> IsFiniteSet(S)
  BY DEF Cron!IsFiniteSet, IsFiniteSet
<1>2. Cron!Cardinality(S) = Cardinality(S)
  BY Zenon DEF Cron!Cardinality, Cardinality
<1> QED BY <1>1, <1>2

(* Numbers: a non-empty set of them has a least member, and a quotient with its remainder is unique. *)
LEMMA LeastOf ==
  ASSUME NEW S \in SUBSET Nat, S /= {}
  PROVE  \E x \in S : \A y \in S : x <= y
<1>1. \E x \in S : \A y \in S : <<y, x>> \notin OpToRel(<, Nat)
  BY NatLessThanWellFounded, WFMin
<1>2. \A x, y \in Nat : y < x => <<y, x>> \in OpToRel(<, Nat)
  BY Zenon DEF OpToRel
<1>3. \A x, y \in Nat : ~(y < x) => x <= y
  OBVIOUS
<1> QED BY <1>1, <1>2, <1>3

LEMMA MinOf ==
  ASSUME NEW S \in SUBSET Nat, S /= {}
  PROVE  Cron!Min(S) \in S /\ \A y \in S : Cron!Min(S) <= y
BY LeastOf DEF Cron!Min

(* The next value of a field. *)
LEMMA AboveOf ==
  ASSUME NEW S \in SUBSET Nat, NEW n \in Nat
  PROVE  \/ Cron!Above(n, S) = Cron!NoTime /\ \A m \in S : m <= n
         \/ Cron!Above(n, S) \in S /\ Cron!Above(n, S) > n /\ \A m \in S : m <= n \/ m >= Cron!Above(n, S)
<1> DEFINE T == {m \in S : m > n}
<1>1. CASE T = {}
  BY <1>1 DEF Cron!Above, Cron!Earliest
<1>2. CASE T /= {}
  <2>1. Cron!Min(T) \in T /\ \A y \in T : Cron!Min(T) <= y
    BY <1>2, MinOf
  <2>2. Cron!Above(n, S) = Cron!Min(T)
    BY <1>2 DEF Cron!Above, Cron!Earliest
  <2> QED BY <2>1, <2>2
<1> QED BY <1>1, <1>2

LEMMA Product ==
  ASSUME NEW a \in Nat, NEW b \in Nat, NEW n \in Nat, a <= b
  PROVE  a * n <= b * n /\ a * n \in Nat
OBVIOUS

LEMMA NextMultiple ==
  ASSUME NEW a \in Nat, NEW b \in Nat, NEW n \in Nat, a < b
  PROVE  a * n + n <= b * n /\ a * n \in Nat /\ b * n \in Nat
<1>1. (a + 1) * n <= b * n /\ a * n \in Nat /\ b * n \in Nat
  BY Product
<1>2. (a + 1) * n = a * n + n
  OBVIOUS
<1> QED BY <1>1, <1>2

LEMMA Division ==
  ASSUME NEW t \in Nat, NEW n \in Nat \ {0}
  PROVE  t \div n \in Nat /\ t % n \in 0 .. n - 1 /\ t = (t \div n) * n + (t % n)
OBVIOUS

LEMMA Quotient ==
  ASSUME NEW a \in Nat, NEW b \in Nat, NEW n \in Nat \ {0}, b < n
  PROVE  (a * n + b) \div n = a /\ (a * n + b) % n = b
<1> DEFINE t == a * n + b
           c == t \div n
           d == t % n
<1>1. t \in Nat
  BY Product
<1>2. c \in Nat /\ d \in Nat /\ d < n /\ t = c * n + d
  BY <1>1, Division
<1> HIDE DEF c, d
<1>3. ~(a < c)
  <2> SUFFICES ASSUME a < c PROVE FALSE
    OBVIOUS
  <2>1. (a + 1) * n <= c * n /\ (a + 1) * n = a * n + n
    BY <1>2, Product
  <2> QED BY <1>2, <2>1, Product
<1>4. ~(c < a)
  <2> SUFFICES ASSUME c < a PROVE FALSE
    OBVIOUS
  <2>1. (c + 1) * n <= a * n /\ (c + 1) * n = c * n + n
    BY <1>2, Product
  <2> QED BY <1>2, <2>1, Product
<1>5. a = c
  BY <1>2, <1>3, <1>4
<1>6. b = d
  BY <1>1, <1>2, <1>5
<1> QED BY <1>5, <1>6 DEF c, d

-----------------------------------------------------------------------------
(* The calendar: days are numbered in their order, without a gap. *)
Assumed == Cron!CalendarAssumption /\ Cron!PatternAssumption

LEMMA Constants ==
  ASSUME Assumed
  PROVE  /\ Seconds \in Nat \ {0} /\ Minutes \in Nat \ {0} /\ Hours \in Nat \ {0} /\ LeapEvery \in Nat \ {0}
         /\ FirstDow \in Nat /\ Years \in Nat /\ MaxSearchYears \in Nat
         /\ Cron!MonthCount \in Nat \ {0} /\ DOMAIN MonthLength = 1 .. Cron!MonthCount
         /\ \A m \in 1 .. Cron!MonthCount : MonthLength[m] \in Nat /\ MonthLength[m] > 3
<1>1. Cron!MonthCount \in Nat
  <2>1. IsFiniteSet(DOMAIN MonthLength)
    BY SameCount DEF Assumed, Cron!CalendarAssumption
  <2> QED BY <2>1, SameCount, FS_CardinalityType DEF Cron!MonthCount
<1>2. DOMAIN MonthLength = 1 .. Cron!MonthCount /\ Cron!MonthCount /= 0
  BY <1>1 DEF Assumed, Cron!CalendarAssumption, Cron!MonthCount
<1> QED BY <1>1, <1>2 DEF Assumed, Cron!CalendarAssumption

Longest(k) == \E j \in 1 .. k : \A i \in 1 .. k : MonthLength[i] <= MonthLength[j]
LEMMA MaxDayIs ==
  ASSUME Assumed
  PROVE  Cron!MaxDay \in Nat /\ \A m \in 1 .. Cron!MonthCount : MonthLength[m] <= Cron!MaxDay
<1> DEFINE T == {k \in 1 .. Cron!MonthCount : ~Longest(k)}
<1>1. T = {}
  <2> SUFFICES ASSUME T /= {} PROVE FALSE
    OBVIOUS
  <2>1. T \in SUBSET Nat
    BY Constants
  <2>2. PICK k \in T : \A l \in T : k <= l
    BY <2>1, LeastOf
  <2>3. k \in Nat /\ k >= 1 /\ k <= Cron!MonthCount /\ Cron!MonthCount \in Nat
    BY Constants
  <2>4. k /= 1
    <3>1. MonthLength[1] \in Nat
      BY Constants
    <3>2. ASSUME k = 1 PROVE Longest(k)
      <4>1. \A i \in 1 .. k : i = 1
        BY <3>2
      <4>3. MonthLength[1] <= MonthLength[1]
        BY <3>1
      <4>2. 1 \in 1 .. k
        BY <3>2
      <4> QED BY <4>1, <4>2, <4>3 DEF Longest
    <3> QED BY <2>2, <3>2
  <2>5. k - 1 \in 1 .. Cron!MonthCount /\ k - 1 \notin T
    BY <2>2, <2>3, <2>4
  <2>6. PICK j \in 1 .. k - 1 : \A i \in 1 .. k - 1 : MonthLength[i] <= MonthLength[j]
    <3>1. Longest(k - 1)
      BY <2>5
    <3> QED BY <3>1 DEF Longest
  <2>7. \A i \in 1 .. k : (i \in 1 .. k - 1 \/ i = k) /\ MonthLength[i] \in Nat
    BY <2>3, Constants
  <2>8. MonthLength[j] \in Nat /\ j \in 1 .. k
    BY <2>3, <2>7
  <2>9. CASE MonthLength[k] <= MonthLength[j]
    <3>1. \A i \in 1 .. k : MonthLength[i] <= MonthLength[j]
      BY <2>6, <2>7, <2>9
    <3>2. Longest(k)
      BY <2>8, <3>1 DEF Longest
    <3> QED BY <2>2, <3>2
  <2>10. CASE MonthLength[j] < MonthLength[k]
    <3>1. \A i \in 1 .. k : MonthLength[i] <= MonthLength[k]
      BY <2>3, <2>6, <2>7, <2>8, <2>10
    <3>2. k \in 1 .. k
      BY <2>3
    <3>3. Longest(k)
      BY <3>1, <3>2 DEF Longest
    <3> QED BY <2>2, <3>3
  <2>11. MonthLength[k] \in Nat
    BY <2>3, Constants
  <2> QED BY <2>8, <2>9, <2>10, <2>11
<1>2. PICK j \in 1 .. Cron!MonthCount : \A i \in 1 .. Cron!MonthCount : MonthLength[i] <= MonthLength[j]
  <2>1. Cron!MonthCount \in 1 .. Cron!MonthCount
    BY Constants
  <2>2. Longest(Cron!MonthCount)
    BY <1>1, <2>1
  <2> QED BY <2>2 DEF Longest
<1>3. \E n \in {MonthLength[m] : m \in DOMAIN MonthLength} : \A m \in DOMAIN MonthLength : MonthLength[m] <= n
  BY <1>2, Constants
<1>4. Cron!MaxDay \in {MonthLength[m] : m \in DOMAIN MonthLength} /\ \A m \in DOMAIN MonthLength : MonthLength[m] <= Cron!MaxDay
  BY <1>3 DEF Cron!MaxDay
<1> QED BY <1>4, Constants

LEMMA MonthDays ==
  ASSUME Assumed, NEW y \in Nat, NEW m \in 1 .. Cron!MonthCount
  PROVE  Cron!DaysInMonth(y, m) \in 3 .. Cron!MaxDay /\ Cron!MaxDay \in Nat
BY Constants, MaxDayIs DEF Cron!DaysInMonth

LEMMA InjectionOf ==
  ASSUME NEW S, NEW T, NEW f \in [S -> T], \A a, b \in S : f[a] = f[b] => a = b
  PROVE  f \in Injection(S, T)
BY DEF Injection, IsInjective

LEMMA CalendarFinite ==
  ASSUME Assumed
  PROVE  /\ IsFiniteSet(Cron!Calendar) /\ Cardinality(Cron!Calendar) \in Nat
         /\ \A d \in Cron!Calendar : /\ d = <<d[1], d[2], d[3]>>
                                /\ d[1] \in 0 .. Years /\ d[2] \in 1 .. Cron!MonthCount /\ d[3] \in 1 .. Cron!DaysInMonth(d[1], d[2])
                                /\ d[1] \in Nat /\ d[2] \in Nat /\ d[3] \in Nat /\ d[3] >= 1
<1> DEFINE Pairs == ((0 .. Years) \X (1 .. Cron!MonthCount)) \X (1 .. Cron!MaxDay)
           f == [d \in Cron!Calendar |-> <<<<d[1], d[2]>>, d[3]>>]
<1>1. Years \in Int /\ Cron!MonthCount \in Int /\ Cron!MaxDay \in Int
  BY Constants, MaxDayIs
<1>2. IsFiniteSet(0 .. Years) /\ IsFiniteSet(1 .. Cron!MonthCount) /\ IsFiniteSet(1 .. Cron!MaxDay)
  BY <1>1, FS_Interval
<1>3. IsFiniteSet(Pairs)
  BY <1>2, FS_Product
<1>4. \A d \in Cron!Calendar : d = <<d[1], d[2], d[3]>> /\ d[1] \in 0 .. Years /\ d[2] \in 1 .. Cron!MonthCount /\ d[3] \in 1 .. Cron!MaxDay
                          /\ d[3] <= Cron!DaysInMonth(d[1], d[2])
  BY DEF Cron!Calendar
<1>5. f \in Injection(Cron!Calendar, Pairs)
  <2>1. f \in [Cron!Calendar -> Pairs]
    BY <1>4
  <2>2. ASSUME NEW a \in Cron!Calendar, NEW b \in Cron!Calendar, f[a] = f[b] PROVE a = b
    <3>1. f[a] = <<<<a[1], a[2]>>, a[3]>> /\ f[b] = <<<<b[1], b[2]>>, b[3]>>
      OBVIOUS
    <3>2. a[1] = b[1] /\ a[2] = b[2] /\ a[3] = b[3]
      BY <2>2, <3>1
    <3> QED BY <1>4, <3>2
  <2> HIDE DEF f
  <2> QED BY <2>1, <2>2, InjectionOf
<1>6. IsFiniteSet(Cron!Calendar)
  BY <1>3, <1>5, FS_Injection
<1>7. \A d \in Cron!Calendar : d[1] \in Nat /\ d[2] \in Nat /\ d[3] \in Nat /\ d[3] >= 1
  BY <1>1, <1>4
<1>8. \A d \in Cron!Calendar : d[3] \in 1 .. Cron!DaysInMonth(d[1], d[2])
  BY <1>4, <1>7, MonthDays
<1> QED BY <1>4, <1>6, <1>7, <1>8, FS_CardinalityType

LEMMA DatesIn ==
  ASSUME Assumed, NEW y \in 0 .. Years, NEW m \in 1 .. Cron!MonthCount, NEW a \in 1 .. Cron!DaysInMonth(y, m)
  PROVE  <<y, m, a>> \in Cron!Calendar
<1>1. y \in Nat /\ Cron!DaysInMonth(y, m) \in 3 .. Cron!MaxDay /\ Cron!MaxDay \in Nat
  <2>1. y \in Nat
    BY Constants
  <2> QED BY <2>1, MonthDays
<1>2. a \in 1 .. Cron!MaxDay /\ a <= Cron!DaysInMonth(y, m)
  BY <1>1
<1> QED BY <1>2 DEF Cron!Calendar

Earlier(d) == {e \in Cron!Calendar : Cron!Before(e, d)}
LEMMA Numbered ==
  ASSUME Assumed
  PROVE  /\ Cron!DayNumber = [d \in Cron!Calendar |-> Cardinality(Earlier(d))]
         /\ \A d : IsFiniteSet(Earlier(d)) /\ Cardinality(Earlier(d)) \in Nat
<1>1. \A d : IsFiniteSet(Earlier(d)) /\ Cardinality(Earlier(d)) \in Nat
  <2> SUFFICES ASSUME NEW d PROVE IsFiniteSet(Earlier(d)) /\ Cardinality(Earlier(d)) \in Nat
    OBVIOUS
  <2>1. Earlier(d) \in SUBSET Cron!Calendar
    BY DEF Earlier
  <2> QED BY <2>1, CalendarFinite, FS_Subset, FS_CardinalityType
<1>2. \A d : Cron!Cardinality(Earlier(d)) = Cardinality(Earlier(d))
  BY SameCount
<1>3. Cron!DayNumber = [d \in Cron!Calendar |-> Cron!Cardinality(Earlier(d))]
  BY DEF Cron!DayNumber, Earlier
<1> QED BY <1>1, <1>2, <1>3

(* DayNumber orders the days as the calendar does. *)
LEMMA DaysOrdered ==
  ASSUME Assumed, NEW d \in Cron!Calendar, NEW e \in Cron!Calendar
  PROVE  /\ Cron!DayNumber[d] \in 0 .. Cardinality(Cron!Calendar) - 1
         /\ Cron!Before(d, e) <=> Cron!DayNumber[d] < Cron!DayNumber[e]
         /\ Cron!DayNumber[d] = Cron!DayNumber[e] <=> d = e
<1>1. ASSUME NEW a \in Cron!Calendar, NEW b \in Cron!Calendar, Cron!Before(a, b) PROVE Cron!DayNumber[a] < Cron!DayNumber[b]
  <2>1. Earlier(a) \cup {a} \in SUBSET Earlier(b)
    BY <1>1, CalendarFinite DEF Earlier, Cron!Before
  <2>2. a \notin Earlier(a)
    BY <1>1, CalendarFinite DEF Earlier, Cron!Before
  <2>3. Cardinality(Earlier(a) \cup {a}) = Cardinality(Earlier(a)) + 1
    BY <2>2, Numbered, FS_AddElement
  <2>4. Cardinality(Earlier(a) \cup {a}) <= Cardinality(Earlier(b))
    BY <2>1, Numbered, FS_Subset
  <2> QED BY <2>3, <2>4, Numbered
<1>2. Cron!DayNumber[d] \in Nat /\ Cron!DayNumber[e] \in Nat
  BY Numbered
<1>3. Cron!DayNumber[d] < Cardinality(Cron!Calendar)
  <2>1. Earlier(d) \cup {d} \in SUBSET Cron!Calendar /\ d \notin Earlier(d)
    BY CalendarFinite DEF Earlier, Cron!Before
  <2>2. Cardinality(Earlier(d) \cup {d}) = Cardinality(Earlier(d)) + 1
    BY <2>1, Numbered, FS_AddElement
  <2>3. Cardinality(Earlier(d) \cup {d}) <= Cardinality(Cron!Calendar)
    BY <2>1, CalendarFinite, FS_Subset
  <2> QED BY <2>2, <2>3, Numbered, CalendarFinite
<1>4. d = e \/ Cron!Before(d, e) \/ Cron!Before(e, d)
  <2>1. d = <<d[1], d[2], d[3]>> /\ d[1] \in Nat /\ d[2] \in Nat /\ d[3] \in Nat
    BY CalendarFinite
  <2>2. e = <<e[1], e[2], e[3]>> /\ e[1] \in Nat /\ e[2] \in Nat /\ e[3] \in Nat
    BY CalendarFinite
  <2>3. d[1] = e[1] /\ d[2] = e[2] /\ d[3] = e[3] => d = e
    BY <2>1, <2>2
  <2> QED BY <2>1, <2>2, <2>3 DEF Cron!Before
<1> QED BY <1>1, <1>2, <1>3, <1>4, CalendarFinite

LEMMA DatesBack ==
  ASSUME Assumed
  PROVE  /\ \A n \in 0 .. Cardinality(Cron!Calendar) - 1 : Cron!DateOf[n] \in Cron!Calendar /\ Cron!DayNumber[Cron!DateOf[n]] = n
         /\ \A d \in Cron!Calendar : Cron!DateOf[Cron!DayNumber[d]] = d
<1> DEFINE N == Cardinality(Cron!Calendar)
<1>1. N \in Nat /\ IsFiniteSet(Cron!Calendar)
  BY CalendarFinite
<1>2. IsFiniteSet(0 .. N - 1) /\ Cardinality(0 .. N - 1) = N
  BY <1>1, FS_Interval
<1>3. Cron!DayNumber \in Injection(Cron!Calendar, 0 .. N - 1)
  <2>1. Cron!DayNumber \in [Cron!Calendar -> 0 .. N - 1]
    BY DaysOrdered, Numbered
  <2>2. \A a, b \in Cron!Calendar : Cron!DayNumber[a] = Cron!DayNumber[b] => a = b
    BY DaysOrdered
  <2> QED BY <2>1, <2>2, InjectionOf
<1>4. Cron!DayNumber \in Surjection(Cron!Calendar, 0 .. N - 1)
  BY <1>1, <1>2, <1>3, FS_Injection
<1>5. Cron!DateOf = [n \in 0 .. N - 1 |-> CHOOSE d \in Cron!Calendar : Cron!DayNumber[d] = n]
  BY SameCount DEF Cron!DateOf
<1>6. ASSUME NEW n \in 0 .. N - 1 PROVE Cron!DateOf[n] \in Cron!Calendar /\ Cron!DayNumber[Cron!DateOf[n]] = n
  <2>1. \E d \in Cron!Calendar : Cron!DayNumber[d] = n
    BY <1>4 DEF Surjection
  <2> QED BY <1>5, <2>1
<1>7. ASSUME NEW d \in Cron!Calendar PROVE Cron!DateOf[Cron!DayNumber[d]] = d
  <2>1. Cron!DayNumber[d] \in 0 .. N - 1
    BY DaysOrdered
  <2> QED BY <1>6, <2>1, DaysOrdered
<1> QED BY <1>6, <1>7

(* The days of a month have consecutive numbers. *)
LEMMA MonthNumbered ==
  ASSUME Assumed, NEW y \in 0 .. Years, NEW m \in 1 .. Cron!MonthCount, NEW a \in 1 .. Cron!DaysInMonth(y, m)
  PROVE  Cron!DayNumber[<<y, m, a>>] = Cron!DayNumber[<<y, m, 1>>] + a - 1
<1> DEFINE Within == {<<y, m, i>> : i \in 1 .. a - 1}
           f == [i \in 1 .. a - 1 |-> <<y, m, i>>]
<1>1. a \in Nat \ {0} /\ Cron!DaysInMonth(y, m) \in Nat /\ y \in Nat /\ m \in Nat
  <2>1. y \in Nat /\ m \in Nat
    BY Constants
  <2> QED BY <2>1, MonthDays
<1>2. f \in Bijection(1 .. a - 1, Within)
  <2>1. f \in [1 .. a - 1 -> Within]
    OBVIOUS
  <2>2. \A i, j \in 1 .. a - 1 : f[i] = f[j] => i = j
    OBVIOUS
  <2>3. \A t \in Within : \E i \in 1 .. a - 1 : f[i] = t
    OBVIOUS
  <2> HIDE DEF f, Within
  <2>4. f \in Injection(1 .. a - 1, Within)
    BY <2>1, <2>2, InjectionOf
  <2> QED BY <2>1, <2>3, <2>4 DEF Bijection, Surjection
<1>3. IsFiniteSet(1 .. a - 1) /\ Cardinality(1 .. a - 1) = a - 1
  <2>1. 1 \in Int /\ a - 1 \in Int /\ a - 1 >= 0
    BY <1>1
  <2>2. Cardinality(1 .. a - 1) = IF 1 > a - 1 THEN 0 ELSE (a - 1) - 1 + 1
    BY <2>1, FS_Interval
  <2> QED BY <2>1, <2>2, FS_Interval
<1>4. IsFiniteSet(Within) /\ Cardinality(Within) = a - 1
  BY <1>2, <1>3, FS_Bijection DEF ExistsBijection
<1>5. <<y, m, a>> \in Cron!Calendar /\ <<y, m, 1>> \in Cron!Calendar /\ \A i \in 1 .. a - 1 : <<y, m, i>> \in Cron!Calendar
  BY <1>1, DatesIn
<1>6. Earlier(<<y, m, a>>) = Earlier(<<y, m, 1>>) \cup Within
  <2>1. ASSUME NEW e \in Earlier(<<y, m, a>>) PROVE e \in Earlier(<<y, m, 1>>) \cup Within
    <3>1. e \in Cron!Calendar /\ Cron!Before(e, <<y, m, a>>)
      BY DEF Earlier
    <3>2. e = <<e[1], e[2], e[3]>> /\ e[1] \in Nat /\ e[2] \in Nat /\ e[3] \in Nat /\ e[3] >= 1
      BY <3>1, CalendarFinite
    <3>3. Cron!Before(e, <<y, m, 1>>) \/ (e[1] = y /\ e[2] = m /\ e[3] \in 1 .. a - 1)
      BY <1>1, <3>1, <3>2 DEF Cron!Before
    <3> QED BY <3>1, <3>2, <3>3 DEF Earlier
  <2>2. ASSUME NEW e \in Earlier(<<y, m, 1>>) \cup Within PROVE e \in Earlier(<<y, m, a>>)
    <3>1. CASE e \in Within
      BY <1>1, <1>5, <3>1 DEF Earlier, Cron!Before
    <3>2. CASE e \in Earlier(<<y, m, 1>>)
      <4>1. e \in Cron!Calendar /\ Cron!Before(e, <<y, m, 1>>) /\ e[3] \in Int
        BY <3>2, CalendarFinite DEF Earlier
      <4>2. Cron!Before(e, <<y, m, a>>)
        BY <1>1, <4>1 DEF Cron!Before
      <4> QED BY <4>1, <4>2 DEF Earlier
    <3> QED BY <2>2, <3>1, <3>2
  <2> QED BY <2>1, <2>2
<1>7. Earlier(<<y, m, 1>>) \cap Within = {}
  BY <1>1 DEF Earlier, Cron!Before
<1>8. Cardinality(Earlier(<<y, m, a>>)) = Cardinality(Earlier(<<y, m, 1>>)) + (a - 1)
  <2>1. IsFiniteSet(Earlier(<<y, m, 1>>)) /\ Cardinality(Earlier(<<y, m, 1>>)) \in Nat
    BY Numbered
  <2>2. Cardinality(Earlier(<<y, m, 1>>) \cup Within) = Cardinality(Earlier(<<y, m, 1>>)) + Cardinality(Within) - Cardinality({})
    BY <1>4, <1>7, <2>1, FS_Union
  <2>3. Cardinality({}) = 0
    BY FS_EmptySet
  <2> DEFINE U == Earlier(<<y, m, 1>>) \cup Within
  <2>4. Cardinality(U) = Cardinality(Earlier(<<y, m, 1>>)) + (a - 1)
    BY <1>1, <1>4, <2>1, <2>2, <2>3
  <2>5. Earlier(<<y, m, a>>) = U
    BY <1>6
  <2> HIDE DEF U
  <2> QED BY <2>4, <2>5
<1> QED BY <1>1, <1>5, <1>8, Numbered

-----------------------------------------------------------------------------
(* Times of the day and instants. *)
LEMMA Lengths ==
  ASSUME Assumed
  PROVE  /\ Cron!MinuteLength = Seconds /\ Cron!MinuteLength \in Nat \ {0}
         /\ Cron!HourLength = Minutes * Cron!MinuteLength /\ Cron!HourLength \in Nat \ {0}
         /\ Cron!DayLength = Hours * Cron!HourLength /\ Cron!DayLength \in Nat \ {0}
<1>1. Cron!MinuteLength = Seconds /\ Cron!MinuteLength \in Nat \ {0}
  BY Constants DEF Cron!MinuteLength
<1>2. Cron!HourLength = Minutes * Cron!MinuteLength /\ Cron!HourLength \in Nat \ {0}
  <2>1. \A a, b \in Nat \ {0} : a * b \in Nat \ {0}
    OBVIOUS
  <2> QED BY <1>1, <2>1, Constants DEF Cron!HourLength, Cron!MinuteLength
<1>3. Cron!DayLength = Hours * Cron!HourLength /\ Cron!DayLength \in Nat \ {0}
  <2>1. \A a, b \in Nat \ {0} : a * b \in Nat \ {0}
    OBVIOUS
  <2> QED BY <1>2, <2>1, Constants DEF Cron!DayLength
<1> QED BY <1>1, <1>2, <1>3

InstantOf(n, h, m, s) == n * Cron!DayLength + h * Cron!HourLength + m * Cron!MinuteLength + s

LEMMA ClockRead ==
  ASSUME Assumed, NEW n \in Nat, NEW h \in 0 .. Hours - 1, NEW m \in 0 .. Minutes - 1, NEW s \in 0 .. Seconds - 1,
         NEW t, t = InstantOf(n, h, m, s)
  PROVE  /\ t \in Nat /\ t \div Cron!DayLength = n /\ (t % Cron!DayLength) \div Cron!HourLength = h
         /\ (t % Cron!HourLength) \div Cron!MinuteLength = m /\ t % Cron!MinuteLength = s
         /\ h * Cron!HourLength + m * Cron!MinuteLength + s \in 0 .. Cron!DayLength - 1
<1> DEFINE ML == Cron!MinuteLength
           HL == Cron!HourLength
           DL == Cron!DayLength
<1>1. /\ ML \in Nat \ {0} /\ HL \in Nat \ {0} /\ DL \in Nat \ {0} /\ HL = Minutes * ML /\ DL = Hours * HL /\ ML = Seconds
      /\ Minutes \in Nat /\ Hours \in Nat /\ h \in Nat /\ m \in Nat /\ s \in Nat /\ h + 1 <= Hours /\ m + 1 <= Minutes /\ s < ML
  <2>1. /\ ML \in Nat \ {0} /\ HL \in Nat \ {0} /\ DL \in Nat \ {0}
        /\ HL = Minutes * ML /\ DL = Hours * HL /\ ML = Seconds
    BY Lengths, Zenon
  <2>2. Minutes \in Nat /\ Hours \in Nat /\ Seconds \in Nat
    BY Constants
  <2>3. h \in Nat /\ m \in Nat /\ s \in Nat /\ h + 1 <= Hours /\ m + 1 <= Minutes /\ s < Seconds
    BY <2>2
  <2> HIDE DEF ML, HL, DL
  <2> QED BY <2>1, <2>2, <2>3
<1>2. t = n * DL + h * HL + m * ML + s
  BY DEF InstantOf
<1> HIDE DEF ML, HL, DL
<1>3. n * DL \in Nat /\ h * HL \in Nat /\ m * ML \in Nat
  BY <1>1, Product
<1>4. m * ML + s \in Nat /\ m * ML + s < HL
  <2>1. (m + 1) * ML <= HL /\ (m + 1) * ML = m * ML + ML
    BY <1>1, Product
  <2> QED BY <1>1, <1>3, <2>1
<1>5. h * HL + m * ML + s \in Nat /\ h * HL + m * ML + s < DL
  <2>1. (h + 1) * HL <= DL /\ (h + 1) * HL = h * HL + HL
    BY <1>1, Product
  <2> QED BY <1>1, <1>3, <1>4, <2>1
<1>6. t \div DL = n /\ t % DL = h * HL + (m * ML + s)
  <2>1. t = n * DL + (h * HL + (m * ML + s)) /\ h * HL + (m * ML + s) \in Nat /\ h * HL + (m * ML + s) < DL
    BY <1>1, <1>2, <1>3, <1>5
  <2> QED BY <1>1, <2>1, Quotient
<1>7. (h * HL + (m * ML + s)) \div HL = h
  BY <1>1, <1>4, Quotient
<1>8. t % HL = m * ML + s
  <2>1. n * DL = (n * Hours) * HL /\ n * Hours \in Nat
    BY <1>1
  <2>2. n * DL + h * HL = (n * Hours + h) * HL
    BY <1>1, <2>1
  <2> DEFINE k == n * Hours + h
             r == m * ML + s
  <2>3. k \in Nat /\ t = k * HL + r
    BY <1>1, <1>2, <1>3, <2>1, <2>2
  <2>4. r \in Nat /\ r < HL
    BY <1>4
  <2> HIDE DEF k, r
  <2>6. HL \in Nat \ {0}
    BY <1>1
  <2>7. (k * HL + r) % HL = r
    BY <2>3, <2>4, <2>6, Quotient
  <2>5. t % HL = r
    BY <2>3, <2>7
  <2> QED BY <2>5 DEF r
<1>9. (m * ML + s) \div ML = m
  BY <1>1, Quotient
<1>10. t % ML = s
  <2> DEFINE k == (n * Hours + h) * Minutes + m
  <2>1. n * Hours \in Nat /\ n * Hours + h \in Nat
    BY <1>1
  <2>2. (n * Hours + h) * Minutes \in Nat /\ k \in Nat
    BY <1>1, <2>1
  <2>3. n * DL + h * HL = (n * Hours + h) * HL
    <3>1. n * DL = (n * Hours) * HL
      BY <1>1
    <3> QED BY <1>1, <2>1, <3>1
  <2>4. (n * Hours + h) * HL = ((n * Hours + h) * Minutes) * ML
    BY <1>1, <2>1
  <2>5. t = k * ML + s
    BY <1>1, <1>2, <1>3, <2>1, <2>2, <2>3, <2>4
  <2> HIDE DEF k
  <2> QED BY <1>1, <2>2, <2>5, Quotient
<1>11. t \in Nat
  BY <1>1, <1>2, <1>3
<1> QED BY <1>1, <1>5, <1>6, <1>7, <1>8, <1>9, <1>10, <1>11 DEF ML, HL, DL

(* A wall time of the walk, which may be past the end of its month, day or hour, and one of the calendar. *)
Walls == [year : Nat, month : 1 .. Cron!MonthCount, day : Nat \ {0}, hour : Nat, minute : Nat, second : Nat]
Real(w) == /\ w \in Walls /\ w.year <= Years /\ w.day <= Cron!DaysInMonth(w.year, w.month)
           /\ w.hour < Hours /\ w.minute < Minutes /\ w.second < Seconds
DayOf(w) == Cron!DayNumber[<<w.year, w.month, w.day>>]
Horizon == Cardinality(Cron!Calendar) * Cron!DayLength

LEMMA WallTyped ==
  ASSUME Assumed, NEW w \in Walls
  PROVE  /\ w.year \in Nat /\ w.month \in Nat /\ w.month \in 1 .. Cron!MonthCount /\ w.day \in Nat \ {0} /\ w.hour \in Nat
         /\ w.minute \in Nat /\ w.second \in Nat
         /\ w = [year |-> w.year, month |-> w.month, day |-> w.day, hour |-> w.hour, minute |-> w.minute, second |-> w.second]
<1>1. w.month \in 1 .. Cron!MonthCount /\ Cron!MonthCount \in Nat
  BY Constants DEF Walls
<1>2. w.month \in Nat
  BY <1>1
<1> QED BY <1>1, <1>2 DEF Walls

LEMMA RealDay ==
  ASSUME Assumed, NEW w, Real(w)
  PROVE  /\ <<w.year, w.month, w.day>> \in Cron!Calendar /\ DayOf(w) \in Nat /\ DayOf(w) + 1 <= Cardinality(Cron!Calendar)
         /\ w.hour \in 0 .. Hours - 1 /\ w.minute \in 0 .. Minutes - 1 /\ w.second \in 0 .. Seconds - 1
         /\ Cron!WallToNaiveUtc(w) = InstantOf(DayOf(w), w.hour, w.minute, w.second)
<1>1. w.year \in 0 .. Years /\ w.year \in Nat /\ w.month \in 1 .. Cron!MonthCount
  BY Constants DEF Real, Walls
<1>2. w.day \in 1 .. Cron!DaysInMonth(w.year, w.month)
  BY <1>1, MonthDays DEF Real, Walls
<1>3. <<w.year, w.month, w.day>> \in Cron!Calendar
  BY <1>1, <1>2, DatesIn
<1>4. DayOf(w) \in 0 .. Cardinality(Cron!Calendar) - 1
  BY <1>3, DaysOrdered DEF DayOf
<1>5. DayOf(w) \in Nat /\ DayOf(w) + 1 <= Cardinality(Cron!Calendar)
  BY <1>4, CalendarFinite
<1>6. w.hour \in 0 .. Hours - 1 /\ w.minute \in 0 .. Minutes - 1 /\ w.second \in 0 .. Seconds - 1
  BY Constants DEF Real, Walls
<1>7. Cron!WallToNaiveUtc(w) = InstantOf(DayOf(w), w.hour, w.minute, w.second)
  BY DEF Cron!WallToNaiveUtc, InstantOf, DayOf
<1> QED BY <1>3, <1>5, <1>6, <1>7

LEMMA ThereAndBack ==
  ASSUME Assumed, NEW w, Real(w)
  PROVE  Cron!UtcToWall(Cron!WallToNaiveUtc(w)) = w /\ Cron!WallToNaiveUtc(w) \in 0 .. Horizon - 1
<1> DEFINE t == Cron!WallToNaiveUtc(w)
<1>1. /\ t \in Nat /\ t \div Cron!DayLength = DayOf(w) /\ (t % Cron!DayLength) \div Cron!HourLength = w.hour
      /\ (t % Cron!HourLength) \div Cron!MinuteLength = w.minute /\ t % Cron!MinuteLength = w.second
      /\ t = DayOf(w) * Cron!DayLength + (w.hour * Cron!HourLength + w.minute * Cron!MinuteLength + w.second)
      /\ w.hour * Cron!HourLength + w.minute * Cron!MinuteLength + w.second \in 0 .. Cron!DayLength - 1
  <2>1. t = InstantOf(DayOf(w), w.hour, w.minute, w.second)
    BY RealDay
  <2>2. /\ DayOf(w) * Cron!DayLength \in Nat /\ w.hour * Cron!HourLength \in Nat /\ w.minute * Cron!MinuteLength \in Nat /\ w.second \in Nat
    <3>1. DayOf(w) \in Nat /\ w.hour \in Nat /\ w.minute \in Nat /\ w.second \in Nat
      BY RealDay DEF Real, Walls
    <3>2. Cron!DayLength \in Nat /\ Cron!HourLength \in Nat /\ Cron!MinuteLength \in Nat
      BY Lengths
    <3> QED BY <3>1, <3>2, Product
  <2>3. t = DayOf(w) * Cron!DayLength + (w.hour * Cron!HourLength + w.minute * Cron!MinuteLength + w.second)
    BY <2>1, <2>2 DEF InstantOf
  <2>4. /\ DayOf(w) \in Nat /\ w.hour \in 0 .. Hours - 1 /\ w.minute \in 0 .. Minutes - 1
        /\ w.second \in 0 .. Seconds - 1
    BY RealDay
  <2> DEFINE n == DayOf(w)
             h == w.hour
             m == w.minute
             s == w.second
  <2> HIDE DEF t
  <2>5. /\ n \in Nat /\ h \in 0 .. Hours - 1 /\ m \in 0 .. Minutes - 1 /\ s \in 0 .. Seconds - 1
        /\ t = InstantOf(n, h, m, s)
    BY <2>1, <2>4
  <2>7. t = n * Cron!DayLength + (h * Cron!HourLength + m * Cron!MinuteLength + s)
    BY <2>3
  <2> HIDE DEF n, h, m, s
  <2>6. /\ t \in Nat /\ t \div Cron!DayLength = n /\ (t % Cron!DayLength) \div Cron!HourLength = h
        /\ (t % Cron!HourLength) \div Cron!MinuteLength = m /\ t % Cron!MinuteLength = s
        /\ h * Cron!HourLength + m * Cron!MinuteLength + s \in 0 .. Cron!DayLength - 1
    BY <2>5, ClockRead
  <2> QED BY <2>6, <2>7 DEF n, h, m, s
<1>2. Cron!DateOf[DayOf(w)] = <<w.year, w.month, w.day>>
  BY RealDay, DatesBack DEF DayOf
<1> HIDE DEF t
<1>3. Cron!UtcToWall(t) = [year |-> w.year, month |-> w.month, day |-> w.day, hour |-> w.hour, minute |-> w.minute, second |-> w.second]
  BY <1>1, <1>2 DEF Cron!UtcToWall
<1>4. Cron!UtcToWall(t) = w
  BY <1>3 DEF Real, Walls
<1>5. t < Horizon
  <2>3. DayOf(w) \in Nat /\ DayOf(w) + 1 <= Cardinality(Cron!Calendar)
    BY RealDay
  <2>4. Cardinality(Cron!Calendar) \in Nat /\ Cron!DayLength \in Nat
    BY CalendarFinite, Lengths
  <2>1. DayOf(w) \in Nat /\ DayOf(w) < Cardinality(Cron!Calendar) /\ Cardinality(Cron!Calendar) \in Nat /\ Cron!DayLength \in Nat
    BY <2>3, <2>4
  <2>2. DayOf(w) * Cron!DayLength + Cron!DayLength <= Horizon /\ DayOf(w) * Cron!DayLength \in Nat /\ Horizon \in Nat
    BY <2>1, NextMultiple DEF Horizon
  <2> QED BY <1>1, <2>1, <2>2
<1>6. Horizon \in Nat
  BY CalendarFinite, Lengths, Product DEF Horizon
<1> QED BY <1>1, <1>4, <1>5, <1>6 DEF t

LEMMA BackAndThere ==
  ASSUME Assumed, NEW t \in 0 .. Horizon - 1
  PROVE  Real(Cron!UtcToWall(t)) /\ Cron!WallToNaiveUtc(Cron!UtcToWall(t)) = t
<1> DEFINE n == t \div Cron!DayLength
           a == t % Cron!DayLength
           h == a \div Cron!HourLength
           b == a % Cron!HourLength
           m == b \div Cron!MinuteLength
           s == b % Cron!MinuteLength
           w == Cron!UtcToWall(t)
<1>1. /\ Cron!MinuteLength \in Nat \ {0} /\ Cron!HourLength \in Nat \ {0} /\ Cron!DayLength \in Nat \ {0}
      /\ Cron!HourLength = Minutes * Cron!MinuteLength /\ Cron!DayLength = Hours * Cron!HourLength /\ Cron!MinuteLength = Seconds
      /\ Minutes \in Nat /\ Hours \in Nat /\ Cardinality(Cron!Calendar) \in Nat /\ Horizon \in Nat
  <2>1. /\ Cron!MinuteLength \in Nat \ {0} /\ Cron!HourLength \in Nat \ {0} /\ Cron!DayLength \in Nat \ {0}
        /\ Cron!HourLength = Minutes * Cron!MinuteLength /\ Cron!DayLength = Hours * Cron!HourLength /\ Cron!MinuteLength = Seconds
    BY Lengths, Zenon
  <2>2. Minutes \in Nat /\ Hours \in Nat
    BY Constants
  <2>3. Cardinality(Cron!Calendar) \in Nat
    BY CalendarFinite
  <2>4. Horizon \in Nat
    <3>1. \A x, y \in Nat : x * y \in Nat
      OBVIOUS
    <3> QED BY <2>1, <2>3, <3>1 DEF Horizon
  <2> QED BY <2>1, <2>2, <2>3, <2>4
<1>2. t \in Nat /\ t < Horizon
  BY <1>1
<1>3. n \in Nat /\ a \in Nat /\ a < Cron!DayLength /\ t = n * Cron!DayLength + a
  <2>1. t \in Nat /\ Cron!DayLength \in Nat \ {0}
    BY <1>1, <1>2
  <2>2. n \in Nat /\ a \in 0 .. Cron!DayLength - 1 /\ t = n * Cron!DayLength + a
    BY <2>1, Division
  <2> HIDE DEF n, a
  <2> QED BY <1>1, <2>1, <2>2
<1> HIDE DEF n, a
<1>4. h \in Nat /\ b \in Nat /\ b < Cron!HourLength /\ a = h * Cron!HourLength + b
  <2>1. a \in Nat /\ Cron!HourLength \in Nat \ {0}
    BY <1>1, <1>3
  <2>2. h \in Nat /\ b \in 0 .. Cron!HourLength - 1 /\ a = h * Cron!HourLength + b
    BY <2>1, Division
  <2> HIDE DEF h, b
  <2> QED BY <1>1, <2>1, <2>2
<1> HIDE DEF h, b
<1>5. m \in Nat /\ s \in Nat /\ s < Seconds /\ b = m * Cron!MinuteLength + s
  <2>1. b \in Nat /\ Cron!MinuteLength \in Nat \ {0}
    BY <1>1, <1>4
  <2>2. m \in Nat /\ s \in 0 .. Cron!MinuteLength - 1 /\ b = m * Cron!MinuteLength + s
    BY <2>1, Division
  <2> HIDE DEF m, s
  <2> QED BY <1>1, <2>1, <2>2
<1> HIDE DEF m, s
<1>6. h < Hours
  <2> SUFFICES ASSUME h >= Hours PROVE FALSE
    BY <1>1, <1>4
  <2>1. Hours * Cron!HourLength <= h * Cron!HourLength
    BY <1>1, <1>4, Product
  <2> QED BY <1>1, <1>3, <1>4, <2>1, Product
<1>7. m < Minutes
  <2> SUFFICES ASSUME m >= Minutes PROVE FALSE
    BY <1>1, <1>5
  <2>1. Minutes * Cron!MinuteLength <= m * Cron!MinuteLength
    BY <1>1, <1>5, Product
  <2> QED BY <1>1, <1>4, <1>5, <2>1, Product
<1>8. n < Cardinality(Cron!Calendar)
  <2> SUFFICES ASSUME n >= Cardinality(Cron!Calendar) PROVE FALSE
    BY <1>1, <1>3
  <2>1. Cardinality(Cron!Calendar) * Cron!DayLength <= n * Cron!DayLength
    BY <1>1, <1>3, Product
  <2> QED BY <1>1, <1>2, <1>3, <2>1, Product DEF Horizon
<1>9. h \in 0 .. Hours - 1 /\ m \in 0 .. Minutes - 1 /\ s \in 0 .. Seconds - 1 /\ n \in 0 .. Cardinality(Cron!Calendar) - 1
  BY <1>1, <1>3, <1>4, <1>5, <1>6, <1>7, <1>8, Constants
<1>10. t = InstantOf(n, h, m, s)
  <2>1. n * Cron!DayLength \in Nat /\ h * Cron!HourLength \in Nat /\ m * Cron!MinuteLength \in Nat
    BY <1>1, <1>3, <1>4, <1>5, Product
  <2> QED BY <1>3, <1>4, <1>5, <2>1 DEF InstantOf
<1>11. /\ t \div Cron!DayLength = n /\ (t % Cron!DayLength) \div Cron!HourLength = h
       /\ (t % Cron!HourLength) \div Cron!MinuteLength = m /\ t % Cron!MinuteLength = s
  BY <1>3, <1>9, <1>10, ClockRead
<1>12. Cron!DateOf[n] \in Cron!Calendar /\ Cron!DayNumber[Cron!DateOf[n]] = n
  BY <1>9, DatesBack
<1>13. w = [year |-> Cron!DateOf[n][1], month |-> Cron!DateOf[n][2], day |-> Cron!DateOf[n][3], hour |-> h, minute |-> m, second |-> s]
  BY <1>11 DEF Cron!UtcToWall
<1> HIDE DEF w
<1>14. /\ Cron!DateOf[n] = <<w.year, w.month, w.day>> /\ w.year \in Nat /\ w.year <= Years
       /\ w.month \in 1 .. Cron!MonthCount /\ w.day \in Nat \ {0} /\ w.day <= Cron!DaysInMonth(w.year, w.month)
  <2> DEFINE d == Cron!DateOf[n]
  <2>1. /\ d = <<d[1], d[2], d[3]>> /\ d[1] \in 0 .. Years /\ d[2] \in 1 .. Cron!MonthCount
        /\ d[3] \in 1 .. Cron!DaysInMonth(d[1], d[2]) /\ d[1] \in Nat /\ d[3] \in Nat
    BY <1>12, CalendarFinite
  <2>2. w.year = d[1] /\ w.month = d[2] /\ w.day = d[3]
    BY <1>13
  <2>3. Cron!DaysInMonth(d[1], d[2]) \in Nat
    BY <2>1, MonthDays
  <2> HIDE DEF d
  <2> QED BY <2>1, <2>2, <2>3, Constants DEF d
<1>15. Real(w)
  BY <1>4, <1>5, <1>6, <1>7, <1>13, <1>14 DEF Real, Walls
<1>16. Cron!WallToNaiveUtc(w) = InstantOf(n, h, m, s)
  <2>1. DayOf(w) = n /\ w.hour = h /\ w.minute = m /\ w.second = s
    BY <1>12, <1>13, <1>14 DEF DayOf
  <2> QED BY <1>15, <2>1, RealDay
<1> QED BY <1>10, <1>15, <1>16 DEF w

(* Wall times come in the order of their instants. *)
Sooner(v, w) ==
  \/ v.year < w.year
  \/ v.year = w.year /\ v.month < w.month
  \/ v.year = w.year /\ v.month = w.month /\ v.day < w.day
  \/ v.year = w.year /\ v.month = w.month /\ v.day = w.day /\ v.hour < w.hour
  \/ v.year = w.year /\ v.month = w.month /\ v.day = w.day /\ v.hour = w.hour /\ v.minute < w.minute
  \/ /\ v.year = w.year /\ v.month = w.month /\ v.day = w.day /\ v.hour = w.hour /\ v.minute = w.minute
     /\ v.second < w.second

LEMMA InOrderOfTime ==
  ASSUME Assumed, NEW v, NEW w, Real(v), Real(w), Sooner(v, w)
  PROVE  Cron!WallToNaiveUtc(v) < Cron!WallToNaiveUtc(w)
<1> DEFINE ML == Cron!MinuteLength
           HL == Cron!HourLength
           DL == Cron!DayLength
           rest(x) == x.hour * Cron!HourLength + x.minute * Cron!MinuteLength + x.second
<1>1. /\ ML \in Nat \ {0} /\ HL \in Nat \ {0} /\ DL \in Nat \ {0} /\ HL = Minutes * ML /\ DL = Hours * HL /\ ML = Seconds
      /\ Minutes \in Nat /\ Hours \in Nat
  BY Lengths, Constants
<1>2. \A x \in {v, w} : /\ DayOf(x) \in Nat /\ DayOf(x) * DL \in Nat /\ x.hour * HL \in Nat /\ x.minute * ML \in Nat
                        /\ x.hour \in Nat /\ x.minute \in Nat /\ x.second \in Nat /\ x.second < ML /\ x.minute + 1 <= Minutes
                        /\ Cron!WallToNaiveUtc(x) = DayOf(x) * DL + x.hour * HL + x.minute * ML + x.second
                        /\ rest(x) \in 0 .. DL - 1
  <2> SUFFICES ASSUME NEW x, Real(x) PROVE
                        /\ DayOf(x) \in Nat /\ DayOf(x) * DL \in Nat /\ x.hour * HL \in Nat /\ x.minute * ML \in Nat
                        /\ x.hour \in Nat /\ x.minute \in Nat /\ x.second \in Nat /\ x.second < ML /\ x.minute + 1 <= Minutes
                        /\ Cron!WallToNaiveUtc(x) = DayOf(x) * DL + x.hour * HL + x.minute * ML + x.second
                        /\ rest(x) \in 0 .. DL - 1
    OBVIOUS
  <2>1. DayOf(x) \in Nat /\ x.hour \in Nat /\ x.minute \in Nat /\ x.second \in Nat /\ x.second < ML /\ x.minute + 1 <= Minutes
    <3>1. DayOf(x) \in Nat
      BY RealDay
    <3>2. x.hour \in Nat /\ x.minute \in Nat /\ x.second \in Nat /\ x.second < Seconds /\ x.minute < Minutes
      BY DEF Real, Walls
    <3> QED BY <1>1, <3>1, <3>2
  <2>2. DayOf(x) * DL \in Nat /\ x.hour * HL \in Nat /\ x.minute * ML \in Nat
    BY <1>1, <2>1, Product
  <2>3. Cron!WallToNaiveUtc(x) = DayOf(x) * DL + x.hour * HL + x.minute * ML + x.second
    BY RealDay DEF InstantOf
  <2>4. rest(x) \in 0 .. DL - 1
    <3> DEFINE n == DayOf(x)
               h == x.hour
               m == x.minute
               s == x.second
    <3>1. n \in Nat /\ h \in 0 .. Hours - 1 /\ m \in 0 .. Minutes - 1 /\ s \in 0 .. Seconds - 1
      BY RealDay
    <3> HIDE DEF n, h, m, s
    <3>2. h * Cron!HourLength + m * Cron!MinuteLength + s \in 0 .. Cron!DayLength - 1
      BY <3>1, ClockRead
    <3> QED BY <3>2 DEF h, m, s
  <2> QED BY <2>1, <2>2, <2>3, <2>4
<1>3. CASE DayOf(v) < DayOf(w)
  <2>1. DayOf(v) * DL + DL <= DayOf(w) * DL
    BY <1>1, <1>2, <1>3, NextMultiple
  <2>2. Cron!WallToNaiveUtc(v) = DayOf(v) * DL + rest(v) /\ Cron!WallToNaiveUtc(w) = DayOf(w) * DL + rest(w)
    BY <1>2
  <2> HIDE DEF ML, HL, DL, rest
  <2> QED BY <1>1, <1>2, <2>1, <2>2
<1>4. CASE DayOf(v) = DayOf(w) /\ v.hour < w.hour
  <2>1. v.hour * HL + HL <= w.hour * HL
    BY <1>1, <1>2, <1>4, NextMultiple
  <2>2. v.minute * ML + ML <= HL
    <3>1. v.minute \in Nat /\ Minutes \in Nat /\ v.minute < Minutes /\ ML \in Nat
      BY <1>1, <1>2
    <3>2. v.minute * ML + ML <= Minutes * ML
      BY <3>1, NextMultiple
    <3> QED BY <1>1, <3>2
  <2> HIDE DEF ML, HL, DL, rest
  <2> QED BY <1>1, <1>2, <1>4, <2>1, <2>2
<1>5. CASE DayOf(v) = DayOf(w) /\ v.hour = w.hour /\ v.minute < w.minute
  <2>1. v.minute * ML + ML <= w.minute * ML
    BY <1>1, <1>2, <1>5, NextMultiple
  <2> HIDE DEF ML, HL, DL, rest
  <2> QED BY <1>1, <1>2, <1>5, <2>1
<1>6. CASE DayOf(v) = DayOf(w) /\ v.hour = w.hour /\ v.minute = w.minute /\ v.second < w.second
  <2> HIDE DEF ML, HL, DL, rest
  <2> QED BY <1>1, <1>2, <1>6
<1>7. \/ DayOf(v) < DayOf(w)
      \/ DayOf(v) = DayOf(w) /\ v.hour < w.hour
      \/ DayOf(v) = DayOf(w) /\ v.hour = w.hour /\ v.minute < w.minute
      \/ DayOf(v) = DayOf(w) /\ v.hour = w.hour /\ v.minute = w.minute /\ v.second < w.second
  <2>1. <<v.year, v.month, v.day>> \in Cron!Calendar /\ <<w.year, w.month, w.day>> \in Cron!Calendar
    BY RealDay
  <2>2. Cron!Before(<<v.year, v.month, v.day>>, <<w.year, w.month, w.day>>) => DayOf(v) < DayOf(w)
    BY <2>1, DaysOrdered DEF DayOf
  <2> QED BY <2>2 DEF Sooner, Cron!Before, DayOf
<1> QED BY <1>3, <1>4, <1>5, <1>6, <1>7

LEMMA SoonerIs ==
  ASSUME Assumed, NEW v, NEW w, Real(v), Real(w)
  PROVE  Sooner(v, w) <=> Cron!WallToNaiveUtc(v) < Cron!WallToNaiveUtc(w)
<1>1. v = w \/ Sooner(v, w) \/ Sooner(w, v)
  <2>1. \/ Sooner(v, w) \/ Sooner(w, v)
        \/ /\ v.year = w.year /\ v.month = w.month /\ v.day = w.day
           /\ v.hour = w.hour /\ v.minute = w.minute /\ v.second = w.second
    <3>1. ASSUME NEW x, Real(x)
          PROVE  /\ x.year \in Int /\ x.month \in Int /\ x.day \in Int /\ x.hour \in Int
                 /\ x.minute \in Int /\ x.second \in Int
      BY <3>1, WallTyped DEF Real
    <3> QED BY <3>1 DEF Sooner
  <2>2. /\ v = [year |-> v.year, month |-> v.month, day |-> v.day, hour |-> v.hour, minute |-> v.minute, second |-> v.second]
        /\ w = [year |-> w.year, month |-> w.month, day |-> w.day, hour |-> w.hour, minute |-> w.minute, second |-> w.second]
    BY DEF Real, Walls
  <2> QED BY <2>1, <2>2
<1>2. Cron!WallToNaiveUtc(v) \in Int /\ Cron!WallToNaiveUtc(w) \in Int
  BY ThereAndBack
<1> QED BY <1>1, <1>2, InOrderOfTime

-----------------------------------------------------------------------------
(* A pattern that was accepted: every value of a field is within the bounds of the field. *)
Parsed(c) == \E p \in Patterns : ~Cron!Malformed(p) /\ c = Cron!ParseCronPattern(p)

LEMMA FieldWithin ==
  ASSUME NEW field \in SUBSET Cron!Tokens, NEW low \in Nat, NEW high \in Nat,
         \A k \in field : k.kind \notin Cron!Modifiers => ~Cron!TokenBad(k, [low |-> low, high |-> high])
  PROVE  /\ Cron!ParseCronField(field, [low |-> low, high |-> high]) \in SUBSET (low .. high)
         /\ \A k \in field : k.kind \notin Cron!Modifiers
                               => Cron!ParseCronField(field, [low |-> low, high |-> high]) /= {}
<1> DEFINE spec == [low |-> low, high |-> high]
<1>1. ASSUME NEW k \in field, k.kind \notin Cron!Modifiers
      PROVE  Cron!TokenValues(k, spec) \in SUBSET (low .. high) /\ Cron!First(k, spec) \in Cron!TokenValues(k, spec)
  <2>1. k.from \in Nat /\ k.to \in Nat /\ k.step \in Nat
    BY DEF Cron!Tokens
  <2>2. spec.low = low /\ spec.high = high
    OBVIOUS
  <2>3. /\ k.step > 0 /\ Cron!First(k, spec) >= low /\ Cron!First(k, spec) <= high
        /\ k.kind = "range" => k.to <= high /\ k.from <= k.to
    <3>1. ~Cron!TokenBad(k, spec)
      BY <1>1
    <3>2. Cron!First(k, spec) \in Nat
      BY <2>1, <2>2 DEF Cron!First
    <3> QED BY <2>1, <2>2, <3>1, <3>2 DEF Cron!TokenBad
  <2>4. Cron!First(k, spec) \in Nat /\ Cron!Last(k, spec) \in Nat /\ Cron!Last(k, spec) <= high /\ Cron!First(k, spec) <= Cron!Last(k, spec)
    BY <2>1, <2>2, <2>3 DEF Cron!First, Cron!Last
  <2>5. CASE k.kind = "value"
    <3>1. Cron!TokenValues(k, spec) = {k.from} /\ Cron!First(k, spec) = k.from
      BY <2>5 DEF Cron!TokenValues, Cron!First
    <3> QED BY <2>1, <2>3, <3>1
  <2>6. CASE k.kind /= "value"
    <3> DEFINE a == Cron!First(k, spec)
               b == Cron!Last(k, spec)
               step == k.step
    <3>1. Cron!TokenValues(k, spec) = {n \in a .. b : (n - a) % step = 0}
      BY <2>6 DEF Cron!TokenValues, Cron!AddRange
    <3>2. a \in Nat /\ b \in Nat /\ a <= b /\ low <= a /\ b <= high /\ step \in Nat \ {0}
      BY <2>1, <2>3, <2>4
    <3> HIDE DEF a, b, step, spec
    <3>3. (a - a) % step = 0
      BY <3>2
    <3>4. a \in Cron!TokenValues(k, spec)
      BY <3>1, <3>2, <3>3
    <3> QED BY <3>1, <3>2, <3>4 DEF a
  <2> QED BY <2>5, <2>6
<1> HIDE DEF spec
<1>2. Cron!ParseCronField(field, spec) = UNION {Cron!TokenValues(k, spec) : k \in {j \in field : j.kind \notin Cron!Modifiers}}
  BY DEF Cron!ParseCronField
<1>3. Cron!ParseCronField(field, spec) \in SUBSET (low .. high)
  BY <1>1, <1>2
<1>4. ASSUME NEW k \in field, k.kind \notin Cron!Modifiers PROVE Cron!ParseCronField(field, spec) /= {}
  BY <1>1, <1>2, <1>4
<1> QED BY <1>3, <1>4 DEF spec

LEMMA ParsedFields ==
  ASSUME Assumed, NEW c, Parsed(c)
  PROVE  /\ c.second \in SUBSET (0 .. Seconds - 1) /\ c.minute \in SUBSET (0 .. Minutes - 1) /\ c.hour \in SUBSET (0 .. Hours - 1)
         /\ c.month \in SUBSET (1 .. Cron!MonthCount) /\ c.month /= {}
         /\ c.dom \in SUBSET (1 .. Cron!MaxDay) /\ c.dow \in SUBSET (0 .. 6)
         /\ c.domMods.domNearest \in SUBSET (Nat \ {0})
<1>1. PICK p \in Patterns : ~Cron!Malformed(p) /\ c = Cron!ParseCronPattern(p)
  BY DEF Parsed
<1>2. /\ Seconds - 1 \in Nat /\ Minutes - 1 \in Nat /\ Hours - 1 \in Nat /\ Cron!MonthCount \in Nat /\ Cron!MaxDay \in Nat
  BY Constants, MaxDayIs
<1>3. /\ p.second \in SUBSET Cron!Tokens /\ p.minute \in SUBSET Cron!Tokens /\ p.hour \in SUBSET Cron!Tokens
      /\ p.dom \in SUBSET Cron!Tokens /\ p.month \in SUBSET Cron!Tokens /\ p.dow \in SUBSET Cron!Tokens
      /\ p.month /= {} /\ \A k \in p.month : k.kind \notin Cron!Modifiers
  <2>1. \A f \in Cron!Fields : p[f] \in SUBSET Cron!Tokens
    BY DEF Assumed, Cron!PatternAssumption
  <2> QED BY <2>1 DEF Cron!Fields, Assumed, Cron!PatternAssumption
<1>4. \A f \in {<<p.second, Cron!CronSecond>>, <<p.minute, Cron!CronMinute>>, <<p.hour, Cron!CronHour>>,
                <<p.dom, Cron!CronDom>>, <<p.month, Cron!CronMonth>>, <<p.dow, Cron!CronDow>>} :
         \A k \in f[1] : IF k.kind \in Cron!Modifiers THEN ~Cron!ModifierBad(k, f[2]) ELSE ~Cron!TokenBad(k, f[2])
  BY <1>1 DEF Cron!Malformed
<1>5. ASSUME NEW field, NEW spec,
             <<field, spec>> \in {<<p.second, Cron!CronSecond>>, <<p.minute, Cron!CronMinute>>, <<p.hour, Cron!CronHour>>,
                                  <<p.dom, Cron!CronDom>>, <<p.month, Cron!CronMonth>>, <<p.dow, Cron!CronDow>>}
      PROVE  \A k \in field : IF k.kind \in Cron!Modifiers THEN ~Cron!ModifierBad(k, spec) ELSE ~Cron!TokenBad(k, spec)
  BY <1>4, <1>5
<1>6. Cron!ParseCronField(p.second, Cron!CronSecond) \in SUBSET (0 .. Seconds - 1)
  <2>1. \A k \in p.second : k.kind \notin Cron!Modifiers => ~Cron!TokenBad(k, Cron!CronSecond)
    BY <1>5
  <2> QED BY <1>2, <1>3, <2>1, FieldWithin DEF Cron!CronSecond
<1>7. Cron!ParseCronField(p.minute, Cron!CronMinute) \in SUBSET (0 .. Minutes - 1)
  <2>1. \A k \in p.minute : k.kind \notin Cron!Modifiers => ~Cron!TokenBad(k, Cron!CronMinute)
    BY <1>5
  <2> QED BY <1>2, <1>3, <2>1, FieldWithin DEF Cron!CronMinute
<1>8. Cron!ParseCronField(p.hour, Cron!CronHour) \in SUBSET (0 .. Hours - 1)
  <2>1. \A k \in p.hour : k.kind \notin Cron!Modifiers => ~Cron!TokenBad(k, Cron!CronHour)
    BY <1>5
  <2> QED BY <1>2, <1>3, <2>1, FieldWithin DEF Cron!CronHour
<1>9. Cron!ParseCronField(p.dom, Cron!CronDom) \in SUBSET (1 .. Cron!MaxDay)
  <2>1. \A k \in p.dom : k.kind \notin Cron!Modifiers => ~Cron!TokenBad(k, Cron!CronDom)
    BY <1>5
  <2> QED BY <1>2, <1>3, <2>1, FieldWithin DEF Cron!CronDom
<1>10. Cron!ParseCronField(p.month, Cron!CronMonth) \in SUBSET (1 .. Cron!MonthCount) /\ Cron!ParseCronField(p.month, Cron!CronMonth) /= {}
  <2>1. \A k \in p.month : k.kind \notin Cron!Modifiers => ~Cron!TokenBad(k, Cron!CronMonth)
    BY <1>5
  <2> QED BY <1>2, <1>3, <2>1, FieldWithin DEF Cron!CronMonth
<1>11. Cron!ParseDow(p.dow) \in SUBSET (0 .. 6)
  <2>1. \A k \in p.dow : k.kind \notin Cron!Modifiers => ~Cron!TokenBad(k, Cron!CronDow)
    BY <1>5
  <2>2. Cron!ParseCronField(p.dow, Cron!CronDow) \in SUBSET (0 .. 7)
    BY <1>3, <2>1, FieldWithin DEF Cron!CronDow
  <2>3. \A n \in 0 .. 7 : n = 7 \/ n \in 0 .. 6
    OBVIOUS
  <2>4. 0 \in 0 .. 6
    OBVIOUS
  <2> QED BY <2>2, <2>3, <2>4 DEF Cron!ParseDow
<1>12. ASSUME NEW k \in p.dom, k.kind = "W" PROVE k.from \in Nat \ {0}
  <2>1. k.kind \in Cron!Modifiers
    BY <1>12 DEF Cron!Modifiers
  <2>2. ~Cron!ModifierBad(k, Cron!CronDom)
    BY <1>5, <2>1
  <2>3. k.from >= 1 /\ k.from \in Nat
    BY <1>3, <1>12, <2>2 DEF Cron!ModifierBad, Cron!CheckCronBound, Cron!CronDom, Cron!Tokens
  <2> QED BY <2>3
<1>13. /\ c.second = Cron!ParseCronField(p.second, Cron!CronSecond) /\ c.minute = Cron!ParseCronField(p.minute, Cron!CronMinute)
       /\ c.hour = Cron!ParseCronField(p.hour, Cron!CronHour) /\ c.month = Cron!ParseCronField(p.month, Cron!CronMonth)
       /\ c.dom = Cron!ParseCronField(p.dom, Cron!CronDom) /\ c.dow = Cron!ParseDow(p.dow)
       /\ c.domMods.domNearest = {k.from : k \in {j \in p.dom : j.kind = "W"}}
  BY <1>1 DEF Cron!ParseCronPattern, Cron!ParseDomModifier
<1>14. c.domMods.domNearest \in SUBSET (Nat \ {0})
  BY <1>12, <1>13
<1> QED BY <1>6, <1>7, <1>8, <1>9, <1>10, <1>11, <1>13, <1>14

-----------------------------------------------------------------------------
(* The walk: each step moves on to a later wall time and passes none that matches. *)
LEMMA SoonerOrder ==
  ASSUME Assumed, NEW u \in Walls, NEW v \in Walls, NEW w \in Walls
  PROVE  /\ Sooner(u, v) /\ Sooner(v, w) => Sooner(u, w)
         /\ ~(Sooner(u, v) /\ Sooner(v, u))
BY WallTyped DEF Sooner

LEMMA SoonerTotal ==
  ASSUME Assumed, NEW v \in Walls, NEW w \in Walls
  PROVE  v = w \/ Sooner(v, w) \/ Sooner(w, v)
<1>1. \/ Sooner(v, w) \/ Sooner(w, v)
      \/ /\ v.year = w.year /\ v.month = w.month /\ v.day = w.day
         /\ v.hour = w.hour /\ v.minute = w.minute /\ v.second = w.second
  BY WallTyped DEF Sooner
<1>2. /\ v = [year |-> v.year, month |-> v.month, day |-> v.day, hour |-> v.hour, minute |-> v.minute, second |-> v.second]
      /\ w = [year |-> w.year, month |-> w.month, day |-> w.day, hour |-> w.hour, minute |-> w.minute, second |-> w.second]
  BY WallTyped
<1> QED BY <1>1, <1>2

Jump(next) ==
  /\ next \in Walls /\ Sooner(wall, next)
  /\ \A v : Real(v) /\ ~Sooner(v, wall) /\ Sooner(v, next) => ~Cron!CronWallMatches(cron, v)

At(y, mo, d, h, m, s) == [year |-> y, month |-> mo, day |-> d, hour |-> h, minute |-> m, second |-> s]
LEMMA Placed ==
  ASSUME Assumed, NEW y \in Nat, NEW mo \in 1 .. Cron!MonthCount, NEW d \in Nat \ {0}, NEW h \in Nat, NEW m \in Nat, NEW s \in Nat
  PROVE  At(y, mo, d, h, m, s) \in Walls
BY DEF Walls, At

LEMMA Changes ==
  ASSUME Assumed, NEW w \in Walls, NEW n
  PROVE  /\ Cron!Midnight([w EXCEPT !.month = n, !.day = 1]) = At(w.year, n, 1, 0, 0, 0)
         /\ Cron!Midnight([w EXCEPT !.year = @ + 1, !.month = n, !.day = 1]) = At(w.year + 1, n, 1, 0, 0, 0)
         /\ Cron!Midnight([w EXCEPT !.month = @ + 1, !.day = 1]) = At(w.year, w.month + 1, 1, 0, 0, 0)
         /\ Cron!NextDay(w) = At(w.year, w.month, w.day + 1, 0, 0, 0)
         /\ [w EXCEPT !.hour = n, !.minute = 0, !.second = 0] = At(w.year, w.month, w.day, n, 0, 0)
         /\ [w EXCEPT !.hour = @ + 1, !.minute = 0, !.second = 0] = At(w.year, w.month, w.day, w.hour + 1, 0, 0)
         /\ [w EXCEPT !.minute = n, !.second = 0] = At(w.year, w.month, w.day, w.hour, n, 0)
         /\ [w EXCEPT !.minute = @ + 1, !.second = 0] = At(w.year, w.month, w.day, w.hour, w.minute + 1, 0)
         /\ [w EXCEPT !.second = n] = At(w.year, w.month, w.day, w.hour, w.minute, n)
<1>1. w = [year |-> w.year, month |-> w.month, day |-> w.day, hour |-> w.hour, minute |-> w.minute, second |-> w.second]
  BY WallTyped
<1>2. ASSUME NEW x, x = Cron!Midnight([w EXCEPT !.month = n, !.day = 1]) PROVE x = At(w.year, n, 1, 0, 0, 0)
  BY <1>1, <1>2 DEF At, Cron!Midnight
<1>3. ASSUME NEW x, x = Cron!Midnight([w EXCEPT !.year = @ + 1, !.month = n, !.day = 1]) PROVE x = At(w.year + 1, n, 1, 0, 0, 0)
  BY <1>1, <1>3 DEF At, Cron!Midnight
<1>4. ASSUME NEW x, x = Cron!Midnight([w EXCEPT !.month = @ + 1, !.day = 1]) PROVE x = At(w.year, w.month + 1, 1, 0, 0, 0)
  BY <1>1, <1>4 DEF At, Cron!Midnight
<1>5. ASSUME NEW x, x = Cron!NextDay(w) PROVE x = At(w.year, w.month, w.day + 1, 0, 0, 0)
  BY <1>1, <1>5 DEF At, Cron!Midnight, Cron!NextDay
<1>6. ASSUME NEW x, x = [w EXCEPT !.hour = n, !.minute = 0, !.second = 0] PROVE x = At(w.year, w.month, w.day, n, 0, 0)
  BY <1>1, <1>6 DEF At
<1>7. ASSUME NEW x, x = [w EXCEPT !.hour = @ + 1, !.minute = 0, !.second = 0] PROVE x = At(w.year, w.month, w.day, w.hour + 1, 0, 0)
  BY <1>1, <1>7 DEF At
<1>8. ASSUME NEW x, x = [w EXCEPT !.minute = n, !.second = 0] PROVE x = At(w.year, w.month, w.day, w.hour, n, 0)
  BY <1>1, <1>8 DEF At
<1>9. ASSUME NEW x, x = [w EXCEPT !.minute = @ + 1, !.second = 0] PROVE x = At(w.year, w.month, w.day, w.hour, w.minute + 1, 0)
  BY <1>1, <1>9 DEF At
<1>10. ASSUME NEW x, x = [w EXCEPT !.second = n] PROVE x = At(w.year, w.month, w.day, w.hour, w.minute, n)
  BY <1>1, <1>10 DEF At
<1> QED BY <1>2, <1>3, <1>4, <1>5, <1>6, <1>7, <1>8, <1>9, <1>10, Zenon

ToMonth ==
  Cron!Midnight(IF Cron!Above(wall.month, cron.month) # Cron!NoTime
     THEN [wall EXCEPT !.month = Cron!Above(wall.month, cron.month), !.day = 1]
     ELSE [wall EXCEPT !.year = @ + 1, !.month = Cron!Min(cron.month), !.day = 1])
LEMMA JumpMonth ==
  ASSUME Assumed, Parsed(cron), wall \in Walls, ~Cron!InMonth
  PROVE  Jump(ToMonth)
<1> DEFINE next == ToMonth
<1> SUFFICES Jump(next)
  OBVIOUS
<1> HIDE DEF next
<1> DEFINE n == Cron!Above(wall.month, cron.month)
           M == cron.month
<1>1. M \in SUBSET (1 .. Cron!MonthCount) /\ M /= {} /\ M \in SUBSET Nat
  BY ParsedFields, Constants
<1>2. /\ wall.year \in Nat /\ wall.month \in Nat /\ wall.day \in Nat /\ wall.day >= 1
  BY WallTyped
<1>3. \/ n = Cron!NoTime /\ \A m \in M : m <= wall.month
      \/ n \in M /\ n > wall.month /\ \A m \in M : m <= wall.month \/ m >= n
  BY <1>1, <1>2, AboveOf
<1>4. wall.month \notin M
  BY DEF Cron!InMonth
<1>5. Cron!Min(M) \in M /\ \A m \in M : Cron!Min(M) <= m
  BY <1>1, MinOf
<1> DEFINE low == Cron!Min(M)
<1>6. \A v : Real(v) => /\ v.year \in Nat /\ v.month \in Nat /\ v.day \in Nat /\ v.day >= 1
                        /\ v.hour \in Nat /\ v.minute \in Nat /\ v.second \in Nat
  BY WallTyped DEF Real
<1>7. CASE n /= Cron!NoTime
  <2>1. next = At(wall.year, n, 1, 0, 0, 0)
    <3>1. next = Cron!Midnight([wall EXCEPT !.month = n, !.day = 1])
      BY <1>7, Zenon DEF next, ToMonth
    <3> HIDE DEF n
    <3> QED BY <3>1, Changes, Zenon
  <2>2. n \in M /\ n > wall.month /\ (\A m \in M : m <= wall.month \/ m >= n) /\ n \in Nat
    BY <1>1, <1>3, <1>7
  <2> HIDE DEF n, M
  <2>3. next \in Walls /\ next.year = wall.year /\ next.month = n /\ next.day = 1
         /\ next.hour = 0 /\ next.minute = 0 /\ next.second = 0
    <3>8. next \in Walls
      BY <1>1, <1>2, <2>1, <2>2, Placed
    <3>9. next.year = wall.year /\ next.month = n /\ next.day = 1
           /\ next.hour = 0 /\ next.minute = 0 /\ next.second = 0
      BY <2>1 DEF At
    <3> QED BY <3>8, <3>9
  <2>4. Sooner(wall, next)
    BY <1>2, <2>3, <2>2 DEF Sooner
  <2>5. ASSUME NEW v, Real(v), ~Sooner(v, wall), Sooner(v, next) PROVE v.month \notin M
    BY <1>1, <1>2, <1>4, <1>6, <2>3, <2>2, <2>5 DEF Sooner
  <2> QED BY <2>3, <2>4, <2>5 DEF Jump, Cron!CronWallMatches, M
<1>8. CASE n = Cron!NoTime
  <2>1. next = At(wall.year + 1, low, 1, 0, 0, 0)
    BY Changes, Zenon, <1>8 DEF next, ToMonth
  <2>2. \A m \in M : m <= wall.month /\ m \in Nat
    BY <1>1, <1>3, <1>8 DEF Cron!NoTime
  <2>3. low \in M /\ (\A m \in M : low <= m) /\ low \in Nat
    BY <1>1, <1>5
  <2> HIDE DEF n, M, low
  <2>4. next \in Walls /\ next.year = wall.year + 1 /\ next.month = low /\ next.day = 1
         /\ next.hour = 0 /\ next.minute = 0 /\ next.second = 0
    <3>8. next \in Walls
      BY <1>1, <1>2, <2>1, <2>3, Placed
    <3>9. next.year = wall.year + 1 /\ next.month = low /\ next.day = 1
           /\ next.hour = 0 /\ next.minute = 0 /\ next.second = 0
      BY <2>1 DEF At
    <3> QED BY <3>8, <3>9
  <2>5. Sooner(wall, next)
    BY <1>2, <2>4 DEF Sooner
  <2>6. ASSUME NEW v, Real(v), ~Sooner(v, wall), Sooner(v, next) PROVE v.month \notin M
    BY <1>1, <1>2, <1>4, <1>6, <2>4, <2>2, <2>3, <2>6 DEF Sooner
  <2> QED BY <2>4, <2>5, <2>6 DEF Jump, Cron!CronWallMatches, M
<1> QED BY <1>7, <1>8

ToOverflow ==
  Cron!Midnight(IF wall.month = Cron!MonthCount
     THEN [wall EXCEPT !.year = @ + 1, !.month = 1, !.day = 1]
     ELSE [wall EXCEPT !.month = @ + 1, !.day = 1])
LEMMA JumpOverflow ==
  ASSUME Assumed, wall \in Walls, Cron!Overflow
  PROVE  Jump(ToOverflow)
<1> DEFINE next == ToOverflow
<1> SUFFICES Jump(next)
  OBVIOUS
<1> HIDE DEF next
<1>1. /\ wall.year \in Nat /\ wall.month \in Nat /\ wall.month \in 1 .. Cron!MonthCount /\ wall.day \in Nat /\ wall.day >= 1
      /\ Cron!MonthCount \in Nat
  BY WallTyped, Constants
<1>2. \A v : Real(v) => /\ v.year \in Nat /\ v.month \in Nat /\ v.day \in Nat /\ v.day >= 1
                        /\ v.hour \in Nat /\ v.minute \in Nat /\ v.second \in Nat /\ v.month \in 1 .. Cron!MonthCount
                        /\ v.day <= Cron!DaysInMonth(v.year, v.month)
  <2> SUFFICES ASSUME NEW v, Real(v)
               PROVE  /\ v.year \in Nat /\ v.month \in Nat /\ v.day \in Nat /\ v.day >= 1
                      /\ v.hour \in Nat /\ v.minute \in Nat /\ v.second \in Nat /\ v.month \in 1 .. Cron!MonthCount
                      /\ v.day <= Cron!DaysInMonth(v.year, v.month)
    OBVIOUS
  <2>1. v \in Walls /\ v.day <= Cron!DaysInMonth(v.year, v.month)
    BY DEF Real
  <2>2. v.month \in 1 .. Cron!MonthCount /\ v.day \in Nat \ {0}
    BY <2>1, WallTyped
  <2> QED BY <1>1, <2>1, <2>2, WallTyped
<1>3. wall.day > Cron!DaysInMonth(wall.year, wall.month) /\ Cron!DaysInMonth(wall.year, wall.month) \in Nat
  BY <1>1, MonthDays DEF Cron!Overflow
<1>4. \A v : Real(v) /\ v.year = wall.year /\ v.month = wall.month => v.day < wall.day
  BY <1>1, <1>2, <1>3
<1>5. CASE wall.month /= Cron!MonthCount
  <2>1. next = At(wall.year, wall.month + 1, 1, 0, 0, 0)
    BY Changes, Zenon, <1>5 DEF next, ToOverflow
  <2>2. wall.month + 1 \in 1 .. Cron!MonthCount
    BY <1>1, <1>5
  <2>3. next \in Walls /\ next.year = wall.year /\ next.month = wall.month + 1 /\ next.day = 1
         /\ next.hour = 0 /\ next.minute = 0 /\ next.second = 0
    <3>8. next \in Walls
      BY <1>1, <2>1, <2>2, Placed
    <3>9. next.year = wall.year /\ next.month = wall.month + 1 /\ next.day = 1
           /\ next.hour = 0 /\ next.minute = 0 /\ next.second = 0
      BY <2>1 DEF At
    <3> QED BY <3>8, <3>9
  <2>4. Sooner(wall, next)
    BY <1>1, <2>3 DEF Sooner
  <2>5. ASSUME NEW v, Real(v), ~Sooner(v, wall), Sooner(v, next) PROVE FALSE
    BY <1>1, <1>2, <1>4, <2>3, <2>5 DEF Sooner
  <2> QED BY <2>3, <2>4, <2>5 DEF Jump
<1>6. CASE wall.month = Cron!MonthCount
  <2>1. next = At(wall.year + 1, 1, 1, 0, 0, 0)
    BY Changes, Zenon, <1>6 DEF next, ToOverflow
  <2>2. 1 \in 1 .. Cron!MonthCount
    BY <1>1
  <2>3. next \in Walls /\ next.year = wall.year + 1 /\ next.month = 1 /\ next.day = 1
         /\ next.hour = 0 /\ next.minute = 0 /\ next.second = 0
    <3>8. next \in Walls
      BY <1>1, <2>1, <2>2, Placed
    <3>9. next.year = wall.year + 1 /\ next.month = 1 /\ next.day = 1
           /\ next.hour = 0 /\ next.minute = 0 /\ next.second = 0
      BY <2>1 DEF At
    <3> QED BY <3>8, <3>9
  <2>4. Sooner(wall, next)
    BY <1>1, <2>3 DEF Sooner
  <2>5. ASSUME NEW v, Real(v), ~Sooner(v, wall), Sooner(v, next) PROVE FALSE
    BY <1>1, <1>2, <1>4, <1>6, <2>3, <2>5 DEF Sooner
  <2> QED BY <2>3, <2>4, <2>5 DEF Jump
<1> QED BY <1>5, <1>6

(* The day after: whatever the rest of the day holds must not match. *)
LEMMA JumpDay ==
  ASSUME Assumed, wall \in Walls,
         \A v : /\ Real(v) /\ v.year = wall.year /\ v.month = wall.month /\ v.day = wall.day /\ v.hour >= wall.hour
                => ~Cron!CronWallMatches(cron, v)
  PROVE  Jump(Cron!NextDay(wall))
<1> DEFINE next == Cron!NextDay(wall)
<1> SUFFICES Jump(next)
  OBVIOUS
<1> HIDE DEF next
<1>1. /\ wall.year \in Nat /\ wall.month \in Nat /\ wall.month \in 1 .. Cron!MonthCount /\ wall.day \in Nat \ {0} /\ wall.hour \in Nat
  BY WallTyped
<1>2. \A v : Real(v) => /\ v.year \in Nat /\ v.month \in Nat /\ v.day \in Nat
                        /\ v.hour \in Nat /\ v.minute \in Nat /\ v.second \in Nat
  BY WallTyped DEF Real
<1>3. next = At(wall.year, wall.month, wall.day + 1, 0, 0, 0)
  BY Changes, Zenon DEF next
<1>4. next \in Walls /\ next.year = wall.year /\ next.month = wall.month /\ next.day = wall.day + 1
       /\ next.hour = 0 /\ next.minute = 0 /\ next.second = 0
  <2>1. wall.day + 1 \in Nat \ {0}
    BY <1>1
  <2>8. next \in Walls
    BY <1>1, <1>3, <2>1, Placed
  <2>9. next.year = wall.year /\ next.month = wall.month /\ next.day = wall.day + 1
         /\ next.hour = 0 /\ next.minute = 0 /\ next.second = 0
    BY <1>3 DEF At
  <2> QED BY <2>8, <2>9
<1>5. Sooner(wall, next)
  BY <1>1, <1>4 DEF Sooner
<1>6. ASSUME NEW v, Real(v), ~Sooner(v, wall), Sooner(v, next) PROVE ~Cron!CronWallMatches(cron, v)
  <2>1. v.year = wall.year /\ v.month = wall.month /\ v.day = wall.day /\ v.hour >= wall.hour
    BY <1>1, <1>2, <1>4, <1>6 DEF Sooner
  <2> QED BY <1>6, <2>1
<1> QED BY <1>4, <1>5, <1>6 DEF Jump

ToHour ==
  IF Cron!Above(wall.hour, cron.hour) # Cron!NoTime
     THEN [wall EXCEPT !.hour = Cron!Above(wall.hour, cron.hour), !.minute = 0, !.second = 0]
     ELSE Cron!NextDay(wall)
LEMMA JumpHour ==
  ASSUME Assumed, Parsed(cron), wall \in Walls, wall.hour \notin cron.hour
  PROVE  Jump(ToHour)
<1> DEFINE next == ToHour
<1> SUFFICES Jump(next)
  OBVIOUS
<1> HIDE DEF next
<1> DEFINE n == Cron!Above(wall.hour, cron.hour)
           M == cron.hour
<1>1. M \in SUBSET Nat
  BY ParsedFields, Constants
<1>2. /\ wall.year \in Nat /\ wall.month \in Nat /\ wall.month \in 1 .. Cron!MonthCount /\ wall.day \in Nat \ {0} /\ wall.hour \in Nat
  BY WallTyped
<1>3. \/ n = Cron!NoTime /\ \A m \in M : m <= wall.hour
      \/ n \in M /\ n > wall.hour /\ \A m \in M : m <= wall.hour \/ m >= n
  BY <1>1, <1>2, AboveOf
<1>4. \A v : Real(v) => /\ v.year \in Nat /\ v.month \in Nat /\ v.day \in Nat
                        /\ v.hour \in Nat /\ v.minute \in Nat /\ v.second \in Nat
  BY WallTyped DEF Real
<1>5. CASE n /= Cron!NoTime
  <2>1. next = At(wall.year, wall.month, wall.day, n, 0, 0)
    BY Changes, Zenon, <1>5 DEF next, ToHour
  <2>2. n \in M /\ n > wall.hour /\ (\A m \in M : m <= wall.hour \/ m >= n) /\ n \in Nat
    BY <1>1, <1>3, <1>5
  <2> HIDE DEF n, M
  <2>3. next \in Walls /\ next.year = wall.year /\ next.month = wall.month /\ next.day = wall.day
         /\ next.hour = n /\ next.minute = 0 /\ next.second = 0
    <3>8. next \in Walls
      BY <1>2, <2>1, <2>2, Placed
    <3>9. next.year = wall.year /\ next.month = wall.month /\ next.day = wall.day
           /\ next.hour = n /\ next.minute = 0 /\ next.second = 0
      BY <2>1 DEF At
    <3> QED BY <3>8, <3>9
  <2>4. Sooner(wall, next)
    BY <1>2, <2>3, <2>2 DEF Sooner
  <2>5. ASSUME NEW v, Real(v), ~Sooner(v, wall), Sooner(v, next) PROVE v.hour \notin M
    <3>1. v.hour >= wall.hour /\ v.hour < n
      BY <1>2, <1>4, <2>3, <2>2, <2>5 DEF Sooner
    <3>2. v.hour \in Nat
      BY <1>4, <2>5
    <3> QED BY <1>2, <2>2, <3>1, <3>2 DEF M
  <2> QED BY <2>3, <2>4, <2>5 DEF Jump, Cron!CronWallMatches, M
<1>6. CASE n = Cron!NoTime
  <2>1. \A m \in M : m <= wall.hour /\ m /= wall.hour
    BY <1>1, <1>3, <1>6 DEF Cron!NoTime
  <2>2. ASSUME NEW v, Real(v), v.hour >= wall.hour PROVE ~Cron!CronWallMatches(cron, v)
    BY <1>1, <1>2, <1>4, <2>1, <2>2 DEF Cron!CronWallMatches
  <2>3. next = Cron!NextDay(wall)
    BY <1>6, Zenon DEF next, ToHour
  <2> QED BY <2>2, <2>3, JumpDay
<1> QED BY <1>5, <1>6

ToMinute ==
  IF Cron!Above(wall.minute, cron.minute) # Cron!NoTime
     THEN [wall EXCEPT !.minute = Cron!Above(wall.minute, cron.minute), !.second = 0]
     ELSE [wall EXCEPT !.hour = @ + 1, !.minute = 0, !.second = 0]
LEMMA JumpMinute ==
  ASSUME Assumed, Parsed(cron), wall \in Walls, wall.minute \notin cron.minute
  PROVE  Jump(ToMinute)
<1> DEFINE next == ToMinute
<1> SUFFICES Jump(next)
  OBVIOUS
<1> HIDE DEF next
<1> DEFINE n == Cron!Above(wall.minute, cron.minute)
           M == cron.minute
<1>1. M \in SUBSET Nat
  BY ParsedFields, Constants
<1>2. /\ wall.year \in Nat /\ wall.month \in Nat /\ wall.month \in 1 .. Cron!MonthCount /\ wall.day \in Nat \ {0} /\ wall.hour \in Nat
      /\ wall.minute \in Nat
  BY WallTyped
<1>3. \/ n = Cron!NoTime /\ \A m \in M : m <= wall.minute
      \/ n \in M /\ n > wall.minute /\ \A m \in M : m <= wall.minute \/ m >= n
  BY <1>1, <1>2, AboveOf
<1>4. \A v : Real(v) => /\ v.year \in Nat /\ v.month \in Nat /\ v.day \in Nat
                        /\ v.hour \in Nat /\ v.minute \in Nat /\ v.second \in Nat
  BY WallTyped DEF Real
<1>5. CASE n /= Cron!NoTime
  <2>1. next = At(wall.year, wall.month, wall.day, wall.hour, n, 0)
    BY Changes, Zenon, <1>5 DEF next, ToMinute
  <2>2. n \in M /\ n > wall.minute /\ (\A m \in M : m <= wall.minute \/ m >= n) /\ n \in Nat
    BY <1>1, <1>3, <1>5
  <2> HIDE DEF n, M
  <2>3. next \in Walls /\ next.year = wall.year /\ next.month = wall.month /\ next.day = wall.day
         /\ next.hour = wall.hour /\ next.minute = n /\ next.second = 0
    <3>8. next \in Walls
      BY <1>2, <2>1, <2>2, Placed
    <3>9. next.year = wall.year /\ next.month = wall.month /\ next.day = wall.day
           /\ next.hour = wall.hour /\ next.minute = n /\ next.second = 0
      BY <2>1 DEF At
    <3> QED BY <3>8, <3>9
  <2>4. Sooner(wall, next)
    BY <1>2, <2>3, <2>2 DEF Sooner
  <2>5. ASSUME NEW v, Real(v), ~Sooner(v, wall), Sooner(v, next) PROVE v.minute \notin M
    <3>1. v.minute >= wall.minute /\ v.minute < n
      BY <1>2, <1>4, <2>3, <2>2, <2>5 DEF Sooner
    <3>2. v.minute \in Nat
      BY <1>4, <2>5
    <3> QED BY <1>2, <2>2, <3>1, <3>2 DEF M
  <2> QED BY <2>3, <2>4, <2>5 DEF Jump, Cron!CronWallMatches, M
<1>6. CASE n = Cron!NoTime
  <2>1. next = At(wall.year, wall.month, wall.day, wall.hour + 1, 0, 0)
    BY Changes, Zenon, <1>6 DEF next, ToMinute
  <2>2. \A m \in M : m < wall.minute
    BY <1>1, <1>2, <1>3, <1>6 DEF Cron!NoTime
  <2> HIDE DEF n, M
  <2>3. next \in Walls /\ next.year = wall.year /\ next.month = wall.month /\ next.day = wall.day
         /\ next.hour = wall.hour + 1 /\ next.minute = 0 /\ next.second = 0
    <3>1. wall.hour + 1 \in Nat
      BY <1>2
    <3>8. next \in Walls
      BY <1>2, <2>1, <3>1, Placed
    <3>9. next.year = wall.year /\ next.month = wall.month /\ next.day = wall.day
           /\ next.hour = wall.hour + 1 /\ next.minute = 0 /\ next.second = 0
      BY <2>1 DEF At
    <3> QED BY <3>8, <3>9
  <2>4. Sooner(wall, next)
    BY <1>2, <2>3 DEF Sooner
  <2>5. ASSUME NEW v, Real(v), ~Sooner(v, wall), Sooner(v, next) PROVE v.minute \notin M
    <3>1. v.minute >= wall.minute
      BY <1>2, <1>4, <2>3, <2>5 DEF Sooner
    <3>2. v.minute \in Nat
      BY <1>4, <2>5
    <3> QED BY <1>1, <1>2, <2>2, <3>1, <3>2
  <2> QED BY <2>3, <2>4, <2>5 DEF Jump, Cron!CronWallMatches, M
<1> QED BY <1>5, <1>6

(* The second that comes next: it is in the field, and none between is. *)
LEMMA SecondNext ==
  ASSUME Assumed, Parsed(cron), wall \in Walls
  PROVE  \/ Cron!NextSecond = Cron!NoTime /\ \A s \in cron.second : s < wall.second
         \/ /\ Cron!NextSecond /= Cron!NoTime /\ Cron!NextSecond \in cron.second /\ Cron!NextSecond \in Nat /\ Cron!NextSecond < Seconds
            /\ Cron!NextSecond >= wall.second /\ \A s \in cron.second : s < wall.second \/ s >= Cron!NextSecond
<1>1. cron.second \in SUBSET Nat /\ \A s \in cron.second : s < Seconds
  BY ParsedFields, Constants
<1>2. wall.second \in Nat
  BY WallTyped
<1>3. CASE wall.second \in cron.second
  BY <1>1, <1>2, <1>3 DEF Cron!NextSecond, Cron!NoTime
<1>4. CASE wall.second \notin cron.second
  <2> DEFINE n == Cron!Above(wall.second, cron.second)
  <2>1. \/ n = Cron!NoTime /\ \A m \in cron.second : m <= wall.second
        \/ n \in cron.second /\ n > wall.second /\ \A m \in cron.second : m <= wall.second \/ m >= n
    BY <1>1, <1>2, AboveOf
  <2>2. Cron!NextSecond = n
    BY <1>4 DEF Cron!NextSecond
  <2> HIDE DEF n
  <2> QED BY <1>1, <1>2, <1>4, <2>1, <2>2 DEF Cron!NoTime
<1> QED BY <1>3, <1>4

ToSecond ==
  [wall EXCEPT !.minute = @ + 1, !.second = 0]
LEMMA JumpSecond ==
  ASSUME Assumed, Parsed(cron), wall \in Walls, Cron!NextSecond = Cron!NoTime
  PROVE  Jump(ToSecond)
<1> DEFINE next == ToSecond
<1> SUFFICES Jump(next)
  OBVIOUS
<1> HIDE DEF next
<1>1. \A s \in cron.second : s < wall.second /\ s \in Nat
  BY SecondNext, ParsedFields, Constants
<1>2. /\ wall.year \in Nat /\ wall.month \in Nat /\ wall.month \in 1 .. Cron!MonthCount /\ wall.day \in Nat \ {0} /\ wall.hour \in Nat
      /\ wall.minute \in Nat /\ wall.second \in Nat
  BY WallTyped
<1>3. \A v : Real(v) => /\ v.year \in Nat /\ v.month \in Nat /\ v.day \in Nat
                        /\ v.hour \in Nat /\ v.minute \in Nat /\ v.second \in Nat
  BY WallTyped DEF Real
<1>4. next = At(wall.year, wall.month, wall.day, wall.hour, wall.minute + 1, 0)
  BY Changes, Zenon DEF next, ToSecond
<1>5. next \in Walls /\ next.year = wall.year /\ next.month = wall.month /\ next.day = wall.day
       /\ next.hour = wall.hour /\ next.minute = wall.minute + 1 /\ next.second = 0
  <2>1. wall.minute + 1 \in Nat
    BY <1>2
  <2>8. next \in Walls
    BY <1>2, <1>4, <2>1, Placed
  <2>9. next.year = wall.year /\ next.month = wall.month /\ next.day = wall.day
         /\ next.hour = wall.hour /\ next.minute = wall.minute + 1 /\ next.second = 0
    BY <1>4 DEF At
  <2> QED BY <2>8, <2>9
<1>6. Sooner(wall, next)
  BY <1>2, <1>5 DEF Sooner
<1>7. ASSUME NEW v, Real(v), ~Sooner(v, wall), Sooner(v, next) PROVE v.second \notin cron.second
  <2>1. v.second >= wall.second
    BY <1>2, <1>3, <1>5, <1>7 DEF Sooner
  <2>2. v.second \in Nat
    BY <1>3, <1>7
  <2> QED BY <1>1, <1>2, <2>1, <2>2
<1> QED BY <1>5, <1>6, <1>7 DEF Jump, Cron!CronWallMatches

-----------------------------------------------------------------------------
(* The day rule: what the code computes for a day is what the documentation says of it. *)
LEMMA WeekdayIs ==
  ASSUME Assumed, NEW w, Real(w)
  PROVE  \E K \in Int : K >= -1 /\ \A n \in 1 .. Cron!DaysInMonth(w.year, w.month) : Cron!Weekday(w, n) = (K + n) % 7
<1> DEFINE L == Cron!DaysInMonth(w.year, w.month)
           B == Cron!DayNumber[<<w.year, w.month, 1>>]
           K == B + FirstDow - 1
<1>1. w.year \in 0 .. Years /\ w.month \in 1 .. Cron!MonthCount /\ w.year \in Nat
  BY WallTyped, Constants DEF Real
<1>2. L \in Nat /\ L >= 3
  BY <1>1, MonthDays
<1> HIDE DEF L
<1>3. 1 \in 1 .. L
  BY <1>2
<1>4. <<w.year, w.month, 1>> \in Cron!Calendar
  BY <1>1, <1>3, DatesIn DEF L
<1>5. B \in Nat
  BY <1>4, DaysOrdered, CalendarFinite
<1>6. FirstDow \in Nat
  BY Constants
<1>7. ASSUME NEW n \in 1 .. L PROVE Cron!Weekday(w, n) = (K + n) % 7
  <2>1. Cron!DayNumber[<<w.year, w.month, n>>] = B + n - 1
    BY <1>1, <1>7, MonthNumbered DEF L
  <2>2. n \in Nat
    BY <1>2
  <2> HIDE DEF B
  <2>3. B + n - 1 + FirstDow = K + n
    BY <1>5, <1>6, <2>2
  <2> QED BY <2>1, <2>3 DEF Cron!Weekday, Cron!DayOfWeek
<1>8. K \in Int /\ K >= -1
  <2> HIDE DEF B
  <2> QED BY <1>5, <1>6
<1> QED BY <1>7, <1>8 DEF L

(* Days of a month of L days whose nth day has weekday (K + n) % 7. *)
LEMMA NearestOne ==
  ASSUME NEW L \in Nat, L >= 3, NEW K \in Int, K >= -1, NEW n \in 1 .. L
  PROVE  /\ Cron!NearestWeekday(n, (K + n) % 7, L) \in 1 .. L
         /\ (K + Cron!NearestWeekday(n, (K + n) % 7, L)) % 7 \in 1 .. 5
         /\ \A e \in 1 .. L : (K + e) % 7 \in 1 .. 5 /\ e /= Cron!NearestWeekday(n, (K + n) % 7, L)
                                => Cron!Distance(Cron!NearestWeekday(n, (K + n) % 7, L), n) < Cron!Distance(e, n)
<1> DEFINE r == (K + n) % 7
           d == Cron!NearestWeekday(n, r, L)
<1>1. n \in Nat /\ n >= 1 /\ n <= L /\ r \in 0 .. 6
  OBVIOUS
<1>2. CASE r \in 1 .. 5
  <2>1. d = n
    BY <1>2 DEF Cron!NearestWeekday
  <2> QED BY <1>1, <1>2, <2>1 DEF Cron!Distance
<1>3. CASE r = 6 /\ n > 1
  <2>1. d = n - 1
    BY <1>3 DEF Cron!NearestWeekday
  <2> QED BY <1>1, <1>3, <2>1 DEF Cron!Distance
<1>4. CASE r = 6 /\ ~(n > 1)
  <2>1. d = n + 2 /\ n = 1
    BY <1>1, <1>4 DEF Cron!NearestWeekday
  <2> QED BY <1>1, <1>4, <2>1 DEF Cron!Distance
<1>5. CASE r = 0 /\ n < L
  <2>1. d = n + 1
    BY <1>5 DEF Cron!NearestWeekday
  <2> QED BY <1>1, <1>5, <2>1 DEF Cron!Distance
<1>6. CASE r = 0 /\ ~(n < L)
  <2>1. d = n - 2 /\ n = L
    BY <1>1, <1>6 DEF Cron!NearestWeekday
  <2> QED BY <1>1, <1>6, <2>1 DEF Cron!Distance
<1>7. r \in 1 .. 5 \/ r = 6 \/ r = 0
  BY <1>1
<1> QED BY <1>2, <1>3, <1>4, <1>5, <1>6, <1>7

LEMMA NearestIs ==
  ASSUME Assumed, NEW w, Real(w), NEW n \in Cron!Days(w)
  PROVE  Cron!Nearest(w, n) = {Cron!NearestWeekday(n, Cron!Weekday(w, n), Cron!DaysInMonth(w.year, w.month))}
<1> DEFINE L == Cron!DaysInMonth(w.year, w.month)
<1>1. w.year \in Nat /\ w.month \in 1 .. Cron!MonthCount
  BY WallTyped DEF Real
<1>2. L \in Nat /\ L >= 3
  BY <1>1, MonthDays
<1>3. PICK K \in Int : K >= -1 /\ \A m \in 1 .. L : Cron!Weekday(w, m) = (K + m) % 7
  BY WeekdayIs
<1>4. Cron!Days(w) = 1 .. L /\ n \in 1 .. L
  BY DEF Cron!Days
<1> HIDE DEF L
<1> DEFINE d == Cron!NearestWeekday(n, (K + n) % 7, L)
<1>5. /\ d \in 1 .. L /\ (K + d) % 7 \in 1 .. 5
      /\ \A e \in 1 .. L : (K + e) % 7 \in 1 .. 5 /\ e /= d => Cron!Distance(d, n) < Cron!Distance(e, n)
  BY <1>2, <1>3, <1>4, NearestOne
<1>6. d = Cron!NearestWeekday(n, Cron!Weekday(w, n), L)
  BY <1>3, <1>4
<1> HIDE DEF d
<1>7. \A e \in 1 .. L : Cron!Distance(e, n) \in Int
  BY <1>2, <1>4 DEF Cron!Distance
<1>8. Cron!Nearest(w, n) = {e \in 1 .. L : /\ Cron!Weekday(w, e) \in 1 .. 5
                                      /\ \A f \in 1 .. L : Cron!Weekday(w, f) \in 1 .. 5 => Cron!Distance(e, n) <= Cron!Distance(f, n)}
  BY <1>4 DEF Cron!Nearest
<1>9. d \in Cron!Nearest(w, n)
  BY <1>3, <1>5, <1>7, <1>8
<1>10. ASSUME NEW e \in Cron!Nearest(w, n) PROVE e = d
  <2>1. e \in 1 .. L /\ (K + e) % 7 \in 1 .. 5 /\ Cron!Distance(e, n) <= Cron!Distance(d, n)
    BY <1>3, <1>5, <1>8
  <2> QED BY <1>5, <1>7, <2>1
<1>11. Cron!Nearest(w, n) = {d}
  BY <1>9, <1>10
<1> QED BY <1>6, <1>11 DEF L

(* The nth of a weekday is the nth seven days. *)
LEMMA WeeksCounted ==
  ASSUME NEW L \in Nat, NEW K \in Int, K >= -1, NEW D \in 1 .. L
  PROVE  Cardinality({d \in {e \in 1 .. L : (K + e) % 7 = (K + D) % 7} : d <= D}) = Cron!CeilWeek(D)
<1> DEFINE S == {d \in {e \in 1 .. L : (K + e) % 7 = (K + D) % 7} : d <= D}
           q == (D + 6) \div 7
           f == [j \in 1 .. q |-> D - 7 * (j - 1)]
<1>1. D \in Nat /\ D >= 1 /\ D <= L /\ q \in Nat /\ 7 * q <= D + 6 /\ D + 6 < 7 * q + 7
  OBVIOUS
<1>2. f \in [1 .. q -> S]
  <2> SUFFICES ASSUME NEW j \in 1 .. q PROVE D - 7 * (j - 1) \in S
    OBVIOUS
  <2> HIDE DEF q
  <2>1. j \in Nat /\ j >= 1 /\ j <= q
    BY <1>1
  <2>2. D - 7 * (j - 1) \in 1 .. L /\ D - 7 * (j - 1) <= D
    BY <1>1, <2>1
  <2>3. (K + (D - 7 * (j - 1))) % 7 = (K + D) % 7
    BY <1>1, <2>1
  <2> QED BY <2>2, <2>3
<1>3. \A i, j \in 1 .. q : f[i] = f[j] => i = j
  <2> SUFFICES ASSUME NEW i \in 1 .. q, NEW j \in 1 .. q, D - 7 * (i - 1) = D - 7 * (j - 1) PROVE i = j
    OBVIOUS
  <2> HIDE DEF q
  <2> QED BY <1>1
<1>4. ASSUME NEW d \in S PROVE \E j \in 1 .. q : f[j] = d
  <2>1. d \in Nat /\ d >= 1 /\ d <= D /\ (K + d) % 7 = (K + D) % 7
    BY <1>1
  <2>2. PICK i \in Nat : D - d = 7 * i
    <3>1. (D - d) % 7 = 0 /\ D - d \in Nat
      BY <1>1, <2>1
    <3>2. D - d = 7 * ((D - d) \div 7) /\ (D - d) \div 7 \in Nat
      BY <3>1
    <3> QED BY <3>2
  <2>3. i + 1 \in 1 .. q
    BY <1>1, <2>1, <2>2
  <2>4. f[i + 1] = d
    BY <1>1, <2>1, <2>2, <2>3
  <2> QED BY <2>3, <2>4
<1> HIDE DEF f, S, q
<1>5. f \in Injection(1 .. q, S)
  BY <1>2, <1>3, InjectionOf
<1>6. f \in Bijection(1 .. q, S)
  BY <1>2, <1>4, <1>5 DEF Bijection, Surjection
<1>7. IsFiniteSet(1 .. q) /\ Cardinality(1 .. q) = q
  <2>1. 1 \in Int /\ q \in Int /\ q >= 1
    BY <1>1
  <2>2. Cardinality(1 .. q) = IF 1 > q THEN 0 ELSE q - 1 + 1
    BY <2>1, FS_Interval
  <2> QED BY <2>1, <2>2, FS_Interval
<1>8. Cardinality(S) = q
  BY <1>6, <1>7, FS_Bijection DEF ExistsBijection
<1> QED BY <1>8 DEF S, q, Cron!CeilWeek

LEMMA DayRule ==
  ASSUME Assumed, Parsed(cron), NEW w, Real(w)
  PROVE  Cron!CronWallMatches(cron, w) <=> Cron!Written(w)
<1> DEFINE L == Cron!DaysInMonth(w.year, w.month)
           D == w.day
           dow == Cron!Weekday(w, D)
<1>1. w.year \in Nat /\ w.month \in 1 .. Cron!MonthCount /\ D \in Nat \ {0} /\ D <= L
  BY WallTyped DEF Real
<1>2. L \in Nat /\ L >= 3
  BY <1>1, MonthDays
<1>3. PICK K \in Int : K >= -1 /\ \A m \in 1 .. L : Cron!Weekday(w, m) = (K + m) % 7
  BY WeekdayIs
<1>4. Cron!Days(w) = 1 .. L /\ D \in 1 .. L
  BY <1>1, <1>2 DEF Cron!Days
<1> DEFINE dowOf(n) == (((dow + n - D) % 7) + 7) % 7
<1>5. \A n \in 1 .. L : dowOf(n) = Cron!Weekday(w, n)
  <2> SUFFICES ASSUME NEW n \in 1 .. L PROVE dowOf(n) = Cron!Weekday(w, n)
    OBVIOUS
  <2>1. dow = (K + D) % 7 /\ Cron!Weekday(w, n) = (K + n) % 7
    BY <1>3, <1>4
  <2>2. (((((K + D) % 7) + n - D) % 7) + 7) % 7 = (K + n) % 7
    <3> HIDE DEF L, D
    <3> QED BY <1>2, <1>3, <1>4
  <2> QED BY <2>1, <2>2
<1>6. Cron!CronDomMatches(cron, D, dow, L) <=> Cron!DomNames(w)
  <2>1. D = L <=> D + 1 \notin Cron!Days(w)
    <3> HIDE DEF L, D
    <3> QED BY <1>1, <1>2, <1>4
  <2>2. ASSUME NEW n \in 1 .. L PROVE D = Cron!NearestWeekday(n, dowOf(n), L) <=> D \in Cron!Nearest(w, n)
    <3>1. Cron!Nearest(w, n) = {Cron!NearestWeekday(n, Cron!Weekday(w, n), L)}
      BY <1>4, NearestIs
    <3> QED BY <1>5, <3>1
  <2>3. L \in 1 .. L
    BY <1>2
  <2>4. (\E n \in cron.domMods.domNearest : n <= L /\ Cron!NearestWeekday(n, dowOf(n), L) = D)
        <=> \E n \in cron.domMods.domNearest \cap Cron!Days(w) : D \in Cron!Nearest(w, n)
    <3>1. \A n \in cron.domMods.domNearest : n <= L <=> n \in 1 .. L
      BY <1>2, ParsedFields
    <3> HIDE DEF L, D, dowOf
    <3> QED BY <1>4, <2>2, <3>1
  <2>5. Cron!CronDomMatches(cron, D, dow, L)
        <=> \/ D \in cron.dom
            \/ cron.domMods.domLast /\ D = L
            \/ cron.domMods.domLastWeekday /\ D = Cron!NearestWeekday(L, dowOf(L), L)
            \/ \E n \in cron.domMods.domNearest : n <= L /\ Cron!NearestWeekday(n, dowOf(n), L) = D
    BY Zenon DEF Cron!CronDomMatches
  <2>6. Cron!DomNames(w)
        <=> \/ D \in cron.dom
            \/ cron.domMods.domLast /\ D + 1 \notin Cron!Days(w)
            \/ cron.domMods.domLastWeekday /\ D \in Cron!Nearest(w, L)
            \/ \E n \in cron.domMods.domNearest \cap Cron!Days(w) : D \in Cron!Nearest(w, n)
    BY Zenon DEF Cron!DomNames
  <2>7. D = Cron!NearestWeekday(L, dowOf(L), L) <=> D \in Cron!Nearest(w, L)
    BY <2>2, <2>3
  <2> HIDE DEF L, D, dow, dowOf
  <2> QED BY <2>1, <2>4, <2>5, <2>6, <2>7, Zenon
<1>7. Cron!CronDowMatches(cron, D, dow, L) <=> Cron!DowNames(w)
  <2>1. Cron!Same(w) = {e \in 1 .. L : (K + e) % 7 = (K + D) % 7}
    BY <1>3, <1>4 DEF Cron!Same
  <2>2. D + 7 > L <=> \A d \in Cron!Same(w) : d <= D
    <3> HIDE DEF L, D
    <3>1. ASSUME D + 7 > L, NEW d \in 1 .. L, (K + d) % 7 = (K + D) % 7 PROVE d <= D
      BY <1>1, <1>2, <1>3, <3>1
    <3>2. ASSUME ~(D + 7 > L) PROVE D + 7 \in 1 .. L /\ (K + (D + 7)) % 7 = (K + D) % 7 /\ ~(D + 7 <= D)
      BY <1>1, <1>2, <1>3, <3>2
    <3> QED BY <2>1, <3>1, <3>2
  <2>3. Cron!Cardinality({d \in Cron!Same(w) : d <= D}) = Cron!CeilWeek(D)
    <3>1. Cardinality({d \in Cron!Same(w) : d <= D}) = Cron!CeilWeek(D)
      <4> HIDE DEF L, D
      <4>1. Cardinality({d \in {e \in 1 .. L : (K + e) % 7 = (K + D) % 7} : d <= D}) = Cron!CeilWeek(D)
        BY <1>2, <1>3, <1>4, WeeksCounted
      <4> QED BY <2>1, <4>1, Zenon
    <3> QED BY <3>1, SameCount
  <2>4. \A p \in cron.dowMods.dowNth : p = <<p[1], p[2]>>
    <3>1. PICK p \in Patterns : cron = Cron!ParseCronPattern(p)
      BY DEF Parsed
    <3>2. cron.dowMods.dowNth = {<<k.from % 7, k.to>> : k \in {j \in p.dow : j.kind = "nth"}}
      BY <3>1 DEF Cron!ParseCronPattern, Cron!ParseDowModifier
    <3> QED BY <3>2
  <2>5. <<dow, Cron!CeilWeek(D)>> \in cron.dowMods.dowNth
        <=> \E p \in cron.dowMods.dowNth : p[1] = dow /\ p[2] = Cron!Cardinality({d \in Cron!Same(w) : d <= D})
    <3> DEFINE P == cron.dowMods.dowNth
               k == Cron!CeilWeek(D)
               c == Cron!Cardinality({d \in Cron!Same(w) : d <= D})
    <3>1. c = k /\ \A p \in P : p = <<p[1], p[2]>>
      BY <2>3, <2>4
    <3> HIDE DEF P, k, c, dow
    <3>2. <<dow, k>> \in P <=> \E p \in P : p[1] = dow /\ p[2] = c
      BY <3>1
    <3> QED BY <3>2 DEF P, k, c
  <2>6. Cron!CronDowMatches(cron, D, dow, L)
        <=> \/ dow \in cron.dow
            \/ dow \in cron.dowMods.dowLast /\ D + 7 > L
            \/ <<dow, Cron!CeilWeek(D)>> \in cron.dowMods.dowNth
    BY Zenon DEF Cron!CronDowMatches
  <2>7. Cron!DowNames(w)
        <=> \/ dow \in cron.dow
            \/ dow \in cron.dowMods.dowLast /\ \A d \in Cron!Same(w) : d <= D
            \/ \E p \in cron.dowMods.dowNth : p[1] = dow /\ p[2] = Cron!Cardinality({d \in Cron!Same(w) : d <= D})
    BY Zenon DEF Cron!DowNames
  <2> HIDE DEF L, D, dow
  <2> QED BY <2>2, <2>5, <2>6, <2>7, Zenon
<1>8. Cron!CronDayMatches(cron, D, dow, L) <=> Cron!Named(w)
  <2> HIDE DEF L, D, dow
  <2> QED BY <1>6, <1>7, Zenon DEF Cron!CronDayMatches, Cron!Named
<1>9. dow = Cron!DayOfWeek(w.year, w.month, w.day)
  BY DEF Cron!Weekday
<1> QED BY <1>8, <1>9, Zenon DEF Cron!CronWallMatches, Cron!Written

-----------------------------------------------------------------------------
(* The inductive invariant of a search in UTC that stays within the calendar: nothing between the start
   and the wall time reached matches. *)
InCalendar == after \in 0 .. Horizon - 2 /\ endYear \in 0 .. Years
Skips == \A v : Real(v) /\ Cron!WallToNaiveUtc(v) > after /\ Sooner(v, wall) => ~Cron!CronWallMatches(cron, v)
Reached == wall \in Walls /\ ~Sooner(wall, Cron!UtcToWall(after + 1))
SearchInv ==
  /\ pc /= "malformed" => Parsed(cron)
  /\ pc = "walk" /\ tz.utc /\ InCalendar => Reached /\ Skips
  /\ pc = "found" /\ tz.utc /\ InCalendar => Cron!FoundIsNearest

LEMMA StartIs ==
  ASSUME Assumed, InCalendar
  PROVE  Real(Cron!UtcToWall(after + 1)) /\ Cron!WallToNaiveUtc(Cron!UtcToWall(after + 1)) = after + 1 /\ after \in Nat
<1>1. Horizon \in Nat
  BY CalendarFinite, Lengths, Product DEF Horizon
<1>2. after + 1 \in 0 .. Horizon - 1 /\ after \in Nat
  BY <1>1 DEF InCalendar
<1> QED BY <1>2, BackAndThere

(* Where the walk begins nothing has been passed. *)
LEMMA WalkBegins ==
  ASSUME Assumed, NEW a \in 0 .. Horizon - 2, NEW w, w = Cron!UtcToWall(a + 1)
  PROVE  /\ w \in Walls /\ ~Sooner(w, Cron!UtcToWall(a + 1))
         /\ \A v : Real(v) /\ Cron!WallToNaiveUtc(v) > a => ~Sooner(v, w)
<1>1. Horizon \in Nat
  BY CalendarFinite, Lengths, Product DEF Horizon
<1>2. a + 1 \in 0 .. Horizon - 1 /\ a \in Nat
  BY <1>1
<1>3. Real(w) /\ Cron!WallToNaiveUtc(w) = a + 1
  BY <1>2, BackAndThere
<1>4. w \in Walls
  BY <1>3 DEF Real
<1>5. ~Sooner(w, w)
  BY <1>4, SoonerOrder
<1>6. ASSUME NEW v, Real(v), Cron!WallToNaiveUtc(v) > a, Sooner(v, w) PROVE FALSE
  <2>1. Cron!WallToNaiveUtc(v) < Cron!WallToNaiveUtc(w)
    BY <1>3, <1>6, InOrderOfTime
  <2>2. Cron!WallToNaiveUtc(v) \in 0 .. Horizon - 1
    BY <1>6, ThereAndBack
  <2> QED BY <1>1, <1>2, <1>3, <1>6, <2>1, <2>2
<1> QED BY <1>4, <1>5, <1>6

(* A step that jumps ahead keeps the invariant of the walk. *)
LEMMA WalkGoesOn ==
  ASSUME Assumed, InCalendar, Reached, Skips, NEW next, Jump(next)
  PROVE  /\ next \in Walls /\ ~Sooner(next, Cron!UtcToWall(after + 1))
         /\ \A v : Real(v) /\ Cron!WallToNaiveUtc(v) > after /\ Sooner(v, next) => ~Cron!CronWallMatches(cron, v)
<1> DEFINE start == Cron!UtcToWall(after + 1)
<1>1. start \in Walls /\ wall \in Walls /\ next \in Walls /\ Sooner(wall, next) /\ ~Sooner(wall, start)
  BY StartIs DEF Real, Reached, Jump
<1> HIDE DEF start
<1>2. ~Sooner(next, start)
  BY <1>1, SoonerOrder
<1>3. ASSUME NEW v, Real(v), Cron!WallToNaiveUtc(v) > after, Sooner(v, next) PROVE ~Cron!CronWallMatches(cron, v)
  BY <1>3 DEF Skips, Jump
<1> QED BY <1>1, <1>2, <1>3 DEF start

(* In UTC an instant is due when its wall time is written in the pattern. *)
LEMMA DueInUtc ==
  ASSUME tz.utc, NEW t
  PROVE  Cron!Due(t) <=> Cron!Written(Cron!UtcToWall(t))
BY Zenon DEF Cron!Due, Cron!LocalTime, Cron!Again, Cron!Skipped

LEMMA HitIs ==
  ASSUME Assumed, Parsed(cron), InCalendar, Reached, Cron!Walking, Cron!InMinute, Cron!NextSecond /= Cron!NoTime
  PROVE  /\ Real(Cron!Hit) /\ Cron!CronWallMatches(cron, Cron!Hit) /\ ~Sooner(Cron!Hit, wall)
         /\ \A v : Real(v) /\ ~Sooner(v, wall) /\ Sooner(v, Cron!Hit) => ~Cron!CronWallMatches(cron, v)
<1> DEFINE s == Cron!NextSecond
<1>1. /\ s \in cron.second /\ s \in Nat /\ s < Seconds /\ s >= wall.second
      /\ \A x \in cron.second : x < wall.second \/ x >= s
  BY SecondNext DEF Reached
<1>2. /\ wall.year \in Nat /\ wall.month \in Nat /\ wall.month \in 1 .. Cron!MonthCount /\ wall.day \in Nat \ {0}
      /\ wall.hour \in Nat /\ wall.minute \in Nat /\ wall.second \in Nat
  BY WallTyped DEF Reached
<1>3. Cron!Hit = At(wall.year, wall.month, wall.day, wall.hour, wall.minute, s)
  BY Changes, Zenon DEF Cron!Hit, Reached
<1> HIDE DEF s
<1>4. Cron!Hit \in Walls
  BY <1>1, <1>2, <1>3, Placed
<1>5. /\ Cron!Hit.year = wall.year /\ Cron!Hit.month = wall.month /\ Cron!Hit.day = wall.day /\ Cron!Hit.hour = wall.hour
      /\ Cron!Hit.minute = wall.minute /\ Cron!Hit.second = s
  BY <1>3 DEF At
<1>6. wall.year <= Years /\ wall.day <= Cron!DaysInMonth(wall.year, wall.month)
  <2>1. wall.year <= endYear /\ endYear \in 0 .. Years
    BY DEF Cron!Walking, InCalendar
  <2>2. ~(wall.day > Cron!DaysInMonth(wall.year, wall.month)) /\ Cron!DaysInMonth(wall.year, wall.month) \in Nat
    <3>1. ~(wall.day > Cron!DaysInMonth(wall.year, wall.month))
      BY Zenon DEF Cron!InMinute, Cron!InDay, Cron!Overflow
    <3>2. Cron!DaysInMonth(wall.year, wall.month) \in Nat
      <4>1. wall.year \in Nat /\ wall.month \in 1 .. Cron!MonthCount
        BY <1>2
      <4>2. Cron!DaysInMonth(wall.year, wall.month) \in 3 .. Cron!MaxDay /\ Cron!MaxDay \in Nat
        BY <4>1, MonthDays
      <4> QED BY <4>2
    <3> QED BY <3>1, <3>2
  <2>3. Years \in Nat /\ wall.year \in Nat /\ wall.day \in Nat
    BY <1>2, Constants
  <2> QED BY <2>1, <2>2, <2>3
<1>7. /\ wall.month \in cron.month /\ wall.hour \in cron.hour /\ wall.minute \in cron.minute
      /\ Cron!CronDayMatches(cron, wall.day, Cron!DayOfWeek(wall.year, wall.month, wall.day), Cron!DaysInMonth(wall.year, wall.month))
  BY DEF Cron!InMinute, Cron!InMonth, Cron!InDay
<1>8. wall.hour < Hours /\ wall.minute < Minutes
  <2>1. cron.hour \in SUBSET (0 .. Hours - 1) /\ cron.minute \in SUBSET (0 .. Minutes - 1)
    BY ParsedFields, Zenon
  <2>2. Hours \in Nat /\ Minutes \in Nat
    BY Constants
  <2>3. wall.hour \in 0 .. Hours - 1 /\ wall.minute \in 0 .. Minutes - 1
    BY <1>7, <2>1
  <2> QED BY <2>2, <2>3
<1>9. Real(Cron!Hit)
  BY <1>1, <1>4, <1>5, <1>6, <1>8 DEF Real
<1>10. Cron!CronWallMatches(cron, Cron!Hit)
  BY <1>1, <1>5, <1>7, Zenon DEF Cron!CronWallMatches
<1>11. ~Sooner(Cron!Hit, wall)
  BY <1>1, <1>2, <1>5 DEF Sooner
<1>12. ASSUME NEW v, Real(v), ~Sooner(v, wall), Sooner(v, Cron!Hit) PROVE ~Cron!CronWallMatches(cron, v)
  <2>1. /\ v.year \in Nat /\ v.month \in Nat /\ v.day \in Nat /\ v.hour \in Nat /\ v.minute \in Nat /\ v.second \in Nat
    BY <1>12, WallTyped DEF Real
  <2>2. v.second >= wall.second /\ v.second < s
    BY <1>1, <1>2, <1>5, <1>12, <2>1 DEF Sooner
  <2>3. v.second \notin cron.second
    BY <1>1, <1>2, <2>1, <2>2
  <2> QED BY <2>3 DEF Cron!CronWallMatches
<1> QED BY <1>9, <1>10, <1>11, <1>12

LEMMA FoundAt ==
  ASSUME Assumed, Parsed(cron), tz.utc, InCalendar, Reached, Skips, Cron!Walking, Cron!InMinute, Cron!NextSecond /= Cron!NoTime,
         NEW f, f = Cron!Resolve(Cron!Hit)
  PROVE  f /= Cron!NoTime /\ f > after /\ Cron!Due(f) /\ \A t \in (after + 1) .. (f - 1) : ~Cron!Due(t)
<1>1. f = Cron!WallToNaiveUtc(Cron!Hit)
  BY DEF Cron!Resolve
<1>2. /\ Real(Cron!Hit) /\ Cron!CronWallMatches(cron, Cron!Hit) /\ ~Sooner(Cron!Hit, wall)
      /\ \A v : Real(v) /\ ~Sooner(v, wall) /\ Sooner(v, Cron!Hit) => ~Cron!CronWallMatches(cron, v)
  BY HitIs
<1>3. f \in 0 .. Horizon - 1 /\ Cron!UtcToWall(f) = Cron!Hit
  BY <1>1, <1>2, ThereAndBack
<1>4. Horizon \in Nat /\ f \in Nat /\ after \in Nat
  BY <1>3, StartIs, CalendarFinite, Lengths, Product DEF Horizon
<1>5. f /= Cron!NoTime
  BY <1>4 DEF Cron!NoTime
<1>6. f > after
  <2> DEFINE start == Cron!UtcToWall(after + 1)
  <2>1. Real(start) /\ Cron!WallToNaiveUtc(start) = after + 1 /\ ~Sooner(wall, start)
    BY StartIs DEF Reached
  <2> HIDE DEF start
  <2>2. ~Sooner(Cron!Hit, start)
    <3>1. Cron!Hit \in Walls /\ wall \in Walls /\ start \in Walls
      BY <1>2, <2>1 DEF Real, Reached
    <3>2. Cron!Hit = wall \/ Sooner(wall, Cron!Hit)
      BY <1>2, <3>1, SoonerTotal
    <3> QED BY <2>1, <3>1, <3>2, SoonerOrder
  <2>3. ~(f < after + 1)
    BY <1>1, <1>2, <2>1, <2>2, SoonerIs
  <2> QED BY <1>4, <2>3
<1>7. Cron!Due(f)
  <2>1. Cron!Written(Cron!Hit)
    BY <1>2, DayRule
  <2> QED BY <1>3, <2>1, DueInUtc
<1>8. ASSUME NEW t \in (after + 1) .. (f - 1) PROVE ~Cron!Due(t)
  <2> DEFINE v == Cron!UtcToWall(t)
  <2>1. t \in 0 .. Horizon - 1 /\ t > after /\ t < f
    BY <1>3, <1>4
  <2>2. Real(v) /\ Cron!WallToNaiveUtc(v) = t
    BY <2>1, BackAndThere
  <2> HIDE DEF v
  <2>3. Sooner(v, Cron!Hit)
    BY <1>1, <1>2, <2>1, <2>2, SoonerIs
  <2>4. ~Cron!CronWallMatches(cron, v)
    BY <1>2, <2>1, <2>2, <2>3 DEF Skips
  <2>5. ~Cron!Written(v)
    BY <2>2, <2>4, DayRule
  <2> QED BY <2>5, DueInUtc DEF v
<1> QED BY <1>5, <1>6, <1>7, <1>8

LEMMA StillNearest ==
  ASSUME tz.utc, cron' = cron, tz' = tz, after' = after,
         found' > after, Cron!Due(found'), \A t \in (after + 1) .. (found' - 1) : ~Cron!Due(t)
  PROVE  Cron!FoundIsNearest'
<1>1. ASSUME NEW t PROVE Cron!Due(t)' <=> Cron!Due(t)
  BY Zenon DEF Cron!Due, Cron!LocalTime, Cron!Again, Cron!Skipped, Cron!Written, Cron!Named, Cron!DomNames, Cron!DowNames
<1> QED BY <1>1 DEF Cron!FoundIsNearest

LEMMA SearchBegins ==
  ASSUME Assumed, Cron!Init
  PROVE  SearchInv
<1>1. PICK p \in Patterns : /\ cron = IF Cron!Malformed(p) THEN [second |-> {}] ELSE Cron!ParseCronPattern(p)
                            /\ pc = IF Cron!Malformed(p) THEN "malformed" ELSE "call"
  BY DEF Cron!Init
<1>2. pc /= "malformed" => Parsed(cron)
  BY <1>1 DEF Parsed
<1>3. pc /= "walk" /\ pc /= "found"
  BY <1>1
<1> QED BY <1>2, <1>3 DEF SearchInv

LEMMA Jumped ==
  ASSUME Assumed, SearchInv, NEW next, Cron!Walking, tz.utc /\ InCalendar => Jump(next), Cron!GoOn(next)
  PROVE  SearchInv'
<1>1. pc = "walk" /\ pc' = "walk" /\ wall' = next
      /\ cron' = cron /\ tz' = tz /\ after' = after /\ endYear' = endYear
  BY DEF Cron!Walking, Cron!GoOn
<1>2. ASSUME tz'.utc, InCalendar' PROVE Reached' /\ Skips'
  <2>1. tz.utc /\ InCalendar
    BY <1>1, <1>2 DEF InCalendar
  <2>2. /\ next \in Walls /\ ~Sooner(next, Cron!UtcToWall(after + 1))
        /\ \A v : Real(v) /\ Cron!WallToNaiveUtc(v) > after /\ Sooner(v, next) => ~Cron!CronWallMatches(cron, v)
    BY <1>1, <2>1, WalkGoesOn DEF SearchInv
  <2> QED BY <1>1, <2>2, Zenon DEF Reached, Skips
<1>3. pc' /= "malformed" => Parsed(cron)'
  BY <1>1 DEF SearchInv, Parsed
<1>4. pc' /= "found"
  BY <1>1
<1> QED BY <1>2, <1>3, <1>4, Zenon DEF SearchInv

LEMMA SearchSteps ==
  ASSUME Assumed, SearchInv, [Cron!Next]_(Cron!vars)
  PROVE  SearchInv'
<1>1. CASE Cron!NextCronOccurrence
  <2>1. pc = "call" /\ cron' = cron /\ tz' = tz /\ after' = after
    BY <1>1 DEF Cron!NextCronOccurrence
  <2>2. Parsed(cron)'
    BY <2>1 DEF SearchInv, Parsed
  <2>3. ASSUME tz.utc PROVE pc' = "walk" /\ wall' = Cron!UtcToWall(after + 1)
    <3>1. Cron!ScanHit = Cron!NoTime /\ Cron!FirstWall = Cron!UtcToWall(after + 1)
      BY <2>3, Zenon DEF Cron!ScanHit, Cron!FirstWall
    <3> QED BY <1>1, <3>1, Zenon DEF Cron!NextCronOccurrence
  <2>4. ASSUME tz'.utc, InCalendar' PROVE pc' = "walk" /\ Reached' /\ Skips'
    <3>1. pc' = "walk" /\ wall' = Cron!UtcToWall(after' + 1)
      BY <2>1, <2>3, <2>4
    <3>2. after' \in 0 .. Horizon - 2
      BY <2>4 DEF InCalendar
    <3> DEFINE a == after'
               w == wall'
    <3>3. a \in 0 .. Horizon - 2 /\ w = Cron!UtcToWall(a + 1)
      BY <3>1, <3>2
    <3> HIDE DEF a, w
    <3>4. /\ w \in Walls /\ ~Sooner(w, Cron!UtcToWall(a + 1))
          /\ \A v : Real(v) /\ Cron!WallToNaiveUtc(v) > a => ~Sooner(v, w)
      BY <3>3, WalkBegins
    <3> QED BY <3>1, <3>4, Zenon DEF Reached, Skips, a, w
  <2> QED BY <2>2, <2>4 DEF SearchInv
<1>2. CASE Cron!WalkMonth
  <2>1. Cron!Walking /\ ~Cron!InMonth /\ Cron!GoOn(ToMonth)
    BY <1>2, Zenon DEF Cron!WalkMonth, ToMonth
  <2>2. tz.utc /\ InCalendar => Jump(ToMonth)
    BY <2>1, JumpMonth DEF SearchInv, Cron!Walking, Reached
  <2> QED BY <2>1, <2>2, Jumped
<1>3. CASE Cron!WalkOverflow
  <2>1. Cron!Walking /\ Cron!Overflow /\ Cron!GoOn(ToOverflow)
    BY <1>3, Zenon DEF Cron!WalkOverflow, ToOverflow
  <2>2. tz.utc /\ InCalendar => Jump(ToOverflow)
    BY <2>1, JumpOverflow DEF SearchInv, Cron!Walking, Reached
  <2> QED BY <2>1, <2>2, Jumped
<1>4. CASE Cron!WalkDay
  <2>1. Cron!Walking /\ ~Cron!Overflow /\ ~Cron!InDay /\ Cron!GoOn(Cron!NextDay(wall))
    BY <1>4, Zenon DEF Cron!WalkDay
  <2>2. ~Cron!CronDayMatches(cron, wall.day, Cron!DayOfWeek(wall.year, wall.month, wall.day), Cron!DaysInMonth(wall.year, wall.month))
    BY <2>1, Zenon DEF Cron!InDay
  <2>3. ASSUME tz.utc /\ InCalendar PROVE Jump(Cron!NextDay(wall))
    <3>1. wall \in Walls
      BY <2>1, <2>3 DEF SearchInv, Cron!Walking, Reached
    <3>2. \A v : v.year = wall.year /\ v.month = wall.month /\ v.day = wall.day => ~Cron!CronWallMatches(cron, v)
      BY <2>2, Zenon DEF Cron!CronWallMatches
    <3> QED BY <3>1, <3>2, JumpDay
  <2> QED BY <2>1, <2>3, Jumped
<1>5. CASE Cron!WalkHour
  <2>1. Cron!Walking /\ wall.hour \notin cron.hour /\ Cron!GoOn(ToHour)
    BY <1>5, Zenon DEF Cron!WalkHour, ToHour
  <2>2. tz.utc /\ InCalendar => Jump(ToHour)
    BY <2>1, JumpHour DEF SearchInv, Cron!Walking, Reached
  <2> QED BY <2>1, <2>2, Jumped
<1>6. CASE Cron!WalkMinute
  <2>1. Cron!Walking /\ wall.minute \notin cron.minute /\ Cron!GoOn(ToMinute)
    BY <1>6, Zenon DEF Cron!WalkMinute, ToMinute
  <2>2. tz.utc /\ InCalendar => Jump(ToMinute)
    BY <2>1, JumpMinute DEF SearchInv, Cron!Walking, Reached
  <2> QED BY <2>1, <2>2, Jumped
<1>7. CASE Cron!WalkSecond
  <2>1. Cron!Walking /\ Cron!NextSecond = Cron!NoTime /\ Cron!GoOn(ToSecond)
    BY <1>7, Zenon DEF Cron!WalkSecond, ToSecond
  <2>2. tz.utc /\ InCalendar => Jump(ToSecond)
    BY <2>1, JumpSecond DEF SearchInv, Cron!Walking, Reached
  <2> QED BY <2>1, <2>2, Jumped
<1>8. CASE Cron!WalkUnresolved
  <2>1. Cron!Walking /\ Cron!InMinute /\ Cron!NextSecond /= Cron!NoTime /\ Cron!Resolve(Cron!Hit) = Cron!NoTime /\ Cron!GoOn(Cron!WallPlusOneSecond(Cron!Hit))
    BY <1>8 DEF Cron!WalkUnresolved
  <2>2. ~(tz.utc /\ InCalendar)
    BY <2>1, FoundAt DEF SearchInv, Cron!Walking
  <2> QED BY <2>1, <2>2, Jumped
<1>9. CASE Cron!WalkResolved
  <2>1. /\ Cron!Walking /\ Cron!InMinute /\ Cron!NextSecond /= Cron!NoTime /\ found' = Cron!Resolve(Cron!Hit) /\ pc' = "found" /\ pc = "walk"
        /\ cron' = cron /\ tz' = tz /\ after' = after /\ endYear' = endYear
    BY <1>9 DEF Cron!WalkResolved, Cron!Walking
  <2>2. ASSUME tz'.utc, InCalendar' PROVE Cron!FoundIsNearest'
    <3>1. tz.utc /\ InCalendar
      BY <2>1, <2>2 DEF InCalendar
    <3>2. found' > after /\ Cron!Due(found') /\ \A t \in (after + 1) .. (found' - 1) : ~Cron!Due(t)
      BY <2>1, <3>1, FoundAt DEF SearchInv
    <3> QED BY <2>1, <3>1, <3>2, StillNearest
  <2>3. Parsed(cron)'
    BY <2>1 DEF SearchInv, Parsed
  <2> QED BY <2>1, <2>2, <2>3 DEF SearchInv
<1>10. CASE Cron!GiveUp
  BY <1>10 DEF Cron!GiveUp, SearchInv, Parsed
<1>11. CASE Cron!Follow
  BY <1>11 DEF Cron!Follow, SearchInv, Parsed
<1>12. CASE UNCHANGED Cron!vars
  <2>1. /\ pc' = pc /\ cron' = cron /\ tz' = tz /\ after' = after /\ endYear' = endYear /\ wall' = wall /\ found' = found
    BY <1>12 DEF Cron!vars
  <2>2. Parsed(cron)' <=> Parsed(cron)
    BY <2>1 DEF Parsed
  <2>3. InCalendar' <=> InCalendar
    BY <2>1 DEF InCalendar
  <2>4. (Reached /\ Skips)' <=> (Reached /\ Skips)
    BY <2>1, Zenon DEF Reached, Skips
  <2>5. ASSUME tz.utc, Cron!FoundIsNearest, pc = "found" PROVE Cron!FoundIsNearest'
    BY <2>1, <2>5, StillNearest DEF Cron!FoundIsNearest
  <2> QED BY <2>1, <2>2, <2>3, <2>4, <2>5 DEF SearchInv
<1> QED BY <1>1, <1>2, <1>3, <1>4, <1>5, <1>6, <1>7, <1>8, <1>9, <1>10, <1>11, <1>12 DEF Cron!Next

(* In UTC the instant that a search returns is due, and nothing between the start and it is: whatever the walk
   jumps over (months, days, hours, the end of a month that is too short) holds no run, for every pattern,
   calendar and start, as long as the search stays within the calendar of the model. *)
THEOREM NextCronRun ==
  ASSUME Assumed
  PROVE  Cron!Spec => [](tz.utc /\ InCalendar => Cron!FoundIsNearest)
<1>1. Cron!Init => SearchInv
  BY SearchBegins
<1>2. SearchInv /\ [Cron!Next]_(Cron!vars) => SearchInv'
  BY SearchSteps
<1>3. SearchInv => (tz.utc /\ InCalendar => Cron!FoundIsNearest)
  BY DEF SearchInv, Cron!FoundIsNearest
<1> QED BY <1>1, <1>2, <1>3, PTL DEF Cron!Spec
=============================================================================
