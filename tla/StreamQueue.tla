---------------------------- MODULE StreamQueue ----------------------------
(***************************************************************************)
(* The lifecycle of plain FIFO jobs: the job hashes, the Valkey stream     *)
(* with its pending-entries list, the scheduled / completed / failed       *)
(* sorted sets, and the workers that claim entries and call the functions  *)
(* of src/functions/glidemq.lua.  One server-side function is one atomic   *)
(* step; a worker takes several steps per job, and anything may happen     *)
(* between two of them.                                                    *)
(*                                                                         *)
(* Functions that loop over many jobs (promote, reclaimStalled, clean,     *)
(* retryJobs) treat each job independently and stop at a batch limit, so   *)
(* one step here is one iteration.                                         *)
(***************************************************************************)
EXTENDS Integers, Sequences

CONSTANTS
  Jobs,         \* the job ids
  Workers,      \* the dispatch slots of the worker processes
  Copies,       \* tells apart the stream entries that name the same job
  NoEntry,      \* what an idle worker holds
  MaxAttempts,  \* opts.attempts
  MaxStalled,   \* maxStalledCount
  HasTtl,       \* jobs carry a ttl
  Races         \* what may befall a job between two steps of the worker that holds it:
                \*   "hang"    the worker is alive but misses its heartbeats
                \*   "revoke"  a client revokes the job
                \*   "remove"  a client removes or cleans it
                \*   "late"    its ttl passes
                \*   "steal"   the claimed entry is taken away before it is activated: by
                \*             changeDelay, by revoke then retry, or by reclaimStalled

Entries == Jobs \X Copies
JobOf(e) == e[1]

ASSUME EntryAssumption == NoEntry \notin Entries
ASSUME LimitAssumption == MaxAttempts \in Nat /\ MaxStalled \in Nat
ASSUME RaceAssumption == HasTtl \in BOOLEAN /\ Races \subseteq {"hang", "revoke", "remove", "late", "steal"}

VARIABLES
  job,        \* job[j]: the fields of hash job:<j>
  backlog,    \* entries of the stream no consumer has read, oldest first
  pel,        \* entries delivered and not acknowledged
  scheduled, completed, failed,   \* the sorted sets, as sets of ids
  paused,     \* meta.paused
  pc,         \* where each worker is in processJob
  hand,       \* the entry each worker works on
  hung,       \* workers whose event loop is blocked
  stopping    \* workers with this.closing or this.paused set

stream == <<backlog, pel>>
sets   == <<scheduled, completed, failed>>
slots  == <<pc, hand>>
mode   == <<paused, hung, stopping>>
vars   == <<job, stream, sets, slots, mode>>

-----------------------------------------------------------------------------
(* "new" and "gone": there is no hash.  "ghost": a hash with no state field. *)
NoHash      == {"new", "gone"}
NoState     == NoHash \cup {"ghost"}
Activatable == {"waiting", "ghost"}
States      == NoState \cup {"waiting", "active", "delayed", "completed", "failed"}
PCs         == {"idle", "claimed", "missing", "paused", "revoked", "active", "running"}
Started     == {"active", "running"}

Hash(s) == [state |-> s, attempts |-> 0, stalls |-> 0,
            revoked |-> FALSE, fresh |-> FALSE, late |-> FALSE]

HasHash(j)  == job[j].state \notin NoHash
HasState(r) == r.state \notin NoState

(* Operators named Mut... are wrong on purpose: a property is only kept if   *)
(* putting one in place of the operator after it makes TLC report it.        *)

(* Counters are only compared with a limit, so they stop where the test flips. *)
MutNeverCounts(n, limit) == n
Bump(n, limit) == IF n < limit THEN n + 1 ELSE n

Members(s)  == {s[i] : i \in 1..Len(s)}
Distinct(s) == \A i, k \in 1..Len(s) : s[i] = s[k] => i = k

(* The entries that name job j, unread and pending, and the workers that hold it. *)
Undelivered == Members(backlog)
Queued(j)   == {e \in Undelivered : JobOf(e) = j}
Pending(j)  == {e \in pel : JobOf(e) = j}
Holders(j)  == {w \in Workers : hand[w] \in {j} \X Copies}
InStream(j) == Queued(j) \cup Pending(j) /= {}
InUse(e)    == e \in Undelivered \cup pel \/ \E w \in Workers : hand[w] = e

(* xaddJob.  The bound on entries that name one job is the size of Copies. *)
HasRoom(j)  == \E e \in {j} \X Copies : ~InUse(e)
NewEntry(j) == CHOOSE e \in {j} \X Copies : ~InUse(e)
Enqueue(j)  == HasRoom(j) /\ backlog' = Append(backlog, NewEntry(j))

Without(s, i) == [k \in 1..(Len(s) - 1) |-> IF k < i THEN s[k] ELSE s[k + 1]]

MutDropUnread(j) ==
  \/ Queued(j) = {} /\ UNCHANGED stream
  \/ \E i \in 1..Len(backlog) :
       JobOf(backlog[i]) = j /\ backlog' = Without(backlog, i) /\ UNCHANGED pel

(* The XRANGE scan of removeJob, revoke and detachWaitingJob: acknowledge    *)
(* and delete the first entry that names the job (delivered ones are older). *)
DropEntry(j) ==
  \/ \E e \in Pending(j) : pel' = pel \ {e} /\ UNCHANGED backlog
  \/ /\ Pending(j) = {}
     /\ \E i \in 1..Len(backlog) :
          /\ JobOf(backlog[i]) = j /\ \A k \in 1..(i - 1) : JobOf(backlog[k]) /= j
          /\ backlog' = Without(backlog, i)
     /\ UNCHANGED pel
  \/ ~InStream(j) /\ UNCHANGED stream

Live(w)    == w \notin hung
MayBefall(race, j) == race \in Races \/ Holders(j) = {}
Runs(w, j) == pc[w] \in Started /\ JobOf(hand[w]) = j
Goto(w, p) == pc' = [pc EXCEPT ![w] = p] /\ UNCHANGED hand
Release(w) == pc' = [pc EXCEPT ![w] = "idle"] /\ hand' = [hand EXCEPT ![w] = NoEntry]

Init ==
  /\ job = [j \in Jobs |-> Hash("new")]
  /\ backlog = <<>> /\ pel = {}
  /\ scheduled = {} /\ completed = {} /\ failed = {}
  /\ paused = FALSE
  /\ pc = [w \in Workers |-> "idle"] /\ hand = [w \in Workers |-> NoEntry]
  /\ hung = {} /\ stopping = {}

-----------------------------------------------------------------------------
(* Producers and the scheduler *)

AddJob(j, delayed) ==
  /\ job[j].state = "new"
  /\ job' = [job EXCEPT ![j] = Hash(IF delayed THEN "delayed" ELSE "waiting")]
  /\ IF delayed THEN scheduled' = scheduled \cup {j} /\ UNCHANGED backlog
                ELSE Enqueue(j) /\ UNCHANGED scheduled
  /\ UNCHANGED <<pel, completed, failed, slots, mode>>

(* expireJob on a job that checkExpired found past its ttl. *)
ExpireJob(j) ==
  /\ job' = [job EXCEPT ![j].state = "failed"]
  /\ failed' = IF job[j].state = "failed" THEN failed ELSE failed \cup {j}

Promote(j) ==
  /\ j \in scheduled
  /\ scheduled' = scheduled \ {j}
  /\ \/ job[j].late /\ ExpireJob(j) /\ UNCHANGED backlog
     \/ /\ ~job[j].late
        /\ job' = [job EXCEPT ![j].state = "waiting"]
        /\ Enqueue(j) /\ UNCHANGED failed
  /\ UNCHANGED <<pel, completed, slots, mode>>

MutAnyEntry(e) == TRUE

(* XAUTOCLAIM returns entries idle for stalledInterval.  A live worker needs *)
(* far less to activate a claim, but may run a job for longer than that.     *)
IdleEntry(e) == \A w \in Workers : hand[w] = e /\ Live(w) => pc[w] \in Started

(* One entry of reclaimStalled; a heartbeat fresher than lockDuration skips it. *)
Reclaim(e) ==
  LET j == JobOf(e)
      strikes == Bump(job[j].stalls, MaxStalled + 1)
      Orphan  == ~HasHash(j) /\ UNCHANGED <<job, backlog, failed>>
      Expired == HasHash(j) /\ job[j].late /\ ExpireJob(j) /\ UNCHANGED backlog
      Stalled == HasHash(j) /\ ~job[j].late /\ ~job[j].fresh
      GiveUp  == /\ Stalled /\ strikes > MaxStalled
                 /\ job' = [job EXCEPT ![j].state = "failed", ![j].stalls = strikes]
                 /\ failed' = failed \cup {j} /\ UNCHANGED backlog
      Requeue == /\ Stalled /\ strikes <= MaxStalled
                 /\ job' = [job EXCEPT ![j].state = "waiting", ![j].stalls = strikes]
                 /\ Enqueue(j) /\ UNCHANGED failed
  IN  /\ ~paused /\ e \in pel /\ IdleEntry(e)
      /\ pel' = pel \ {e}
      /\ Orphan \/ Expired \/ GiveUp \/ Requeue
      /\ UNCHANGED <<scheduled, completed, slots, mode>>

-----------------------------------------------------------------------------
(* Workers: claim and activate *)

Poll(w) ==
  /\ Live(w) /\ w \notin stopping /\ pc[w] = "idle" /\ backlog /= <<>>
  /\ backlog' = Tail(backlog) /\ pel' = pel \cup {Head(backlog)}
  /\ pc' = [pc EXCEPT ![w] = "claimed"] /\ hand' = [hand EXCEPT ![w] = Head(backlog)]
  /\ UNCHANGED <<job, sets, mode>>

MutActivatedStale(r) == [r EXCEPT !.state = "active"]
Activated(r) == [r EXCEPT !.state = "active", !.fresh = TRUE]

(* moveToActive, and the worker's reaction when it changes no state itself. *)
MoveToActive(w) ==
  LET e == hand[w]
      j == JobOf(e)
      Ready    == job[j].state \in Activatable
      Settled  == pel' = pel \ {e} /\ Release(w)
      Missing  == ~HasHash(j) /\ Goto(w, "missing") /\ UNCHANGED <<job, pel, failed>>
      Stale    == HasHash(j) /\ ~Ready /\ Settled /\ UNCHANGED <<job, failed>>
      Revoked  == Ready /\ job[j].revoked /\ Goto(w, "revoked") /\ UNCHANGED <<job, pel, failed>>
      Paused   == Ready /\ ~job[j].revoked /\ paused /\ Goto(w, "paused") /\ UNCHANGED <<job, pel, failed>>
      Open     == Ready /\ ~job[j].revoked /\ ~paused
      Expired  == Open /\ job[j].late /\ ExpireJob(j) /\ Settled
      Admitted == /\ Open /\ ~job[j].late
                  /\ job' = [job EXCEPT ![j] = Activated(@)]
                  /\ Goto(w, "active") /\ UNCHANGED <<pel, failed>>
  IN  /\ Live(w) /\ pc[w] = "claimed"
      /\ Missing \/ Stale \/ Revoked \/ Paused \/ Expired \/ Admitted
      /\ UNCHANGED <<backlog, scheduled, completed, mode>>

Start(w) ==
  /\ Live(w) /\ pc[w] = "active"
  /\ Goto(w, "running")
  /\ UNCHANGED <<job, stream, sets, mode>>

(* deferActive: after PAUSED, or for a claim close()/pause() overtook. *)
HandBack(w) ==
  LET j == JobOf(hand[w])
  IN  /\ Live(w)
      /\ pc[w] = "paused" \/ (w \in stopping /\ pc[w] \in {"claimed", "active"})
      /\ pel' = pel \ {hand[w]}
      /\ IF HasHash(j)
         THEN job' = [job EXCEPT ![j].state = "waiting"] /\ Enqueue(j)
         ELSE UNCHANGED <<job, backlog>>
      /\ Release(w)
      /\ UNCHANGED <<sets, mode>>

(* startHeartbeat writes lastActive whether or not the hash still exists. *)
Heartbeat(w) ==
  LET j == JobOf(hand[w])
  IN  /\ Live(w) /\ pc[w] \in Started
      /\ job' = [job EXCEPT ![j] = IF HasHash(j) THEN [@ EXCEPT !.fresh = TRUE]
                                   ELSE [Hash("ghost") EXCEPT !.fresh = TRUE]]
      /\ UNCHANGED <<stream, sets, slots, mode>>

(* lockDuration passes with no live worker refreshing lastActive. *)
HeartbeatLapse(j) ==
  /\ job[j].fresh /\ ~\E w \in Workers : Live(w) /\ Runs(w, j)
  /\ job' = [job EXCEPT ![j].fresh = FALSE]
  /\ UNCHANGED <<stream, sets, slots, mode>>

-----------------------------------------------------------------------------
(* Workers: finish a job, and fetch the next one in the same call *)

ChainAttempts == 3

(* What fetchNextForChain acknowledges and skips: stale and expired entries. *)
Skippable(jb, e) ==
  LET r == jb[JobOf(e)]
  IN  HasState(r) /\ ~r.revoked /\ (r.state \notin Activatable \/ r.late)

(* fetchNextForChain on the hashes jb, pending list pl and failed set fl     *)
(* that completing or failing the current job left behind.                   *)
FetchNext(w, jb, pl, fl) ==
  \E n \in 0..ChainAttempts :
    LET lapsed == {j \in {JobOf(backlog[i]) : i \in 1..n} : jb[j].state \in Activatable}
        jb2    == [j \in Jobs |-> IF j \in lapsed THEN [jb[j] EXCEPT !.state = "failed"] ELSE jb[j]]
        next   == backlog[n + 1]
        r      == jb2[JobOf(next)]
        Take   == /\ backlog' = SubSeq(backlog, n + 2, Len(backlog))
                  /\ pel' = pl \cup {next}
        Claim(p) == pc' = [pc EXCEPT ![w] = p] /\ hand' = [hand EXCEPT ![w] = next]
        More   == n < ChainAttempts /\ n < Len(backlog) /\ ~Skippable(jb2, next)
        None   == /\ n = ChainAttempts \/ n = Len(backlog)
                  /\ backlog' = SubSeq(backlog, n + 1, Len(backlog)) /\ pel' = pl
                  /\ job' = jb2 /\ Release(w)
        Orphan == More /\ ~HasState(r) /\ Take /\ job' = jb2 /\ Release(w)
        Revoked == More /\ HasState(r) /\ r.revoked /\ Take /\ job' = jb2 /\ Claim("revoked")
        Activate == /\ More /\ HasState(r) /\ ~r.revoked /\ Take
                    /\ job' = [jb2 EXCEPT ![JobOf(next)] = Activated(@)]
                    /\ Claim("active")
    IN  /\ n <= Len(backlog) /\ \A i \in 1..n : Skippable(jb, backlog[i])
        /\ failed' = fl \cup lapsed
        /\ None \/ Orphan \/ Revoked \/ Activate

FinishWith(w, chain, jb, pl, fl) ==
  IF chain /\ ~paused THEN FetchNext(w, jb, pl, fl)
  ELSE job' = jb /\ pel' = pl /\ failed' = fl /\ UNCHANGED backlog /\ Release(w)

MutCompletable(r) == TRUE
Completable(r) == ~r.revoked

(* complete and completeAndFetchNext.  keep: not removeOnComplete.  A revoked *)
(* job is refused unchanged, and the worker fails it (Fail, unrecoverable).   *)
CompleteJob(w, keep, chain) ==
  LET e == hand[w]
      j == JobOf(e)
      Ended == IF keep THEN [job[j] EXCEPT !.state = "completed"] ELSE Hash("gone")
  IN  /\ Completable(job[j])
      /\ FinishWith(w, chain, IF HasState(job[j]) THEN [job EXCEPT ![j] = Ended] ELSE job,
                    pel \ {e}, failed)
      /\ completed' = IF HasState(job[j]) /\ keep THEN completed \cup {j} ELSE completed
      /\ UNCHANGED <<scheduled, mode>>

Complete(w, keep, chain) ==
  /\ Live(w) /\ pc[w] = "running" /\ (chain \/ w \in stopping)
  /\ CompleteJob(w, keep, chain)

(* moveToActive found no hash: the worker completes the entry, ignoring the answer. *)
SettleMissing(w) ==
  /\ Live(w) /\ pc[w] = "missing"
  /\ \/ CompleteJob(w, TRUE, FALSE)
     \/ /\ ~Completable(job[JobOf(hand[w])])
        /\ Release(w) /\ UNCHANGED <<job, stream, sets, mode>>

RetriesLeft(tries, cap) == cap > 0 /\ tries < cap

(* failJobCore with the attempts cap the worker passes, then the chain. *)
FailJob(w, cap, keep, chain) ==
  LET e == hand[w]
      j == JobOf(e)
      tries == Bump(job[j].attempts, MaxAttempts)
      retry == HasHash(j) /\ RetriesLeft(tries, cap)
      ends  == HasHash(j) /\ ~retry
      r == [job[j] EXCEPT !.attempts = tries, !.state = IF retry THEN "delayed" ELSE "failed"]
      jb == IF ~HasHash(j) THEN job
            ELSE [job EXCEPT ![j] = IF retry \/ keep THEN r ELSE Hash("gone")]
  IN  /\ FinishWith(w, chain, jb, pel \ {e}, IF ends /\ keep THEN failed \cup {j} ELSE failed)
      /\ scheduled' = IF retry THEN scheduled \cup {j} ELSE scheduled
      /\ UNCHANGED <<completed, mode>>

(* The processor threw, or was aborted.  cap 0: an UnrecoverableError. *)
Fail(w, unrecoverable, keep, chain) ==
  /\ Live(w) /\ pc[w] = "running"
  /\ FailJob(w, IF unrecoverable THEN 0 ELSE MaxAttempts, keep, chain)

(* The claim was answered REVOKED: failJob with no attempts and no removal. *)
FailRevoked(w) ==
  /\ Live(w) /\ pc[w] = "revoked"
  /\ FailJob(w, 0, TRUE, FALSE)

(* A RateLimitError (failJobCore with requeueOnly): no attempt is counted. *)
RequeueLimited(w) ==
  LET j == JobOf(hand[w])
  IN  /\ Live(w) /\ pc[w] = "running"
      /\ pel' = pel \ {hand[w]}
      /\ IF HasHash(j)
         THEN job' = [job EXCEPT ![j].state = "delayed"] /\ scheduled' = scheduled \cup {j}
         ELSE UNCHANGED <<job, scheduled>>
      /\ Release(w)
      /\ UNCHANGED <<backlog, completed, failed, mode>>

(* A DelayedError of a step job.  Refused unless active; the worker then fails it. *)
MoveActiveToDelayed(w) ==
  LET j == JobOf(hand[w])
  IN  /\ Live(w) /\ pc[w] = "running" /\ job[j].state = "active"
      /\ pel' = pel \ {hand[w]}
      /\ job' = [job EXCEPT ![j].state = "delayed"] /\ scheduled' = scheduled \cup {j}
      /\ Release(w)
      /\ UNCHANGED <<backlog, completed, failed, mode>>

-----------------------------------------------------------------------------
(* Client calls *)

Revoke(j) ==
  LET s == job[j].state
      Unstarted == s \in {"waiting", "delayed"}
  IN  /\ HasHash(j) /\ MayBefall("revoke", j)
      /\ job' = [job EXCEPT ![j].revoked = TRUE, ![j].state = IF Unstarted THEN "failed" ELSE s]
      /\ scheduled' = IF Unstarted THEN scheduled \ {j} ELSE scheduled
      /\ failed' = IF Unstarted THEN failed \cup {j} ELSE failed
      /\ IF s = "waiting" THEN DropEntry(j) ELSE UNCHANGED stream
      /\ UNCHANGED <<completed, slots, mode>>

RemoveJob(j) ==
  /\ HasHash(j) /\ MayBefall("remove", j)
  /\ IF job[j].state \in {"waiting", "active"} THEN DropEntry(j) ELSE UNCHANGED stream
  /\ job' = [job EXCEPT ![j] = Hash("gone")]
  /\ scheduled' = scheduled \ {j} /\ completed' = completed \ {j} /\ failed' = failed \ {j}
  /\ UNCHANGED <<slots, mode>>

MutRetryStateOnly(j) ==
  /\ job' = [job EXCEPT ![j].state = "delayed", ![j].attempts = 0]
  /\ UNCHANGED <<stream, sets, slots, mode>>

(* retryFailedJob; the stall count and the revoked flag stay. *)
RetryFailedJob(j) ==
  /\ "steal" \in Races \/ ~job[j].revoked
  /\ failed' = failed \ {j}
  /\ job' = [job EXCEPT ![j].state = "delayed", ![j].attempts = 0, ![j].late = FALSE]
  /\ scheduled' = scheduled \cup {j}
  /\ UNCHANGED <<stream, completed, slots, mode>>

RetryJob(j)  == job[j].state = "failed" /\ RetryFailedJob(j)
RetryJobs(j) == j \in failed /\ HasHash(j) /\ RetryFailedJob(j)

(* promoteJob, and changeDelay(0) on a delayed job. *)
PromoteJob(j) ==
  /\ job[j].state = "delayed"
  /\ scheduled' = scheduled \ {j}
  /\ Enqueue(j) /\ job' = [job EXCEPT ![j].state = "waiting"]
  /\ UNCHANGED <<pel, completed, failed, slots, mode>>

(* changeDelay(d), d > 0, on a waiting job whose entry is in the stream. *)
ChangeDelay(j) ==
  /\ job[j].state = "waiting" /\ InStream(j)
  /\ "steal" \in Races \/ (~job[j].revoked /\ Pending(j) = {})
  /\ DropEntry(j)
  /\ scheduled' = scheduled \cup {j} /\ job' = [job EXCEPT ![j].state = "delayed"]
  /\ UNCHANGED <<completed, failed, slots, mode>>

CleanCompleted(j) ==
  /\ j \in completed /\ MayBefall("remove", j)
  /\ completed' = completed \ {j} /\ job' = [job EXCEPT ![j] = Hash("gone")]
  /\ UNCHANGED <<stream, scheduled, failed, slots, mode>>

CleanFailed(j) ==
  /\ j \in failed /\ MayBefall("remove", j)
  /\ failed' = failed \ {j} /\ job' = [job EXCEPT ![j] = Hash("gone")]
  /\ UNCHANGED <<stream, scheduled, completed, slots, mode>>

Drain(delayed) ==
  LET dropped == {JobOf(e) : e \in Undelivered} \cup (IF delayed THEN scheduled ELSE {})
  IN  /\ job' = [j \in Jobs |-> IF j \in dropped THEN Hash("gone") ELSE job[j]]
      /\ backlog' = <<>>
      /\ scheduled' = IF delayed THEN {} ELSE scheduled
      /\ UNCHANGED <<pel, completed, failed, slots, mode>>

SetPaused(b) == paused /= b /\ paused' = b /\ UNCHANGED <<job, stream, sets, slots, hung, stopping>>

-----------------------------------------------------------------------------
(* The environment *)

(* The process dies; its replacement is a new consumer. *)
Crash(w) ==
  /\ pc[w] /= "idle" /\ Release(w)
  /\ hung' = hung \ {w} /\ stopping' = stopping \ {w}
  /\ UNCHANGED <<job, stream, sets, paused>>

(* A processor that blocks the event loop; under "steal" also a worker    *)
(* blocked by another slot of its process before it activates its claim.  *)
(* Bound: a job hangs its worker only while it has not stalled before.    *)
Hang(w) == /\ "hang" \in Races /\ Live(w)
           /\ pc[w] \in Started \/ ("steal" \in Races /\ pc[w] = "claimed")
           /\ job[JobOf(hand[w])].stalls = 0
           /\ hung' = hung \cup {w}
           /\ UNCHANGED <<job, stream, sets, slots, paused, stopping>>
Wake(w) == w \in hung /\ hung' = hung \ {w} /\ UNCHANGED <<job, stream, sets, slots, paused, stopping>>

Stop(w)    == w \notin stopping /\ stopping' = stopping \cup {w} /\ UNCHANGED <<job, stream, sets, slots, paused, hung>>
Restart(w) == w \in stopping /\ stopping' = stopping \ {w} /\ UNCHANGED <<job, stream, sets, slots, paused, hung>>

TtlPasses(j) ==
  /\ HasTtl /\ HasState(job[j]) /\ ~job[j].late /\ MayBefall("late", j)
  /\ job' = [job EXCEPT ![j].late = TRUE]
  /\ UNCHANGED <<stream, sets, slots, mode>>

-----------------------------------------------------------------------------
Finish(w) ==
  \/ \E keep, chain \in BOOLEAN : Complete(w, keep, chain)
  \/ SettleMissing(w) \/ FailRevoked(w)
  \/ \E unrecoverable, keep, chain \in BOOLEAN : Fail(w, unrecoverable, keep, chain)

Yield(w) == RequeueLimited(w) \/ MoveActiveToDelayed(w)
Work(w)  == Poll(w) \/ MoveToActive(w) \/ Start(w) \/ HandBack(w) \/ Finish(w)

Server == (\E j \in Jobs : Promote(j) \/ HeartbeatLapse(j)) \/ (\E e \in Entries : Reclaim(e))

Queue(j)  == AddJob(j, TRUE) \/ AddJob(j, FALSE)
Client(j) == \/ Revoke(j) \/ RemoveJob(j) \/ PromoteJob(j)
             \/ CleanCompleted(j) \/ CleanFailed(j)
Again(j)  == RetryJob(j) \/ RetryJobs(j) \/ ChangeDelay(j)

Next ==
  \/ \E w \in Workers : Work(w) \/ Yield(w) \/ Heartbeat(w) \/ Crash(w) \/ Hang(w) \/ Wake(w) \/ Stop(w) \/ Restart(w)
  \/ \E j \in Jobs : Queue(j) \/ Client(j) \/ Again(j) \/ TtlPasses(j)
  \/ Server
  \/ \E b \in BOOLEAN : Drain(b) \/ SetPaused(b)

Spec == Init /\ [][Next]_vars

(* What only a person, a limiter or a fault does, and may do for ever. *)
Disturb ==
  \/ \E w \in Workers : Yield(w) \/ Stop(w) \/ Hang(w)
  \/ \E j \in Jobs : Again(j)
  \/ SetPaused(TRUE)

(* Worker loops and the scheduler timer keep running; a closed, paused or    *)
(* hung worker and a paused queue come back.                                 *)
Fairness ==
  /\ \A w \in Workers : WF_vars(Work(w)) /\ WF_vars(Wake(w)) /\ WF_vars(Restart(w))
  /\ \A j \in Jobs : WF_vars(Promote(j)) /\ WF_vars(HeartbeatLapse(j))
  /\ \A e \in Entries : WF_vars(Reclaim(e))
  /\ WF_vars(SetPaused(FALSE))

FairSpec == Spec /\ Fairness
-----------------------------------------------------------------------------
(* Properties *)

JobHash == [state : States, attempts : 0..MaxAttempts, stalls : 0..(MaxStalled + 1),
            revoked : BOOLEAN, fresh : BOOLEAN, late : BOOLEAN]

(* Every variable keeps its type. *)
TypeOK ==
  /\ job \in [Jobs -> JobHash]
  /\ backlog \in Seq(Entries) /\ pel \subseteq Entries
  /\ scheduled \subseteq Jobs /\ completed \subseteq Jobs /\ failed \subseteq Jobs
  /\ paused \in BOOLEAN
  /\ pc \in [Workers -> PCs] /\ hand \in [Workers -> Entries \cup {NoEntry}]
  /\ \A w \in Workers : pc[w] = "idle" <=> hand[w] = NoEntry
  /\ hung \subseteq Workers /\ stopping \subseteq Workers

(* An entry is in one place: once in the unread stream, or pending. *)
StreamWellFormed ==
  /\ Distinct(backlog)
  /\ Undelivered \cap pel = {}

(* A job that is owed a run can be found by whoever must run it: a waiting   *)
(* job has an entry in the stream, a delayed job is scheduled, and an active *)
(* job's entry is still pending, so a crash of its worker is recovered.      *)
Findable(j) ==
  /\ job[j].state = "waiting" => InStream(j)
  /\ job[j].state = "delayed" => j \in scheduled
  /\ job[j].state = "active"  => Pending(j) /= {}
NothingLost == \A j \in Jobs : Findable(j)

(* At most one worker runs the processor of a job at a time. *)
OneRunner ==
  \A v, w \in Workers : \A j \in Jobs : Runs(v, j) /\ Runs(w, j) => v = w

(* The completed and failed sets never name a job whose outcome is the other. *)
OutcomeUnique ==
  /\ completed \cap failed = {}
  /\ \A j \in completed : job[j].state = "completed"

(* A completed job keeps that outcome until it is removed or cleaned. *)
CompletedIsFinal ==
  [][\A j \in Jobs : job[j].state = "completed" => job'[j].state \in {"completed", "gone"}]_vars

(* Custody: who may hold what while no worker hangs and no claim is stolen.  *)
(* At most one entry names a job; an unread one names a job that is queued   *)
(* or was removed, a pending one may also name a job that is running.        *)
EntriesFit(j) ==
  /\ \A e, f \in Queued(j) \cup Pending(j) : e = f
  /\ Queued(j) /= {}  => job[j].state \in {"waiting", "gone"}
  /\ Pending(j) /= {} => job[j].state \in {"waiting", "active", "gone"}

(* A worker whose entry was taken back finds the job gone or revoked; one that *)
(* has started owns the pending entry of an active job, or the job is removed. *)
ClaimFits(j, e, p) ==
  LET r == job[j]
  IN  /\ e \notin Queued(j)
      /\ e \notin Pending(j) => ~InStream(j)
      /\ p = "missing" => r.state = "gone"
      /\ p \in {"claimed", "paused", "revoked"} =>
           \/ r.state = "gone"
           \/ e \in Pending(j) /\ r.state = "waiting" /\ (p = "revoked" => r.revoked)
           \/ e \notin Pending(j) /\ r.state = "failed" /\ r.revoked
      /\ p \in Started =>
           /\ \/ e \in Pending(j) /\ r.state = "active" /\ r.fresh
              \/ e \notin Pending(j) /\ r.state = "gone"
              \/ e \notin Pending(j) /\ r.state = "ghost" /\ r.fresh
           /\ ~r.late /\ j \notin failed

JobFits(j) ==
  /\ EntriesFit(j)
  /\ j \in scheduled <=> job[j].state = "delayed"
  /\ j \in completed => job[j].state = "completed"
  /\ j \in failed => \/ job[j].state \in {"failed", "gone"}
                     \/ job[j].state = "waiting" /\ job[j].revoked
  /\ \A v, w \in Holders(j) : v = w
  /\ \A w \in Holders(j) : ClaimFits(j, hand[w], pc[w])

Custody == StreamWellFormed /\ hung = {} /\ \A j \in Jobs : JobFits(j)

(* No run that was revoked before it finished is recorded as completed. *)
RevokedNeverCompletes ==
  [][\A j \in Jobs : job[j].revoked /\ job[j].state /= "completed"
                       => job'[j].state /= "completed"]_vars

(* A job removed by the client stays removed (failJobCore: "do not recreate  *)
(* the hash or schedule a retry").                                           *)
RemovedStaysRemoved ==
  [][\A j \in Jobs : job[j].state \in {"gone", "ghost"} => job'[j].state \in NoState]_vars

(* Once disturbances stop, every unfinished job is completed, failed or gone, *)
(* however often workers crash.                                               *)
JobsSettle ==
  (<>[][~Disturb]_vars) =>
    \A j \in Jobs : job[j].state \in {"waiting", "delayed", "active"}
                      ~> job[j].state \in {"completed", "failed", "gone"}

(* The queue implements the lease contract of JobLease. *)
Phase == [j \in Jobs |->
  CASE job[j].state = "new" -> "absent"
    [] job[j].state \in {"waiting", "delayed"} -> "queued"
    [] job[j].state = "active" -> "running"
    [] job[j].state \in {"gone", "ghost"} -> "removed"
    [] OTHER -> job[j].state]
Owner == [j \in Jobs |-> {w \in Workers : Runs(w, j)}]
Lease == INSTANCE JobLease WITH phase <- Phase, owner <- Owner
ImplementsLease == Lease!Spec
=============================================================================
