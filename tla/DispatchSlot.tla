---------------------------- MODULE DispatchSlot ----------------------------
(***************************************************************************)
(* What a worker does with the claims of one dispatch slot, from the read  *)
(* to the last reply (BaseWorker.processJob, activateAndProcessBatch,      *)
(* processBatch): activate, start heartbeats, wait for the limiter, run    *)
(* the processor, settle each job, chain into the next one, and hand back  *)
(* what must not run.  Every call to the server is a step of its own and   *)
(* may fail, with or without having taken effect; clients revoke jobs and  *)
(* pause the queue, and the worker is paused or closed, between any two.   *)
(*                                                                         *)
(* The server's side of a call is in StreamQueue, the loop that reads      *)
(* claims in WorkerLoop; here a job is where its owner last put it.        *)
(***************************************************************************)
EXTENDS Integers, Sequences, FiniteSets, SequencesExt

CONSTANTS
    Jobs,
    Line,        \* the jobs that wait, the next to be claimed first
    Modes,       \* batchMode or not: one job at a time, with chaining
    Sources,     \* where the claims come from: "list" (priority or LIFO), "stream"
    Size,        \* batchSize
    Limited,     \* a limiter is configured
    Stops,       \* what may stop the worker: "pause", "close", "force"
    QueuePauses, \* a client may pause the queue
    MaxErrors,   \* bound: calls that fail
    MaxRevokes,  \* bound: jobs revoked
    MaxTroubles, \* bound: these, the stop and the pause of the queue together
    Races        \* "limiter": close() may cut the limiter wait of a batch of list jobs short

ASSUME SlotAssumption ==
    /\ Line \in Seq(Jobs) /\ IsInjective(Line) /\ Size \in Nat \ {0}
    /\ {Limited, QueuePauses} \subseteq BOOLEAN
    /\ Modes \subseteq {"batch", "single"} /\ Sources \subseteq {"list", "stream"}
    /\ Stops \subseteq {"pause", "close", "force"} /\ Races \subseteq {"limiter"}
    /\ {MaxErrors, MaxRevokes, MaxTroubles} \subseteq Nat

VARIABLES
    mode,         \* the member of Modes, and
    source,       \* of Sources, of this run
    state,        \* job:<id> state; "elsewhere": retried, delayed, parked or taken over
    why,          \* what the job ended with
    queue,        \* the jobs that wait
    revoked,      \* the jobs with revoked = 1
    queuePaused,  \* meta paused
    pc,           \* the statement that comes next
    claims,       \* collected, or the one claim of processJob
    reply,        \* the answers of moveToActive, in order
    at,           \* index of the loop at pc
    batch,        \* the jobs given to the processor
    kind,         \* how the processor ended: with results, a BatchError, or a throw
    said,         \* what it said about each job
    back,         \* the claims to hand back, in order
    done,         \* toComplete
    heartbeats,   \* heartbeatIntervals
    controllers,  \* activeAbortControllers
    aborted,      \* the jobs whose signal was raised
    seenPaused,   \* queuePaused, as the worker caches it
    stop,         \* "no", "pause" or "close" or "force", as far as it went
    errors        \* calls that failed

server == <<state, why, queue>>
outside == <<revoked, queuePaused, stop, mode, source>>
run == <<batch, kind, said, done>>
timers == <<heartbeats, controllers, aborted>>
vars == <<server, outside, run, timers, pc, claims, reply, at, back, seenPaused, errors>>

Rng(s) == {s[i] : i \in DOMAIN s}
Paused == stop = "pause"
Closing == stop \in {"close", "force"}
Held == Rng(claims) \cup Rng(batch)
Batch == mode = "batch"
FromList == source = "list"

Init ==
    /\ mode \in Modes /\ source \in Sources
    /\ state = [j \in Jobs |-> IF j \in Rng(Line) THEN "waiting" ELSE "elsewhere"]
    /\ why = [j \in Jobs |-> "none"] /\ queue = Line
    /\ revoked = {} /\ queuePaused = FALSE
    /\ pc = "idle" /\ claims = <<>> /\ reply = <<>> /\ at = 1
    /\ batch = <<>> /\ kind = "none" /\ said = [j \in Jobs |-> "none"]
    /\ back = <<>> /\ done = <<>>
    /\ heartbeats = {} /\ controllers = {} /\ aborted = {}
    /\ seenPaused = FALSE /\ stop = "no" /\ errors = 0

-----------------------------------------------------------------------------
(* Calls *)

Goto(p) == pc' = p /\ at' = 1
Step == pc' = pc /\ at' = at + 1
Works == UNCHANGED errors
Trouble == errors + Cardinality(revoked) + (IF queuePaused THEN 1 ELSE 0) + (IF stop = "no" THEN 0 ELSE 1) < MaxTroubles
Breaks == errors < MaxErrors /\ Trouble /\ errors' = errors + 1

(* The slot is free again; its locals are gone. *)
Return ==
    /\ Goto("idle")
    /\ claims' = <<>> /\ reply' = <<>> /\ batch' = <<>> /\ kind' = "none" /\ back' = <<>>
    /\ done' = <<>>

Put(j, s, w) == state' = [state EXCEPT ![j] = s] /\ why' = [why EXCEPT ![j] = w]

(* glidemq_fail: a terminal failure, or a retry while attempts are left. *)
FailJob(j, w) ==
    /\ \/ Put(j, "failed", w)
       \/ w # "revoked" /\ Put(j, "elsewhere", "none")
    /\ UNCHANGED queue
(* A call that breaks: the server did it, or it did not. *)
MayHave(Call) == Breaks /\ (Call \/ UNCHANGED server)

(* glidemq_deferActive with pausedRestore: a list job goes back to where it was
   popped, a stream job to the end of the stream. *)
Restore(j) ==
    /\ Put(j, "waiting", "none")
    /\ queue' = IF FromList THEN <<j>> \o queue ELSE Append(queue, j)

-----------------------------------------------------------------------------
(* From the read to the batch *)

Taking == stop = "no" /\ ~seenPaused

Claim ==
    /\ pc = "idle" /\ Taking /\ queue # <<>>
    /\ \E n \in 1 .. (IF Batch THEN Size ELSE 1) :
        /\ n <= Len(queue)
        /\ claims' = SubSeq(queue, 1, n) /\ queue' = SubSeq(queue, n + 1, Len(queue))
        /\ state' = [j \in Jobs |-> IF j \in Rng(claims') THEN "claimed" ELSE state[j]]
    /\ Goto("claimed") /\ Works
    /\ UNCHANGED <<outside, run, timers, reply, back, seenPaused, why>>

(* The refill of collectAndProcessBatch while batch.timeout runs: the flags are
   read again first, and a read that pause() or close() overtakes still delivers. *)
Refill ==
    /\ pc = "claimed" /\ Batch /\ ~FromList /\ Len(claims) < Size /\ queue # <<>>
    /\ ~Closing /\ ~queuePaused
    /\ claims' = Append(claims, Head(queue)) /\ queue' = Tail(queue)
    /\ state' = [state EXCEPT ![Head(queue)] = "claimed"]
    /\ Works /\ UNCHANGED <<outside, run, timers, reply, back, seenPaused, why, pc, at>>

MutForward(s) == s
Reversed(s) == IF FromList THEN Reverse(s) ELSE s

(* The worker was paused or closed while the read was in flight. *)
Begin ==
    /\ pc = "claimed"
    /\ IF Paused \/ Closing THEN back' = Reversed(claims) /\ Goto("restore")
                            ELSE back' = back /\ Goto("activate")
    /\ Works /\ UNCHANGED <<server, outside, run, timers, claims, reply, seenPaused>>

(* One command of the pipeline of moveToActiveMany. Some jobs the server parks
   or hands back itself (expired, its group is full, its turn has not come). *)
Answer(j) ==
    CASE j \in revoked -> {"REVOKED"}
      [] j \notin revoked /\ queuePaused -> {"PAUSED"}
      [] OTHER -> {"hash", "parked"}
Activate ==
    /\ pc = "activate" /\ at <= Len(claims)
    /\ LET j == claims[at]
       IN  \E r \in Answer(j) :
             /\ reply' = Append(reply, r)
             /\ CASE r = "hash" -> Put(j, "active", "none")
                  [] r = "parked" -> Put(j, "elsewhere", "none")
                  [] OTHER -> UNCHANGED <<state, why>>
    /\ Step /\ Works /\ UNCHANGED <<outside, run, timers, queue, claims, back, seenPaused>>
ActivateRefused ==
    /\ pc = "activate" /\ at <= Len(claims) /\ Len(claims) > 1
    /\ reply' = Append(reply, "error")
    /\ Step /\ Breaks /\ UNCHANGED <<server, outside, run, timers, claims, back, seenPaused>>
Answered ==
    /\ pc = "activate" /\ at > Len(claims)
    /\ Goto("handle") /\ Works
    /\ UNCHANGED <<server, outside, run, timers, claims, reply, back, seenPaused>>
ActivateThrows ==
    /\ pc = "activate"
    /\ Return /\ Breaks /\ UNCHANGED <<server, outside, timers, said, seenPaused>>

-----------------------------------------------------------------------------
(* handleMoveToActiveEdgeCase, and what precedes the processor *)

Handling == pc = "handle" /\ at <= Len(claims)

Skip ==
    /\ Handling /\ reply[at] \in {"error", "parked"}
    /\ Step /\ Works /\ UNCHANGED <<server, outside, run, timers, claims, reply, back, seenPaused>>

(* Goes back once every claim has been looked at. *)
KeepPaused ==
    /\ Handling /\ reply[at] = "PAUSED"
    /\ back' = Append(back, claims[at]) /\ seenPaused' = TRUE
    /\ Step /\ Works /\ UNCHANGED <<server, outside, run, timers, claims, reply>>

(* The call that fails a revoked job only reports its error. *)
HandleRevoked ==
    /\ Handling /\ reply[at] = "REVOKED"
    /\ \/ FailJob(claims[at], "revoked") /\ Works
       \/ MayHave(FailJob(claims[at], "revoked"))
    /\ Step /\ UNCHANGED <<outside, run, timers, claims, reply, back, seenPaused>>

Ready ==
    /\ Handling /\ reply[at] = "hash"
    /\ heartbeats' = heartbeats \cup {claims[at]} /\ batch' = Append(batch, claims[at])
    /\ Step /\ Works
    /\ UNCHANGED <<server, outside, controllers, aborted, kind, said, done, claims, reply, back, seenPaused>>

(* isOrderingTurn and deferOutOfOrderJob, divertIfBudgetExceeded. *)
Divert ==
    /\ Handling /\ reply[at] = "hash"
    /\ Put(claims[at], "elsewhere", "none") /\ UNCHANGED queue
    /\ IF Batch THEN Step /\ UNCHANGED <<claims, reply, batch, kind, back, done>> ELSE Return
    /\ Works /\ UNCHANGED <<outside, timers, said, seenPaused>>

MutAbandoned == heartbeats
Abandoned == heartbeats \ Rng(batch)
DivertThrows ==
    /\ Handling /\ reply[at] = "hash"
    /\ MayHave(Put(claims[at], "elsewhere", "none") /\ UNCHANGED queue)
    /\ heartbeats' = Abandoned
    /\ Return /\ UNCHANGED <<outside, controllers, aborted, said, seenPaused>>

Handled ==
    /\ pc = "handle" /\ at > Len(claims)
    /\ back' = Reversed(back)
    /\ Goto("restore") /\ Works
    /\ UNCHANGED <<server, outside, run, timers, claims, reply, seenPaused>>

(* deferPausedActivation: an error is reported and the loop goes on. *)
HandBack ==
    /\ pc = "restore" /\ back # <<>>
    /\ \/ Restore(Head(back)) /\ Works
       \/ MayHave(Restore(Head(back)))
    /\ back' = Tail(back)
    /\ UNCHANGED <<outside, run, timers, pc, at, claims, reply, seenPaused>>
Restored ==
    /\ pc = "restore" /\ back = <<>>
    /\ IF batch = <<>> \/ kind = "handed back"
       THEN Return /\ UNCHANGED controllers
       ELSE /\ Goto("limit") /\ controllers' = controllers \cup Rng(batch)
            /\ UNCHANGED <<claims, reply, batch, kind, back, done>>
    /\ Works /\ UNCHANGED <<server, outside, heartbeats, aborted, said, seenPaused>>

-----------------------------------------------------------------------------
(* The processor *)

Free == /\ heartbeats' = heartbeats \ Rng(batch) /\ controllers' = controllers \ Rng(batch)
        /\ aborted' = {}

(* close() cuts the limiter wait short: the jobs go back without having run. *)
CutShort == Limited /\ Closing /\ (Batch \/ aborted = {})
Limit ==
    /\ pc = "limit"
    /\ CutShort /\ FromList /\ Len(batch) > 1 => "limiter" \in Races
    /\ IF CutShort
       THEN back' = batch /\ kind' = "handed back" /\ Goto("restore") /\ Free
       ELSE Goto("run") /\ UNCHANGED <<back, kind, timers>>
    /\ Works /\ UNCHANGED <<server, outside, batch, said, done, claims, reply, seenPaused>>
(* One error for every job of the batch. *)
Blamed == [j \in Jobs |-> IF j \in Rng(batch) /\ said[j] # "moved" THEN "error" ELSE said[j]]

(* A batch fails with the limiter's error; a single job is left to recovery. *)
LimitThrows ==
    /\ pc = "limit" /\ Limited
    /\ IF Batch THEN /\ kind' = "thrown" /\ said' = Blamed /\ Goto("ended")
                     /\ UNCHANGED <<claims, reply, batch, back, done>>
                ELSE Return /\ UNCHANGED said
    /\ Free /\ Breaks /\ UNCHANGED <<server, outside, seenPaused>>

(* job.moveToFailed() within the processor. *)
MoveToFailed ==
    /\ pc = "run"
    /\ \E j \in Rng(batch) :
        /\ said[j] # "moved" /\ FailJob(j, "error")
        /\ said' = [said EXCEPT ![j] = "moved"]
    /\ Works /\ UNCHANGED <<outside, timers, pc, at, claims, reply, batch, kind, back, done, seenPaused>>

(* A timeout raises every signal of the batch; so does close(true). *)
Timeout ==
    /\ pc = "run" /\ aborted' = aborted \cup Rng(batch)
    /\ kind' = "thrown" /\ said' = Blamed /\ Works
    /\ heartbeats' = heartbeats \ Rng(batch) /\ controllers' = controllers \ Rng(batch)
    /\ Goto("ended")
    /\ UNCHANGED <<server, outside, batch, done, claims, reply, back, seenPaused>>

Kinds == IF Batch THEN {"results", "misfit", "batch error", "thrown"} ELSE {"results", "thrown"}
(* What the processor may say of a job: a value, one that cannot be stored, an
   error (a BatchError that is too short is one for the rest), or a request to
   park it. A single job whose signal was raised has failed whatever it returns. *)
Words(k) == CASE k = "results" -> IF Batch THEN {"value", "bad"} ELSE {"value", "bad", "park"}
              [] k = "batch error" -> {"value", "bad", "error"}
              [] k \in {"misfit", "thrown"} -> {"error"}
EndRun ==
    /\ pc = "run"
    /\ \E k \in Kinds : \E w \in [Rng(batch) -> Words(k)] :
        /\ kind' = k
        /\ said' = [j \in Jobs |->
                        IF j \notin Rng(batch) \/ said[j] = "moved" THEN said[j]
                        ELSE IF ~Batch /\ j \in aborted /\ w[j] \in {"value", "bad"} THEN "aborted"
                        ELSE w[j]]
    /\ heartbeats' = heartbeats \ Rng(batch) /\ controllers' = controllers \ Rng(batch)
    /\ UNCHANGED aborted
    /\ Goto("ended") /\ Works
    /\ UNCHANGED <<server, outside, batch, done, claims, reply, back, seenPaused>>

-----------------------------------------------------------------------------
(* The jobs are settled one after the other *)

(* close(true) aborted the processor: its jobs are left to stalled recovery. *)
Forced == /\ stop = "force"
          /\ IF Batch THEN kind \in {"batch error", "thrown"}
                      ELSE aborted # {} /\ said[batch[1]] # "park"
Ended ==
    /\ pc = "ended"
    /\ IF Forced THEN Return /\ aborted' = {}
       ELSE Goto("settle") /\ UNCHANGED <<claims, reply, batch, kind, back, done, aborted>>
    /\ Works /\ UNCHANGED <<server, outside, said, heartbeats, controllers, seenPaused>>

(* glidemq_complete refuses a revoked job. *)
Complete(j) == IF j \in revoked THEN UNCHANGED server
               ELSE Put(j, "completed", "value") /\ UNCHANGED queue

Settling == pc = "settle" /\ at <= Len(batch)
This == batch[at]
Over == /\ Return /\ aborted' = {} /\ UNCHANGED <<outside, said, heartbeats, controllers, seenPaused>>
OnToNext ==
    /\ Step
    /\ UNCHANGED <<outside, batch, kind, said, back, timers, claims, reply, seenPaused>>

(* skipMovedToFailed *)
SkipMoved ==
    /\ Settling /\ said[This] = "moved"
    /\ IF Batch THEN OnToNext /\ UNCHANGED done ELSE Over
    /\ Works /\ UNCHANGED server

MutSignalled(j) == IF kind # "misfit" /\ (j \in revoked \/ aborted # {}) THEN "revoked" ELSE "error"
(* isJobRevoked. A single job is only asked about when its signal was raised. *)
Verdict(j) ==
    IF kind # "misfit" /\ j \in revoked /\ (Batch \/ j \in aborted) THEN "revoked" ELSE "error"

Fails(j) == said[j] \in {"error", "aborted"}
SettleFailed ==
    /\ Settling /\ Fails(This) /\ (Batch \/ stop # "no")
    /\ FailJob(This, Verdict(This)) /\ Works
    /\ IF Batch THEN OnToNext /\ UNCHANGED done ELSE Over

(* A value that cannot be serialized or is too large: handleJobFailure. *)
SettleBad ==
    /\ Settling /\ ~Fails(This) /\ said[This] = "bad"
    /\ FailJob(This, "error") /\ Works
    /\ IF Batch THEN OnToNext /\ UNCHANGED done ELSE Over

(* moveToDelayed, moveToWaitingChildren, suspend, rateLimitGroup; the job fails
   when the request is refused. *)
SettleParked ==
    /\ Settling /\ ~Fails(This) /\ said[This] = "park"
    /\ \/ Put(This, "elsewhere", "none") /\ UNCHANGED queue
       \/ FailJob(This, "error")
    /\ Over /\ Works

SettleThrows ==
    /\ Settling /\ said[This] # "moved" /\ ~(Batch /\ said[This] = "value")
    /\ MayHave(IF said[This] = "value" THEN Complete(This) ELSE FailJob(This, "error"))
    /\ Over

Collected == Append(done, This)
SettleValue ==
    /\ Settling /\ Batch /\ said[This] = "value"
    /\ done' = Collected
    /\ OnToNext /\ Works /\ UNCHANGED server

Settled ==
    /\ pc = "settle" /\ at > Len(batch)
    /\ Goto("complete") /\ reply' = <<>> /\ Works
    /\ UNCHANGED <<server, outside, run, timers, claims, back, seenPaused>>

(* completeBatchEntries: one command of its pipeline, and what follows it. *)
CompleteEntry ==
    /\ pc = "complete" /\ at <= Len(done)
    /\ \/ /\ Complete(done[at]) /\ Works
          /\ reply' = Append(reply, IF done[at] \in revoked THEN "REVOKED" ELSE "ok")
       \/ MayHave(Complete(done[at])) /\ reply' = Append(reply, "error")
    /\ Step /\ UNCHANGED <<outside, run, timers, claims, back, seenPaused>>
CompleteThrows == pc = "complete" /\ done # <<>> /\ Breaks /\ Over /\ UNCHANGED server
Completed ==
    /\ pc = "complete" /\ at > Len(done)
    /\ Goto("follow") /\ Works
    /\ UNCHANGED <<server, outside, run, timers, claims, reply, back, seenPaused>>

Following == pc = "follow" /\ at <= Len(done)
FollowUp ==
    /\ Following /\ reply[at] # "REVOKED"
    /\ OnToNext /\ Works /\ UNCHANGED <<server, done>>
FailRevoked ==
    /\ Following /\ reply[at] = "REVOKED"
    /\ \/ FailJob(done[at], "revoked") /\ Works /\ OnToNext /\ UNCHANGED done
       \/ MayHave(FailJob(done[at], "revoked")) /\ Over
BatchEnds ==
    /\ pc = "follow" /\ at > Len(done)
    /\ Over /\ Works /\ UNCHANGED server

-----------------------------------------------------------------------------
(* processJob: complete or fail, and claim the next job in the same call *)

SingleValue == Settling /\ ~Batch /\ ~Fails(This) /\ said[This] = "value"

CompleteOnly ==
    /\ SingleValue /\ stop # "no"
    /\ IF This \in revoked THEN FailJob(This, "revoked") ELSE Complete(This)
    /\ Over /\ Works
CurrentRevoked ==
    /\ SingleValue /\ stop = "no" /\ This \in revoked
    /\ FailJob(This, "revoked")
    /\ Over /\ Works

(* The server activates the next job for the slot, unless the queue is paused. *)
Ends(j, s, w) ==
    LET next == IF queue = <<>> \/ queuePaused THEN <<>> ELSE <<Head(queue)>>
    IN  /\ state' = [i \in Jobs |-> CASE i = j -> s
                                      [] i \in Rng(next) -> IF i \in revoked THEN "claimed" ELSE "active"
                                      [] OTHER -> state[i]]
        /\ why' = [why EXCEPT ![j] = w]
        /\ queue' = IF next = <<>> THEN queue ELSE Tail(queue)
        /\ claims' = next
        /\ reply' = [i \in DOMAIN next |-> IF next[i] \in revoked THEN "REVOKED" ELSE "hash"]
Chains ==
    /\ batch' = <<>> /\ kind' = "none" /\ back' = <<>> /\ done' = <<>> /\ aborted' = {}
    /\ Goto("chained") /\ Works
    /\ UNCHANGED <<outside, said, heartbeats, controllers, seenPaused>>
CompleteAndFetchNext ==
    /\ SingleValue /\ stop = "no" /\ This \notin revoked
    /\ Ends(This, "completed", "value") /\ Chains
FailAndFetchNext ==
    /\ Settling /\ ~Batch /\ Fails(This) /\ stop = "no"
    /\ \/ Ends(This, "failed", Verdict(This))
       \/ Verdict(This) # "revoked" /\ Ends(This, "elsewhere", "none")
    /\ Chains
(* The reply is lost, the next job claimed. *)
FetchNextLost ==
    /\ Settling /\ ~Batch /\ stop = "no" /\ (Fails(This) \/ said[This] = "value")
    /\ LET n == Head(queue)
       IN  /\ queue # <<>> /\ ~queuePaused /\ n \notin revoked /\ This \notin revoked
           /\ state' = [state EXCEPT ![n] = "active", ![This] = IF Fails(This) THEN "failed" ELSE "completed"]
           /\ why' = [why EXCEPT ![This] = IF Fails(This) THEN "error" ELSE "value"]
           /\ queue' = Tail(queue)
    /\ Over /\ Breaks

(* Notifications, events, the budget, the token counter and the scheduler; then
   the next job runs, or goes back when the worker was stopped meanwhile. When
   one of those calls fails the next job stays claimed. *)
ChainThrows ==
    /\ pc = "chained"
    /\ Over /\ Breaks /\ UNCHANGED server
StoppedSince == Paused \/ Closing
Chained ==
    /\ pc = "chained"
    /\ IF claims = <<>> \/ (Closing /\ ~StoppedSince) THEN Return \* the loop runs while (!closing)
       ELSE /\ IF StoppedSince
               THEN back' = claims /\ kind' = "handed back" /\ Goto("restore")
               ELSE back' = <<>> /\ kind' = "none" /\ Goto("handle")
            /\ UNCHANGED <<claims, reply, batch, done>>
    /\ Works /\ UNCHANGED <<server, outside, said, timers, seenPaused>>

-----------------------------------------------------------------------------
(* Clients, the owner of the worker, heartbeats and stalled recovery *)

Client == UNCHANGED <<server, run, timers, pc, claims, reply, at, back, seenPaused, errors>>

Revoke(j) ==
    /\ state[j] \in {"claimed", "active"} /\ j \notin revoked /\ Cardinality(revoked) < MaxRevokes /\ Trouble
    /\ revoked' = revoked \cup {j}
    /\ Client /\ UNCHANGED <<queuePaused, stop, mode, source>>
PauseQueue ==
    /\ QueuePauses /\ ~queuePaused /\ Trouble /\ queuePaused' = TRUE
    /\ Client /\ UNCHANGED <<revoked, stop, mode, source>>
Stop(s) ==
    /\ s \in Stops /\ stop # s /\ stop # "force" /\ ~(s = "pause" /\ stop = "close")
    /\ stop # "no" \/ Trouble
    /\ stop' = s
    /\ aborted' = IF s = "force" THEN aborted \cup controllers ELSE aborted
    /\ UNCHANGED <<server, run, heartbeats, controllers, pc, claims, reply, at, back, seenPaused, errors>>
    /\ UNCHANGED <<revoked, queuePaused, mode, source>>

(* The heartbeat reads the revoked flag with the refresh. *)
Heartbeat(j) ==
    /\ j \in heartbeats \cap revoked \cap controllers /\ j \notin aborted
    /\ aborted' = aborted \cup {j}
    /\ UNCHANGED <<server, outside, run, heartbeats, controllers, pc, claims, reply, at, back, seenPaused, errors>>

(* Stalled recovery takes a job that no heartbeat refreshes. Here it waits until
   the slot has let go of the job: what happens before that is in StreamQueue. *)
Recover(j) ==
    /\ state[j] \in {"claimed", "active"} /\ j \notin heartbeats /\ j \notin Held
    /\ Put(j, "elsewhere", "none")
    /\ UNCHANGED <<queue, outside, run, timers, pc, claims, reply, at, back, seenPaused, errors>>

Slot ==
    \/ Begin \/ Activate \/ ActivateRefused \/ Answered \/ ActivateThrows
    \/ Skip \/ KeepPaused \/ HandleRevoked \/ Ready \/ Divert \/ DivertThrows \/ Handled
    \/ HandBack \/ Restored \/ Limit \/ LimitThrows
    \/ MoveToFailed \/ Timeout \/ EndRun \/ Ended
    \/ SkipMoved \/ SettleFailed \/ SettleBad \/ SettleParked \/ SettleThrows \/ SettleValue \/ Settled
    \/ CompleteEntry \/ CompleteThrows \/ Completed \/ FollowUp \/ FailRevoked \/ BatchEnds
    \/ CompleteOnly \/ CurrentRevoked \/ CompleteAndFetchNext \/ FailAndFetchNext \/ FetchNextLost
    \/ ChainThrows \/ Chained
Next ==
    \/ Slot \/ Claim \/ Refill
    \/ PauseQueue \/ \E s \in Stops : Stop(s)
    \/ \E j \in Jobs : Revoke(j) \/ Heartbeat(j) \/ Recover(j)

Spec == Init /\ [][Next]_vars

-----------------------------------------------------------------------------
TypeOK ==
    /\ state \in [Jobs -> {"waiting", "claimed", "active", "completed", "failed", "elsewhere"}]
    /\ why \in [Jobs -> {"none", "value", "error", "revoked"}]
    /\ said \in [Jobs -> {"none", "value", "bad", "park", "error", "aborted", "moved"}]
    /\ \A s \in {queue, claims, batch, back, done} : Rng(s) \subseteq Jobs /\ IsInjective(s)
    /\ heartbeats \cup controllers \cup aborted \cup revoked \subseteq Jobs
    /\ errors \in 0 .. MaxErrors /\ at \in Nat

(* A heartbeat or an abort controller never outlives the work on its job,
   however the slot comes free: the job of a heartbeat that nobody stops is
   never recovered, since recovery looks at lastActive alone. *)
NoHeartbeatLeft == heartbeats \cup controllers \subseteq Rng(batch)

(* Each job of a batch ends as the processor reported for that job: a value is
   only stored for the job it was computed for, an error only fails jobs that
   share it, and "revoked", which is terminal, only the jobs that were revoked,
   although a timeout raises every signal of the batch. *)
OwnOutcome ==
    \A j \in Jobs : /\ why[j] = "value" => said[j] = "value"
                    /\ why[j] = "error" => said[j] \in {"error", "aborted", "bad", "park", "moved"}
                    /\ why[j] = "revoked" => j \in revoked

(* When every call succeeds and the close is not forced, a slot that comes free
   leaves none of its claims behind: each was settled, parked or handed back,
   with every stop, pause and revocation in between. *)
NoClaimLeft ==
    (pc = "idle" /\ errors = 0 /\ stop # "force") =>
        \A j \in Jobs : state[j] \notin {"claimed", "active"}

(* A slot that comes free leaves nothing behind: no timer that would keep a job
   from recovery, and no claim. *)
NothingLeft == NoHeartbeatLeft /\ NoClaimLeft

(* The list jobs that go back to their list are claimed again in their order. *)
Position(j) == CHOOSE i \in DOMAIN Line : Line[i] = j
OrderKept ==
    (FromList /\ pc = "idle") =>
        \A m, n \in DOMAIN queue : m < n => Position(queue[m]) < Position(queue[n])
=============================================================================
