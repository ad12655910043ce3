-------------------------- MODULE WorkerLoopProofs --------------------------
(***************************************************************************)
(* Proofs about WorkerLoop for every set of jobs and every profile: one    *)
(* poll loop at a time and never none, nothing processed after pause(),    *)
(* nothing left behind by close().                                         *)
(***************************************************************************)
EXTENDS WorkerLoop, FiniteSetTheorems, TLAPS

Shape ==
  /\ conf \in ProfileType
  /\ where \in [Jobs -> {"new", "list", "stream", "hand", "active", "done"}]
  /\ task \in [Jobs -> TaskSteps]
  /\ held \subseteq Jobs /\ awaiting \subseteq Jobs
  /\ loops \in [LoopIds -> LoopSteps]
  /\ init \in {"command", "blocking", "prepare", "register", "done", "failed"}
  /\ rec \in {"none", "command", "library", "ping", "blocking", "group", "register"}
  /\ closer \in {"none", "init", "scheduler", "settle", "blocking", "jobs", "deregister", "end", "done"}
  /\ promise \in BOOLEAN /\ running \in BOOLEAN /\ paused \in BOOLEAN /\ closing \in BOOLEAN
  /\ closed \in BOOLEAN /\ forceClosing \in BOOLEAN /\ closeForce \in BOOLEAN
  /\ retry \in BOOLEAN /\ cmd \in BOOLEAN /\ blk \in BOOLEAN /\ pend \in BOOLEAN
  /\ sched \in BOOLEAN /\ beat \in BOOLEAN

Alive(l) == loops[l] # "none"

(* At most one loop is alive; a loop waits for the reconnect or none is there, *)
(* and the promise of the loop covers both.                                    *)
Alone ==
  /\ \A l, k \in LoopIds : Alive(l) /\ Alive(k) => l = k
  /\ \A l \in LoopIds : Alive(l) => init = "done" /\ (promise \/ closed)
  /\ \A l \in LoopIds : loops[l] = "reconnect" => rec # "none"
  /\ rec # "none" => init = "done" /\ ~retry /\ (promise \/ closed) /\ \A l \in LoopIds : loops[l] \in {"none", "reconnect"}
  /\ retry => init = "done" /\ (promise \/ closed) /\ \A l \in LoopIds : ~Alive(l)
  /\ init \notin {"done", "failed"} => ~running
  /\ running /\ ~closing => init = "done"
  /\ closing <=> closer # "none"
  /\ closed => closer = "done" /\ init \in {"done", "failed"}
  /\ closer \notin {"none", "init"} => init \in {"done", "failed"}
  /\ init = "done" /\ ~closing => running

(* What a paused worker and a resumed one find of the loop. *)
Wakes ==
  /\ Starting => ~paused
  /\ init = "done" /\ ~closing /\ promise => (\E l \in LoopIds : Alive(l)) \/ retry \/ rec # "none"
  /\ init = "done" /\ ~closing /\ ~paused => promise
  /\ init \in {"prepare", "register"} \/ (rec \in {"group", "register"} /\ ~closing) => blk
  /\ init = "done" /\ ~closing /\ ~blk => rec # "none" \/ retry

-----------------------------------------------------------------------------
(* What the parts of the worker leave alone.                                 *)

LEMMA TaskFrame ==
  ASSUME TaskNext \/ \E j \in Jobs : Add(j)
  PROVE  UNCHANGED <<conf, held, loopVars, init, flagVars, clientVars, closer, closeForce, pauser>>
BY DEF TaskNext, Add, Activate, EndLimit, EndProcessor, EndAborted, Complete, Chain, HandBack, LoseClient,
       TaskUnchanged, callVars

(* A step of a poll loop other than the end of its backoff. *)
LoopStep(l) == \/ PollTop(l) \/ SlotFree(l) \/ Pop(l) \/ Read(l) \/ PollInline(l)
               \/ ActivateBatch(l) \/ ReturnHeld(l)

LEMMA LoopFrame ==
  ASSUME NEW l \in LoopIds, LoopStep(l)
  PROVE  UNCHANGED <<conf, init, flagVars, clientVars, callVars>>
BY DEF LoopStep, PollTop, SlotFree, Pop, Read, PollInline, ActivateBatch, ReturnHeld, LoopUnchanged

(* The loop goes to step s; it ends at the top alone, when it is told to. *)
LoopGoes(l, s) ==
  /\ loops' = [loops EXCEPT ![l] = s]
  /\ s \in LoopSteps \ {"reconnect"}
  /\ \/ s # "none" /\ promise' = promise
     \/ s = "none" /\ ~Polls /\ promise' = PromiseAfter
  /\ s = "backoff" => Active /\ (paused => "start" \in Races \/ ~blk)
  /\ s = "activate" => ~Stopping

LEMMA LoopMoves ==
  ASSUME Shape, NEW l \in LoopIds, LoopStep(l)
  PROVE  /\ loops[l] \notin {"none", "reconnect", "backoff"}
         /\ \E s \in LoopSteps : LoopGoes(l, s)
<1>0. loops[l] \notin {"none", "reconnect", "backoff"}
  BY DEF LoopStep, PollTop, SlotFree, Pop, Read, PollInline, ActivateBatch, ReturnHeld
<1>1. CASE PollTop(l)
  <2>1. \E s \in {"pop", "read", "slot", "none"} : LoopGoes(l, s)
    BY <1>1 DEF PollTop, GoTo, LoopSteps, LoopGoes
  <2> QED BY <1>0, <2>1 DEF LoopSteps
<1>2. CASE SlotFree(l) \/ PollInline(l)
  <2>1. LoopGoes(l, "top")
    BY <1>2 DEF SlotFree, PollInline, GoTo, LoopSteps, LoopGoes
  <2> QED BY <1>0, <2>1 DEF LoopSteps
<1>3. ASSUME NEW D, Deliver(l, D), promise' = promise
      PROVE  \E s \in LoopSteps : LoopGoes(l, s)
  <2>1. LoopGoes(l, IF conf.batch THEN (IF Stopping THEN "return" ELSE "activate")
                                  ELSE (IF Inline THEN "inline" ELSE "top"))
    BY <1>3 DEF Deliver, GoTo, LoopSteps, LoopGoes
  <2> QED BY <2>1 DEF LoopSteps
<1>4. CASE Pop(l)
  <2>1. CASE \E D \in UpTo(InList, want) : Deliver(l, D)
    BY <1>3, <1>4, <2>1 DEF Pop
  <2>2. CASE GoTo(l, IF loops[l] = "post" \/ Stopping THEN "top" ELSE "read")
    <3>1. LoopGoes(l, IF loops[l] = "post" \/ Stopping THEN "top" ELSE "read")
      BY <1>4, <2>2 DEF Pop, GoTo, LoopSteps, LoopGoes
    <3> QED BY <1>0, <3>1 DEF LoopSteps
  <2> QED BY <1>4, <2>1, <2>2 DEF Pop
<1>5. CASE Read(l)
  <2>1. CASE \E D \in UpTo(InStream, want) : Deliver(l, D)
    BY <1>3, <1>5, <2>1 DEF Read
  <2>2. CASE GoTo(l, IF Stopping THEN "top" ELSE "post")
    <3>1. LoopGoes(l, IF Stopping THEN "top" ELSE "post")
      BY <1>5, <2>2 DEF Read, GoTo, LoopSteps, LoopGoes
    <3> QED BY <1>0, <3>1 DEF LoopSteps
  <2>3. CASE (paused => "start" \in Races \/ ~blk) /\ GoTo(l, IF Active THEN "backoff" ELSE "top")
    <3>1. LoopGoes(l, IF Active THEN "backoff" ELSE "top")
      BY <1>5, <2>3 DEF Read, GoTo, LoopSteps, LoopGoes
    <3> QED BY <1>0, <3>1 DEF LoopSteps
  <2> QED BY <1>5, <2>1, <2>2, <2>3 DEF Read
<1>6. CASE ActivateBatch(l)
  <2>1. LoopGoes(l, "inline")
    BY <1>6 DEF ActivateBatch, GoTo, LoopSteps, LoopGoes
  <2> QED BY <1>0, <2>1 DEF LoopSteps
<1>7. CASE ReturnHeld(l)
  <2>1. loops[l] = "return" /\ promise' = promise /\ (loops' = loops \/ GoTo(l, "top"))
    BY <1>7 DEF ReturnHeld
  <2>2. LoopGoes(l, "return") \/ LoopGoes(l, "top")
    BY <2>1 DEF GoTo, Shape, LoopSteps, LoopGoes
  <2> QED BY <1>0, <2>2 DEF LoopSteps
<1> QED BY <1>0, <1>1, <1>2, <1>4, <1>5, <1>6, <1>7 DEF LoopStep

(* reconnectAndResume, but for the loop that calls it. *)
LEMMA RecFrame ==
  ASSUME ReconnectNext \/ \E l \in LoopIds : EndBackoff(l)
  PROVE  UNCHANGED <<conf, queueVars, init, flagVars, callVars>>
BY DEF ReconnectNext, RetryFires, RecFails, RecCommand, RecLibrary, RecPing, RecBlocking, RecGroup, RecRegister,
       EndBackoff, RecUnchanged, AttemptFails, BeginReconnect, Abort

LEMMA CloseFrame ==
  ASSUME CloseNext
  PROVE  UNCHANGED <<conf, queueVars, loops, init, running, paused, closing, forceClosing, rec, pend, closeForce,
                     pauser, awaiting>>
BY DEF CloseNext, CloseInit, CloseScheduler, CloseSettle, CloseBlocking, CloseJobs, CloseDeregister, CloseEnd,
       PerformUnchanged

LEMMA InitFrame ==
  ASSUME InitNext
  PROVE  UNCHANGED <<conf, queueVars, callVars, paused, closing, closed, forceClosing, rec, retry, pend>>
BY DEF InitNext, InitCommand, InitBlocking, InitPrepare, InitRegister, InitFails, flagVars

(* The calls of the user, and what answers them. *)
Calls == \/ PauseReturns \/ DrainAsks \/ DrainCloses \/ Resume \/ Drain
         \/ \E force \in BOOLEAN : Pause(force) \/ Close(force)

LEMMA CallFrame ==
  ASSUME Calls
  PROVE  UNCHANGED <<conf, where, held, init, clientVars, closed>>
BY DEF Calls, PauseReturns, DrainAsks, DrainCloses, Resume, Drain, Pause, Close, CloseEffects, CallUnchanged,
       queueVars, flagVars

LEMMA NextCases ==
  ASSUME Next
  PROVE  \/ TaskNext \/ (\E j \in Jobs : Add(j))
         \/ \E l \in LoopIds : LoopStep(l)
         \/ ReconnectNext \/ (\E l \in LoopIds : EndBackoff(l))
         \/ InitNext \/ CloseNext \/ Calls
BY DEF Next, Internal, UserNext, LoopNext, LoopStep, Calls

-----------------------------------------------------------------------------
(* The types of the variables.                                               *)

LEMMA ShapeStep ==
  ASSUME Shape, [Next]_vars
  PROVE  Shape'
<1>1. CASE TaskNext \/ \E j \in Jobs : Add(j)
  <2>1. UNCHANGED <<conf, held, loopVars, init, flagVars, clientVars, closer, closeForce, pauser>>
    BY <1>1, TaskFrame
  <2>2. ASSUME NEW j \in Jobs,
               \/ Activate(j) \/ EndLimit(j) \/ EndProcessor(j) \/ EndAborted(j) \/ Complete(j)
               \/ HandBack(j) \/ LoseClient(j) \/ Add(j)
        PROVE  /\ where' \in [Jobs -> {"new", "list", "stream", "hand", "active", "done"}]
               /\ task' \in [Jobs -> TaskSteps] /\ awaiting' \subseteq Jobs
    BY <2>2 DEF Shape, Activate, EndLimit, EndProcessor, EndAborted, Complete, HandBack, LoseClient, Add,
                Settle, Processing, Place, TaskSteps, callVars
  <2>3. ASSUME NEW j \in Jobs, Chain(j)
        PROVE  /\ where' \in [Jobs -> {"new", "list", "stream", "hand", "active", "done"}]
               /\ task' \in [Jobs -> TaskSteps] /\ awaiting' \subseteq Jobs
    BY <2>3 DEF Shape, Chain, Settle, Continue, Processing, TaskSteps, InList, InStream
  <2>4. /\ where' \in [Jobs -> {"new", "list", "stream", "hand", "active", "done"}]
        /\ task' \in [Jobs -> TaskSteps] /\ awaiting' \subseteq Jobs
    BY <1>1, <2>2, <2>3 DEF TaskNext
  <2> QED BY <2>1, <2>4 DEF Shape, loopVars, flagVars, clientVars
<1>2. ASSUME NEW l \in LoopIds, LoopStep(l) PROVE Shape'
  <2>1. UNCHANGED <<conf, init, flagVars, clientVars, callVars>>
    BY <1>2, LoopFrame
  <2>2. PICK s \in LoopSteps : LoopGoes(l, s)
    BY <1>2, LoopMoves
  <2>3. loops' \in [LoopIds -> LoopSteps] /\ promise' \in BOOLEAN
    BY <2>2 DEF Shape, LoopGoes, PromiseAfter
  <2>4. ASSUME NEW D \in SUBSET Jobs, Deliver(l, D), held \subseteq Jobs
        PROVE  /\ where' \in [Jobs -> {"new", "list", "stream", "hand", "active", "done"}]
               /\ task' \in [Jobs -> TaskSteps] /\ held' \subseteq Jobs
    BY <2>4 DEF Shape, Deliver, Start, TaskSteps
  <2>5. UpTo(InList, want) \subseteq SUBSET Jobs /\ UpTo(InStream, want) \subseteq SUBSET Jobs
    BY DEF UpTo, InList, InStream
  <2>6. /\ where' \in [Jobs -> {"new", "list", "stream", "hand", "active", "done"}]
        /\ task' \in [Jobs -> TaskSteps] /\ held' \subseteq Jobs
    <3>1. CASE PollTop(l) \/ SlotFree(l) \/ PollInline(l)
      BY <3>1 DEF Shape, PollTop, SlotFree, PollInline, queueVars
    <3>2. CASE Pop(l)
      BY <2>4, <2>5, <3>2 DEF Shape, Pop
    <3>3. CASE Read(l)
      BY <2>4, <2>5, <3>3 DEF Shape, Read
    <3>4. CASE ActivateBatch(l)
      BY <3>4 DEF Shape, ActivateBatch, Processing, TaskSteps
    <3>5. CASE ReturnHeld(l)
      BY <3>5 DEF Shape, ReturnHeld, Place
    <3> QED BY <1>2, <3>1, <3>2, <3>3, <3>4, <3>5 DEF LoopStep
  <2> QED BY <2>1, <2>3, <2>6 DEF Shape, flagVars, clientVars, callVars
<1>3. CASE ReconnectNext \/ \E l \in LoopIds : EndBackoff(l)
  <2>1. UNCHANGED <<conf, queueVars, init, flagVars, callVars>>
    BY <1>3, RecFrame
  <2>2. /\ loops' \in [LoopIds -> LoopSteps] /\ promise' \in BOOLEAN
        /\ rec' \in {"none", "command", "library", "ping", "blocking", "group", "register"}
        /\ retry' \in BOOLEAN /\ cmd' \in BOOLEAN /\ blk' \in BOOLEAN /\ pend' \in BOOLEAN
        /\ sched' \in BOOLEAN /\ beat' \in BOOLEAN
    <3>1. Returned \in [LoopIds -> LoopSteps]
      BY DEF Shape, Returned, LoopSteps
    <3>2. ASSUME BeginReconnect
          PROVE  /\ rec' \in {"none", "command", "library", "ping", "blocking", "group", "register"}
                 /\ cmd' \in BOOLEAN /\ blk' \in BOOLEAN /\ pend' \in BOOLEAN
                 /\ sched' \in BOOLEAN /\ beat' \in BOOLEAN
      BY <3>2 DEF Shape, BeginReconnect
    <3>3. ASSUME Abort(TRUE) \/ Abort(FALSE) \/ Abort(pend)
          PROVE  /\ loops' \in [LoopIds -> LoopSteps] /\ promise' = promise /\ rec' = "none"
                 /\ retry' = retry /\ cmd' = cmd /\ blk' = FALSE /\ pend' = FALSE
                 /\ sched' = sched /\ beat' = beat
      BY <3>1, <3>3 DEF Abort
    <3>4. ASSUME NEW l \in LoopIds, EndBackoff(l)
          PROVE  /\ loops' \in [LoopIds -> LoopSteps] /\ promise' \in BOOLEAN
                 /\ rec' \in {"none", "command", "library", "ping", "blocking", "group", "register"}
                 /\ retry' \in BOOLEAN /\ cmd' \in BOOLEAN /\ blk' \in BOOLEAN /\ pend' \in BOOLEAN
                 /\ sched' \in BOOLEAN /\ beat' \in BOOLEAN
      <4>1. loops' \in [LoopIds -> LoopSteps] /\ promise' \in BOOLEAN /\ retry' \in BOOLEAN
        BY <3>4 DEF Shape, EndBackoff, GoTo, LoopSteps, clientVars
      <4> QED BY <3>2, <3>4, <4>1 DEF Shape, EndBackoff, clientVars
    <3>5. CASE RetryFires
      BY <3>2, <3>5 DEF Shape, RetryFires, loopVars
    <3>6. CASE RecFails
      BY <3>1, <3>6 DEF Shape, RecFails, AttemptFails, Active
    <3>7. CASE RecCommand \/ RecBlocking
      BY <3>1, <3>7 DEF Shape, RecCommand, RecBlocking
    <3>8. CASE RecLibrary \/ RecPing \/ RecGroup
      BY <3>3, <3>8 DEF Shape, RecLibrary, RecPing, RecGroup, loopVars
    <3>9. CASE RecRegister
      <4>1. CASE closing
        BY <3>3, <3>9, <4>1 DEF Shape, RecRegister
      <4>2. CASE ~closing
        <5>1. StartLoop(Returned, ~paused) => loops' \in [LoopIds -> LoopSteps] /\ promise' = TRUE
          BY <3>1 DEF StartLoop, LoopSteps
        <5> QED BY <3>1, <3>9, <4>2, <5>1 DEF Shape, RecRegister
      <4> QED BY <4>1, <4>2 DEF Shape
    <3> QED BY <1>3, <3>4, <3>5, <3>6, <3>7, <3>8, <3>9 DEF ReconnectNext
  <2> QED BY <2>1, <2>2 DEF Shape, queueVars, flagVars, callVars
<1>4. CASE InitNext
  <2>1. UNCHANGED <<conf, queueVars, callVars, paused, closing, closed, forceClosing, rec, retry, pend>>
    BY <1>4, InitFrame
  <2>2. /\ loops' \in [LoopIds -> LoopSteps] /\ promise' \in BOOLEAN
        /\ init' \in {"command", "blocking", "prepare", "register", "done", "failed"}
        /\ running' \in BOOLEAN /\ cmd' \in BOOLEAN /\ blk' \in BOOLEAN /\ sched' \in BOOLEAN /\ beat' \in BOOLEAN
    <3>1. CASE InitCommand \/ InitBlocking \/ InitPrepare
      BY <3>1 DEF Shape, InitCommand, InitBlocking, InitPrepare, InitFails, loopVars, flagVars
    <3>2. CASE InitRegister
      <4>1. loops' \in [LoopIds -> LoopSteps] /\ promise' = TRUE
        BY <3>2 DEF Shape, InitRegister, StartLoop, LoopSteps
      <4> QED BY <3>2, <4>1 DEF Shape, InitRegister
    <3> QED BY <1>4, <3>1, <3>2 DEF InitNext
  <2> QED BY <2>1, <2>2 DEF Shape, queueVars, callVars
<1>5. CASE CloseNext
  <2>1. UNCHANGED <<conf, queueVars, loops, init, running, paused, closing, forceClosing, rec, pend, closeForce,
                    pauser, awaiting>>
    BY <1>5, CloseFrame
  <2>2. /\ closer' \in {"none", "init", "scheduler", "settle", "blocking", "jobs", "deregister", "end", "done"}
        /\ promise' \in BOOLEAN /\ closed' \in BOOLEAN /\ retry' \in BOOLEAN /\ cmd' \in BOOLEAN
        /\ blk' \in BOOLEAN /\ sched' \in BOOLEAN /\ beat' \in BOOLEAN
    BY <1>5 DEF Shape, CloseNext, CloseInit, CloseScheduler, CloseSettle, CloseBlocking, CloseJobs,
                CloseDeregister, CloseEnd, NextStep
  <2> QED BY <2>1, <2>2 DEF Shape, queueVars
<1>6. CASE Calls
  <2>1. UNCHANGED <<conf, where, held, init, clientVars, closed>>
    BY <1>6, CallFrame
  <2>2. ASSUME NEW force \in BOOLEAN, CloseEffects(force)
        PROVE  /\ task' \in [Jobs -> TaskSteps] /\ awaiting' = awaiting
               /\ loops' = loops /\ promise' = promise
               /\ closer' \in {"none", "init", "scheduler", "settle", "blocking", "jobs", "deregister", "end", "done"}
               /\ running' \in BOOLEAN /\ paused' = paused /\ closing' \in BOOLEAN
               /\ forceClosing' \in BOOLEAN /\ closeForce' \in BOOLEAN
    BY <2>2 DEF Shape, CloseEffects, TaskSteps, loopVars
  <2>3. /\ task' \in [Jobs -> TaskSteps] /\ awaiting' \subseteq Jobs
        /\ loops' \in [LoopIds -> LoopSteps] /\ promise' \in BOOLEAN
        /\ closer' \in {"none", "init", "scheduler", "settle", "blocking", "jobs", "deregister", "end", "done"}
        /\ running' \in BOOLEAN /\ paused' \in BOOLEAN /\ closing' \in BOOLEAN
        /\ forceClosing' \in BOOLEAN /\ closeForce' \in BOOLEAN
    <3>1. CASE PauseReturns \/ DrainAsks \/ Drain \/ \E force \in BOOLEAN : Pause(force)
      BY <3>1, ZenonT(60) DEF Shape, PauseReturns, DrainAsks, Drain, Pause, CallUnchanged, loopVars, flagVars, queueVars, Busy
    <3>2. CASE DrainCloses \/ \E force \in BOOLEAN : Close(force)
      BY <2>2, <3>2 DEF Shape, DrainCloses, Close, CallUnchanged, loopVars, flagVars, queueVars
    <3>3. CASE Resume
      <4>1. loops' \in [LoopIds -> LoopSteps] /\ promise' \in BOOLEAN
        BY <3>3 DEF Shape, Resume, StartLoop, LoopSteps, loopVars
      <4> QED BY <3>3, <4>1 DEF Shape, Resume, CallUnchanged, queueVars
    <3> QED BY <1>6, <3>1, <3>2, <3>3 DEF Calls
  <2> QED BY <2>1, <2>3 DEF Shape, clientVars
<1>7. CASE UNCHANGED vars
  BY <1>7 DEF Shape, vars
<1> QED BY <1>1, <1>2, <1>3, <1>4, <1>5, <1>6, <1>7, NextCases

-----------------------------------------------------------------------------
(* One loop at a time. It is given to whoever calls pollLoop(), and the      *)
(* promise, the timer and the attempt of a reconnect keep the others out.    *)

(* Every loop but one that waits for the attempt has returned before it.     *)
LEMMA AllReturned ==
  ASSUME Alone, rec # "none"
  PROVE  \A l \in LoopIds : Returned[l] = "none"
BY DEF Alone, Returned

LEMMA LoopStarts ==
  ASSUME NEW others, others \in [LoopIds -> LoopSteps], \A l \in LoopIds : others[l] = "none",
         NEW starts \in BOOLEAN, StartLoop(others, starts)
  PROVE  /\ promise' = TRUE
         /\ \A l, k \in LoopIds : Alive(l)' /\ Alive(k)' => l = k
         /\ \A l \in LoopIds : loops'[l] \in {"none", "top"}
         /\ starts => \E l \in LoopIds : Alive(l)'
BY DEF StartLoop, Alive, LoopIds, LoopSteps

(* The seven conjuncts of Alone that speak of the flags. *)
LEMMA FlagsStep ==
  ASSUME Shape, Alone, Next
  PROVE  /\ (init \notin {"done", "failed"} => ~running)'
         /\ (running /\ ~closing => init = "done")'
         /\ (closing <=> closer # "none")'
         /\ (closed => closer = "done" /\ init \in {"done", "failed"})'
         /\ (closer \notin {"none", "init"} => init \in {"done", "failed"})'
         /\ (init = "done" /\ ~closing => running)'
<1>1. CASE TaskNext \/ (\E j \in Jobs : Add(j)) \/ (\E l \in LoopIds : LoopStep(l)) \/ ReconnectNext
           \/ (\E l \in LoopIds : EndBackoff(l))
  <2>1. UNCHANGED <<init, running, closing, closed, closer>>
    BY <1>1, TaskFrame, LoopFrame, RecFrame DEF flagVars, callVars
  <2> QED BY <2>1 DEF Alone
<1>2. CASE InitNext
  <2>1. UNCHANGED <<closing, closed, closer>>
    BY <1>2, InitFrame DEF callVars
  <2> QED BY <1>2, <2>1 DEF Shape, Alone, InitNext, InitCommand, InitBlocking, InitPrepare, InitRegister, InitFails,
                            flagVars
<1>3. CASE CloseNext
  <2>1. UNCHANGED <<running, closing, init>>
    BY <1>3, CloseFrame
  <2> QED BY <1>3, <2>1 DEF Shape, Alone, CloseNext, CloseInit, CloseScheduler, CloseSettle, CloseBlocking,
                            CloseJobs, CloseDeregister, CloseEnd, NextStep
<1>4. CASE Calls
  <2>1. UNCHANGED <<init, closed>>
    BY <1>4, CallFrame
  <2>2. \/ UNCHANGED <<running, closing, closer>>
        \/ closer = "none" /\ closing' = TRUE /\ running' = FALSE /\ closer' = "init"
    BY <1>4 DEF Calls, PauseReturns, DrainAsks, DrainCloses, Resume, Drain, Pause, Close, CloseEffects, flagVars
  <2> QED BY <2>1, <2>2 DEF Shape, Alone
<1> QED BY <1>1, <1>2, <1>3, <1>4, NextCases

LEMMA AloneStep ==
  ASSUME Shape, Alone, [Next]_vars
  PROVE  Alone'
<1>0. CASE UNCHANGED vars
  BY <1>0 DEF Alone, Alive, vars
<1> DEFINE Loops == /\ \A l, k \in LoopIds : Alive(l) /\ Alive(k) => l = k
                    /\ \A l \in LoopIds : Alive(l) => init = "done" /\ (promise \/ closed)
                    /\ \A l \in LoopIds : loops[l] = "reconnect" => rec # "none"
                    /\ rec # "none" => /\ init = "done" /\ ~retry /\ (promise \/ closed)
                                       /\ \A l \in LoopIds : loops[l] \in {"none", "reconnect"}
                    /\ retry => init = "done" /\ (promise \/ closed) /\ \A l \in LoopIds : ~Alive(l)
<1>1. CASE Next
  <2>0. SUFFICES Loops'
    BY <1>1, FlagsStep DEF Alone
  <2>1. CASE TaskNext \/ \E j \in Jobs : Add(j)
    BY <2>1, TaskFrame DEF Alone, Alive, loopVars, flagVars, clientVars
  <2>2. ASSUME NEW l \in LoopIds, LoopStep(l) PROVE Loops'
    <3>1. PICK s \in LoopSteps : LoopGoes(l, s)
      BY <2>2, LoopMoves
    <3>2. UNCHANGED <<init, closing, closed, rec, retry, paused>>
      BY <2>2, LoopFrame DEF flagVars, clientVars
    <3>3. loops[l] \notin {"none", "reconnect", "backoff"}
      BY <2>2, LoopMoves
    <3>4. rec = "none" /\ ~retry /\ init = "done" /\ \A k \in LoopIds : k # l => loops[k] = "none"
      BY <3>3 DEF Alone, Alive
    <3>5. loops'[l] = s /\ \A k \in LoopIds : k # l => loops'[k] = "none"
      BY <3>1, <3>4 DEF LoopGoes, Shape
    <3>6. s # "none" => promise' = promise
      BY <3>1 DEF LoopGoes
    <3> QED BY <3>1, <3>2, <3>3, <3>4, <3>5, <3>6 DEF Alone, Alive, LoopGoes
  <2>3. ASSUME NEW l \in LoopIds, EndBackoff(l) PROVE Loops'
    <3>1. UNCHANGED <<init, closed, promise>> /\ loops[l] = "backoff"
      BY <2>3, RecFrame DEF flagVars, EndBackoff
    <3>2. rec = "none" /\ ~retry /\ init = "done" /\ \A k \in LoopIds : k # l => loops[k] = "none"
      BY <3>1 DEF Alone, Alive
    <3>3. retry' = retry /\ (rec' # "none" => loops'[l] = "reconnect") /\ loops'[l] \in {"none", "reconnect"}
      BY <2>3, <3>2 DEF EndBackoff, GoTo, Shape, clientVars
    <3>4. \A k \in LoopIds : k # l => loops'[k] = "none"
      BY <2>3, <3>2 DEF EndBackoff, GoTo, Shape
    <3>5. loops'[l] = "reconnect" => rec' # "none"
      BY <2>3 DEF EndBackoff, GoTo, Shape, BeginReconnect
    <3> QED BY <3>1, <3>2, <3>3, <3>4, <3>5 DEF Alone, Alive
  <2>4. CASE RetryFires
    <3>1. UNCHANGED <<init, closed, promise, loops>> /\ retry /\ ~retry'
      BY <2>4, RecFrame DEF flagVars, RetryFires, loopVars, ReconnectNext
    <3> QED BY <3>1 DEF Alone, Alive
  <2>5. CASE RecFails \/ RecCommand \/ RecLibrary \/ RecPing \/ RecBlocking \/ RecGroup
    <3>1. UNCHANGED <<init, closed, promise>> /\ rec # "none"
      BY <2>5, RecFrame DEF flagVars, RecFails, AttemptFails, RecCommand, RecLibrary, RecPing, RecBlocking, RecGroup,
                            Abort, loopVars, ReconnectNext
    <3>2. \/ rec' = "none" /\ loops' = Returned
          \/ rec' # "none" /\ loops' = loops /\ retry' = retry
      BY <2>5 DEF RecFails, AttemptFails, RecCommand, RecLibrary, RecPing, RecBlocking, RecGroup, Abort, loopVars
    <3> QED BY <3>1, <3>2, AllReturned DEF Alone, Alive
  <2>6. CASE RecRegister
    <3>1. UNCHANGED <<init, closed>> /\ rec # "none" /\ rec' = "none" /\ retry' = retry
      BY <2>6, RecFrame DEF flagVars, RecRegister, Abort, ReconnectNext
    <3>2. CASE loops' = Returned
      BY <2>6, <3>1, <3>2, AllReturned DEF Alone, Alive
    <3>3. CASE StartLoop(Returned, ~paused)
      <4>1. Returned \in [LoopIds -> LoopSteps] /\ (~paused) \in BOOLEAN
        BY DEF Shape, Returned, LoopSteps
      <4> QED BY <3>1, <3>3, <4>1, AllReturned, LoopStarts DEF Alone, Alive
    <3> QED BY <2>6, <3>2, <3>3 DEF RecRegister, Abort
  <2>7. CASE InitCommand \/ InitBlocking \/ InitPrepare
    <3>1. UNCHANGED <<loops, promise, closed, rec, retry>> /\ init \notin {"done", "failed"}
      BY <2>7 DEF InitCommand, InitBlocking, InitPrepare, loopVars, flagVars
    <3> QED BY <3>1 DEF Alone, Alive
  <2>8. CASE InitRegister
    <3>1. init = "register" /\ init' = "done" /\ UNCHANGED <<closed, rec, retry>>
      BY <2>8 DEF InitRegister
    <3>2. rec = "none" /\ ~retry /\ \A k \in LoopIds : loops[k] = "none"
      BY <3>1 DEF Alone, Alive
    <3>3. StartLoop(loops, ~paused /\ ~closing) /\ (~paused /\ ~closing) \in BOOLEAN /\ loops \in [LoopIds -> LoopSteps]
      BY <2>8 DEF InitRegister, Shape
    <3> QED BY <3>1, <3>2, <3>3, LoopStarts DEF Alive
  <2>9. CASE CloseNext
    <3>1. UNCHANGED <<loops, init, rec>> /\ (retry' = FALSE \/ retry' = retry)
      BY <2>9, CloseFrame DEF CloseNext, CloseInit, CloseScheduler, CloseSettle, CloseBlocking, CloseJobs,
                              CloseDeregister, CloseEnd
    <3>2. (promise \/ closed) => (promise' \/ closed')
      BY <2>9 DEF CloseNext, CloseInit, CloseScheduler, CloseSettle, CloseBlocking, CloseJobs, CloseDeregister, CloseEnd
    <3> QED BY <3>1, <3>2 DEF Alone, Alive
  <2>10. CASE Calls
    <3>1. UNCHANGED <<init, closed, rec, retry>>
      BY <2>10, CallFrame DEF clientVars
    <3>2. CASE UNCHANGED loopVars
      BY <3>1, <3>2 DEF Alone, Alive, loopVars
    <3>3. CASE ~closed /\ init = "done" /\ ~promise /\ StartLoop(loops, Active)
      <4>1. rec = "none" /\ ~retry /\ \A k \in LoopIds : loops[k] = "none"
        BY <3>3 DEF Alone, Alive
      <4>2. Active \in BOOLEAN /\ loops \in [LoopIds -> LoopSteps]
        BY DEF Active, Shape
      <4> QED BY <3>1, <3>3, <4>1, <4>2, LoopStarts DEF Alive
    <3> QED BY <2>10, <3>2, <3>3 DEF Calls, PauseReturns, DrainAsks, DrainCloses, Resume, Drain, Pause, Close, CloseEffects
  <2> QED BY <1>1, <2>1, <2>2, <2>3, <2>4, <2>5, <2>6, <2>7, <2>8, <2>9, <2>10, NextCases DEF ReconnectNext, InitNext
<1> QED BY <1>0, <1>1

-----------------------------------------------------------------------------
(* Never none: unless pause() lands where a loop is about to start, whoever  *)
(* ends a loop clears its promise or leaves an attempt or a timer behind.    *)

LEMMA WakesStep ==
  ASSUME Shape, Alone, Wakes, [Next]_vars, "start" \notin Races
  PROVE  Wakes'
<1>0. CASE UNCHANGED vars
  BY <1>0 DEF Wakes, Alive, Starting, vars
<1>1. CASE TaskNext \/ \E j \in Jobs : Add(j)
  BY <1>1, TaskFrame DEF Wakes, Alive, Starting, loopVars, flagVars, clientVars
<1>2. ASSUME NEW l \in LoopIds, LoopStep(l) PROVE Wakes'
  <2>1. PICK s \in LoopSteps : LoopGoes(l, s)
    BY <1>2, LoopMoves
  <2>2. UNCHANGED <<init, running, paused, closing, rec, retry, blk>>
    BY <1>2, LoopFrame DEF flagVars, clientVars
  <2>3. rec = "none" /\ ~retry /\ init = "done" /\ \A k \in LoopIds : k # l => loops[k] = "none"
    BY <1>2, LoopMoves DEF Alone, Alive
  <2>4. loops'[l] = s /\ \A k \in LoopIds : k # l => loops'[k] = "none"
    BY <2>1, <2>3 DEF LoopGoes, Shape
  <2>5. CASE s = "none"
    <3>1. promise' = PromiseAfter /\ ~Polls
      BY <2>1, <2>5 DEF LoopGoes
    <3>2. closing \/ paused
      BY <2>3, <3>1 DEF Polls, Alone
    <3>3. ~closing => promise' = FALSE
      BY <3>1, <3>2 DEF PromiseAfter, Shape
    <3> QED BY <2>2, <2>3, <2>4, <2>5, <3>2, <3>3 DEF Wakes, Starting, Alive
  <2>6. CASE s # "none"
    <3>1. promise' = promise /\ Alive(l)'
      BY <2>1, <2>4, <2>6 DEF LoopGoes, Alive
    <3>2. s = "backoff" => ~paused
      BY <2>1, <2>3 DEF LoopGoes, Wakes, Active
    <3> QED BY <2>2, <2>3, <2>4, <2>6, <3>1, <3>2 DEF Wakes, Starting, Alive
  <2> QED BY <2>5, <2>6
<1>3. ASSUME NEW l \in LoopIds, EndBackoff(l) PROVE Wakes'
  <2>1. UNCHANGED <<init, running, paused, closing, promise>> /\ loops[l] = "backoff"
    BY <1>3, RecFrame DEF flagVars, EndBackoff
  <2>2. ~paused /\ rec = "none" /\ init = "done"
    BY <2>1 DEF Wakes, Starting, Alone, Alive
  <2>3. CASE Active
    <3>1. rec' \in {"command", "ping"}
      BY <1>3, <2>3 DEF EndBackoff, BeginReconnect
    <3> QED BY <2>1, <2>2, <3>1 DEF Wakes
  <2>4. CASE ~Active
    <3>1. closing /\ rec' = rec
      BY <1>3, <2>2, <2>4 DEF EndBackoff, Active, Alone, clientVars
    <3> QED BY <2>1, <2>2, <3>1 DEF Wakes
  <2> QED BY <2>3, <2>4
<1>4. CASE RetryFires
  <2>1. UNCHANGED <<init, running, paused, closing, promise>> /\ retry
    BY <1>4, RecFrame DEF flagVars, RetryFires, ReconnectNext, loopVars
  <2>2. ~paused /\ rec = "none" /\ init = "done"
    BY <2>1 DEF Wakes, Starting, Alone
  <2>3. CASE Active
    <3>1. rec' \in {"command", "ping"}
      BY <1>4, <2>3 DEF RetryFires, BeginReconnect
    <3> QED BY <2>1, <2>2, <3>1 DEF Wakes
  <2>4. CASE ~Active
    <3>1. closing /\ rec' = rec
      BY <1>4, <2>2, <2>4 DEF RetryFires, Active, Alone
    <3> QED BY <2>1, <2>2, <3>1 DEF Wakes
  <2> QED BY <2>3, <2>4
<1>5. CASE RecFails \/ RecCommand \/ RecLibrary \/ RecPing \/ RecBlocking \/ RecGroup \/ RecRegister
  <2>1. UNCHANGED <<init, running, paused, closing>> /\ rec # "none"
    BY <1>5, RecFrame DEF flagVars, RecFails, RecCommand, RecLibrary, RecPing, RecBlocking, RecGroup, RecRegister,
                          ReconnectNext
  <2>2. ~paused /\ init = "done"
    BY <2>1 DEF Wakes, Starting, Alone
  <2>3. CASE closing
    <3>1. rec' = "none" \/ UNCHANGED <<rec, blk>>
      BY <1>5, <2>3 DEF RecFails, RecCommand, RecLibrary, RecPing, RecBlocking, RecGroup, RecRegister, Abort,
                        AttemptFails
    <3> QED BY <2>1, <2>2, <2>3, <3>1 DEF Wakes
  <2>4. CASE ~closing
    <3>1. Active
      BY <2>2, <2>4 DEF Alone, Active
    <3>2. \/ promise' = promise /\ (rec' # "none" \/ retry')
          \/ promise' = TRUE /\ rec = "register" /\ UNCHANGED <<blk, rec>>
          \/ promise' = TRUE /\ rec = "register" /\ blk' = blk /\ \E l \in LoopIds : Alive(l)'
      <4>1. CASE RecRegister
        <5>1. Returned \in [LoopIds -> LoopSteps] /\ StartLoop(Returned, TRUE) /\ blk' = blk
          BY <2>2, <2>4, <3>1, <4>1 DEF Shape, Returned, LoopSteps, RecRegister, Active, StartLoop
        <5> QED BY <2>1, <4>1, <5>1, AllReturned, LoopStarts DEF RecRegister
      <4> QED BY <1>5, <2>4, <3>1, <4>1 DEF RecFails, RecCommand, RecLibrary, RecPing, RecBlocking, RecGroup,
                                            AttemptFails, loopVars
    <3>3. rec' \in {"group", "register"} => blk'
      BY <1>5, <2>4 DEF RecFails, RecCommand, RecLibrary, RecPing, RecBlocking, RecGroup, RecRegister, AttemptFails,
                        Wakes
    <3>4. rec = "register" => blk
      BY <2>4 DEF Wakes
    <3> QED BY <2>1, <2>2, <3>2, <3>3, <3>4 DEF Wakes
  <2> QED BY <2>3, <2>4
<1>6. CASE InitCommand \/ InitBlocking \/ InitPrepare
  <2>1. UNCHANGED <<loops, promise, paused, closing, rec, retry>> /\ init \notin {"done", "failed"} /\ init' # "done"
    BY <1>6 DEF InitCommand, InitBlocking, InitPrepare, InitFails, loopVars, flagVars
  <2>2. init' \in {"prepare", "register"} => blk'
    BY <1>6 DEF InitCommand, InitBlocking, InitPrepare, InitFails, Wakes
  <2>3. rec = "none"
    BY <2>1 DEF Alone
  <2> QED BY <2>1, <2>2, <2>3 DEF Wakes, Starting
<1>7. CASE InitRegister
  <2>1. init = "register" /\ init' = "done" /\ UNCHANGED <<paused, closing, rec, retry, blk>>
    BY <1>7 DEF InitRegister
  <2>2. ~paused /\ blk /\ rec = "none" /\ ~retry /\ \A k \in LoopIds : loops[k] = "none"
    BY <2>1 DEF Wakes, Starting, Alone, Alive
  <2>3. StartLoop(loops, ~closing) /\ (~closing) \in BOOLEAN /\ loops \in [LoopIds -> LoopSteps]
    BY <1>7, <2>2 DEF InitRegister, Shape, StartLoop
  <2>4. promise' = TRUE /\ (~closing => \E l \in LoopIds : Alive(l)')
    BY <2>2, <2>3, LoopStarts
  <2> QED BY <2>1, <2>2, <2>4 DEF Wakes
<1>8. CASE CloseNext
  <2>1. UNCHANGED <<loops, init, rec, paused, closing>> /\ (retry' = FALSE \/ retry' = retry) /\ closer # "none"
    BY <1>8, CloseFrame DEF CloseNext, CloseInit, CloseScheduler, CloseSettle, CloseBlocking, CloseJobs,
                            CloseDeregister, CloseEnd, NextStep
  <2>2. closing /\ (init \notin {"done", "failed"} => blk' = blk)
    BY <1>8, <2>1 DEF Alone, CloseNext, CloseInit, CloseScheduler, CloseSettle, CloseBlocking, CloseJobs,
                      CloseDeregister, CloseEnd, NextStep
  <2> QED BY <2>1, <2>2 DEF Wakes, Starting
<1>9. CASE Calls
  <2>1. UNCHANGED <<init, rec, retry, blk, closed>>
    BY <1>9, CallFrame DEF clientVars
  <2>2. CASE PauseReturns \/ DrainAsks \/ Drain
    <3>1. UNCHANGED <<loopVars, flagVars>>
      BY <2>2 DEF PauseReturns, DrainAsks, Drain
    <3> QED BY <2>1, <3>1 DEF Wakes, Starting, Alive, loopVars, flagVars
  <2>3. CASE DrainCloses \/ \E force \in BOOLEAN : Close(force)
    <3>1. UNCHANGED loopVars /\ paused' = paused /\ (closing' = TRUE \/ closing' = closing)
      BY <2>3 DEF DrainCloses, Close, CloseEffects, flagVars
    <3> QED BY <2>1, <3>1 DEF Wakes, Starting, Alive, loopVars
  <2>4. ASSUME NEW force \in BOOLEAN, Pause(force) PROVE Wakes'
    <3>1. ~Starting /\ UNCHANGED <<loopVars, closing>> /\ paused' = TRUE
      BY <2>4 DEF Pause
    <3>2. Starting' = Starting
      BY <2>1, <3>1 DEF Starting, loopVars
    <3> QED BY <2>1, <3>1, <3>2 DEF Wakes, Alive, loopVars
  <2>5. CASE Resume
    <3>1. ~closed /\ init = "done" /\ paused /\ ~paused' /\ UNCHANGED <<running, closing>>
      BY <2>5 DEF Resume
    <3>2. CASE promise
      BY <2>1, <2>5, <3>1, <3>2 DEF Resume, Wakes, Starting, Alive, loopVars
    <3>3. CASE ~promise
      <4>1. rec = "none" /\ ~retry /\ \A k \in LoopIds : loops[k] = "none"
        BY <3>1, <3>3 DEF Alone, Alive
      <4>2. StartLoop(loops, Active) /\ Active \in BOOLEAN /\ loops \in [LoopIds -> LoopSteps]
        BY <2>5, <3>3 DEF Active, Shape, Resume
      <4>3. promise' = TRUE /\ (Active => \E l \in LoopIds : Alive(l)')
        BY <4>1, <4>2, LoopStarts
      <4>4. ~closing => Active
        BY <3>1 DEF Alone, Active
      <4> QED BY <2>1, <3>1, <4>3, <4>4 DEF Wakes
    <3> QED BY <3>2, <3>3
  <2> QED BY <1>9, <2>2, <2>3, <2>4, <2>5 DEF Calls
<1> QED BY <1>0, <1>1, <1>2, <1>3, <1>4, <1>5, <1>6, <1>7, <1>8, <1>9, NextCases DEF ReconnectNext, InitNext

LEMMA InitHolds ==
  ASSUME Init
  PROVE  Shape /\ Alone /\ Wakes
<1>1. Shape
  BY ProfilesAssumption DEF Init, Shape, TaskSteps, LoopSteps
<1>2. Alone
  BY DEF Init, Alone, Alive
<1>3. Wakes
  BY DEF Init, Wakes
<1> QED BY <1>1, <1>2, <1>3

(* Unless pause() lands while a loop is about to start, a worker has at most *)
(* one poll loop, and one that is neither paused nor closing has one, or a   *)
(* reconnect that will start it: whatever the order of pause(), resume(),    *)
(* close() and of the failures of its two connections.                       *)
THEOREM OneLoop ==
  ASSUME "start" \notin Races
  PROVE  Spec => []LoopAlive
<1>1. Init => Shape /\ Alone /\ Wakes
  BY InitHolds
<1>2. Shape /\ Alone /\ Wakes /\ [Next]_vars => (Shape /\ Alone /\ Wakes)'
  BY ShapeStep, AloneStep, WakesStep
<1>3. Shape /\ Alone /\ Wakes => LoopAlive
  <2> SUFFICES ASSUME Shape, Alone, Wakes PROVE LoopAlive
    OBVIOUS
  <2> DEFINE alive == {l \in LoopIds : loops[l] # "none"}
  <2>1. alive = {} \/ \E l \in LoopIds : alive = {l}
    BY DEF Alone, Alive
  <2>2. Cardinality(alive) <= 1
    <3> HIDE DEF alive
    <3>1. CASE alive = {}
      BY <3>1, FS_EmptySet
    <3>2. ASSUME NEW l \in LoopIds, alive = {l} PROVE Cardinality(alive) = 1
      BY <3>2, FS_Singleton
    <3> QED BY <2>1, <3>1, <3>2
  <2>3. init = "done" /\ running /\ ~paused /\ ~closing => alive # {} \/ retry \/ rec # "none"
    BY DEF Wakes, Alive
  <2> QED BY <2>2, <2>3 DEF LoopAlive
<1> QED BY <1>1, <1>2, <1>3, PTL DEF Spec

-----------------------------------------------------------------------------
(* What pause() waits for: every job that is processed, or will be, is one   *)
(* of those it saw, because no claim made since is processed.                *)

Waited(j) == task[j] \notin {"none", "back", "complete", "chain"} => j \in awaiting

Awaited ==
  /\ paused => \A l \in LoopIds : loops[l] # "activate"
  /\ pauser # "none" /\ paused /\ ~closing => \A j \in Jobs : Waited(j)
  /\ pauser = "returned" => awaiting = {}

LEMMA AwaitedStep ==
  ASSUME Shape, Alone, Awaited, [Next]_vars, "batch" \notin Races
  PROVE  Awaited'
<1>0. CASE UNCHANGED vars
  BY <1>0 DEF Awaited, Waited, vars
<1>1. CASE TaskNext \/ \E j \in Jobs : Add(j)
  <2>1. UNCHANGED <<loops, paused, closing, pauser>>
    BY <1>1, TaskFrame DEF loopVars, flagVars
  <2>2. awaiting = {} => awaiting' = {}
    BY <1>1 DEF TaskNext, Add, Activate, EndLimit, EndProcessor, EndAborted, Complete, Chain, HandBack, LoseClient,
                Settle, Continue, callVars
  <2>3. ASSUME paused, \A i \in Jobs : Waited(i), NEW j \in Jobs,
               \/ Activate(j) \/ EndLimit(j) \/ EndProcessor(j) \/ EndAborted(j) \/ Complete(j)
               \/ HandBack(j) \/ LoseClient(j) \/ Add(j),
               NEW i \in Jobs
        PROVE  Waited(i)'
    BY <2>3 DEF Shape, Activate, EndLimit, EndProcessor, EndAborted, Complete, HandBack, LoseClient, Add,
                Settle, Processing, callVars, Waited, Stopping
  <2>4. ASSUME paused, \A i \in Jobs : Waited(i), NEW j \in Jobs, Chain(j), NEW i \in Jobs
        PROVE  Waited(i)'
    BY <2>4 DEF Shape, Chain, Settle, Continue, Waited, Stopping, InList, InStream
  <2> QED BY <1>1, <2>1, <2>2, <2>3, <2>4 DEF Awaited, TaskNext
<1>2. ASSUME NEW l \in LoopIds, LoopStep(l) PROVE Awaited'
  <2>1. PICK s \in LoopSteps : LoopGoes(l, s)
    BY <1>2, LoopMoves
  <2>2. UNCHANGED <<paused, closing, pauser, awaiting>>
    BY <1>2, LoopFrame DEF flagVars, callVars
  <2>3. paused' => \A k \in LoopIds : loops'[k] # "activate"
    BY <2>1, <2>2 DEF LoopGoes, Awaited, Shape, Stopping
  <2>4. ASSUME paused, NEW j \in Jobs PROVE task'[j] \in {task[j], "back"}
    <3>1. ASSUME NEW D, Deliver(l, D) PROVE task'[j] \in {task[j], "back"}
      BY <2>4, <3>1 DEF Deliver, Start, Stopping
    <3>2. CASE PollTop(l) \/ SlotFree(l) \/ PollInline(l) \/ ReturnHeld(l)
      BY <3>2 DEF PollTop, SlotFree, PollInline, ReturnHeld, queueVars
    <3>3. CASE Pop(l)
      BY <3>1, <3>3 DEF Pop
    <3>4. CASE Read(l)
      BY <3>1, <3>4 DEF Read
    <3>5. ~ActivateBatch(l)
      BY <2>4 DEF Awaited, ActivateBatch
    <3> QED BY <1>2, <3>2, <3>3, <3>4, <3>5 DEF LoopStep
  <2> QED BY <2>2, <2>3, <2>4 DEF Awaited, Waited
<1>3. CASE ReconnectNext \/ \E l \in LoopIds : EndBackoff(l)
  <2>1. UNCHANGED <<paused, closing, pauser, awaiting, task>>
    BY <1>3, RecFrame DEF flagVars, callVars, queueVars
  <2>2. ASSUME NEW l \in LoopIds, EndBackoff(l) PROVE \A k \in LoopIds : loops'[k] = "activate" => loops[k] = "activate"
    BY <2>2 DEF EndBackoff, GoTo, Shape
  <2>3. ASSUME ReconnectNext, ~RecRegister
        PROVE  loops' = loops \/ loops' = Returned
    BY <2>3 DEF ReconnectNext, RetryFires, RecFails, AttemptFails, RecCommand, RecLibrary, RecPing, RecBlocking,
                RecGroup, Abort, loopVars
  <2>4. ASSUME RecRegister PROVE \A k \in LoopIds : loops'[k] # "activate"
    <3>1. Returned \in [LoopIds -> LoopSteps] /\ (~paused) \in BOOLEAN
      BY DEF Shape, Returned, LoopSteps
    <3>2. \A k \in LoopIds : Returned[k] = "none"
      BY <2>4, AllReturned DEF RecRegister
    <3>3. loops' = Returned \/ StartLoop(Returned, ~paused)
      BY <2>4 DEF RecRegister, Abort
    <3> QED BY <3>1, <3>2, <3>3, LoopStarts
  <2>5. \A k \in LoopIds : Returned[k] = "activate" => loops[k] = "activate"
    BY DEF Returned
  <2>6. \A k \in LoopIds : loops'[k] = "activate" => loops[k] = "activate"
    BY <1>3, <2>2, <2>3, <2>4, <2>5
  <2> QED BY <2>1, <2>6 DEF Awaited, Waited
<1>4. CASE InitNext
  <2>1. UNCHANGED <<paused, closing, pauser, awaiting, task>>
    BY <1>4, InitFrame DEF callVars, queueVars
  <2>2. \A k \in LoopIds : loops'[k] = "activate" => loops[k] = "activate"
    BY <1>4 DEF InitNext, InitCommand, InitBlocking, InitPrepare, InitRegister, StartLoop, loopVars, Shape
  <2> QED BY <2>1, <2>2 DEF Awaited, Waited
<1>5. CASE CloseNext
  BY <1>5, CloseFrame DEF Awaited, Waited, queueVars
<1>6. CASE PauseReturns \/ DrainAsks \/ Drain
  BY <1>6 DEF PauseReturns, DrainAsks, Drain, CallUnchanged, loopVars, flagVars, queueVars, Awaited, Waited
<1>7. ASSUME NEW force \in BOOLEAN, Pause(force) PROVE Awaited'
  <2>1. UNCHANGED <<loops, task, closing>> /\ paused' = TRUE /\ \A l \in LoopIds : loops[l] # "activate"
    BY <1>7 DEF Pause, CallUnchanged, loopVars, queueVars
  <2>2. pauser' = "none" \/ (pauser' = "waits" /\ awaiting' = Busy)
    BY <1>7 DEF Pause
  <2> QED BY <2>1, <2>2 DEF Awaited, Waited, Busy
<1>8. CASE Resume
  <2>1. ~paused' /\ pauser' = "none"
    BY <1>8 DEF Resume
  <2> QED BY <2>1 DEF Awaited
<1>9. ASSUME NEW force \in BOOLEAN, CloseEffects(force) PROVE Awaited'
  <2>1. closing' = TRUE
    BY <1>9 DEF CloseEffects, Alone, Shape
  <2>2. UNCHANGED <<loops, paused, pauser, awaiting>>
    BY <1>9 DEF CloseEffects, loopVars
  <2> QED BY <2>1, <2>2 DEF Awaited
<1>10. CASE DrainCloses \/ \E force \in BOOLEAN : Close(force)
  <2>1. CASE \E force \in BOOLEAN : CloseEffects(force)
    BY <1>9, <2>1
  <2>2. CASE UNCHANGED <<loopVars, flagVars, pauser, awaiting, queueVars>>
    BY <2>2 DEF Awaited, Waited, loopVars, flagVars, queueVars
  <2> QED BY <1>10, <2>1, <2>2 DEF DrainCloses, Close, CallUnchanged
<1> QED BY <1>0, <1>1, <1>2, <1>3, <1>4, <1>5, <1>6, <1>7, <1>8, <1>10, NextCases DEF Calls

(* Unless pause() lands while a batch is being activated, nothing is         *)
(* processed between the return of pause() and resume(), what was read,      *)
(* popped, chained or held back by the limiter before included: every claim  *)
(* that arrives later goes back.                                             *)
THEOREM NothingWhilePaused ==
  ASSUME "batch" \notin Races
  PROVE  Spec => []PauseHolds
<1>1. Init => Shape /\ Alone /\ Awaited
  BY InitHolds DEF Init, Awaited
<1>2. Shape /\ Alone /\ Awaited /\ [Next]_vars => (Shape /\ Alone /\ Awaited)'
  BY ShapeStep, AloneStep, AwaitedStep
<1>3. Awaited => PauseHolds
  BY DEF Awaited, Waited, PauseHolds
<1> QED BY <1>1, <1>2, <1>3, PTL DEF Spec

-----------------------------------------------------------------------------
(* What close() leaves. Every open connection is one of the three the worker *)
(* knows of, each step of close() stops something that nothing starts again, *)
(* and a claim is in the hands of a promise or of the batch.                 *)

One(b) == IF b THEN 1 ELSE 0

(* The connections: a new command client is pending until its library is loaded. *)
Counted ==
  /\ open = One(cmd /\ ~conf.shared) + One(blk) + One(pend)
  /\ pend <=> rec = "library"
  /\ rec \in {"command", "library"} => ~cmd /\ ~conf.shared
  /\ rec \in {"command", "library", "ping", "blocking"} => ~blk
  /\ init = "command" => ~cmd
  /\ init \in {"command", "blocking"} => ~blk

(* What close() has stopped at each of its steps. *)
Stopped ==
  /\ closer \notin {"none", "init"} => ~retry
  /\ closer \notin {"none", "init", "scheduler"} => ~sched
  /\ closer \notin {"none", "init", "scheduler", "settle", "blocking"} => ~blk
  /\ closer \in {"end", "done"} => ~beat
  /\ closed <=> closer = "done"
  /\ closed => ~cmd

(* While a loop polls there is a command client. *)
Commanded ==
  /\ init \in {"blocking", "prepare", "register"} => cmd
  /\ init = "done" /\ ~cmd /\ ~closed => ~conf.shared /\ \A l \in LoopIds : loops[l] \in {"none", "reconnect"}
  /\ init = "done" /\ ~cmd /\ ~closing => rec \in {"command", "library"} \/ retry
  /\ forceClosing => closing

Claimed(j) == where[j] \in {"hand", "active"}

(* Who has the claims, and what a graceful close has waited for. *)
Found ==
  /\ \A j \in Jobs : task[j] # "none" => j \notin held /\ Claimed(j)
  /\ \A j \in held : where[j] = "hand"
  /\ held # {} => \E l \in LoopIds : loops[l] \in {"activate", "return"}
  /\ closeForce => forceClosing
  /\ ~cmd /\ ~forceClosing => Busy = {} /\ held = {}
  /\ closer \in {"blocking", "jobs", "deregister", "end", "done"} /\ ~forceClosing =>
       \A l \in LoopIds : loops[l] \in {"none", "top", "inline", "reconnect"}
  /\ closer \in {"deregister", "end", "done"} /\ ~forceClosing => Busy = {}
  /\ ~forceClosing => \A j \in Jobs : (Claimed(j) => task[j] # "none" \/ j \in held) /\ task[j] # "aborted"

LEMMA CountedStep ==
  ASSUME Shape, Alone, Counted, Stopped, [Next]_vars, "library" \notin Races
  PROVE  Counted'
<1>0. CASE UNCHANGED vars
  BY <1>0 DEF Counted, vars
<1>1. CASE TaskNext \/ (\E j \in Jobs : Add(j)) \/ (\E l \in LoopIds : LoopStep(l)) \/ Calls
  <2>1. UNCHANGED <<conf, init, rec, cmd, blk, pend, open>>
    BY <1>1, TaskFrame, LoopFrame, CallFrame DEF clientVars
  <2> QED BY <2>1 DEF Counted
<1>2. ASSUME rec = "none", init = "done", conf' = conf, init' = init,
             BeginReconnect \/ UNCHANGED <<rec, cmd, blk, pend, open>>
      PROVE  Counted'
  <2>1. CASE BeginReconnect
    <3>1. ~pend /\ pend' = pend
      BY <1>2, <2>1 DEF BeginReconnect, Counted
    <3>2. CASE Renew
      BY <1>2, <2>1, <3>1, <3>2 DEF BeginReconnect, Counted, One, Shape, Renew
    <3>3. CASE ~Renew
      BY <1>2, <2>1, <3>1, <3>3 DEF BeginReconnect, Counted, One, Shape
    <3> QED BY <3>2, <3>3
  <2>2. CASE UNCHANGED <<rec, cmd, blk, pend, open>>
    BY <1>2, <2>2 DEF Counted
  <2> QED BY <1>2, <2>1, <2>2
<1>3. CASE RetryFires \/ \E l \in LoopIds : EndBackoff(l)
  <2>1. conf' = conf /\ init' = init
    BY <1>3, RecFrame DEF ReconnectNext
  <2>2. rec = "none" /\ init = "done"
    BY <1>3 DEF RetryFires, EndBackoff, Alone, Alive
  <2>3. BeginReconnect \/ UNCHANGED <<rec, cmd, blk, pend, open>>
    BY <1>3 DEF RetryFires, EndBackoff, clientVars
  <2> QED BY <1>2, <2>1, <2>2, <2>3
<1>4. CASE RecFails \/ RecCommand \/ RecLibrary \/ RecPing \/ RecBlocking \/ RecGroup \/ RecRegister
  <2>1. conf' = conf /\ init' = init /\ init = "done"
    BY <1>4, RecFrame DEF ReconnectNext, Alone, RecFails, RecCommand, RecLibrary, RecPing, RecBlocking, RecGroup,
                          RecRegister
  <2>2. CASE RecFails
    BY <2>1, <2>2 DEF RecFails, AttemptFails, Counted, One
  <2>3. CASE RecCommand
    BY <2>1, <2>3 DEF RecCommand, Counted, One
  <2>4. CASE RecLibrary
    BY <2>1, <2>4 DEF RecLibrary, Abort, Counted, One
  <2>5. CASE RecPing \/ RecGroup \/ RecRegister
    BY <2>1, <2>5 DEF RecPing, RecGroup, RecRegister, Abort, Counted, One
  <2>6. CASE RecBlocking
    BY <2>1, <2>6 DEF RecBlocking, Counted, One
  <2> QED BY <1>4, <2>2, <2>3, <2>4, <2>5, <2>6
<1>5. CASE InitNext
  <2>1. UNCHANGED <<conf, rec, pend>> /\ rec = "none"
    BY <1>5, InitFrame DEF Alone, InitNext, InitCommand, InitBlocking, InitPrepare, InitRegister
  <2>2. CASE InitCommand
    BY <2>1, <2>2 DEF InitCommand, InitFails, Counted, One
  <2>3. CASE InitBlocking
    BY <2>1, <2>3 DEF InitBlocking, InitFails, Counted, One
  <2>4. CASE InitPrepare \/ InitRegister
    BY <2>1, <2>4 DEF InitPrepare, InitRegister, InitFails, Counted, One
  <2> QED BY <1>5, <2>2, <2>3, <2>4 DEF InitNext
<1>6. CASE CloseNext
  <2>1. UNCHANGED <<conf, init, rec, pend>>
    BY <1>6, CloseFrame
  <2>2. CASE CloseInit \/ CloseScheduler \/ CloseSettle \/ CloseJobs \/ CloseDeregister
    BY <2>1, <2>2 DEF CloseInit, CloseScheduler, CloseSettle, CloseJobs, CloseDeregister, Counted
  <2>3. CASE CloseBlocking
    BY <2>1, <2>3 DEF CloseBlocking, Counted, One, Shape
  <2>4. CASE CloseEnd
    BY <2>1, <2>4 DEF CloseEnd, ClosesCommand, Counted, One, Shape
  <2> QED BY <1>6, <2>2, <2>3, <2>4 DEF CloseNext
<1> QED BY <1>0, <1>1, <1>3, <1>4, <1>5, <1>6, NextCases DEF ReconnectNext

LEMMA StoppedStep ==
  ASSUME Shape, Alone, Counted, Stopped, [Next]_vars
  PROVE  Stopped'
<1>0. CASE UNCHANGED vars
  BY <1>0 DEF Stopped, vars
<1>1. CASE TaskNext \/ (\E j \in Jobs : Add(j)) \/ (\E l \in LoopIds : LoopStep(l))
  <2>1. UNCHANGED <<closer, closed, retry, sched, blk, beat, cmd>>
    BY <1>1, TaskFrame, LoopFrame DEF clientVars, flagVars, callVars
  <2> QED BY <2>1 DEF Stopped
<1>2. CASE ReconnectNext \/ \E l \in LoopIds : EndBackoff(l)
  <2>1. UNCHANGED <<closer, closed, closing>>
    BY <1>2, RecFrame DEF flagVars, callVars
  <2>2. CASE closing
    <3>1. /\ retry' = FALSE \/ retry' = retry
          /\ UNCHANGED <<sched, beat, cmd>>
          /\ blk' = FALSE \/ blk' = blk
      BY <1>2, <2>2 DEF ReconnectNext, RetryFires, EndBackoff, RecFails, AttemptFails, RecCommand, RecLibrary, RecPing,
                        RecBlocking, RecGroup, RecRegister, Abort, Active, clientVars, Shape
    <3> QED BY <2>1, <3>1 DEF Stopped
  <2>3. CASE ~closing
    BY <2>1, <2>3 DEF Stopped, Alone
  <2> QED BY <2>2, <2>3
<1>3. CASE InitNext
  <2>1. UNCHANGED <<closer, closed, retry>>
    BY <1>3, InitFrame DEF callVars
  <2>2. closer \in {"none", "init"} /\ ~closed
    BY <1>3 DEF Alone, InitNext, InitCommand, InitBlocking, InitPrepare, InitRegister
  <2> QED BY <2>1, <2>2 DEF Stopped
<1>4. CASE CloseNext
  BY <1>4 DEF Stopped, CloseNext, CloseInit, CloseScheduler, CloseSettle, CloseBlocking, CloseJobs,
              CloseDeregister, CloseEnd, NextStep, Shape
<1>5. CASE Calls
  <2>1. UNCHANGED <<closed, clientVars>>
    BY <1>5, CallFrame
  <2>2. closer' = closer \/ (closer = "none" /\ closer' = "init")
    BY <1>5 DEF Calls, PauseReturns, DrainAsks, DrainCloses, Resume, Drain, Pause, Close, CloseEffects
  <2> QED BY <2>1, <2>2 DEF Stopped, clientVars
<1> QED BY <1>0, <1>1, <1>2, <1>3, <1>4, <1>5, NextCases

(* A batch is held by a loop that activates it or gives it back. *)
LEMMA NothingHeld ==
  ASSUME Shape, Alone, Found, NEW l \in LoopIds, Alive(l), loops[l] \notin {"activate", "return"}
  PROVE  held = {}
BY DEF Alone, Alive, Found

LEMMA NothingHeldByNone ==
  ASSUME Found, \A l \in LoopIds : loops[l] \in {"none", "reconnect"}
  PROVE  held = {}
BY DEF Found

LEMMA CommandedStep ==
  ASSUME Shape, Alone, Counted, Stopped, Commanded, Found, [Next]_vars
  PROVE  Commanded'
<1>0. CASE UNCHANGED vars
  BY <1>0 DEF Commanded, vars
<1>1. CASE TaskNext \/ (\E j \in Jobs : Add(j))
  BY <1>1, TaskFrame DEF Commanded, clientVars, flagVars, loopVars
<1>2. ASSUME NEW l \in LoopIds, LoopStep(l) PROVE Commanded'
  <2>1. UNCHANGED <<conf, init, flagVars, clientVars>>
    BY <1>2, LoopFrame
  <2>2. init = "done" /\ loops[l] \notin {"none", "reconnect", "backoff"}
    BY <1>2, LoopMoves DEF Alone, Alive
  <2>3. cmd \/ closed
    BY <2>2 DEF Commanded
  <2> QED BY <2>1, <2>2, <2>3 DEF Commanded, flagVars, clientVars
<1>3. ASSUME rec = "none", init = "done", Active, BeginReconnect, ~cmd => retry, UNCHANGED <<conf, init, flagVars>>,
             \A l \in LoopIds : loops'[l] \in {"none", "reconnect"}
      PROVE  Commanded'
  <2>1. ~cmd => Renew
    BY <1>3 DEF Commanded, Found, Renew, Active, Alone, Stopped
  <2>2. ~cmd' => rec' = "command" /\ ~conf.shared
    BY <1>3, <2>1 DEF BeginReconnect, Renew
  <2> QED BY <1>3, <2>2 DEF Commanded, flagVars
<1>4. ASSUME NEW l \in LoopIds, EndBackoff(l) PROVE Commanded'
  <2>1. UNCHANGED <<conf, init, flagVars>> /\ loops[l] = "backoff"
    BY <1>4, RecFrame DEF EndBackoff
  <2>2. rec = "none" /\ ~retry /\ init = "done" /\ \A k \in LoopIds : k # l => loops[k] = "none"
    BY <2>1 DEF Alone, Alive
  <2>3. loops'[l] \in {"none", "reconnect"} /\ \A k \in LoopIds : k # l => loops'[k] = "none"
    BY <1>4, <2>2 DEF EndBackoff, GoTo, Shape
  <2>4. CASE Active
    <3>1. cmd
      BY <2>1, <2>2, <2>4 DEF Commanded, Active
    <3> QED BY <1>3, <1>4, <2>1, <2>2, <2>3, <2>4, <3>1 DEF EndBackoff
  <2>5. CASE ~Active
    BY <1>4, <2>1, <2>2, <2>3, <2>5 DEF EndBackoff, Commanded, clientVars, flagVars
  <2> QED BY <2>4, <2>5
<1>5. CASE RetryFires
  <2>1. UNCHANGED <<conf, init, flagVars, loops>> /\ retry
    BY <1>5, RecFrame DEF RetryFires, ReconnectNext, loopVars
  <2>2. rec = "none" /\ init = "done" /\ \A k \in LoopIds : loops[k] = "none"
    BY <2>1 DEF Alone, Alive
  <2>3. CASE Active
    BY <1>3, <1>5, <2>1, <2>2, <2>3 DEF RetryFires
  <2>4. CASE ~Active
    BY <1>5, <2>1, <2>2, <2>4 DEF RetryFires, Commanded, Active, Alone, flagVars
  <2> QED BY <2>3, <2>4
<1>6. CASE RecFails \/ RecCommand \/ RecLibrary \/ RecPing \/ RecBlocking \/ RecGroup \/ RecRegister
  <2>1. UNCHANGED <<conf, init, flagVars>> /\ rec # "none"
    BY <1>6, RecFrame DEF RecFails, RecCommand, RecLibrary, RecPing, RecBlocking, RecGroup, RecRegister,
                          ReconnectNext
  <2>2. init = "done" /\ ~retry /\ \A l \in LoopIds : loops[l] \in {"none", "reconnect"}
    BY <2>1 DEF Alone
  <2>3. \A l \in LoopIds : Returned[l] = "none"
    BY <2>1, AllReturned
  <2>4. cmd' = cmd \/ cmd' = TRUE
    BY <1>6 DEF RecFails, AttemptFails, RecCommand, RecLibrary, RecPing, RecBlocking, RecGroup, RecRegister, Abort
  <2>5. ~closing => cmd' \/ rec' \in {"command", "library"} \/ retry'
    BY <1>6, <2>1, <2>2, <2>4
    DEF RecFails, AttemptFails, RecCommand, RecLibrary, RecPing, RecBlocking, RecGroup, RecRegister, Commanded, Active,
        Alone
  <2>6. CASE loops' = loops \/ loops' = Returned
    BY <2>1, <2>2, <2>3, <2>4, <2>5, <2>6 DEF Commanded, flagVars
  <2>7. CASE RecRegister /\ ~closing
    <3>1. cmd' = TRUE
      BY <2>2, <2>7 DEF RecRegister, Commanded, Shape
    <3> QED BY <2>1, <2>2, <3>1 DEF Commanded, flagVars
  <2> QED BY <1>6, <2>6, <2>7 DEF RecFails, AttemptFails, RecCommand, RecLibrary, RecPing, RecBlocking, RecGroup,
                                  RecRegister, Abort, loopVars
<1>7. CASE InitNext
  <2>1. UNCHANGED <<closing, forceClosing>>
    BY <1>7, InitFrame
  <2>2. init' \in {"blocking", "prepare", "register", "done"} => cmd'
    BY <1>7 DEF InitNext, InitCommand, InitBlocking, InitPrepare, InitRegister, InitFails, Commanded
  <2> QED BY <2>1, <2>2 DEF Commanded
<1>8. CASE CloseNext
  <2>1. UNCHANGED <<conf, loops, init, closing, forceClosing, rec>> /\ closer # "none" /\ closing
    BY <1>8, CloseFrame DEF Alone, CloseNext, CloseInit, CloseScheduler, CloseSettle, CloseBlocking,
                            CloseJobs, CloseDeregister, CloseEnd, NextStep
  <2>2. \/ UNCHANGED <<cmd, closed>>
        \/ closed' = TRUE /\ init \in {"done", "failed"}
    BY <1>8 DEF Alone, CloseNext, CloseInit, CloseScheduler, CloseSettle, CloseBlocking, CloseJobs,
                CloseDeregister, CloseEnd, NextStep
  <2> QED BY <2>1, <2>2 DEF Commanded
<1>9. CASE Calls
  <2>1. UNCHANGED <<conf, init, closed, rec, retry, cmd>>
    BY <1>9, CallFrame DEF clientVars
  <2>2. CASE UNCHANGED <<loopVars, flagVars>>
    BY <2>1, <2>2 DEF Commanded, loopVars, flagVars
  <2>3. ASSUME NEW force \in BOOLEAN, Pause(force) PROVE Commanded'
    BY <2>1, <2>3 DEF Pause, Commanded, loopVars
  <2>4. ASSUME NEW force \in BOOLEAN, CloseEffects(force) PROVE Commanded'
    <3>1. closing' = TRUE /\ loops' = loops
      BY <2>4 DEF CloseEffects, Alone, Shape, loopVars
    <3> QED BY <2>1, <3>1 DEF Commanded
  <2>5. CASE Resume
    <3>1. ~closed /\ init = "done" /\ UNCHANGED <<closing, forceClosing>>
      BY <2>5 DEF Resume
    <3>2. CASE promise
      BY <2>1, <2>5, <3>1, <3>2 DEF Resume, Commanded, loopVars
    <3>3. CASE ~promise
      <4>1. rec = "none" /\ ~retry /\ \A k \in LoopIds : loops[k] = "none"
        BY <3>1, <3>3 DEF Alone, Alive
      <4>2. Active => cmd
        BY <3>1, <4>1 DEF Active, Commanded
      <4>3. ~Active => \A k \in LoopIds : loops'[k] = "none"
        BY <2>5, <3>3, <4>1 DEF Resume, StartLoop, Shape
      <4> QED BY <2>1, <3>1, <4>2, <4>3 DEF Commanded
    <3> QED BY <3>2, <3>3
  <2> QED BY <1>9, <2>2, <2>3, <2>4, <2>5 DEF Calls, PauseReturns, DrainAsks, DrainCloses, Drain, Close
<1> QED BY <1>0, <1>1, <1>2, <1>4, <1>5, <1>6, <1>7, <1>8, <1>9, NextCases DEF ReconnectNext

(* A promise goes on, ends, or takes the next job. *)
LEMMA FoundInTasks ==
  ASSUME Shape, Alone, Counted, Stopped, Commanded, Found, TaskNext \/ \E j \in Jobs : Add(j)
  PROVE  Found'
<1>1. UNCHANGED <<held, loops, cmd, closer, forceClosing, closeForce>> /\ held \subseteq Jobs
  BY TaskFrame DEF Shape, loopVars, clientVars, flagVars
<1>2. ASSUME NEW j \in Jobs, task[j] # "none", task'[j] # "none",
             \A i \in Jobs : i # j => task'[i] = task[i] /\ where'[i] = where[i],
             Claimed(j)', task'[j] = "aborted" => forceClosing
      PROVE  Found'
  BY <1>1, <1>2 DEF Found, Claimed, Busy
<1>3. ASSUME NEW j \in Jobs, task[j] # "none", task'[j] = "none",
             \A i \in Jobs : i # j => task'[i] = task[i] /\ where'[i] = where[i],
             Claimed(j)' => forceClosing
      PROVE  Found'
  BY <1>1, <1>3 DEF Found, Claimed, Busy
<1>4. ASSUME NEW j \in Jobs, \/ Activate(j) \/ EndLimit(j) \/ EndProcessor(j) \/ EndAborted(j)
                             \/ Complete(j) \/ HandBack(j) \/ LoseClient(j)
      PROVE  Found'
  <2>1. task[j] # "none" /\ Claimed(j) /\ \A i \in Jobs : i # j => task'[i] = task[i] /\ where'[i] = where[i]
    BY <1>4 DEF Shape, Found, Activate, EndLimit, EndProcessor, EndAborted, Complete, HandBack, LoseClient
  <2>2. CASE Activate(j)
    <3>1. \/ where'[j] = "active" /\ task'[j] = Processing
          \/ where'[j] = "done" /\ task'[j] = "none"
      BY <2>2 DEF Shape, Activate
    <3> QED BY <1>2, <1>3, <2>1, <3>1 DEF Processing, Claimed
  <2>3. CASE EndLimit(j) \/ EndProcessor(j)
    <3>1. where'[j] = where[j] /\ task'[j] \notin {"none", "aborted"}
      BY <2>3 DEF Shape, EndLimit, EndProcessor
    <3> QED BY <1>2, <2>1, <3>1 DEF Claimed
  <2>4. CASE EndAborted(j)
    <3>1. task'[j] = "none" /\ task[j] = "aborted"
      BY <2>4 DEF Shape, EndAborted
    <3> QED BY <1>3, <2>1, <3>1 DEF Found
  <2>5. CASE Complete(j) \/ HandBack(j)
    <3>1. task'[j] = "none" /\ where'[j] \in {"done", "list", "stream"}
      BY <2>5 DEF Shape, Complete, HandBack, Place
    <3> QED BY <1>3, <2>1, <3>1 DEF Claimed
  <2>6. CASE LoseClient(j)
    <3>1. task'[j] = "none" /\ task[j] # "none" /\ ~cmd
      BY <2>6 DEF Shape, LoseClient
    <3>2. forceClosing
      BY <3>1 DEF Found, Busy
    <3> QED BY <1>3, <2>1, <3>1, <3>2
  <2> QED BY <1>4, <2>2, <2>3, <2>4, <2>5, <2>6
<1>5. ASSUME NEW j \in Jobs, Chain(j) PROVE Found'
  <2>1. task[j] = "chain" /\ cmd
    BY <1>5 DEF Chain
  <2>2. CASE InList \union InStream = {}
    <3>1. /\ task'[j] = "none" /\ where'[j] = "done"
          /\ \A i \in Jobs : i # j => task'[i] = task[i] /\ where'[i] = where[i]
      BY <1>5, <2>2 DEF Chain, Shape
    <3> QED BY <1>3, <2>1, <3>1 DEF Claimed
  <2>3. CASE InList \union InStream # {}
    <3>1. PICK k \in InList \union InStream :
            /\ where' = [where EXCEPT ![j] = "done", ![k] = "active"]
            /\ task' = [task EXCEPT ![j] = "none", ![k] = IF Stopping THEN "back" ELSE Processing]
      BY <1>5, <2>3 DEF Chain
    <3>2. k \in Jobs /\ k # j /\ task[k] = "none" /\ k \notin held
      BY <2>1 DEF Found, Claimed, InList, InStream
    <3>3. /\ where'[j] = "done" /\ where'[k] = "active" /\ task'[j] = "none"
          /\ task'[k] \in {"back", "limit", "run"}
          /\ \A i \in Jobs : i \notin {j, k} => task'[i] = task[i] /\ where'[i] = where[i]
      BY <3>1, <3>2 DEF Shape, Processing
    <3>4. j \notin held /\ (closer \in {"deregister", "end", "done"} => forceClosing)
      BY <2>1 DEF Found, Busy
    <3> QED BY <1>1, <2>1, <3>2, <3>3, <3>4 DEF Found, Claimed
  <2> QED BY <2>2, <2>3
<1>6. ASSUME NEW j \in Jobs, Add(j) PROVE Found'
  <2>1. /\ where[j] = "new" /\ where'[j] \in {"list", "stream"} /\ task' = task
        /\ \A i \in Jobs : i # j => where'[i] = where[i]
    BY <1>6 DEF Add, Shape, Place
  <2>2. j \notin held /\ task[j] = "none"
    BY <2>1 DEF Found, Claimed
  <2> QED BY <1>1, <2>1, <2>2 DEF Found, Claimed, Busy
<1> QED BY <1>4, <1>5, <1>6 DEF TaskNext

(* A poll takes jobs that nobody has, and a batch that was collected is activated or goes back. *)
LEMMA FoundInLoops ==
  ASSUME Shape, Alone, Counted, Stopped, Commanded, Found, NEW l \in LoopIds, LoopStep(l)
  PROVE  Found'
<1>1. UNCHANGED <<conf, cmd, closing, closer, forceClosing, closeForce>>
  BY LoopFrame DEF clientVars, flagVars, callVars
<1>2. loops[l] \notin {"none", "reconnect", "backoff"} /\ init = "done" /\ \A k \in LoopIds : k # l => loops[k] = "none"
  BY LoopMoves DEF Alone, Alive
<1>3. \/ forceClosing
      \/ closer \notin {"blocking", "jobs", "deregister", "end", "done"}
      \/ loops[l] \in {"top", "inline"}
  BY <1>2 DEF Found
<1>4. ASSUME NEW s, loops' = [loops EXCEPT ![l] = s]
      PROVE  loops'[l] = s /\ \A k \in LoopIds : k # l => loops'[k] = "none"
  BY <1>2, <1>4 DEF Shape
<1>5. ASSUME NEW s, GoTo(l, s), UNCHANGED <<where, task, held>>, held = {},
             \/ s \in {"none", "top", "inline"} \/ ~closing
             \/ loops[l] \notin {"top", "inline"}
      PROVE  Found'
  <2>1. loops'[l] = s /\ \A k \in LoopIds : k # l => loops'[k] = "none"
    BY <1>4, <1>5 DEF GoTo
  <2>2. closer \in {"blocking", "jobs", "deregister", "end", "done"} /\ ~forceClosing => s \in {"none", "top", "inline"}
    BY <1>3, <1>5 DEF Alone
  <2> QED BY <1>1, <1>5, <2>1, <2>2 DEF Found, Claimed, Busy
<1>6. ASSUME NEW D \in SUBSET (InList \union InStream), Deliver(l, D), loops[l] \in {"pop", "post", "read"}, cmd
      PROVE  Found'
  <2>1. held = {}
    BY <1>2, <1>6, NothingHeld DEF Alive
  <2>2. \A j \in D : j \in Jobs /\ task[j] = "none"
    BY <1>6 DEF InList, InStream, Found, Claimed
  <2>3. closer \in {"blocking", "jobs", "deregister", "end", "done"} => forceClosing
    BY <1>3, <1>6
  <2>4. where' = [j \in Jobs |-> IF j \in D THEN "hand" ELSE where[j]]
    BY <1>6 DEF Deliver
  <2>5. CASE conf.batch
    <3>1. held' = D /\ GoTo(l, IF Stopping THEN "return" ELSE "activate") /\ task' = task
      BY <1>6, <2>5 DEF Deliver
    <3>2. loops'[l] \in {"return", "activate"}
      BY <1>4, <3>1 DEF GoTo
    <3> QED BY <1>1, <1>6, <2>1, <2>2, <2>3, <2>4, <3>1, <3>2 DEF Found, Claimed, Busy
  <2>6. CASE ~conf.batch
    <3>1. task' = Start(D) /\ held' = held
      BY <1>6, <2>6 DEF Deliver
    <3>2. \A j \in Jobs : /\ j \in D => task'[j] \in {"back", "activate"}
                          /\ j \notin D => task'[j] = task[j]
      BY <3>1 DEF Start
    <3> QED BY <1>1, <1>6, <2>1, <2>2, <2>3, <2>4, <3>1, <3>2 DEF Found, Claimed, Busy
  <2> QED BY <2>5, <2>6
<1>7. CASE PollTop(l)
  <2>1. held = {} /\ UNCHANGED <<where, task, held>>
    BY <1>2, <1>7, NothingHeld DEF PollTop, Alive
  <2>2. GoTo(l, "none") \/ (Polls /\ \E s \in {"pop", "read", "slot"} : GoTo(l, s))
    BY <1>7 DEF PollTop
  <2> QED BY <1>5, <2>1, <2>2 DEF Polls
<1>8. CASE SlotFree(l) \/ PollInline(l)
  <2>1. held = {} /\ UNCHANGED <<where, task, held>> /\ GoTo(l, "top")
    BY <1>2, <1>8, NothingHeld DEF SlotFree, PollInline, Alive, queueVars
  <2> QED BY <1>5, <2>1
<1>9. CASE Pop(l)
  <2>1. CASE cmd /\ \E D \in UpTo(InList, want) : Deliver(l, D)
    BY <1>6, <1>9, <2>1 DEF Pop, UpTo
  <2>2. CASE GoTo(l, IF loops[l] = "post" \/ Stopping THEN "top" ELSE "read") /\ UNCHANGED <<where, task, held>>
    <3>1. held = {}
      BY <1>2, <1>9, NothingHeld DEF Pop, Alive
    <3> QED BY <1>5, <1>9, <2>2, <3>1 DEF Pop
  <2> QED BY <1>9, <2>1, <2>2 DEF Pop
<1>10. CASE Read(l)
  <2>1. CASE blk /\ \E D \in UpTo(InStream, want) : Deliver(l, D)
    <3>1. ~closed
      BY <2>1 DEF Stopped
    <3>2. cmd
      BY <1>2, <3>1 DEF Commanded
    <3> QED BY <1>6, <1>10, <2>1, <3>2 DEF Read, UpTo
  <2>2. CASE (\E s \in {"top", "post", "backoff"} : GoTo(l, s)) /\ UNCHANGED <<where, task, held>>
    <3>1. held = {}
      BY <1>2, <1>10, NothingHeld DEF Read, Alive
    <3> QED BY <1>5, <1>10, <2>2, <3>1 DEF Read
  <2> QED BY <1>10, <2>1, <2>2 DEF Read
<1>11. CASE ActivateBatch(l)
  <2>1. /\ \A j \in Jobs : /\ j \in held => where'[j] = "active" /\ task'[j] \in {"limit", "run"}
                           /\ j \notin held => where'[j] = where[j] /\ task'[j] = task[j]
        /\ held' = {} /\ cmd /\ GoTo(l, "inline") /\ loops[l] = "activate"
    BY <1>11 DEF ActivateBatch, Processing
  <2>2. loops'[l] = "inline" /\ \A k \in LoopIds : k # l => loops'[k] = "none"
    BY <1>4, <2>1 DEF GoTo
  <2>3. closer \in {"blocking", "jobs", "deregister", "end", "done"} => forceClosing
    BY <1>3, <2>1
  <2> QED BY <1>1, <2>1, <2>2, <2>3 DEF Found, Claimed
<1>12. CASE ReturnHeld(l)
  <2>1. CASE held = {} /\ GoTo(l, "top") /\ UNCHANGED <<where, held>>
    BY <1>5, <1>12, <2>1 DEF ReturnHeld
  <2>2. ASSUME NEW j \in held, where' = IF cmd THEN [where EXCEPT ![j] = Place(j)] ELSE where,
               held' = held \ {j}, loops' = loops
        PROVE  Found'
    <3>1. j \in Jobs /\ task' = task /\ task[j] = "none"
      BY <1>12, <2>2 DEF ReturnHeld, Found, Shape
    <3>2. CASE cmd
      <4>1. where'[j] \in {"list", "stream"} /\ \A i \in Jobs : i # j => where'[i] = where[i]
        BY <2>2, <3>1, <3>2 DEF Shape, Place
      <4> QED BY <1>1, <2>2, <3>1, <3>2, <4>1 DEF Found, Claimed, Busy
    <3>3. CASE ~cmd
      <4>1. forceClosing /\ where' = where
        BY <2>2, <3>3 DEF Found
      <4> QED BY <1>1, <2>2, <3>1, <4>1 DEF Found, Claimed, Busy
    <3> QED BY <3>2, <3>3
  <2> QED BY <1>12, <2>1, <2>2 DEF ReturnHeld
<1> QED BY <1>7, <1>8, <1>9, <1>10, <1>11, <1>12 DEF LoopStep

LEMMA FoundStep ==
  ASSUME Shape, Alone, Counted, Stopped, Commanded, Found, [Next]_vars
  PROVE  Found'
<1>0. CASE UNCHANGED vars
  BY <1>0 DEF Found, Claimed, Busy, vars
<1>1. ASSUME UNCHANGED <<queueVars, forceClosing, closeForce>>, held = {},
             cmd' = cmd \/ cmd' = TRUE \/ (Busy = {} /\ held = {}),
             closer' \in {"blocking", "jobs", "deregister", "end", "done"} /\ ~forceClosing =>
               \A l \in LoopIds : loops'[l] \in {"none", "top", "inline", "reconnect"},
             closer' = closer \/ closer' \notin {"deregister", "end", "done"}
      PROVE  Found'
  BY <1>1 DEF Found, Claimed, Busy, queueVars
<1>2. CASE ReconnectNext \/ \E l \in LoopIds : EndBackoff(l)
  <2>1. UNCHANGED <<queueVars, forceClosing, closeForce, closing, closer>>
    BY <1>2, RecFrame DEF flagVars, callVars
  <2>2. held = {}
    <3>1. ASSUME NEW l \in LoopIds, EndBackoff(l) PROVE held = {}
      BY <3>1, NothingHeld DEF EndBackoff, Alive
    <3>2. ReconnectNext => \A l \in LoopIds : loops[l] \in {"none", "reconnect"}
      BY DEF ReconnectNext, RetryFires, RecFails, RecCommand, RecLibrary, RecPing, RecBlocking, RecGroup, RecRegister,
             Alone, Alive
    <3> QED BY <1>2, <3>1, <3>2, NothingHeldByNone
  <2>3. cmd' = cmd \/ cmd' = TRUE \/ Busy = {}
    BY <1>2 DEF ReconnectNext, RetryFires, EndBackoff, BeginReconnect, Renew, RecFails, AttemptFails, RecCommand,
                RecLibrary, RecPing, RecBlocking, RecGroup, RecRegister, Abort, clientVars
  <2>4. \A l \in LoopIds : Returned[l] \in {loops[l], "none"}
    BY DEF Returned
  <2>5. closing => \A l \in LoopIds : loops'[l] \in {loops[l], "none"}
    BY <1>2, <2>4 DEF ReconnectNext, RetryFires, EndBackoff, Active, GoTo, RecFails, AttemptFails, RecCommand,
                      RecLibrary, RecPing, RecBlocking, RecGroup, RecRegister, Abort, loopVars, Shape
  <2>6. closer' \in {"blocking", "jobs", "deregister", "end", "done"} /\ ~forceClosing =>
          \A l \in LoopIds : loops'[l] \in {"none", "top", "inline", "reconnect"}
    BY <2>1, <2>5 DEF Found, Alone
  <2> QED BY <1>1, <2>1, <2>2, <2>3, <2>6
<1>3. CASE InitNext
  <2>1. UNCHANGED <<queueVars, forceClosing, closeForce, closer>> /\ init \notin {"done", "failed"}
    BY <1>3, InitFrame DEF callVars, InitNext, InitCommand, InitBlocking, InitPrepare, InitRegister
  <2>2. closer \in {"none", "init"} /\ held = {}
    BY <2>1, NothingHeldByNone DEF Alone, Alive
  <2>3. cmd' = cmd \/ cmd' = TRUE
    BY <1>3 DEF InitNext, InitCommand, InitBlocking, InitPrepare, InitRegister
  <2> QED BY <1>1, <2>1, <2>2, <2>3
<1>4. CASE CloseNext
  <2>1. UNCHANGED <<queueVars, loops, forceClosing, closeForce>>
    BY <1>4, CloseFrame
  <2>2. CASE CloseInit
    BY <2>1, <2>2 DEF CloseInit, NextStep, Found, Claimed, Busy, queueVars
  <2>3. CASE CloseScheduler
    BY <2>1, <2>3 DEF CloseScheduler, NextStep, Found, Claimed, Busy, queueVars
  <2>4. CASE CloseSettle
    BY <2>1, <2>4 DEF CloseSettle, NextStep, Found, Claimed, Busy, queueVars
  <2>5. CASE CloseBlocking
    BY <2>1, <2>5 DEF CloseBlocking, NextStep, Found, Claimed, Busy, queueVars
  <2>6. CASE CloseJobs \/ CloseDeregister
    BY <2>1, <2>6 DEF CloseJobs, CloseDeregister, NextStep, Found, Claimed, Busy, queueVars
  <2>7. CASE CloseEnd
    <3>1. ~forceClosing => Busy = {} /\ held = {}
      BY <2>7 DEF CloseEnd, NextStep, Found
    <3> QED BY <2>1, <2>7, <3>1 DEF CloseEnd, NextStep, Found, Claimed, Busy, queueVars
  <2> QED BY <1>4, <2>2, <2>3, <2>4, <2>5, <2>6, <2>7 DEF CloseNext
<1>5. CASE Calls
  <2>1. UNCHANGED <<where, held, cmd, closed>>
    BY <1>5, CallFrame DEF clientVars
  <2>2. ASSUME UNCHANGED <<task, loops, closer, forceClosing, closeForce>> PROVE Found'
    BY <2>1, <2>2 DEF Found, Claimed, Busy
  <2>3. ASSUME NEW force \in BOOLEAN, CloseEffects(force) PROVE Found'
    <3>1. /\ loops' = loops /\ (forceClosing' <=> forceClosing \/ force)
          /\ \A j \in Jobs : /\ task'[j] = "none" <=> task[j] = "none"
                             /\ task'[j] = "aborted" => task[j] = "aborted" \/ force
      BY <2>3 DEF CloseEffects, loopVars, Shape
    <3>2. \/ UNCHANGED <<closer, closeForce>>
          \/ closer = "none" /\ closer' = "init" /\ closeForce' = force
      BY <2>3 DEF CloseEffects
    <3> QED BY <2>1, <3>1, <3>2 DEF Found, Claimed, Busy
  <2>4. CASE Resume
    <3>1. ~closed /\ UNCHANGED <<task, closer, forceClosing, closeForce>>
      BY <2>4 DEF Resume, CallUnchanged, queueVars
    <3>2. CASE UNCHANGED loopVars
      BY <2>2, <3>1, <3>2 DEF loopVars
    <3>3. CASE ~promise /\ StartLoop(loops, Active)
      <4>1. \A k \in LoopIds : loops[k] = "none"
        BY <3>1, <3>3 DEF Alone, Alive
      <4>2. held = {}
        BY <4>1, NothingHeldByNone
      <4>3. \A k \in LoopIds : loops'[k] \in {"none", "top"}
        BY <3>3, <4>1 DEF StartLoop, Shape
      <4> QED BY <2>1, <3>1, <4>2, <4>3 DEF Found, Claimed, Busy
    <3> QED BY <2>4, <3>2, <3>3 DEF Resume
  <2> QED BY <1>5, <2>2, <2>3, <2>4 DEF Calls, PauseReturns, DrainAsks, DrainCloses, Drain, Pause, Close, CallUnchanged,
                                        loopVars, flagVars, queueVars
<1> QED BY <1>0, <1>2, <1>3, <1>4, <1>5, NextCases, FoundInTasks, FoundInLoops

(* Unless the library cannot be loaded into a client that is already open, a *)
(* closed worker has no connection, timer or scheduler left, whatever init   *)
(* or reconnect its close overtook, and a graceful close has left no claim   *)
(* that only the stalled recovery would find.                                *)
THEOREM CleanAtTheEnd ==
  ASSUME "library" \notin Races
  PROVE  Spec => []ClosedIsClean
<1> DEFINE Clean == Shape /\ Alone /\ Counted /\ Stopped /\ Commanded /\ Found
<1>1. Init => Clean
  <2> SUFFICES ASSUME Init PROVE Clean
    OBVIOUS
  <2>1. Shape /\ Alone
    BY InitHolds
  <2>2. Counted /\ Stopped /\ Commanded
    BY DEF Init, Counted, One, Stopped, Commanded
  <2>3. Found
    BY DEF Init, Found, Claimed, Busy
  <2> QED BY <2>1, <2>2, <2>3
<1>2. Clean /\ [Next]_vars => Clean'
  <2> SUFFICES ASSUME Clean, [Next]_vars PROVE Clean'
    OBVIOUS
  <2>1. Shape' /\ Alone'
    BY ShapeStep, AloneStep
  <2>2. Counted' /\ Stopped'
    BY CountedStep, StoppedStep
  <2>3. Commanded' /\ Found'
    BY CommandedStep, FoundStep
  <2> QED BY <2>1, <2>2, <2>3
<1>3. Clean => ClosedIsClean
  <2> SUFFICES ASSUME Clean, closed, rec = "none" PROVE ClosedIsClean
    BY DEF ClosedIsClean
  <2>1. ~blk /\ ~cmd /\ ~sched /\ ~beat /\ ~retry /\ ~pend
    BY DEF Stopped, Counted
  <2>2. open = 0
    BY <2>1 DEF Counted, One
  <2>3. ~forceClosing => \A j \in Jobs : where[j] \notin {"hand", "active"}
    BY <2>1 DEF Found, Claimed, Busy
  <2> QED BY <2>1, <2>2, <2>3 DEF ClosedIsClean
<1> QED BY <1>1, <1>2, <1>3, PTL DEF Spec
=============================================================================
