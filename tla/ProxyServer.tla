---------------------------- MODULE ProxyServer ----------------------------
(***************************************************************************)
(* The HTTP proxy: the requests in flight, the command client and the      *)
(* Queue they share, the blocking connections some of them own, the shared *)
(* broadcast stream of one subscription, and closeQueues.  A request is a  *)
(* chain of awaits; a step below runs from the end of one await to the     *)
(* start of the next.  Requests that wait for one promise go on one by     *)
(* one, so more orders are checked than the microtask queue allows.        *)
(*                                                                         *)
(* One queue name and one subscription.  Every request has a job of its    *)
(* own; what is sent is counted, not spelled out.                          *)
(***************************************************************************)
EXTENDS Integers, FiniteSets

CONSTANTS
  Requests,
  Profiles,   \* the instances a behaviour may be about, see conf
  MaxStreams, \* bounds the shared streams created in a behaviour
  Page        \* entries read by one call of readStream (100 in the code)

(* add: any route that calls its queue once; summary: any that uses the shared client *)
(* directly; none: the behaviour has fewer requests.                                    *)
Kinds == {"none", "add", "summary", "wait", "events", "jobEvents", "stream", "broadcast"}

ASSUME ConstantsAssumption ==
  /\ Requests /= {} /\ MaxStreams \in Nat \ {0} /\ Page \in Nat \ {0}
ASSUME ProfilesAssumption ==
  \A p \in Profiles :
    /\ p.kind \in [Requests -> Kinds]
    /\ p.faults \in Nat     \* bounds the calls that fail although nothing was closed
    /\ p.closes \in BOOLEAN \* closeQueues is called
    /\ p.chunks \in Nat     \* bounds the output of the job of a stream request

VARIABLES
  conf,     \* the profile of this behaviour
  draining, \* draining and closed, which change together
  phase,    \* how far closeQueues is
  shared,   \* the shared command client
  queue,    \* the cached Queue
  streams,  \* the shared broadcast streams created so far: state of ready, closing, pending, worker
  current,  \* the one in broadcastStreams, 0: none
  req,      \* the requests
  faults

vars == <<conf, draining, phase, shared, queue, streams, current, req, faults>>

StreamIds == 1..MaxStreams

Init ==
  /\ conf \in Profiles
  /\ draining = FALSE /\ phase = "off" /\ shared = "none" /\ queue = "none"
  /\ streams = [s \in StreamIds |-> [state |-> "none", closing |-> FALSE, pending |-> 0, worker |-> "none"]]
  /\ current = 0 /\ faults = 0
  /\ req = [r \in Requests |->
              [at |-> "new", gone |-> FALSE, conn |-> "none", stream |-> 0, out |-> "none",
               job |-> IF conf.kind[r] = "wait" THEN "none" ELSE "active",
               cursor |-> FALSE,  \* the events stream is read from a position of its own
               event |-> FALSE,   \* the end of the job is among the events still to be read
               chunks |-> 0, sent |-> 0]]

Kind(r)     == conf.kind[r]
At(r, pcs)  == req[r].at \in pcs
Gone(r)     == req[r].gone
Attached(s) == {r \in Requests : req[r].at = "attached" /\ req[r].stream = s}
Fault       == faults < conf.faults /\ faults' = faults + 1

-----------------------------------------------------------------------------
(* Requests *)

Goto(r, pc) == req' = [req EXCEPT ![r].at = pc]
Shut(c)     == IF c = "open" THEN "closed" ELSE c
(* The request is over and the blocking connection it owns is closed. *)
Over(q, out)    == [q EXCEPT !.at = "done", !.out = out, !.conn = Shut(@), !.event = FALSE]
Finish(r, out)  == req' = [req EXCEPT ![r] = Over(@, out)]

Closing == queue \in {"closing", "closed"}

(* A call to the server fails when the Queue or its client is closed, or by itself. *)
CallFails == ((shared = "closed" \/ Closing) /\ UNCHANGED faults) \/ Fault

(* After getQueue *)
Begin(q, kind) ==
  CASE kind \in {"add", "summary"} -> [q EXCEPT !.at = "op"]
    [] kind = "jobEvents"          -> [q EXCEPT !.at = "getJob"]
    [] kind = "wait"   -> IF q.gone THEN Over(q, "gone") ELSE [q EXCEPT !.at = "cursor"]
    [] kind = "stream" -> IF q.gone THEN Over(q, "gone") ELSE [q EXCEPT !.at = "read"]

(* getQueue and getSharedClient *)
GetQueue(r) ==
  /\ At(r, {"new"}) /\ Kind(r) \notin {"none", "events", "broadcast"}
  /\ \/ draining /\ Finish(r, "refused") /\ UNCHANGED <<shared, queue>>
     \/ /\ ~draining /\ shared = "open" /\ req' = [req EXCEPT ![r] = Begin(@, Kind(r))]
        /\ queue' = IF Kind(r) = "summary" THEN queue ELSE "open"
        /\ UNCHANGED shared
     \/ ~draining /\ shared \in {"none", "init"} /\ shared' = "init" /\ Goto(r, "client") /\ UNCHANGED queue
  /\ UNCHANGED <<conf, draining, phase, streams, current, faults>>

AwaitClient == {r \in Requests : At(r, {"client"})}
ForQueue    == {r \in AwaitClient : Kind(r) /= "summary"}

(* createClient answers; a client that comes after closeQueues is closed at once. *)
MutTooLate == FALSE
TooLate == draining
ClientCreated ==
  /\ shared = "init"
  /\ IF TooLate
     THEN /\ shared' = "none" /\ UNCHANGED queue
          /\ req' = [r \in Requests |-> IF r \in AwaitClient THEN Over(req[r], "refused") ELSE req[r]]
     ELSE /\ shared' = "open" /\ queue' = IF ForQueue = {} THEN queue ELSE "open"
          /\ req' = [r \in Requests |-> IF r \in AwaitClient THEN Begin(req[r], Kind(r)) ELSE req[r]]
  /\ UNCHANGED <<conf, draining, phase, streams, current, faults>>

ClientFails ==
  /\ shared = "init" /\ Fault /\ shared' = "none"
  /\ req' = [r \in Requests |-> IF r \in AwaitClient THEN Over(req[r], "failed") ELSE req[r]]
  /\ UNCHANGED <<conf, draining, phase, queue, streams, current>>

(* The one call of a plain route ... *)
AddJob(r) ==
  /\ At(r, {"op"}) /\ Kind(r) = "add"
  /\ \/ shared = "open" /\ Finish(r, "ok") /\ UNCHANGED faults
     \/ CallFails /\ Finish(r, "failed")
  /\ UNCHANGED <<conf, draining, phase, shared, queue, streams, current>>

(* ... which does not know the Queue when it uses the shared client. *)
UsageSummary(r) ==
  /\ At(r, {"op"}) /\ Kind(r) = "summary"
  /\ \/ shared = "open" /\ Finish(r, "ok") /\ UNCHANGED faults
     \/ ((shared = "closed" /\ UNCHANGED faults) \/ Fault) /\ Finish(r, "failed")
  /\ UNCHANGED <<conf, draining, phase, shared, queue, streams, current>>

(* The client of the request leaves. *)
Abort(q) == IF q.at \in {"xread", "check", "backoff"} THEN Over(q, "gone") ELSE q

-----------------------------------------------------------------------------
(* POST /queues/:name/jobs/wait: Queue.addAndWait *)

(* The position in the events stream is taken before the job is added. *)
MutTakesCursor(pc) == pc = "adding"
TakesCursor(pc) == pc = "cursor"

Cursor(r) ==
  /\ At(r, {"cursor"})
  /\ \/ shared = "open" /\ req' = [req EXCEPT ![r].at = "connect", ![r].cursor = TakesCursor("cursor")]
        /\ UNCHANGED faults
     \/ CallFails /\ Finish(r, "failed")
  /\ UNCHANGED <<conf, draining, phase, shared, queue, streams, current>>

(* The first connection is checked when it arrives ... *)
Connect(r) ==
  /\ At(r, {"connect"}) /\ Kind(r) = "wait"
  /\ \/ (Closing \/ Gone(r)) /\ Finish(r, "gone") /\ UNCHANGED faults
     \/ ~Closing /\ ~Gone(r) /\ req' = [req EXCEPT ![r].at = "adding", ![r].conn = "open"] /\ UNCHANGED faults
     \/ Fault /\ Finish(r, "failed")
  /\ UNCHANGED <<conf, draining, phase, shared, queue, streams, current>>

(* The job is in the queue before the answer of add arrives, and may end before it. *)
Enqueue(r) ==
  /\ At(r, {"adding"}) /\ req[r].job = "none" /\ shared = "open"
  /\ req' = [req EXCEPT ![r].job = "active"]
  /\ UNCHANGED <<conf, draining, phase, shared, queue, streams, current, faults>>

Added(r) ==
  /\ At(r, {"adding"})
  /\ \/ /\ req[r].job /= "none" /\ UNCHANGED faults
        /\ IF Closing \/ Gone(r) THEN Finish(r, "gone")
           ELSE req' = [req EXCEPT ![r].at = "xread", ![r].cursor = @ \/ TakesCursor("adding")]
     \/ req[r].job = "none" /\ CallFails /\ Finish(r, "failed")
  /\ UNCHANGED <<conf, draining, phase, shared, queue, streams, current>>

(* waitForJobResult: the event, an error of the connection, or the deadline. *)
WaitRead(r) ==
  /\ At(r, {"xread"}) /\ Kind(r) = "wait"
  /\ \/ req[r].event /\ Finish(r, "ok") /\ UNCHANGED faults
     \/ /\ Fault
        /\ IF Closing THEN Finish(r, "gone")
           ELSE req' = [req EXCEPT ![r].at = "backoff", ![r].conn = "closed"]
  /\ UNCHANGED <<conf, draining, phase, shared, queue, streams, current>>

Deadline(r) ==
  /\ At(r, {"xread"}) /\ Kind(r) = "wait" /\ ~req[r].event
  /\ req' = [req EXCEPT ![r].at = "fallback", ![r].conn = Shut(@)]
  /\ UNCHANGED <<conf, draining, phase, shared, queue, streams, current, faults>>

Backoff(r) ==
  /\ At(r, {"backoff"})
  /\ IF Closing THEN Finish(r, "gone") ELSE Goto(r, "reconnect")
  /\ UNCHANGED <<conf, draining, phase, shared, queue, streams, current, faults>>

(* ... a later one is used, and the rejection that came meanwhile ends the wait. *)
Rejected(r) == Gone(r) \/ queue = "closed"
Reconnect(r) ==
  /\ At(r, {"reconnect"})
  /\ \/ Rejected(r) /\ Finish(r, "gone") /\ UNCHANGED faults
     \/ ~Rejected(r) /\ req' = [req EXCEPT ![r].at = "xread", ![r].conn = "open"] /\ UNCHANGED faults
     \/ Fault /\ IF Closing THEN Finish(r, "gone") ELSE Goto(r, "backoff")
  /\ UNCHANGED <<conf, draining, phase, shared, queue, streams, current>>

(* After the deadline the job's hash decides. *)
Fallback(r) ==
  /\ At(r, {"fallback"})
  /\ \/ Closing /\ Finish(r, "gone") /\ UNCHANGED faults
     \/ /\ ~Closing /\ shared = "open" /\ UNCHANGED faults
        /\ Finish(r, IF req[r].job = "ended" THEN "ok" ELSE "timeout")
     \/ CallFails /\ Finish(r, "failed")
  /\ UNCHANGED <<conf, draining, phase, shared, queue, streams, current>>

-----------------------------------------------------------------------------
(* GET /queues/:name/events and /queues/:name/jobs/:id/events *)

QueueEvents(r) ==
  /\ At(r, {"new"}) /\ Kind(r) = "events" /\ Goto(r, "connect")
  /\ UNCHANGED <<conf, draining, phase, shared, queue, streams, current, faults>>

GetJob(r) ==
  /\ At(r, {"getJob"}) /\ Kind(r) = "jobEvents"
  /\ \/ shared = "open" /\ UNCHANGED faults /\ IF Gone(r) THEN Finish(r, "gone") ELSE Goto(r, "connect")
     \/ CallFails /\ Finish(r, "failed")
  /\ UNCHANGED <<conf, draining, phase, shared, queue, streams, current>>

(* onClose runs at once when the client has left already. *)
Left(r) == Gone(r)
EventsConnect(r) ==
  /\ At(r, {"connect"}) /\ Kind(r) \in {"events", "jobEvents"}
  /\ \/ (Left(r) \/ draining) /\ Finish(r, "gone") /\ UNCHANGED faults
     \/ ~Left(r) /\ ~draining /\ req' = [req EXCEPT ![r].at = "xread", ![r].conn = "open"] /\ UNCHANGED faults
     \/ Fault /\ Finish(r, "failed")
  /\ UNCHANGED <<conf, draining, phase, shared, queue, streams, current>>

(* An event, the end of the job, nothing for SSE_BLOCK_MS, or an error.  From the first *)
(* event on the read starts behind the last one; until then events between two reads    *)
(* are not seen.                                                                         *)
EventsRead(r) ==
  /\ At(r, {"xread"}) /\ Kind(r) \in {"events", "jobEvents"}
  /\ \/ req[r].event /\ Kind(r) = "jobEvents" /\ Finish(r, "ok") /\ UNCHANGED faults
     \/ ~req[r].cursor /\ req' = [req EXCEPT ![r].cursor = TRUE] /\ UNCHANGED faults
     \/ ~req[r].event /\ Kind(r) = "jobEvents" /\ Goto(r, "check") /\ UNCHANGED faults
     \/ Fault /\ Finish(r, "failed")
  /\ UNCHANGED <<conf, draining, phase, shared, queue, streams, current>>

(* After a read that returned nothing the job is looked up. *)
SeesEnd(r) == req[r].job = "ended"
Check(r) ==
  /\ At(r, {"check"})
  /\ \/ shared = "open" /\ UNCHANGED faults /\ IF SeesEnd(r) THEN Finish(r, "ok") ELSE Goto(r, "xread")
     \/ CallFails /\ Finish(r, "failed")
  /\ UNCHANGED <<conf, draining, phase, shared, queue, streams, current>>

-----------------------------------------------------------------------------
(* GET /queues/:name/jobs/:id/stream *)

Upto(a, b) == IF a < b THEN a ELSE b
Read(q) == [q EXCEPT !.sent = Upto(q.chunks, q.sent + Page)]

StreamCall(r, pc, answered) ==
  /\ At(r, {pc}) /\ Kind(r) = "stream"
  /\ \/ shared = "open" /\ req' = [req EXCEPT ![r] = answered] /\ UNCHANGED faults
     \/ CallFails /\ Finish(r, "failed")
  /\ UNCHANGED <<conf, draining, phase, shared, queue, streams, current>>

PageRead(q) == IF q.gone THEN Over(q, "gone") ELSE [Read(q) EXCEPT !.at = "state"]
ReadStream(r) == StreamCall(r, "read", PageRead(req[r]))
GetState(r) ==
  StreamCall(r, "state", [req[r] EXCEPT !.at = IF req[r].job = "ended" THEN "trail" ELSE "sleep"])

(* What is left is drained when the job has ended. *)
Trailing(q) == Over(Read(q), "drained")
Trail(r) == StreamCall(r, "trail", Trailing(req[r]))

Sleep(r) ==
  /\ At(r, {"sleep"})
  /\ IF Gone(r) \/ draining THEN Finish(r, "gone") ELSE Goto(r, "read")
  /\ UNCHANGED <<conf, draining, phase, shared, queue, streams, current, faults>>

-----------------------------------------------------------------------------
(* GET /broadcast/:name/events *)

Closed(ss, s) == [ss EXCEPT ![s].closing = TRUE, ![s].worker = Shut(@)]

(* A request gives up its hold on the stream. *)
Given(ss, s) == [ss EXCEPT ![s].pending = @ - 1]

MutIdle(clients, pending) == clients = {}
Idle(clients, pending) == clients = {} /\ pending = 0

(* A stream loses a client, or a request that waited for it. *)
Release(r, ss, out) ==
  LET s  == req[r].stream
      rs == [req EXCEPT ![r] = Over(@, out)]
  IN  IF Idle(Attached(s) \ {r}, ss[s].pending)
      THEN /\ streams' = Closed(ss, s) /\ current' = IF ss[s].closing THEN current ELSE 0
           /\ req' = rs
      ELSE streams' = ss /\ req' = rs /\ UNCHANGED current

(* getSharedBroadcastStream *)
GetStream(r) ==
  /\ At(r, {"new"}) /\ Kind(r) = "broadcast"
  /\ \/ draining /\ Finish(r, "refused") /\ UNCHANGED <<streams, current>>
     \/ /\ ~draining /\ current /= 0
        /\ streams' = [streams EXCEPT ![current].pending = @ + 1]
        /\ req' = [req EXCEPT ![r].at = "ready", ![r].stream = current]
        /\ UNCHANGED current
     \/ /\ ~draining /\ current = 0
        /\ \E s \in StreamIds :
             /\ streams[s].state = "none" /\ \A t \in StreamIds : t < s => streams[t].state /= "none"
             /\ streams' = [streams EXCEPT ![s] = [state |-> "starting", closing |-> FALSE, pending |-> 1, worker |-> "open"]]
             /\ current' = s
             /\ req' = [req EXCEPT ![r].at = "create", ![r].stream = s]
  /\ UNCHANGED <<conf, draining, phase, shared, queue, faults>>

(* waitUntilReady settles. *)
StreamSettles(s) ==
  /\ streams[s].state = "starting"
  /\ \/ streams' = [streams EXCEPT ![s].state = "ready"] /\ UNCHANGED faults
     \/ streams' = [streams EXCEPT ![s].state = "failed"] /\ Fault
  /\ UNCHANGED <<conf, draining, phase, shared, queue, current, req>>

(* The request that created the stream gives it up when it failed or the proxy shuts down. *)
CreatorFails(r) ==
  /\ At(r, {"create"})
  /\ LET s == req[r].stream IN
       /\ streams[s].state = "failed" \/ (streams[s].state = "ready" /\ draining)
       /\ streams' = Closed(streams, s) /\ current' = 0
       /\ Finish(r, IF streams[s].state = "failed" THEN "failed" ELSE "refused")
  /\ UNCHANGED <<conf, draining, phase, shared, queue, faults>>

WaiterFails(r) ==
  /\ At(r, {"ready"})
  /\ LET s == req[r].stream IN
       /\ streams[s].state = "failed"
       /\ streams' = Given(streams, s) /\ Finish(r, "failed")
  /\ UNCHANGED <<conf, draining, phase, shared, queue, current, faults>>

Attach(r) ==
  /\ At(r, {"create", "ready"})
  /\ LET s  == req[r].stream
         ss == Given(streams, s)
     IN  /\ streams[s].state = "ready" /\ ~(draining /\ At(r, {"create"}))
         /\ IF Gone(r) /\ ~draining THEN Release(r, ss, "gone")
            ELSE IF draining \/ streams[s].closing THEN Release(r, ss, "refused")
            ELSE streams' = ss /\ Goto(r, "attached") /\ UNCHANGED current
  /\ UNCHANGED <<conf, draining, phase, shared, queue, faults>>

-----------------------------------------------------------------------------
(* The other side of the connections *)

Disconnect(r) ==
  /\ ~Gone(r) /\ ~At(r, {"new", "done"}) /\ Kind(r) \notin {"add", "summary"}
  /\ IF At(r, {"attached"}) THEN Release(r, streams, "gone")
     ELSE /\ req' = [req EXCEPT ![r] = Abort([@ EXCEPT !.gone = TRUE])]
          /\ UNCHANGED <<streams, current>>
  /\ UNCHANGED <<conf, draining, phase, shared, queue, faults>>

WriteChunk(r) ==
  /\ Kind(r) = "stream" /\ req[r].job = "active" /\ req[r].chunks < conf.chunks
  /\ req' = [req EXCEPT ![r].chunks = @ + 1]
  /\ UNCHANGED <<conf, draining, phase, shared, queue, streams, current, faults>>

JobEnds(r) ==
  /\ Kind(r) \in {"wait", "jobEvents", "stream"} /\ req[r].job = "active"
  /\ req' = [req EXCEPT ![r].job = "ended",
                        ![r].event = ~At(r, {"done"}) /\ (req[r].cursor \/ (Kind(r) = "jobEvents" /\ At(r, {"xread"})))]
  /\ UNCHANGED <<conf, draining, phase, shared, queue, streams, current, faults>>

-----------------------------------------------------------------------------
(* closeQueues *)

HasCloser(r) == Kind(r) \in {"events", "jobEvents"} /\ req[r].conn = "open"

CloseQueues ==
  /\ conf.closes /\ ~draining
  /\ draining' = TRUE /\ phase' = "inits" /\ current' = 0
  /\ req' = [r \in Requests |-> IF HasCloser(r) THEN Over(req[r], "closed") ELSE req[r]]
  /\ UNCHANGED <<conf, shared, queue, streams, faults>>

ShutdownInits ==
  /\ phase = "inits" /\ ForQueue = {} /\ phase' = "streams"
  /\ UNCHANGED <<conf, draining, shared, queue, streams, current, req, faults>>

OpenStreams == {s \in StreamIds : streams[s].state /= "none" /\ ~streams[s].closing}
AllStreamsClosed ==
  /\ streams' = [s \in StreamIds |-> IF s \in OpenStreams THEN Closed(streams, s)[s] ELSE streams[s]]
  /\ req' = [r \in Requests |-> IF req[r].at = "attached" THEN Over(req[r], "closed") ELSE req[r]]

ShutdownStreams ==
  /\ phase = "streams" /\ phase' = "queues" /\ AllStreamsClosed
  /\ UNCHANGED <<conf, draining, shared, queue, current, faults>>

ShutdownQueue ==
  /\ phase = "queues" /\ phase' = "rejects"
  /\ queue' = IF queue = "open" THEN "closing" ELSE queue
  /\ UNCHANGED <<conf, draining, shared, streams, current, req, faults>>

(* Queue.close, a turn later: the waits end and their connections are closed. *)
QueueRejects ==
  /\ queue = "closing" /\ queue' = "closed"
  /\ req' = [r \in Requests |->
       IF Kind(r) = "wait" THEN [Abort(req[r]) EXCEPT !.conn = Shut(@)] ELSE req[r]]
  /\ UNCHANGED <<conf, draining, phase, shared, streams, current, faults>>

ShutdownClient ==
  /\ phase = "rejects" /\ queue /= "closing" /\ phase' = "done"
  /\ shared' = Shut(shared)
  /\ UNCHANGED <<conf, draining, queue, streams, current, req, faults>>

(* 3 seconds pass. *)
ShutdownTimeout ==
  /\ phase \in {"inits", "streams", "queues", "rejects"} /\ phase' = "done"
  /\ queue' = IF queue = "open" THEN "closing" ELSE queue
  /\ shared' = Shut(shared) /\ AllStreamsClosed
  /\ UNCHANGED <<conf, draining, current, faults>>

-----------------------------------------------------------------------------
RequestStep(r) ==
  \/ GetQueue(r) \/ AddJob(r) \/ UsageSummary(r)
  \/ Cursor(r) \/ Connect(r) \/ Enqueue(r) \/ Added(r) \/ WaitRead(r) \/ Backoff(r) \/ Reconnect(r) \/ Fallback(r)
  \/ QueueEvents(r) \/ GetJob(r) \/ EventsConnect(r) \/ EventsRead(r) \/ Check(r)
  \/ ReadStream(r) \/ GetState(r) \/ Trail(r) \/ Sleep(r)
  \/ GetStream(r) \/ CreatorFails(r) \/ WaiterFails(r) \/ Attach(r)

ServerStep ==
  \/ ClientCreated \/ ClientFails \/ (\E s \in StreamIds : StreamSettles(s))
  \/ ShutdownInits \/ ShutdownStreams \/ ShutdownQueue \/ QueueRejects \/ ShutdownClient

Next ==
  \/ ServerStep \/ CloseQueues \/ ShutdownTimeout
  \/ \E r \in Requests : RequestStep(r) \/ Deadline(r) \/ Disconnect(r) \/ WriteChunk(r) \/ JobEnds(r)

(* Calls are answered, clients are created or fail, the blocking reads of events return after *)
(* SSE_BLOCK_MS.  Clients need not leave, jobs need not end, the deadline of a wait may be far. *)
Fairness ==
  /\ WF_vars(ServerStep)
  /\ \A r \in Requests : WF_vars(RequestStep(r) /\ ~At(r, {"new"}))

Spec == Init /\ [][Next]_vars /\ Fairness

-----------------------------------------------------------------------------
TypeOK ==
  /\ conf \in Profiles /\ draining \in BOOLEAN /\ faults \in 0..conf.faults
  /\ phase \in {"off", "inits", "streams", "queues", "rejects", "done"}
  /\ shared \in {"none", "init", "open", "closed"} /\ queue \in {"none", "open", "closing", "closed"}
  /\ current \in 0..MaxStreams
  /\ \A s \in StreamIds : streams[s].pending \in 0..Cardinality(Requests)
  /\ \A r \in Requests : req[r].conn \in {"none", "open", "closed"} /\ req[r].sent \in 0..req[r].chunks

LiveStreams == {s \in StreamIds : streams[s].worker = "open"}
Users(s) == {r \in Requests : /\ At(r, {"create", "attached"}) \/ (At(r, {"ready"}) /\ streams[s].state /= "failed")
                             /\ req[r].stream = s}

(* The subscription has one BroadcastWorker while somebody uses it and none otherwise: the   *)
(* worker does not outlive the last request that holds the stream, it is not closed under a   *)
(* subscriber by another one that leaves, and a later request finds it.                       *)
StreamShared ==
  ~draining => /\ LiveStreams = {s \in StreamIds : Users(s) /= {}}
               /\ LiveStreams = {current} \ {0}

(* A subscriber is turned away only when the proxy shuts down, never because the last other   *)
(* subscriber left while its own connection was being set up.                                  *)
NotRefused == \A r \in Requests : req[r].out = "refused" => draining

(* The shared stream is there for everybody who uses it, and for nobody else. *)
SharedWhileUsed == StreamShared /\ NotRefused

(* Once closeQueues is called every connection, worker and client the proxy opened is closed, *)
(* those that arrive after the call included, and nothing is opened again.                     *)
AllClosed ==
  /\ LiveStreams = {} /\ shared \in {"none", "closed"} /\ queue \in {"none", "closed"}
  /\ \A r \in Requests : req[r].conn /= "open"
NothingLeftOpen == draining ~> []AllClosed

(* The blocking connection or the place on the shared stream of a client that left is freed, *)
(* whatever the request was waiting for when it left.                                          *)
Freed(r) == req[r].conn /= "open" /\ ~At(r, {"attached"})
DisconnectFrees == \A r \in Requests : Gone(r) ~> []Freed(r)

(* What a client or the whole proxy leaves behind is freed. *)
AllFreed == NothingLeftOpen /\ DisconnectFrees

(* A request that waits for the end of its job notices it, whenever it comes: before the read *)
(* starts, between two reads, or while the connection is made again.                           *)
Waiting(r) == Kind(r) \in {"wait", "jobEvents"} /\ ~At(r, {"new", "done"})
EndNoticed == \A r \in Requests : (Waiting(r) /\ req[r].job = "ended") ~> At(r, {"done"})
=============================================================================
