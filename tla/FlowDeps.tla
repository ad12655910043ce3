------------------------------ MODULE FlowDeps ------------------------------
(***************************************************************************)
(* Parents and children.  A parent waits in waiting-children until as many *)
(* children have reported as its set deps has members.  Children report in *)
(* the call that completes or removes them when the parent lives in the    *)
(* same queue; a parent in another queue lives in another slot, so the     *)
(* call leaves a note in xq-pending, which a worker or the scheduler later *)
(* delivers with glidemq_completeChild.                                    *)
(*                                                                         *)
(* The producer writes the edges of a tree (FlowProducer.add) or of a DAG  *)
(* (addDAG) in many calls, while the jobs it has already added run and are *)
(* removed.  One server-side function or command is one step.  A producer  *)
(* that takes no further step has crashed.                                 *)
(***************************************************************************)
EXTENDS Integers, FiniteSets

CONSTANTS
  Jobs,
  Flows,         \* the flows a producer may write, one in each behaviour
  Cluster,       \* queues live on different nodes
  Races          \* "remove": an inner node of a DAG is removed while addDAG runs
                 \* "clean":  a failed child is deleted while the producer wires it

VARIABLES
  flow,       \* the flow of this behaviour, which no step changes
  job,        \* job:<id>: state, parentId, the markers depdone:<member> and
              \* depearly:<member>, depsCompleted (depsEarly counts depearly)
  parents,    \* parents:<id>, the DAG edges of a child
  deps,       \* deps:<id>, the members a parent waits for
  stream,     \* how many entries name the job
  earlyIndex, \* deps-early of each queue
  xqPending,  \* xq-pending of each queue, as edges
  told,       \* the edges of xqPending whose completeChild has been answered
  stage,      \* how far the producer has come with a job
  todo,       \* and the edges of it that it has yet to finish
  resolved    \* history: the jobs that completed or were removed

vars == <<flow, job, parents, deps, stream, earlyIndex, xqPending, told, stage, todo, resolved>>

(* A flow: up[c] is the set of jobs that wait for c; level is what addDAG     *)
(* computes (levels.get(<name>)); late are the children that the processor of *)
(* their parent adds at run time; dag says that addDAG writes it, not add.    *)
Up    == flow.up
Level == flow.level
Late  == flow.late
Queue == flow.queue
Dag   == flow.dag

(* The children the producer gives to p. *)
Children(f, p) == {c \in Jobs \ f.late : p \in f.up[c]}
Down(p)    == Children(flow, p)
Leaf(j)    == Down(j) = {}
Awaiters   == {p \in Jobs : \E c \in Jobs : p \in Up[c]}
Near(c, p) == Queue[c] = Queue[p]

Nobody == "nobody"   \* the parentId of a job without one

ASSUME JobsAssumption == IsFiniteSet(Jobs) /\ Nobody \notin Jobs
ASSUME FlowAssumption ==
  /\ Cluster \in BOOLEAN /\ Races \subseteq {"remove", "clean"}
  /\ \A f \in Flows :
       /\ f.late \subseteq Jobs /\ f.up \in [Jobs -> SUBSET Jobs] /\ f.dag \in BOOLEAN
       /\ \A j \in Jobs : j \notin f.up[j]
       /\ \A c \in f.late : (\E p \in Jobs : f.up[c] = {p}) /\ Children(f, c) = {}
       /\ ~f.dag => \A c \in Jobs : f.up[c] = {} \/ \E p \in Jobs : f.up[c] = {p}

(* A level is the longest chain of dependencies below a job. *)
ASSUME LevelAssumption ==
  \A f \in Flows :
    /\ f.level \in [Jobs -> Nat]
    /\ \A j \in Jobs : IF Children(f, j) = {} THEN f.level[j] = 0
                      ELSE /\ \A c \in Children(f, j) : f.level[c] < f.level[j]
                           /\ \E c \in Children(f, j) : f.level[c] = f.level[j] - 1

Edges == {e \in Jobs \X Jobs : e[2] \in Up[e[1]]}

(* ghost: a hash that an HSET made of a removed job, without a state. *)
States == {"none", "ghost", "waiting-children", "waiting", "delayed", "active", "completed", "failed"}
Stages == {"new", "reserved", "made", "found", "missing", "written", "linked",
           "erased", "present", "done"}

Hash(s) == [state |-> s, parentId |-> Nobody, depdone |-> {}, depearly |-> {}, depsCompleted |-> 0]
Exists(h) == h.state /= "none"

Init ==
  /\ flow \in Flows
  /\ job = [j \in Jobs |-> Hash("none")]
  /\ parents = [j \in Jobs |-> {}] /\ deps = [j \in Jobs |-> {}]
  /\ stream = [j \in Jobs |-> 0]
  /\ earlyIndex = {} /\ xqPending = {} /\ told = {}
  /\ stage = [j \in Jobs |-> "new"] /\ todo = Up
  /\ resolved = {}

-----------------------------------------------------------------------------
(* The parent's side: h is its hash, d its deps *)

MutReleaseAnyState(h, d) ==
  IF Cardinality(d) <= h.depsCompleted THEN [h EXCEPT !.state = "waiting"] ELSE h
(* releaseParentIfReady *)
ReleaseIfReady(h, d) ==
  IF Cardinality(d) <= h.depsCompleted /\ h.state = "waiting-children"
  THEN [h EXCEPT !.state = "waiting"] ELSE h

(* countEarlyDeps *)
CountEarly(h, d) ==
  [h EXCEPT !.depdone = @ \cup (h.depearly \cap d), !.depearly = @ \ d,
            !.depsCompleted = @ + Cardinality((h.depearly \cap d) \ h.depdone)]

(* HSETNX depdone:<member> *)
CountOnce(h, c) ==
  IF c \in h.depdone THEN h ELSE [h EXCEPT !.depdone = @ \cup {c}, !.depsCompleted = @ + 1]

MutDropEarly(h, d, c) == IF c \notin d THEN h ELSE ReleaseIfReady(CountOnce(CountEarly(h, d), c), d)
(* completeParentDependency: the parent's hash after child c reported. *)
Reported(h, d, c) ==
  LET counted == CountOnce(CountEarly(h, d), c)
  IN  IF ~Exists(h) THEN h
      ELSE IF c \notin d THEN [h EXCEPT !.depearly = @ \cup {c}]
      ELSE IF counted.depsCompleted = h.depsCompleted THEN counted
      ELSE ReleaseIfReady(counted, d)

(* Every parent released in the step gets one entry. *)
Enqueued(old, new) ==
  [j \in Jobs |-> IF old[j].state = "waiting-children" /\ new[j].state = "waiting"
                  THEN stream[j] + 1 ELSE stream[j]]

Parked(new) == {j \in Jobs : ~(new[j].depearly \subseteq job[j].depearly)}

(* glidemq_completeChild: child c reports to p with d as its deps. *)
ReportTo(p, d, c) ==
  LET new == [job EXCEPT ![p] = Reported(@, d, c)]
  IN  /\ job' = new
      /\ stream' = Enqueued(job, new)
      /\ earlyIndex' = earlyIndex \cup Parked(new)

(* The edges that the server knows of child c. *)
TreeEdge(c) == IF job[c].parentId = Nobody THEN {} ELSE {job[c].parentId}
Told(c)     == TreeEdge(c) \cup parents[c]

Notes(c) == {<<c, p>> : p \in {q \in Told(c) : ~Near(c, q)}}

(* A finished child reports to its parents of the same queue and leaves a note *)
(* for the others; h is what becomes of its own hash.                          *)
ReportAll(c, h) ==
  LET base == [job EXCEPT ![c] = h]
      new  == [j \in Jobs |-> IF j \in Told(c) /\ Near(c, j) THEN Reported(base[j], deps[j], c) ELSE base[j]]
  IN  /\ job' = new
      /\ stream' = [Enqueued(base, new) EXCEPT ![c] = 0]
      /\ earlyIndex' = earlyIndex \cup Parked(new)
      /\ xqPending' = xqPending \cup Notes(c)
      /\ resolved' = resolved \cup {c}

Untouched == UNCHANGED <<xqPending, told, resolved>>

-----------------------------------------------------------------------------
(* FlowProducer.add *)

(* Children with children of their own are added first.  In a cluster so are *)
(* leaves of another queue.                                                   *)
Nested(c, p) == ~Leaf(c) \/ (Cluster /\ ~Near(c, p))

(* A nested child that is a leaf: glidemq_addJob without a parent. *)
AddNestedLeaf(c) ==
  /\ ~Dag /\ Leaf(c) /\ c \notin Late /\ stage[c] = "new"
  /\ \E p \in Up[c] : Nested(c, p)
  /\ job' = [job EXCEPT ![c] = Hash("waiting")]
  /\ stream' = [stream EXCEPT ![c] = 1]
  /\ stage' = [stage EXCEPT ![c] = "made"]
  /\ Untouched /\ UNCHANGED <<parents, deps, earlyIndex, todo>>

MutForgetNested(p, leaves) == [deps EXCEPT ![p] = leaves]
(* addFlow registers the leaves it creates and the extra members it is given. *)
Registered(p, leaves) == [deps EXCEPT ![p] = Down(p)]

(* glidemq_addFlow: parent p and its leaves, once its sub-flows are complete. *)
AddFlow(p) ==
  LET leaves == {c \in Down(p) : ~Nested(c, p)}
  IN  /\ ~Dag /\ ~Leaf(p) /\ stage[p] = "new"
      /\ \A c \in Down(p) \ leaves : stage[c] = "made" /\ \A d \in Down(c) : stage[d] = "done"
      /\ job' = [j \in Jobs |-> IF j = p THEN Hash("waiting-children")
                                ELSE IF j \in leaves THEN [Hash("waiting") EXCEPT !.parentId = p]
                                ELSE job[j]]
      /\ deps' = Registered(p, leaves)
      /\ stream' = [j \in Jobs |-> IF j \in leaves THEN 1 ELSE stream[j]]
      /\ stage' = [j \in Jobs |-> IF j \in leaves \/ (j = p /\ Up[p] = {}) THEN "done"
                                  ELSE IF j = p THEN "made" ELSE stage[j]]
      /\ todo' = [j \in Jobs |-> IF j \in leaves THEN {} ELSE todo[j]]
      /\ Untouched /\ UNCHANGED <<parents, earlyIndex>>

(* FlowProducer.addDAG *)

(* Inner nodes, highest level first: addFlow without children. *)
AddNode(p) ==
  /\ Dag /\ ~Leaf(p) /\ stage[p] = "new"
  /\ \A q \in Jobs : Level[q] > Level[p] => stage[q] = "done"
  /\ job' = [job EXCEPT ![p] = Hash("waiting-children")]
  /\ stage' = [stage EXCEPT ![p] = IF Up[p] = {} THEN "done" ELSE "made"]
  /\ Untouched /\ UNCHANGED <<parents, deps, stream, earlyIndex, todo>>

Leaves == {c \in Jobs \ Late : Leaf(c)}

(* The batch of SADDs that puts every leaf in the deps of its dependents. *)
Reserved(S) == [p \in Jobs |-> deps[p] \cup {c \in S : p \in Up[c]}]

(* No leaf exists yet, so the order within the batch shows nowhere. *)
ReserveLeaves ==
  /\ Dag
  /\ \A q \in Jobs \ (Leaves \cup Late) : stage[q] = "done"
  /\ \A c \in Leaves : stage[c] = "new"
  /\ Leaves /= {}
  /\ deps' = Reserved(Leaves)
  /\ stage' = [j \in Jobs |-> IF j \in Leaves THEN "reserved" ELSE stage[j]]
  /\ Untouched /\ UNCHANGED <<job, parents, stream, earlyIndex, todo>>

(* glidemq_addJob of a leaf.  With a single dependent in its own queue it *)
(* carries the edge and registers itself.                                 *)
AddLeaf(c) ==
  LET whole == \E p \in Jobs : Up[c] = {p} /\ Near(c, p)
  IN  /\ Dag /\ stage[c] = "reserved"
      /\ job' = [job EXCEPT ![c] = [Hash("waiting") EXCEPT
                    !.parentId = IF whole THEN CHOOSE p \in Up[c] : TRUE ELSE Nobody]]
      /\ deps' = [p \in Jobs |-> IF whole /\ p \in Up[c] THEN deps[p] \cup {c} ELSE deps[p]]
      /\ stream' = [stream EXCEPT ![c] = 1]
      /\ stage' = [stage EXCEPT ![c] = IF whole \/ Up[c] = {} THEN "done" ELSE "made"]
      /\ todo' = [todo EXCEPT ![c] = IF whole THEN {} ELSE @]
      /\ Untouched /\ UNCHANGED <<parents, earlyIndex>>

(* The wiring of a job that existed before its parents knew of it: the edge is *)
(* written, then the child is read again, since it may have completed or have  *)
(* been removed meanwhile.                                                     *)

Mates(c)  == {d \in Jobs \ Late : Level[d] = Level[c]}
None(c, S) == \A d \in Mates(c) : stage[d] \notin S
Wiring    == {"found", "missing", "written", "linked", "erased", "present"}

(* addDAG takes all nodes of a level through one phase before the next, add *)
(* wires one child after the other.                                         *)
Check(c) ==
  /\ stage[c] = "made" /\ c \notin Late
  /\ IF Dag THEN None(c, {"new", "reserved"})
     ELSE /\ \A p \in Up[c] : stage[p] /= "new"
          /\ \A d \in Jobs \ Late : stage[d] \notin Wiring
  /\ stage' = [stage EXCEPT ![c] = IF Exists(job[c]) THEN "found" ELSE "missing"]
  /\ deps' = [p \in Jobs |-> IF Dag /\ p \in Up[c] /\ (~Exists(job[c]) \/ ~Near(c, p))
                             THEN deps[p] \cup {c} ELSE deps[p]]
  /\ Untouched /\ UNCHANGED <<job, parents, stream, earlyIndex, todo>>

(* HSET of parentId or, in a DAG, of a field nothing on the server reads.  It *)
(* makes a ghost of a child that is gone.                                     *)
Write(c) ==
  /\ stage[c] = "found"
  /\ Dag => None(c, {"made"})
  /\ LET h == IF Exists(job[c]) THEN job[c] ELSE Hash("ghost")
     IN  job' = [job EXCEPT ![c] = [h EXCEPT !.parentId = IF Dag THEN @ ELSE CHOOSE p \in Up[c] : TRUE]]
  /\ stage' = [stage EXCEPT ![c] = "written"]
  /\ Untouched /\ UNCHANGED <<parents, deps, stream, earlyIndex, todo>>

(* SADD parents:<id> of the parents in other queues. *)
Link(c) ==
  /\ stage[c] = "written"
  /\ parents' = [parents EXCEPT ![c] = @ \cup {p \in Up[c] : ~Near(c, p)}]
  /\ stage' = [stage EXCEPT ![c] = IF ~Dag /\ \E p \in Up[c] : ~Near(c, p) THEN "present" ELSE "linked"]
  /\ Untouched /\ UNCHANGED <<job, deps, stream, earlyIndex, todo>>

(* HGET state: without one the hash is a ghost, and is deleted. *)
Look(c) ==
  /\ stage[c] = "linked"
  /\ Dag => None(c, {"found", "written", "erased"})
  /\ IF job[c].state \in {"none", "ghost"}
     THEN /\ stage' = [stage EXCEPT ![c] = "erased"]
          /\ job' = [job EXCEPT ![c] = Hash("none")]
          /\ parents' = [parents EXCEPT ![c] = {}]
     ELSE /\ stage' = [stage EXCEPT ![c] = "present"]
          /\ UNCHANGED <<job, parents>>
  /\ Untouched /\ UNCHANGED <<deps, stream, earlyIndex, todo>>

Finish(c, p) ==
  /\ todo' = [todo EXCEPT ![c] = @ \ {p}]
  /\ stage' = [stage EXCEPT ![c] = IF todo[c] = {p} THEN "done" ELSE @]

(* SADD and completeChild for an erased child.  Between the two the parent *)
(* only waits for one more member.                                         *)
ReportErased(c, p) ==
  /\ stage[c] = "erased" /\ p \in todo[c]
  /\ deps' = [deps EXCEPT ![p] = @ \cup {c}]
  /\ ReportTo(p, deps[p] \cup {c}, c)
  /\ Finish(c, p)
  /\ Untouched /\ UNCHANGED parents

(* glidemq_registerParent, and what the producer does when the child is gone. *)
RegisterParent(c, p) ==
  /\ parents' = IF Exists(job[c]) THEN [parents EXCEPT ![c] = @ \cup {p}] ELSE parents
  /\ deps' = [deps EXCEPT ![p] = @ \cup {c}]
  /\ IF job[c].state \in {"none", "completed"} THEN ReportTo(p, deps[p] \cup {c}, c)
     ELSE UNCHANGED <<job, stream, earlyIndex>>

Register(c, p) ==
  /\ stage[c] = "present" /\ p \in todo[c] /\ Near(c, p)
  /\ Dag => None(c, {"linked", "erased"})
  /\ RegisterParent(c, p)
  /\ Finish(c, p)
  /\ Untouched

NearLeft(c) == \E d \in Mates(c) : stage[d] = "present" /\ \E p \in todo[d] : Near(d, p)

ReportMissing(c, p) ==
  /\ stage[c] = "missing" /\ p \in todo[c]
  /\ Dag => None(c, {"made", "found", "written", "linked", "erased"}) /\ ~NearLeft(c)
  /\ ReportTo(p, deps[p], c)
  /\ Finish(c, p)
  /\ Untouched /\ UNCHANGED <<parents, deps>>

Over(c) == job[c].state \in {"none", "ghost", "completed"}

(* A parent in another queue: HGET state, and completeChild if c is over.  A *)
(* job that is over stays so, and these two count as one step.               *)
Recheck(c, p) ==
  /\ stage[c] = "present" /\ p \in todo[c] /\ ~Near(c, p)
  /\ Dag => None(c, {"linked", "erased", "missing"}) /\ ~NearLeft(c)
  /\ LET gone == ~Dag /\ job[c].state \in {"none", "ghost"}
         kept == IF gone THEN [job EXCEPT ![c] = Hash("none")] ELSE job
         new  == IF Over(c) THEN [kept EXCEPT ![p] = Reported(@, deps[p], c)] ELSE kept
     IN  /\ job' = new
         /\ stream' = Enqueued(kept, new)
         /\ earlyIndex' = earlyIndex \cup Parked(new)
         /\ parents' = IF gone THEN [parents EXCEPT ![c] = {}] ELSE parents
  /\ Finish(c, p)
  /\ Untouched /\ UNCHANGED deps

-----------------------------------------------------------------------------
(* Children that a running processor adds: queue.add with a parent *)

AddLate(c) ==
  LET p == CHOOSE q \in Up[c] : TRUE
  IN  /\ c \in Late /\ stage[c] = "new"
      /\ job[p].state = "active"
      /\ job' = [job EXCEPT ![c] = [Hash("waiting") EXCEPT !.parentId = p]]
      /\ stream' = [stream EXCEPT ![c] = 1]
      /\ deps' = [deps EXCEPT ![p] = IF Near(c, p) THEN @ \cup {c} ELSE @]
      /\ stage' = [stage EXCEPT ![c] = IF Near(c, p) THEN "done" ELSE "made"]
      /\ todo' = [todo EXCEPT ![c] = IF Near(c, p) THEN {} ELSE @]
      /\ Untouched /\ UNCHANGED <<parents, earlyIndex>>

(* glidemq_registerChildDep, or the plain SADD that stands in for it while an *)
(* older library is loaded.                                                   *)
RegisterLate(c, plain) ==
  LET p == CHOOSE q \in Up[c] : TRUE
      d == deps[p] \cup {c}
      h == CountEarly(job[p], d)
      counted == h.depsCompleted /= job[p].depsCompleted
      new == IF plain \/ ~Exists(job[p]) THEN job
             ELSE [job EXCEPT ![p] = IF counted THEN ReleaseIfReady(h, d) ELSE h]
  IN  /\ c \in Late /\ stage[c] = "made"
      /\ deps' = [deps EXCEPT ![p] = d]
      /\ job' = new
      /\ stream' = Enqueued(job, new)
      /\ Finish(c, p)
      /\ Untouched /\ UNCHANGED <<parents, earlyIndex>>

-----------------------------------------------------------------------------
(* Workers and clients *)

Activate(j) ==
  /\ job[j].state = "waiting" /\ stream[j] > 0
  /\ job' = [job EXCEPT ![j].state = "active"]
  /\ stream' = [stream EXCEPT ![j] = @ - 1]
  /\ Untouched /\ UNCHANGED <<parents, deps, earlyIndex, stage, todo>>

(* glidemq_complete.  keep: removeOnComplete is off. *)
Complete(j, keep) ==
  /\ job[j].state = "active"
  /\ ReportAll(j, IF keep THEN [job[j] EXCEPT !.state = "completed"] ELSE Hash("none"))
  /\ UNCHANGED <<parents, deps, told, stage, todo>>

(* glidemq_fail tells no parent.  again: attempts are left. *)
Fail(j, again) ==
  /\ job[j].state = "active"
  /\ job' = [job EXCEPT ![j].state = IF again THEN "delayed" ELSE "failed"]
  /\ Untouched /\ UNCHANGED <<parents, deps, stream, earlyIndex, stage, todo>>

(* glidemq_retryJob *)
Retry(j) ==
  /\ job[j].state = "failed"
  /\ job' = [job EXCEPT ![j].state = "delayed"]
  /\ Untouched /\ UNCHANGED <<parents, deps, stream, earlyIndex, stage, todo>>

(* glidemq_promote *)
Promote(j) ==
  /\ job[j].state = "delayed"
  /\ job' = [job EXCEPT ![j].state = "waiting"]
  /\ stream' = [stream EXCEPT ![j] = @ + 1]
  /\ Untouched /\ UNCHANGED <<parents, deps, earlyIndex, stage, todo>>

(* glidemq_moveToWaitingChildren, by the processor of a job with children of  *)
(* its own making.                                                            *)
MoveToWaitingChildren(j) ==
  LET h == CountEarly([job[j] EXCEPT !.state = "waiting-children"], deps[j])
      ready == h.depsCompleted >= Cardinality(deps[j])
  IN  /\ job[j].state = "active" /\ \E c \in Late : j \in Up[c]
      /\ job' = [job EXCEPT ![j] = IF ready THEN [h EXCEPT !.state = "waiting"] ELSE h]
      /\ stream' = [stream EXCEPT ![j] = IF ready THEN @ + 1 ELSE @]
      /\ Untouched /\ UNCHANGED <<parents, deps, earlyIndex, stage, todo>>

(* Until the last leaf is reserved, the deps of a DAG lack inner nodes. *)
Settled(j) == ~Dag \/ Leaf(j) \/ \A d \in Jobs \ Late : stage[d] /= "new"

(* resolveRemovedChildParents; a completed job has reported already. *)
ResolveRemoved(j) ==
  IF job[j].state = "completed"
  THEN job' = [job EXCEPT ![j] = Hash("none")] /\ UNCHANGED <<stream, earlyIndex, xqPending, resolved>>
  ELSE ReportAll(j, Hash("none"))

(* glidemq_removeJob *)
RemoveJob(j) ==
  /\ Exists(job[j])
  /\ "remove" \in Races \/ Settled(j)
  /\ ResolveRemoved(j)
  /\ deps' = [deps EXCEPT ![j] = {}] /\ parents' = [parents EXCEPT ![j] = {}]
  /\ UNCHANGED <<told, stage, todo>>

(* glidemq_clean, removeOnFail, and retention: a failed job goes without *)
(* telling its parents.                                                   *)
Clean(j) ==
  /\ job[j].state \in {"completed", "failed"}
  /\ job[j].state = "completed" \/ "clean" \in Races \/ todo[j] = {}
  /\ job' = [job EXCEPT ![j] = Hash("none")]
  /\ deps' = [deps EXCEPT ![j] = {}] /\ parents' = [parents EXCEPT ![j] = {}]
  /\ Untouched /\ UNCHANGED <<stream, earlyIndex, stage, todo>>

-----------------------------------------------------------------------------
(* The scheduler, and the worker right after a completion *)

(* completeChild of a note; it may be delivered again before it is dropped. *)
Deliver(e) ==
  /\ e \in xqPending
  /\ ReportTo(e[2], deps[e[2]], e[1])
  /\ told' = told \cup {e}
  /\ UNCHANGED <<parents, deps, xqPending, stage, todo, resolved>>

MutDropUntold(e) == e \in xqPending
Answered(e) == e \in told

(* SREM of a note whose completeChild was answered. *)
DropNote(e) ==
  /\ Answered(e)
  /\ xqPending' = xqPending \ {e} /\ told' = told \ {e}
  /\ UNCHANGED <<job, parents, deps, stream, earlyIndex, stage, todo, resolved>>

(* glidemq_healEarlyDeps, one parent. *)
HealEarlyDeps(p) ==
  LET h == CountEarly(job[p], deps[p])
      counted == h.depsCompleted /= job[p].depsCompleted
      new == [job EXCEPT ![p] = IF counted THEN ReleaseIfReady(h, deps[p]) ELSE h]
  IN  /\ p \in earlyIndex
      /\ IF ~Exists(job[p])
         THEN /\ earlyIndex' = earlyIndex \ {p} /\ UNCHANGED <<job, stream>>
         ELSE /\ job' = new /\ stream' = Enqueued(job, new)
              /\ earlyIndex' = IF h.depearly = {} THEN earlyIndex \ {p} ELSE earlyIndex
      /\ Untouched /\ UNCHANGED <<parents, deps, stage, todo>>

-----------------------------------------------------------------------------
Wire(c) ==
  \/ Check(c) \/ Write(c) \/ Link(c) \/ Look(c)
  \/ \E p \in Up[c] : ReportErased(c, p) \/ Register(c, p) \/ ReportMissing(c, p) \/ Recheck(c, p)

Produce(j) ==
  \/ AddNestedLeaf(j) \/ AddFlow(j)
  \/ AddNode(j) \/ AddLeaf(j)
  \/ Wire(j)

RegisterChild(c) == \E plain \in BOOLEAN : RegisterLate(c, plain)

Run(j) ==
  \/ Activate(j) \/ Retry(j) \/ Promote(j) \/ MoveToWaitingChildren(j)
  \/ \E keep \in BOOLEAN : Complete(j, keep) \/ Fail(j, keep)

Notify(e) == Deliver(e) \/ DropNote(e)

Step ==
  \/ ReserveLeaves
  \/ \E j \in Jobs : Produce(j) \/ Run(j) \/ RemoveJob(j) \/ Clean(j) \/ HealEarlyDeps(j)
                     \/ AddLate(j) \/ RegisterChild(j)
  \/ \E e \in Edges : Notify(e)

Next == Step /\ UNCHANGED flow

Spec == Init /\ [][Next]_vars

(* The producer finishes what it began, the scheduler keeps running. *)
AnyEdges == {e \in Jobs \X Jobs : \E f \in Flows : e[2] \in f.up[e[1]]}
Parents  == {e[2] : e \in AnyEdges}

Fairness ==
  /\ WF_vars(ReserveLeaves /\ UNCHANGED flow)
  /\ \A j \in Jobs : WF_vars(Produce(j) /\ UNCHANGED flow)
  /\ \A c \in UNION {f.late : f \in Flows} : WF_vars(RegisterChild(c) /\ UNCHANGED flow)
  /\ \A p \in Parents : WF_vars(HealEarlyDeps(p) /\ UNCHANGED flow)
  /\ \A e \in AnyEdges : WF_vars(Deliver(e) /\ UNCHANGED flow)

FairSpec == Spec /\ Fairness

-----------------------------------------------------------------------------
(* Properties *)

(* The shape of every variable; a note in xq-pending is an edge of the flow from *)
(* a child to its parent, and only notes still there count as answered.          *)
TypeOK ==
  /\ job \in [Jobs -> [state : States, parentId : Jobs \cup {Nobody}, depdone : SUBSET Jobs,
                       depearly : SUBSET Jobs, depsCompleted : Nat]]
  /\ parents \in [Jobs -> SUBSET Jobs] /\ deps \in [Jobs -> SUBSET Jobs]
  /\ stream \in [Jobs -> Nat]
  /\ earlyIndex \subseteq Jobs /\ xqPending \subseteq Edges /\ told \subseteq xqPending
  /\ stage \in [Jobs -> Stages] /\ todo \in [Jobs -> SUBSET Jobs] /\ resolved \subseteq Jobs

(* A parent is in the stream exactly while it waits, and once, although its    *)
(* children, the producer, the scheduler and its own moveToWaitingChildren can *)
(* all find it ready (releaseParentIfReady).                                   *)
ReleasedOnce == \A j \in Jobs : stream[j] = IF job[j].state = "waiting" THEN 1 ELSE 0

(* A parent of a flow runs only when every child the flow gives it has         *)
(* completed or was removed, those the producer has yet to add included.       *)
RunsAfterChildren ==
  \A p \in Jobs : job[p].state \in {"waiting", "delayed", "active", "completed", "failed"} =>
                        Down(p) \subseteq resolved

(* depsCompleted, which decides on the release, counts each child once, only    *)
(* registered ones and only finished ones; a completion that came early is      *)
(* parked or counted, never both, and the scheduler can find it.                *)
CountedOnce ==
  \A p \in Jobs : job[p].state \notin {"none", "ghost"} =>
    /\ job[p].depsCompleted = Cardinality(job[p].depdone)
    /\ job[p].depdone \subseteq deps[p] \cap resolved
    /\ job[p].depearly \subseteq resolved \ job[p].depdone
    /\ job[p].depearly /= {} => p \in earlyIndex

(* A finished child is never forgotten: its parent has counted or parked it, a *)
(* note in xq-pending says so, or the producer has yet to look at it.          *)
NoChildForgotten ==
  \A c \in resolved : \A p \in Up[c] : job[p].state \notin {"none", "ghost"} =>
    \/ c \in job[p].depdone \cup job[p].depearly
    \/ <<c, p>> \in xqPending
    \/ p \in todo[c]

(* Each child that is over reaches each of its parents once (countEarlyDeps,   *)
(* completeParentDependency, xq-pending).                                      *)
ChildrenCounted == CountedOnce /\ NoChildForgotten

(* A parent whose children have all finished and that gets no new ones does not *)
(* stay in waiting-children.                                                    *)
AllIn(p) == \A c \in Jobs : p \in Up[c] => c \in resolved \/ (c \in Late /\ stage[c] = "new")
ParentsWake ==
  \A p \in Parents : <>[]AllIn(p) => <>[](job[p].state /= "waiting-children")
=============================================================================
