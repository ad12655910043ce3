--------------------------- MODULE FlowDepsProofs ---------------------------
(***************************************************************************)
(* Proofs about FlowDeps for every set of jobs and every set of flows: a   *)
(* parent is queued once, each child that is over is counted, parked,      *)
(* noted or still to be wired, and a parent runs after its children.       *)
(***************************************************************************)
EXTENDS FlowDeps, FiniteSetTheorems, TLAPS

Record == [state : States, parentId : Jobs \cup {Nobody}, depdone : SUBSET Jobs,
           depearly : SUBSET Jobs, depsCompleted : Nat]

(* The children a hash knows to be over. *)
Seen(h) == h.depdone \cup h.depearly

(* The same hash further on: its parent field kept, its state too unless the  *)
(* job is released.                                                           *)
Onward(h, g) == /\ g \in Record /\ g.parentId = h.parentId
                /\ g.state = h.state \/ (h.state = "waiting-children" /\ g.state = "waiting")

(* What the flows are assumed to be, of the flow of this behaviour. *)
LEMMA FlowFacts ==
  ASSUME flow \in Flows
  PROVE  /\ Late \subseteq Jobs /\ Up \in [Jobs -> SUBSET Jobs] /\ Dag \in BOOLEAN
         /\ \A j \in Jobs : j \notin Up[j] /\ Down(j) \subseteq Jobs
         /\ \A c \in Late : (\E p \in Jobs : Up[c] = {p}) /\ Down(c) = {}
         /\ ~Dag => \A c \in Jobs : Up[c] = {} \/ \E p \in Jobs : Up[c] = {p}
         /\ \A p \in Jobs : \A c : c \in Down(p) <=> c \in Jobs \ Late /\ p \in Up[c]
BY FlowAssumption DEF Late, Up, Dag, Down, Children

LEMMA LevelFacts ==
  ASSUME flow \in Flows
  PROVE  /\ Level \in [Jobs -> Nat]
         /\ \A p \in Jobs : Leaf(p) => Level[p] = 0
         /\ \A p \in Jobs : ~Leaf(p) => \E c \in Down(p) : Level[c] < Level[p]
         /\ \A p \in Jobs : \A c \in Down(p) : Level[c] < Level[p]
BY LevelAssumption DEF Level, Leaf, Down

LEMMA FlowKept ==
  ASSUME UNCHANGED flow
  PROVE  /\ Up' = Up /\ Late' = Late /\ Dag' = Dag /\ Level' = Level /\ Queue' = Queue /\ Edges' = Edges
         /\ \A p : Down(p)' = Down(p) /\ (Leaf(p)' <=> Leaf(p))
         /\ \A c, p : Near(c, p)' <=> Near(c, p)
BY DEF Up, Late, Dag, Level, Queue, Edges, Down, Leaf, Near

-----------------------------------------------------------------------------
(* The operators on a parent's hash.                                         *)

LEMMA ReleaseFacts ==
  ASSUME NEW h \in Record, NEW d
  PROVE  LET r == ReleaseIfReady(h, d)
         IN  /\ Onward(h, r) /\ r.depdone = h.depdone /\ r.depearly = h.depearly
             /\ r.depsCompleted = h.depsCompleted
             /\ r.state /= h.state => Cardinality(d) <= r.depsCompleted
<1>1. CASE ReleaseIfReady(h, d) = h
  BY <1>1 DEF Record, Onward
<1>2. CASE /\ ReleaseIfReady(h, d) = [h EXCEPT !.state = "waiting"]
           /\ h.state = "waiting-children" /\ Cardinality(d) <= h.depsCompleted
  BY <1>2 DEF Record, Onward, States
<1> QED BY <1>1, <1>2 DEF ReleaseIfReady

LEMMA CountEarlyFacts ==
  ASSUME NEW h \in Record, NEW d \in SUBSET Jobs
  PROVE  LET r == CountEarly(h, d)
         IN  /\ r \in Record /\ r.parentId = h.parentId /\ r.state = h.state
             /\ r.depdone = h.depdone \cup (h.depearly \cap d) /\ r.depearly = h.depearly \ d
             /\ r.depsCompleted = h.depsCompleted + Cardinality((h.depearly \cap d) \ h.depdone)
<1> DEFINE n == Cardinality((h.depearly \cap d) \ h.depdone)
<1>1. n \in Nat
  BY JobsAssumption, FS_Subset, FS_CardinalityType DEF Record
<1>2. CountEarly(h, d) = [h EXCEPT !.depdone = @ \cup (h.depearly \cap d), !.depearly = @ \ d,
                                   !.depsCompleted = @ + n]
  BY DEF CountEarly
<1> HIDE DEF n
<1>3. h.depsCompleted + n \in Nat /\ h.depdone \cup (h.depearly \cap d) \in SUBSET Jobs
      /\ h.depearly \ d \in SUBSET Jobs
  BY <1>1 DEF Record
<1>4. CountEarly(h, d) = [h EXCEPT !.depdone = h.depdone \cup (h.depearly \cap d), !.depearly = h.depearly \ d,
                                   !.depsCompleted = h.depsCompleted + n]
  BY <1>2
<1>5. PICK a \in SUBSET Jobs, b \in SUBSET Jobs, k \in Nat, r \in {CountEarly(h, d)} :
        /\ a = h.depdone \cup (h.depearly \cap d) /\ b = h.depearly \ d
        /\ k = h.depsCompleted + n
  BY <1>3
<1>6. r = [h EXCEPT !.depdone = a, !.depearly = b, !.depsCompleted = k]
  BY <1>4, <1>5
<1>7. /\ r \in Record /\ r.parentId = h.parentId /\ r.state = h.state
      /\ r.depdone = a /\ r.depearly = b /\ r.depsCompleted = k
  BY <1>6 DEF Record
<1> QED BY <1>5, <1>7 DEF n

LEMMA CountOnceFacts ==
  ASSUME NEW h \in Record, NEW c \in Jobs
  PROVE  LET r == CountOnce(h, c)
         IN  /\ r \in Record /\ r.parentId = h.parentId /\ r.state = h.state
             /\ r.depdone = h.depdone \cup {c} /\ r.depearly = h.depearly
             /\ r.depsCompleted = h.depsCompleted + (IF c \in h.depdone THEN 0 ELSE 1)
<1>1. CASE c \in h.depdone
  BY <1>1 DEF CountOnce, Record
<1>2. CASE c \notin h.depdone
  <2>1. CountOnce(h, c) = [h EXCEPT !.depdone = @ \cup {c}, !.depsCompleted = @ + 1]
    BY <1>2 DEF CountOnce
  <2>2. h.depdone \cup {c} \in SUBSET Jobs /\ h.depsCompleted + 1 \in Nat
    BY DEF Record
  <2>3. PICK a \in SUBSET Jobs, k \in Nat, r \in {CountOnce(h, c)} :
          a = h.depdone \cup {c} /\ k = h.depsCompleted + 1
    BY <2>2
  <2>4. r = [h EXCEPT !.depdone = a, !.depsCompleted = k]
    BY <2>1, <2>3
  <2>5. /\ r \in Record /\ r.parentId = h.parentId /\ r.state = h.state
        /\ r.depdone = a /\ r.depearly = h.depearly /\ r.depsCompleted = k
    BY <2>4 DEF Record
  <2> QED BY <1>2, <2>3, <2>5
<1> QED BY <1>1, <1>2

(* A hash whose count is right: each child once, and none both parked and counted. *)
Tallied(h) == h.depsCompleted = Cardinality(h.depdone) /\ h.depearly \cap h.depdone = {}

LEMMA EarlyTallied ==
  ASSUME NEW h \in Record, NEW d \in SUBSET Jobs, Tallied(h)
  PROVE  Tallied(CountEarly(h, d)) /\ Seen(CountEarly(h, d)) = Seen(h)
<1> DEFINE r == CountEarly(h, d)
           m == h.depearly \cap d
<1>1. /\ r.depdone = h.depdone \cup m /\ r.depearly = h.depearly \ d
      /\ r.depsCompleted = h.depsCompleted + Cardinality(m \ h.depdone)
  BY CountEarlyFacts
<1>2. IsFiniteSet(h.depdone) /\ IsFiniteSet(m) /\ h.depdone \cap m = {} /\ m \ h.depdone = m
  BY JobsAssumption, FS_Subset DEF Record, Tallied
<1>3. Cardinality(h.depdone \cup m) = Cardinality(h.depdone) + Cardinality(m)
  <2>1. Cardinality(h.depdone \cup m) = Cardinality(h.depdone) + Cardinality(m) - Cardinality(h.depdone \cap m)
    BY <1>2, FS_Union
  <2>2. Cardinality(h.depdone \cap m) = 0
    BY <1>2, FS_EmptySet
  <2> QED BY <1>2, <2>1, <2>2, FS_CardinalityType
<1>4. r.depsCompleted = Cardinality(r.depdone)
  BY <1>1, <1>2, <1>3 DEF Tallied
<1> QED BY <1>1, <1>4 DEF Tallied, Seen

LEMMA OnceTallied ==
  ASSUME NEW h \in Record, NEW c \in Jobs, Tallied(h), c \notin h.depearly
  PROVE  Tallied(CountOnce(h, c)) /\ Seen(CountOnce(h, c)) = Seen(h) \cup {c}
<1> DEFINE r == CountOnce(h, c)
<1>1. /\ r.depdone = h.depdone \cup {c} /\ r.depearly = h.depearly
      /\ r.depsCompleted = h.depsCompleted + (IF c \in h.depdone THEN 0 ELSE 1)
  BY CountOnceFacts
<1>2. IsFiniteSet(h.depdone)
  BY JobsAssumption, FS_Subset DEF Record
<1>3. Cardinality(h.depdone) \in Nat
        /\ Cardinality(h.depdone \cup {c}) = Cardinality(h.depdone) + (IF c \in h.depdone THEN 0 ELSE 1)
  BY <1>2, FS_AddElement, FS_CardinalityType
<1> QED BY <1>1, <1>3 DEF Tallied, Seen

LEMMA ReleaseTallied ==
  ASSUME NEW h \in Record, NEW d, Tallied(h)
  PROVE  Tallied(ReleaseIfReady(h, d)) /\ Seen(ReleaseIfReady(h, d)) = Seen(h)
BY ReleaseFacts DEF Tallied, Seen

(* What the hash of a parent with deps d becomes when child c reports.        *)
LEMMA ReportedFacts ==
  ASSUME NEW h \in Record, NEW d \in SUBSET Jobs, NEW c \in Jobs
  PROVE  LET r == Reported(h, d, c)
         IN  /\ Onward(h, r)
             /\ ~Exists(h) => r = h
             /\ r.state /= h.state => Cardinality(d) <= r.depsCompleted
             /\ r.depdone \subseteq h.depdone \cup (d \cap (h.depearly \cup {c}))
             /\ Exists(h) /\ h.depdone \subseteq d /\ Tallied(h) => Tallied(r) /\ Seen(r) = Seen(h) \cup {c}
<1> DEFINE e == CountEarly(h, d)
           k == CountOnce(e, c)
           r == Reported(h, d, c)
<1>1. /\ e \in Record /\ e.parentId = h.parentId /\ e.state = h.state
      /\ e.depdone = h.depdone \cup (h.depearly \cap d) /\ e.depearly = h.depearly \ d
  BY CountEarlyFacts
<1>2. /\ k \in Record /\ k.parentId = e.parentId /\ k.state = e.state
      /\ k.depdone = e.depdone \cup {c} /\ k.depearly = e.depearly
  BY <1>1, CountOnceFacts
<1>3. ASSUME c \in d, Tallied(h) PROVE Tallied(k) /\ Seen(k) = Seen(h) \cup {c}
  BY <1>1, <1>3, EarlyTallied, OnceTallied
<1>4. r = IF ~Exists(h) THEN h
          ELSE IF c \notin d THEN [h EXCEPT !.depearly = @ \cup {c}]
          ELSE IF k.depsCompleted = h.depsCompleted THEN k ELSE ReleaseIfReady(k, d)
  BY DEF Reported
<1> HIDE DEF e, k, r
<1>5. CASE ~Exists(h)
  BY <1>4, <1>5 DEF Onward, r
<1>6. CASE Exists(h) /\ c \notin d
  <2>1. r = [h EXCEPT !.depearly = h.depearly \cup {c}] /\ h.depearly \cup {c} \in SUBSET Jobs
    BY <1>4, <1>6 DEF Record
  <2>2. /\ r \in Record /\ r.parentId = h.parentId /\ r.state = h.state
        /\ r.depdone = h.depdone /\ r.depearly = h.depearly \cup {c}
        /\ r.depsCompleted = h.depsCompleted
    BY <2>1 DEF Record
  <2> QED BY <1>6, <2>2 DEF Onward, Tallied, Seen, r
<1>7. CASE Exists(h) /\ c \in d /\ r = k
  BY <1>1, <1>2, <1>3, <1>7 DEF Onward, r
<1>8. CASE Exists(h) /\ c \in d /\ r = ReleaseIfReady(k, d)
  <2>1. /\ Onward(k, r) /\ r.depdone = k.depdone
        /\ r.state /= k.state => Cardinality(d) <= r.depsCompleted
    BY <1>2, <1>8, ReleaseFacts
  <2>2. Tallied(k) => Tallied(r) /\ Seen(r) = Seen(k)
    BY <1>2, <1>8, ReleaseTallied
  <2> QED BY <1>1, <1>2, <1>3, <1>8, <2>1, <2>2 DEF Onward, r
<1> QED BY <1>4, <1>5, <1>6, <1>7, <1>8

(* What becomes of it when its early children are counted again: countEarlyDeps *)
(* and then, if any was counted, releaseParentIfReady.                          *)
Healed(h, d) ==
  LET e == CountEarly(h, d)
  IN  IF e.depsCompleted /= h.depsCompleted THEN ReleaseIfReady(e, d) ELSE e

LEMMA HealedFacts ==
  ASSUME NEW h \in Record, NEW d \in SUBSET Jobs
  PROVE  LET r == Healed(h, d)
         IN  /\ Onward(h, r)
             /\ r.state /= h.state => Cardinality(d) <= r.depsCompleted
             /\ r.depdone = h.depdone \cup (h.depearly \cap d) /\ r.depearly = h.depearly \ d
             /\ Tallied(h) => Tallied(r) /\ Seen(r) = Seen(h)
<1> DEFINE e == CountEarly(h, d)
           r == Healed(h, d)
<1>1. /\ e \in Record /\ e.parentId = h.parentId /\ e.state = h.state
      /\ e.depdone = h.depdone \cup (h.depearly \cap d) /\ e.depearly = h.depearly \ d
  BY CountEarlyFacts
<1>2. Tallied(h) => Tallied(e) /\ Seen(e) = Seen(h)
  BY EarlyTallied
<1>3. r = ReleaseIfReady(e, d) \/ r = e
  BY DEF Healed
<1> HIDE DEF e, r
<1>4. CASE r = e
  BY <1>1, <1>2, <1>4 DEF Onward, r
<1>5. CASE r = ReleaseIfReady(e, d)
  <2>1. /\ Onward(e, r) /\ r.depdone = e.depdone /\ r.depearly = e.depearly
        /\ r.state /= e.state => Cardinality(d) <= r.depsCompleted
    BY <1>1, <1>5, ReleaseFacts
  <2>2. Tallied(e) => Tallied(r) /\ Seen(r) = Seen(e)
    BY <1>1, <1>5, ReleaseTallied
  <2> QED BY <1>1, <1>2, <2>1, <2>2 DEF Onward, r
<1> QED BY <1>3, <1>4, <1>5

-----------------------------------------------------------------------------
(* What every step keeps: the shape of the variables, one stream entry for a *)
(* waiting job and none for another, and edges that the flow really has.     *)

Due(h) == IF h.state = "waiting" THEN 1 ELSE 0

Shaped(j) ==
  /\ job[j].parentId = Nobody \/ job[j].parentId \in Up[j]
  /\ parents[j] \subseteq Up[j]
  /\ stage[j] \in {"new", "reserved"} => job[j].state = "none"
  /\ stage[j] \notin {"new", "reserved", "done"} => Up[j] /= {}

Basic == flow \in Flows /\ TypeOK /\ ReleasedOnce /\ \A j \in Jobs : Shaped(j)

(* Basic of the next state, over the flow of this one. *)
BasicAfter ==
  /\ job' \in [Jobs -> Record]
  /\ parents' \in [Jobs -> SUBSET Jobs] /\ deps' \in [Jobs -> SUBSET Jobs]
  /\ stream' \in [Jobs -> Nat]
  /\ earlyIndex' \subseteq Jobs /\ xqPending' \subseteq Edges /\ told' \subseteq xqPending'
  /\ stage' \in [Jobs -> Stages] /\ todo' \in [Jobs -> SUBSET Jobs] /\ resolved' \subseteq Jobs
  /\ \A j \in Jobs :
       /\ stream'[j] = Due(job'[j])
       /\ job'[j].parentId = Nobody \/ job'[j].parentId \in Up[j]
       /\ parents'[j] \subseteq Up[j]
       /\ stage'[j] \in {"new", "reserved"} => job'[j].state = "none"
       /\ stage'[j] \notin {"new", "reserved", "done"} => Up[j] /= {}

LEMMA BasicFacts ==
  ASSUME Basic
  PROVE  /\ flow \in Flows /\ job \in [Jobs -> Record]
         /\ parents \in [Jobs -> SUBSET Jobs] /\ deps \in [Jobs -> SUBSET Jobs]
         /\ stream \in [Jobs -> Nat]
         /\ earlyIndex \subseteq Jobs /\ xqPending \subseteq Edges /\ told \subseteq xqPending
         /\ stage \in [Jobs -> Stages] /\ todo \in [Jobs -> SUBSET Jobs] /\ resolved \subseteq Jobs
         /\ \A j \in Jobs :
              /\ stream[j] = Due(job[j])
              /\ job[j].parentId = Nobody \/ job[j].parentId \in Up[j]
              /\ parents[j] \subseteq Up[j]
              /\ stage[j] \in {"new", "reserved"} => job[j].state = "none"
              /\ stage[j] \notin {"new", "reserved", "done"} => Up[j] /= {}
         /\ Up \in [Jobs -> SUBSET Jobs] /\ \A j \in Jobs : j \notin Up[j] /\ Told(j) \subseteq Up[j]
BY FlowFacts DEF Basic, TypeOK, Record, ReleasedOnce, Due, Shaped, Told, TreeEdge

LEMMA BasicKept ==
  ASSUME flow \in Flows, UNCHANGED flow, BasicAfter
  PROVE  Basic'
<1>1. Edges' = Edges /\ Up' = Up
  BY FlowKept
<1>2. TypeOK' /\ ReleasedOnce'
  BY <1>1 DEF BasicAfter, TypeOK, Record, ReleasedOnce, Due
<1>3. \A j \in Jobs : Shaped(j)'
  BY <1>1 DEF BasicAfter, Shaped
<1> QED BY <1>2, <1>3 DEF Basic

LEMMA HashFacts ==
  ASSUME NEW s \in States
  PROVE  /\ Hash(s) \in Record /\ Hash(s).state = s /\ Hash(s).parentId = Nobody
         /\ Hash(s).depdone = {} /\ Hash(s).depearly = {} /\ Hash(s).depsCompleted = 0
BY DEF Hash, Record

(* A hash with another state or another parent field. *)
LEMMA StateSet ==
  ASSUME NEW h \in Record, NEW s \in States
  PROVE  LET r == [h EXCEPT !.state = s]
         IN  /\ r \in Record /\ r.state = s /\ r.parentId = h.parentId /\ r.depdone = h.depdone
             /\ r.depearly = h.depearly /\ r.depsCompleted = h.depsCompleted
BY DEF Record

LEMMA ParentSet ==
  ASSUME NEW h \in Record, NEW p \in Jobs \cup {Nobody}
  PROVE  LET r == [h EXCEPT !.parentId = p]
         IN  /\ r \in Record /\ r.parentId = p /\ r.state = h.state /\ r.depdone = h.depdone
             /\ r.depearly = h.depearly /\ r.depsCompleted = h.depsCompleted
BY DEF Record

LEMMA EnqueuedFacts ==
  ASSUME stream \in [Jobs -> Nat], NEW old, NEW new
  PROVE  /\ Enqueued(old, new) \in [Jobs -> Nat]
         /\ \A j \in Jobs : Onward(old[j], new[j]) /\ stream[j] = Due(old[j])
                            => Enqueued(old, new)[j] = Due(new[j])
BY DEF Enqueued, Onward, Due

LEMMA OnwardSelf ==
  ASSUME NEW h \in Record
  PROVE  Onward(h, h)
BY DEF Onward

(* A child reports to one parent. *)
LEMMA ReportToFacts ==
  ASSUME Basic, NEW p \in Jobs, NEW d \in SUBSET Jobs, NEW c \in Jobs, ReportTo(p, d, c)
  PROVE  /\ job' \in [Jobs -> Record] /\ stream' \in [Jobs -> Nat] /\ earlyIndex' \subseteq Jobs
         /\ \A j \in Jobs : Onward(job[j], job'[j]) /\ stream'[j] = Due(job'[j])
         /\ job'[p] = Reported(job[p], d, c) /\ \A j \in Jobs \ {p} : job'[j] = job[j]
         /\ earlyIndex \subseteq earlyIndex'
         /\ \A j \in Jobs : ~(job'[j].depearly \subseteq job[j].depearly) => j \in earlyIndex'
<1>1. job \in [Jobs -> Record] /\ stream \in [Jobs -> Nat] /\ earlyIndex \subseteq Jobs
      /\ \A j \in Jobs : stream[j] = Due(job[j])
  BY BasicFacts
<1>2. Onward(job[p], Reported(job[p], d, c))
  BY <1>1, ReportedFacts
<1>3. job' = [job EXCEPT ![p] = Reported(job[p], d, c)]
  BY DEF ReportTo
<1>4. /\ job' \in [Jobs -> Record] /\ job'[p] = Reported(job[p], d, c)
      /\ \A j \in Jobs \ {p} : job'[j] = job[j]
  BY <1>1, <1>2, <1>3 DEF Onward
<1>5. \A j \in Jobs : Onward(job[j], job'[j])
  BY <1>1, <1>2, <1>4, OnwardSelf
<1>6. stream' = Enqueued(job, job') /\ earlyIndex' = earlyIndex \cup Parked(job')
  BY DEF ReportTo
<1>7. stream' \in [Jobs -> Nat] /\ \A j \in Jobs : stream'[j] = Due(job'[j])
  BY <1>1, <1>5, <1>6, EnqueuedFacts
<1> QED BY <1>1, <1>4, <1>5, <1>6, <1>7 DEF Parked

(* A job finishes or is removed: c's own hash becomes h, its parents here count. *)
LEMMA ReportAllFacts ==
  ASSUME Basic, NEW c \in Jobs, NEW h \in Record, h.state /= "waiting", ReportAll(c, h)
  PROVE  /\ job' \in [Jobs -> Record] /\ stream' \in [Jobs -> Nat] /\ earlyIndex' \subseteq Jobs
         /\ \A j \in Jobs : stream'[j] = Due(job'[j])
         /\ job'[c] = h /\ \A j \in Jobs \ {c} : Onward(job[j], job'[j])
         /\ \A j \in Jobs \ {c} : job'[j] = IF j \in Told(c) /\ Near(c, j)
                                           THEN Reported(job[j], deps[j], c) ELSE job[j]
         /\ earlyIndex \subseteq earlyIndex'
         /\ \A j \in Jobs : ~(job'[j].depearly \subseteq job[j].depearly) => j \in earlyIndex'
         /\ xqPending' = xqPending \cup Notes(c) /\ Notes(c) \subseteq Edges
         /\ resolved' = resolved \cup {c}
<1>1. /\ job \in [Jobs -> Record] /\ stream \in [Jobs -> Nat] /\ earlyIndex \subseteq Jobs
      /\ deps \in [Jobs -> SUBSET Jobs]
      /\ Up \in [Jobs -> SUBSET Jobs] /\ c \notin Up[c] /\ Told(c) \subseteq Up[c]
      /\ \A j \in Jobs : stream[j] = Due(job[j])
  BY BasicFacts
<1> DEFINE base == [job EXCEPT ![c] = h]
           F(j) == IF j \in Told(c) /\ Near(c, j) THEN Reported(base[j], deps[j], c) ELSE base[j]
           new == [j \in Jobs |-> F(j)]
<1>2. /\ job' = new /\ stream' = [Enqueued(base, new) EXCEPT ![c] = 0]
      /\ earlyIndex' = earlyIndex \cup Parked(new)
      /\ xqPending' = xqPending \cup Notes(c) /\ resolved' = resolved \cup {c}
  BY DEF ReportAll
<1>3. base \in [Jobs -> Record] /\ base[c] = h /\ \A j \in Jobs \ {c} : base[j] = job[j]
  BY <1>1
<1>4. new[c] = h /\ \A j \in Jobs \ {c} : new[j] = IF j \in Told(c) /\ Near(c, j)
                                           THEN Reported(job[j], deps[j], c) ELSE job[j]
  BY <1>1, <1>3
<1>5. \A j \in Jobs : Onward(base[j], new[j])
  <2> TAKE j \in Jobs
  <2>1. base[j] \in Record /\ deps[j] \in SUBSET Jobs
    BY <1>1, <1>3
  <2>2. Onward(base[j], Reported(base[j], deps[j], c)) /\ Onward(base[j], base[j])
    BY <2>1, ReportedFacts, OnwardSelf
  <2>3. new[j] = Reported(base[j], deps[j], c) \/ new[j] = base[j]
    BY Zenon
  <2> HIDE DEF base, new
  <2> QED BY <2>2, <2>3
<1>8. Enqueued(base, new) \in [Jobs -> Nat]
  BY <1>1, EnqueuedFacts
<1> HIDE DEF base, F
<1>14. new \in [Jobs -> Record]
  BY <1>5 DEF Onward
<1> HIDE DEF new
<1>7. \A j \in Jobs \ {c} : Enqueued(base, new)[j] = Due(new[j])
  <2> TAKE j \in Jobs \ {c}
  <2>1. Onward(base[j], new[j]) /\ stream[j] = Due(base[j])
    BY <1>1, <1>3, <1>5
  <2> QED BY <1>1, <2>1, EnqueuedFacts
<1>9. stream' \in [Jobs -> Nat] /\ stream'[c] = 0 /\ \A j \in Jobs \ {c} : stream'[j] = Enqueued(base, new)[j]
  BY <1>2, <1>8
<1>10. \A j \in Jobs : stream'[j] = Due(job'[j])
  BY <1>2, <1>4, <1>7, <1>9 DEF Due
<1>11. \A j \in Jobs \ {c} : Onward(job[j], job'[j])
  BY <1>2, <1>3, <1>5
<1>12. Notes(c) \subseteq Edges
  BY <1>1 DEF Notes, Edges
<1>13. Parked(new) = {j \in Jobs : ~(new[j].depearly \subseteq job[j].depearly)}
  BY DEF Parked
<1> QED BY <1>1, <1>2, <1>4, <1>9, <1>10, <1>11, <1>12, <1>13, <1>14

-----------------------------------------------------------------------------
(* Every action keeps Basic.                                                 *)

LEMMA BasicAddNestedLeaf ==
  ASSUME Basic, NEW c \in Jobs, AddNestedLeaf(c)
  PROVE  BasicAfter
<1>1. Hash("waiting") \in Record /\ Hash("waiting").state = "waiting" /\ Hash("waiting").parentId = Nobody
  BY HashFacts DEF States
<1> QED BY <1>1, BasicFacts DEF AddNestedLeaf, Untouched, BasicAfter, Due, Stages

LEMMA BasicAddFlow ==
  ASSUME Basic, NEW p \in Jobs, AddFlow(p)
  PROVE  BasicAfter
<1> DEFINE leaves == {c \in Down(p) : ~Nested(c, p)}
           g == [Hash("waiting") EXCEPT !.parentId = p]
<1>1. /\ Hash("waiting-children") \in Record /\ Hash("waiting-children").state = "waiting-children"
      /\ Hash("waiting-children").parentId = Nobody
  BY HashFacts DEF States
<1>2. g \in Record /\ g.state = "waiting" /\ g.parentId = p
  BY HashFacts, ParentSet DEF States
<1>3. /\ job' = [j \in Jobs |-> IF j = p THEN Hash("waiting-children") ELSE IF j \in leaves THEN g ELSE job[j]]
      /\ deps' = [deps EXCEPT ![p] = Down(p)]
      /\ stream' = [j \in Jobs |-> IF j \in leaves THEN 1 ELSE stream[j]]
      /\ stage' = [j \in Jobs |-> IF j \in leaves \/ (j = p /\ Up[p] = {}) THEN "done"
                                  ELSE IF j = p THEN "made" ELSE stage[j]]
      /\ todo' = [j \in Jobs |-> IF j \in leaves THEN {} ELSE todo[j]]
      /\ stage[p] = "new" /\ UNCHANGED <<parents, earlyIndex, xqPending, told, resolved>>
  BY DEF AddFlow, Untouched, Registered
<1>4. Down(p) \subseteq Jobs /\ p \notin leaves /\ \A c \in leaves : p \in Up[c]
  BY BasicFacts, FlowFacts
<1> HIDE DEF leaves, g
<1>5. /\ job' \in [Jobs -> Record] /\ deps' \in [Jobs -> SUBSET Jobs] /\ stream' \in [Jobs -> Nat]
      /\ stage' \in [Jobs -> Stages] /\ todo' \in [Jobs -> SUBSET Jobs]
  BY <1>1, <1>2, <1>3, <1>4, BasicFacts DEF Stages
<1>6. ASSUME NEW j \in Jobs
      PROVE  /\ stream'[j] = Due(job'[j])
             /\ job'[j].parentId = Nobody \/ job'[j].parentId \in Up[j]
             /\ parents'[j] \subseteq Up[j]
             /\ stage'[j] \in {"new", "reserved"} => job'[j].state = "none"
             /\ stage'[j] \notin {"new", "reserved", "done"} => Up[j] /= {}
  <2>1. CASE j = p
    BY <1>1, <1>3, <1>4, <2>1, BasicFacts DEF Due
  <2>2. CASE j \in leaves
    BY <1>2, <1>3, <1>4, <2>2, BasicFacts DEF Due
  <2>3. CASE j /= p /\ j \notin leaves
    BY <1>3, <2>3, BasicFacts
  <2> QED BY <2>1, <2>2, <2>3
<1> QED BY <1>3, <1>5, <1>6, BasicFacts DEF BasicAfter

LEMMA BasicAddNode ==
  ASSUME Basic, NEW p \in Jobs, AddNode(p)
  PROVE  BasicAfter
<1>1. /\ Hash("waiting-children") \in Record /\ Hash("waiting-children").state = "waiting-children"
      /\ Hash("waiting-children").parentId = Nobody
  BY HashFacts DEF States
<1> QED BY <1>1, BasicFacts DEF AddNode, Untouched, BasicAfter, Due, Stages

LEMMA BasicReserveLeaves ==
  ASSUME Basic, ReserveLeaves
  PROVE  BasicAfter
<1>1. deps' \in [Jobs -> SUBSET Jobs] /\ stage' \in [Jobs -> Stages]
  BY BasicFacts DEF ReserveLeaves, Reserved, Leaves, Stages
<1> QED BY <1>1, BasicFacts DEF ReserveLeaves, Untouched, BasicAfter

LEMMA BasicAddLeaf ==
  ASSUME Basic, NEW c \in Jobs, AddLeaf(c)
  PROVE  BasicAfter
<1> DEFINE whole == \E p \in Jobs : Up[c] = {p} /\ Near(c, p)
           q == IF whole THEN CHOOSE p \in Up[c] : TRUE ELSE Nobody
           g == [Hash("waiting") EXCEPT !.parentId = q]
<1>1. q \in Jobs \cup {Nobody} /\ (q = Nobody \/ q \in Up[c])
  BY BasicFacts
<1>2. g \in Record /\ g.state = "waiting" /\ g.parentId = q
  BY <1>1, HashFacts, ParentSet DEF States
<1>3. /\ job' = [job EXCEPT ![c] = g]
      /\ deps' = [p \in Jobs |-> IF whole /\ p \in Up[c] THEN deps[p] \cup {c} ELSE deps[p]]
      /\ stream' = [stream EXCEPT ![c] = 1]
      /\ stage' = [stage EXCEPT ![c] = IF whole \/ Up[c] = {} THEN "done" ELSE "made"]
      /\ todo' = [todo EXCEPT ![c] = IF whole THEN {} ELSE @]
      /\ UNCHANGED <<parents, earlyIndex, xqPending, told, resolved>>
  BY DEF AddLeaf, Untouched
<1> HIDE DEF whole, q, g
<1>4. job' \in [Jobs -> Record] /\ deps' \in [Jobs -> SUBSET Jobs] /\ stage' \in [Jobs -> Stages]
      /\ todo' \in [Jobs -> SUBSET Jobs] /\ stream' \in [Jobs -> Nat]
  BY <1>2, <1>3, BasicFacts DEF Stages
<1> QED BY <1>1, <1>2, <1>3, <1>4, BasicFacts DEF BasicAfter, Due

LEMMA BasicCheck ==
  ASSUME Basic, NEW c \in Jobs, Check(c)
  PROVE  BasicAfter
<1>1. deps' \in [Jobs -> SUBSET Jobs] /\ stage' \in [Jobs -> Stages]
  BY BasicFacts DEF Check, Stages
<1> QED BY <1>1, BasicFacts DEF Check, Untouched, BasicAfter

LEMMA BasicWrite ==
  ASSUME Basic, NEW c \in Jobs, Write(c)
  PROVE  BasicAfter
<1> DEFINE h == IF Exists(job[c]) THEN job[c] ELSE Hash("ghost")
           q == IF Dag THEN h.parentId ELSE CHOOSE p \in Up[c] : TRUE
           g == [h EXCEPT !.parentId = q]
<1>1. /\ h \in Record
      /\ h.parentId = Nobody \/ h.parentId \in Up[c]
      /\ h.state = IF Exists(job[c]) THEN job[c].state ELSE "ghost"
  BY HashFacts, BasicFacts DEF States, Exists
<1>2. Up[c] /= {} /\ stage[c] = "found" /\ Up[c] \subseteq Jobs
  BY BasicFacts DEF Write
<1>3. q \in Jobs \cup {Nobody} /\ (q = Nobody \/ q \in Up[c])
  BY <1>1, <1>2
<1> HIDE DEF h
<1>4. /\ job' = [job EXCEPT ![c] = [h EXCEPT !.parentId = IF Dag THEN @ ELSE CHOOSE p \in Up[c] : TRUE]]
      /\ stage' = [stage EXCEPT ![c] = "written"]
      /\ UNCHANGED <<parents, deps, stream, earlyIndex, todo, xqPending, told, resolved>>
  BY DEF Write, Untouched, h
<1>5. job' = [job EXCEPT ![c] = g]
  BY <1>4
<1> HIDE DEF q
<1>6. g \in Record /\ g.state = h.state /\ g.parentId = q
  BY <1>1, <1>3, ParentSet
<1> HIDE DEF g
<1>7. Due(g) = Due(job[c])
  BY <1>1, <1>6, BasicFacts DEF Due, Exists
<1>8. stage' \in [Jobs -> Stages]
  BY <1>4, BasicFacts DEF Stages
<1>10. job' \in [Jobs -> Record]
  BY <1>5, <1>6, BasicFacts
<1>9. \A j \in Jobs : stream'[j] = Due(job'[j]) /\ (job'[j].parentId = Nobody \/ job'[j].parentId \in Up[j])
  BY <1>3, <1>4, <1>5, <1>6, <1>7, BasicFacts, ZenonT(60)
<1> QED BY <1>2, <1>4, <1>5, <1>8, <1>9, <1>10, BasicFacts DEF BasicAfter

LEMMA BasicLink ==
  ASSUME Basic, NEW c \in Jobs, Link(c)
  PROVE  BasicAfter
<1>1. parents' \in [Jobs -> SUBSET Jobs] /\ stage' \in [Jobs -> Stages]
  BY BasicFacts DEF Link, Stages
<1> QED BY <1>1, BasicFacts DEF Link, Untouched, BasicAfter

LEMMA BasicLook ==
  ASSUME Basic, NEW c \in Jobs, Look(c)
  PROVE  BasicAfter
<1>1. Hash("none") \in Record /\ Hash("none").state = "none" /\ Hash("none").parentId = Nobody
  BY HashFacts DEF States
<1> QED BY <1>1, BasicFacts DEF Look, Untouched, BasicAfter, Due, Stages

LEMMA FinishFacts ==
  ASSUME Basic, NEW c \in Jobs, NEW p, Finish(c, p), stage[c] \notin {"new", "reserved", "done"}
  PROVE  /\ stage' \in [Jobs -> Stages] /\ todo' \in [Jobs -> SUBSET Jobs]
         /\ todo'[c] = todo[c] \ {p} /\ stage'[c] = IF todo[c] = {p} THEN "done" ELSE stage[c]
         /\ \A j \in Jobs \ {c} : todo'[j] = todo[j] /\ stage'[j] = stage[j]
BY BasicFacts DEF Finish, Stages

LEMMA BasicReportErased ==
  ASSUME Basic, NEW c \in Jobs, NEW p \in Up[c], ReportErased(c, p)
  PROVE  BasicAfter
<1>1. p \in Jobs /\ stage[c] = "erased"
  BY BasicFacts DEF ReportErased
<1>2. ReportTo(p, deps[p] \cup {c}, c) /\ deps[p] \cup {c} \in SUBSET Jobs
  BY <1>1, BasicFacts DEF ReportErased
<1>3. /\ job' \in [Jobs -> Record] /\ stream' \in [Jobs -> Nat] /\ earlyIndex' \subseteq Jobs
      /\ \A j \in Jobs : Onward(job[j], job'[j]) /\ stream'[j] = Due(job'[j])
  BY <1>1, <1>2, ReportToFacts
<1>4. Finish(c, p)
  BY DEF ReportErased
<1>5. deps' \in [Jobs -> SUBSET Jobs] /\ UNCHANGED <<parents, xqPending, told, resolved>>
  BY <1>1, BasicFacts DEF ReportErased, Untouched
<1> QED BY <1>1, <1>3, <1>4, <1>5, BasicFacts, FinishFacts DEF BasicAfter, Onward

(* What a report, or none, does to the jobs. *)
LEMMA RegisterFacts ==
  ASSUME Basic, NEW c \in Jobs, NEW p \in Up[c], Register(c, p)
  PROVE  /\ job' \in [Jobs -> Record] /\ stream' \in [Jobs -> Nat] /\ earlyIndex' \subseteq Jobs
         /\ \A j \in Jobs : Onward(job[j], job'[j]) /\ stream'[j] = Due(job'[j])
         /\ job'[p] = IF job[c].state \in {"none", "completed"} THEN Reported(job[p], deps[p] \cup {c}, c) ELSE job[p]
         /\ \A j \in Jobs \ {p} : job'[j] = job[j]
         /\ deps' \in [Jobs -> SUBSET Jobs] /\ parents' \in [Jobs -> SUBSET Jobs]
         /\ deps' = [deps EXCEPT ![p] = @ \cup {c}]
         /\ parents' = IF Exists(job[c]) THEN [parents EXCEPT ![c] = @ \cup {p}] ELSE parents
         /\ earlyIndex \subseteq earlyIndex'
         /\ \A j \in Jobs : ~(job'[j].depearly \subseteq job[j].depearly) => j \in earlyIndex'
         /\ p \in Jobs /\ stage[c] = "present" /\ p \in todo[c] /\ Near(c, p) /\ Finish(c, p)
         /\ UNCHANGED <<xqPending, told, resolved>>
<1>1. p \in Jobs /\ p \in Up[c] /\ deps[p] \cup {c} \in SUBSET Jobs
  BY BasicFacts
<1>2. /\ deps' = [deps EXCEPT ![p] = @ \cup {c}]
      /\ parents' = IF Exists(job[c]) THEN [parents EXCEPT ![c] = @ \cup {p}] ELSE parents
  BY DEF Register, RegisterParent
<1>3. deps' \in [Jobs -> SUBSET Jobs] /\ parents' \in [Jobs -> SUBSET Jobs]
  BY <1>1, <1>2, BasicFacts
<1>4. /\ stage[c] = "present" /\ p \in todo[c] /\ Near(c, p) /\ Finish(c, p)
      /\ UNCHANGED <<xqPending, told, resolved>>
  BY DEF Register, Untouched
<1>5. CASE job[c].state \in {"none", "completed"}
  <2>1. ReportTo(p, deps[p] \cup {c}, c)
    BY <1>5 DEF Register, RegisterParent
  <2>2. /\ job' \in [Jobs -> Record] /\ stream' \in [Jobs -> Nat] /\ earlyIndex' \subseteq Jobs
        /\ \A j \in Jobs : Onward(job[j], job'[j]) /\ stream'[j] = Due(job'[j])
        /\ job'[p] = Reported(job[p], deps[p] \cup {c}, c) /\ \A j \in Jobs \ {p} : job'[j] = job[j]
        /\ earlyIndex \subseteq earlyIndex'
        /\ \A j \in Jobs : ~(job'[j].depearly \subseteq job[j].depearly) => j \in earlyIndex'
    BY <1>1, <2>1, ReportToFacts
  <2> QED BY <1>1, <1>2, <1>3, <1>4, <1>5, <2>2
<1>6. CASE job[c].state \notin {"none", "completed"}
  <2>1. UNCHANGED <<job, stream, earlyIndex>>
    BY <1>6 DEF Register, RegisterParent
  <2>2. \A j \in Jobs : Onward(job[j], job'[j]) /\ stream'[j] = Due(job'[j])
    BY <2>1, OnwardSelf, BasicFacts
  <2> QED BY <1>1, <1>2, <1>3, <1>4, <1>6, <2>1, <2>2, BasicFacts
<1> QED BY <1>5, <1>6

LEMMA BasicRegister ==
  ASSUME Basic, NEW c \in Jobs, NEW p \in Up[c], Register(c, p)
  PROVE  BasicAfter
<1>1. /\ job' \in [Jobs -> Record] /\ stream' \in [Jobs -> Nat] /\ earlyIndex' \subseteq Jobs
      /\ \A j \in Jobs : Onward(job[j], job'[j]) /\ stream'[j] = Due(job'[j])
      /\ deps' \in [Jobs -> SUBSET Jobs] /\ parents' \in [Jobs -> SUBSET Jobs]
      /\ parents' = IF Exists(job[c]) THEN [parents EXCEPT ![c] = @ \cup {p}] ELSE parents
      /\ stage[c] = "present" /\ Finish(c, p) /\ UNCHANGED <<xqPending, told, resolved>>
  BY RegisterFacts
<1>2. \A j \in Jobs : parents'[j] \subseteq Up[j]
  BY <1>1, BasicFacts
<1> QED BY <1>1, <1>2, BasicFacts, FinishFacts DEF BasicAfter, Onward

LEMMA BasicReportMissing ==
  ASSUME Basic, NEW c \in Jobs, NEW p \in Up[c], ReportMissing(c, p)
  PROVE  BasicAfter
<1>1. p \in Jobs /\ stage[c] = "missing" /\ deps[p] \in SUBSET Jobs
  BY BasicFacts DEF ReportMissing
<1>2. /\ ReportTo(p, deps[p], c) /\ Finish(c, p)
      /\ UNCHANGED <<parents, deps, xqPending, told, resolved>>
  BY DEF ReportMissing, Untouched
<1>3. /\ job' \in [Jobs -> Record] /\ stream' \in [Jobs -> Nat] /\ earlyIndex' \subseteq Jobs
      /\ \A j \in Jobs : Onward(job[j], job'[j]) /\ stream'[j] = Due(job'[j])
  BY <1>1, <1>2, ReportToFacts
<1> QED BY <1>1, <1>2, <1>3, BasicFacts, FinishFacts DEF BasicAfter, Onward

LEMMA RecheckFacts ==
  ASSUME Basic, NEW c \in Jobs, NEW p \in Up[c], Recheck(c, p)
  PROVE  LET gone == ~Dag /\ job[c].state \in {"none", "ghost"}
         IN  /\ job' \in [Jobs -> Record] /\ stream' \in [Jobs -> Nat] /\ earlyIndex' \subseteq Jobs
             /\ \A j \in Jobs : stream'[j] = Due(job'[j])
             /\ job'[c] = IF gone THEN Hash("none") ELSE job[c]
             /\ job'[p] = IF Over(c) THEN Reported(job[p], deps[p], c) ELSE job[p]
             /\ \A j \in Jobs \ {c, p} : job'[j] = job[j]
             /\ \A j \in Jobs \ {c} : Onward(job[j], job'[j])
             /\ parents' = IF gone THEN [parents EXCEPT ![c] = {}] ELSE parents
             /\ earlyIndex \subseteq earlyIndex'
             /\ \A j \in Jobs : ~(job'[j].depearly \subseteq job[j].depearly) => j \in earlyIndex'
             /\ p \in Jobs /\ p /= c /\ stage[c] = "present" /\ p \in todo[c] /\ ~Near(c, p) /\ Finish(c, p)
             /\ UNCHANGED <<deps, xqPending, told, resolved>>
<1> DEFINE gone == ~Dag /\ job[c].state \in {"none", "ghost"}
           kept == IF gone THEN [job EXCEPT ![c] = Hash("none")] ELSE job
           new  == IF Over(c) THEN [kept EXCEPT ![p] = Reported(kept[p], deps[p], c)] ELSE kept
<1>1. /\ p \in Jobs /\ p /= c /\ job \in [Jobs -> Record] /\ stream \in [Jobs -> Nat] /\ earlyIndex \subseteq Jobs
      /\ \A j \in Jobs : stream[j] = Due(job[j]) /\ deps[j] \in SUBSET Jobs
  BY BasicFacts
<1>2. /\ job' = new /\ stream' = Enqueued(kept, new) /\ earlyIndex' = earlyIndex \cup Parked(new)
      /\ parents' = IF gone THEN [parents EXCEPT ![c] = {}] ELSE parents
      /\ stage[c] = "present" /\ p \in todo[c] /\ ~Near(c, p) /\ Finish(c, p)
      /\ UNCHANGED <<deps, xqPending, told, resolved>>
  BY DEF Recheck, Untouched
<1>3. Hash("none") \in Record /\ Hash("none").state = "none"
  BY HashFacts DEF States
<1> HIDE DEF gone
<1>4. /\ kept \in [Jobs -> Record] /\ kept[c] = IF gone THEN Hash("none") ELSE job[c]
      /\ \A j \in Jobs \ {c} : kept[j] = job[j]
  BY <1>1, <1>3
<1>5. \A j \in Jobs : stream[j] = Due(kept[j])
  BY <1>1, <1>3, <1>4 DEF Due, gone
<1> HIDE DEF kept
<1>6. Onward(job[p], Reported(job[p], deps[p], c))
  BY <1>1, ReportedFacts
<1>7. /\ new \in [Jobs -> Record] /\ new[p] = IF Over(c) THEN Reported(job[p], deps[p], c) ELSE job[p]
      /\ \A j \in Jobs \ {p} : new[j] = kept[j]
  BY <1>1, <1>4, <1>6 DEF Onward
<1> HIDE DEF new
<1>8. \A j \in Jobs : Onward(kept[j], new[j])
  BY <1>1, <1>4, <1>6, <1>7, OnwardSelf
<1>9. Enqueued(kept, new) \in [Jobs -> Nat] /\ \A j \in Jobs : Enqueued(kept, new)[j] = Due(new[j])
  BY <1>1, <1>5, <1>8, EnqueuedFacts
<1>10. \A j \in Jobs \ {c} : Onward(job[j], new[j])
  BY <1>4, <1>8
<1>11. Parked(new) = {j \in Jobs : ~(new[j].depearly \subseteq job[j].depearly)}
  BY DEF Parked
<1>12. /\ job'[c] = IF gone THEN Hash("none") ELSE job[c]
       /\ \A j \in Jobs \ {c, p} : job'[j] = job[j]
  BY <1>1, <1>2, <1>4, <1>7
<1> QED BY <1>1, <1>2, <1>7, <1>9, <1>10, <1>11, <1>12 DEF gone

LEMMA BasicRecheck ==
  ASSUME Basic, NEW c \in Jobs, NEW p \in Up[c], Recheck(c, p)
  PROVE  BasicAfter
<1> DEFINE gone == ~Dag /\ job[c].state \in {"none", "ghost"}
<1>1. /\ job' \in [Jobs -> Record] /\ stream' \in [Jobs -> Nat] /\ earlyIndex' \subseteq Jobs
      /\ \A j \in Jobs : stream'[j] = Due(job'[j])
      /\ job'[c] = IF gone THEN Hash("none") ELSE job[c]
      /\ \A j \in Jobs \ {c} : Onward(job[j], job'[j])
      /\ parents' = IF gone THEN [parents EXCEPT ![c] = {}] ELSE parents
      /\ stage[c] = "present" /\ Finish(c, p)
      /\ UNCHANGED <<deps, xqPending, told, resolved>>
  BY RecheckFacts
<1> HIDE DEF gone
<1>2. Hash("none").parentId = Nobody
  BY HashFacts DEF States
<1>3. \A j \in Jobs : job'[j].parentId = Nobody \/ job'[j].parentId \in Up[j]
  BY <1>1, <1>2, BasicFacts DEF Onward
<1>4. parents' \in [Jobs -> SUBSET Jobs] /\ \A j \in Jobs : parents'[j] \subseteq Up[j]
  BY <1>1, BasicFacts
<1> QED BY <1>1, <1>3, <1>4, BasicFacts, FinishFacts DEF BasicAfter, Onward

LEMMA BasicAddLate ==
  ASSUME Basic, NEW c \in Jobs, AddLate(c)
  PROVE  BasicAfter
<1>1. PICK p \in Jobs : Up[c] = {p} /\ p = CHOOSE q \in Up[c] : TRUE
  BY BasicFacts, FlowFacts DEF AddLate
<1> DEFINE g == [Hash("waiting") EXCEPT !.parentId = p]
<1>2. g \in Record /\ g.state = "waiting" /\ g.parentId = p
  BY HashFacts, ParentSet DEF States
<1>3. /\ job' = [job EXCEPT ![c] = g]
      /\ stream' = [stream EXCEPT ![c] = 1]
      /\ deps' = [deps EXCEPT ![p] = IF Near(c, p) THEN @ \cup {c} ELSE @]
      /\ stage' = [stage EXCEPT ![c] = IF Near(c, p) THEN "done" ELSE "made"]
      /\ todo' = [todo EXCEPT ![c] = IF Near(c, p) THEN {} ELSE @]
      /\ UNCHANGED <<parents, earlyIndex, xqPending, told, resolved>>
  BY <1>1 DEF AddLate, Untouched
<1> HIDE DEF g
<1>4. job' \in [Jobs -> Record] /\ deps' \in [Jobs -> SUBSET Jobs] /\ stage' \in [Jobs -> Stages]
      /\ todo' \in [Jobs -> SUBSET Jobs] /\ stream' \in [Jobs -> Nat]
  BY <1>2, <1>3, BasicFacts DEF Stages
<1> QED BY <1>1, <1>2, <1>3, <1>4, BasicFacts DEF BasicAfter, Due

LEMMA RegisterLateFacts ==
  ASSUME Basic, NEW c \in Jobs, NEW plain \in BOOLEAN, RegisterLate(c, plain)
  PROVE  \E p \in Jobs :
           /\ Up[c] = {p} /\ c \in Late /\ stage[c] = "made" /\ Finish(c, p)
           /\ deps[p] \cup {c} \in SUBSET Jobs /\ deps' = [deps EXCEPT ![p] = deps[p] \cup {c}]
           /\ job' \in [Jobs -> Record] /\ stream' \in [Jobs -> Nat]
           /\ \A j \in Jobs : Onward(job[j], job'[j]) /\ stream'[j] = Due(job'[j])
           /\ job'[p] = job[p] \/ (Exists(job[p]) /\ job'[p] = Healed(job[p], deps[p] \cup {c}))
           /\ \A j \in Jobs \ {p} : job'[j] = job[j]
           /\ UNCHANGED <<parents, earlyIndex, xqPending, told, resolved>>
<1>1. PICK p \in Jobs : Up[c] = {p} /\ p = CHOOSE q \in Up[c] : TRUE
  BY BasicFacts, FlowFacts DEF RegisterLate
<1> DEFINE d == deps[p] \cup {c}
           new == IF plain \/ ~Exists(job[p]) THEN job ELSE [job EXCEPT ![p] = Healed(job[p], d)]
<1>2. /\ c \in Late /\ stage[c] = "made" /\ Finish(c, p)
      /\ deps' = [deps EXCEPT ![p] = d]
      /\ job' = new /\ stream' = Enqueued(job, new)
      /\ UNCHANGED <<parents, earlyIndex, xqPending, told, resolved>>
  BY <1>1 DEF RegisterLate, Healed, Untouched
<1>3. /\ job \in [Jobs -> Record] /\ stream \in [Jobs -> Nat] /\ d \in SUBSET Jobs
      /\ \A j \in Jobs : stream[j] = Due(job[j])
  BY BasicFacts
<1>4. Onward(job[p], Healed(job[p], d))
  BY <1>3, HealedFacts
<1>5. /\ new \in [Jobs -> Record] /\ \A j \in Jobs \ {p} : new[j] = job[j]
      /\ new[p] = job[p] \/ (Exists(job[p]) /\ new[p] = Healed(job[p], d))
  BY <1>3, <1>4 DEF Onward
<1> HIDE DEF new
<1>6. \A j \in Jobs : Onward(job[j], new[j])
  BY <1>3, <1>4, <1>5, OnwardSelf
<1>7. Enqueued(job, new) \in [Jobs -> Nat] /\ \A j \in Jobs : Enqueued(job, new)[j] = Due(new[j])
  BY <1>3, <1>6, EnqueuedFacts
<1> QED BY <1>1, <1>2, <1>3, <1>5, <1>6, <1>7

LEMMA BasicRegisterLate ==
  ASSUME Basic, NEW c \in Jobs, NEW plain \in BOOLEAN, RegisterLate(c, plain)
  PROVE  BasicAfter
<1>1. PICK p \in Jobs :
        /\ stage[c] = "made" /\ Finish(c, p)
        /\ deps[p] \cup {c} \in SUBSET Jobs /\ deps' = [deps EXCEPT ![p] = deps[p] \cup {c}]
        /\ job' \in [Jobs -> Record] /\ stream' \in [Jobs -> Nat]
        /\ \A j \in Jobs : Onward(job[j], job'[j]) /\ stream'[j] = Due(job'[j])
        /\ UNCHANGED <<parents, earlyIndex, xqPending, told, resolved>>
  BY RegisterLateFacts
<1>2. deps' \in [Jobs -> SUBSET Jobs]
  BY <1>1, BasicFacts
<1> QED BY <1>1, <1>2, BasicFacts, FinishFacts DEF BasicAfter, Onward

LEMMA BasicActivate ==
  ASSUME Basic, NEW j \in Jobs, Activate(j)
  PROVE  BasicAfter
<1> DEFINE g == [job[j] EXCEPT !.state = "active"]
<1>1. g \in Record /\ g.state = "active" /\ g.parentId = job[j].parentId
  <2>1. job[j] \in Record /\ "active" \in States
    BY BasicFacts DEF States
  <2> QED BY <2>1, StateSet
<1>2. /\ job' = [job EXCEPT ![j] = g] /\ stream' = [stream EXCEPT ![j] = @ - 1] /\ job[j].state = "waiting"
      /\ UNCHANGED <<parents, deps, earlyIndex, stage, todo, xqPending, told, resolved>>
  BY DEF Activate, Untouched
<1>3. stream[j] = 1
  BY <1>2, BasicFacts DEF Due
<1> HIDE DEF g
<1> QED BY <1>1, <1>2, <1>3, BasicFacts DEF BasicAfter, Due

LEMMA BasicFailRetryPromote ==
  ASSUME Basic, NEW j \in Jobs, NEW again \in BOOLEAN, Fail(j, again) \/ Retry(j) \/ Promote(j)
  PROVE  BasicAfter
<1>1. PICK s \in {"delayed", "failed", "waiting"} :
        /\ job' = [job EXCEPT ![j].state = s] /\ job[j].state \in {"active", "failed", "delayed"}
        /\ stream' = IF s = "waiting" THEN [stream EXCEPT ![j] = @ + 1] ELSE stream
        /\ UNCHANGED <<parents, deps, earlyIndex, stage, todo, xqPending, told, resolved>>
  BY Zenon DEF Fail, Retry, Promote, Untouched
<1> DEFINE g == [job[j] EXCEPT !.state = s]
<1>2. g \in Record /\ g.state = s /\ g.parentId = job[j].parentId
  <2>1. job[j] \in Record /\ s \in States
    BY BasicFacts DEF States
  <2> QED BY <2>1, StateSet
<1>3. job' = [job EXCEPT ![j] = g]
  BY <1>1
<1>4. stream[j] = 0
  BY <1>1, BasicFacts DEF Due
<1> HIDE DEF g
<1> QED BY <1>1, <1>2, <1>3, <1>4, BasicFacts DEF BasicAfter, Due

LEMMA BasicComplete ==
  ASSUME Basic, NEW j \in Jobs, NEW keep \in BOOLEAN, Complete(j, keep)
  PROVE  BasicAfter
<1>1. PICK h \in Record : /\ h.state /= "waiting" /\ h.parentId \in {Nobody, job[j].parentId}
                          /\ ReportAll(j, h)
  <2>1. CASE keep
    <3> DEFINE g == [job[j] EXCEPT !.state = "completed"]
    <3>1. job[j] \in Record /\ "completed" \in States
      BY BasicFacts DEF States
    <3>2. g \in Record /\ g.state = "completed" /\ g.parentId = job[j].parentId
      BY <3>1, StateSet
    <3>3. ReportAll(j, g)
      BY <2>1 DEF Complete
    <3> HIDE DEF g
    <3> QED BY <3>2, <3>3
  <2>2. CASE ~keep
    BY <2>2, HashFacts DEF Complete, States
  <2> QED BY <2>1, <2>2
<1>2. job[j].state = "active" /\ UNCHANGED <<parents, deps, told, stage, todo>>
  BY DEF Complete
<1>3. /\ job' \in [Jobs -> Record] /\ stream' \in [Jobs -> Nat] /\ earlyIndex' \subseteq Jobs
      /\ \A i \in Jobs : stream'[i] = Due(job'[i])
      /\ job'[j] = h /\ \A i \in Jobs \ {j} : Onward(job[i], job'[i])
      /\ xqPending' = xqPending \cup Notes(j) /\ Notes(j) \subseteq Edges /\ resolved' = resolved \cup {j}
  BY <1>1, ReportAllFacts
<1>4. \A i \in Jobs : job'[i].parentId = Nobody \/ job'[i].parentId \in Up[i]
  BY <1>1, <1>3, BasicFacts DEF Onward
<1>5. \A i \in Jobs : job'[i].state = job[i].state \/ job[i].state /= "none"
  BY <1>2, <1>3 DEF Onward
<1> QED BY <1>2, <1>3, <1>4, <1>5, BasicFacts DEF BasicAfter

LEMMA MoveFacts ==
  ASSUME Basic, NEW j \in Jobs, MoveToWaitingChildren(j)
  PROVE  LET h == CountEarly([job[j] EXCEPT !.state = "waiting-children"], deps[j])
             ready == h.depsCompleted >= Cardinality(deps[j])
         IN  /\ job[j].state = "active" /\ (\E c \in Late : j \in Up[c])
             /\ job' \in [Jobs -> Record] /\ stream' \in [Jobs -> Nat]
             /\ \A i \in Jobs : stream'[i] = Due(job'[i])
             /\ \A i \in Jobs \ {j} : job'[i] = job[i]
             /\ job'[j].state = IF ready THEN "waiting" ELSE "waiting-children"
             /\ job'[j].parentId = job[j].parentId
             /\ job'[j].depdone = h.depdone /\ job'[j].depearly = h.depearly
             /\ job'[j].depsCompleted = h.depsCompleted
             /\ UNCHANGED <<parents, deps, earlyIndex, stage, todo, xqPending, told, resolved>>
<1> DEFINE m == [job[j] EXCEPT !.state = "waiting-children"]
           h == CountEarly(m, deps[j])
           ready == h.depsCompleted >= Cardinality(deps[j])
           g == IF ready THEN [h EXCEPT !.state = "waiting"] ELSE h
<1>1. m \in Record /\ m.state = "waiting-children" /\ m.parentId = job[j].parentId
  <2>1. job[j] \in Record /\ "waiting-children" \in States
    BY BasicFacts DEF States
  <2> QED BY <2>1, StateSet
<1>2. /\ job[j].state = "active" /\ (\E c \in Late : j \in Up[c])
      /\ job' = [job EXCEPT ![j] = g]
      /\ stream' = [stream EXCEPT ![j] = IF ready THEN @ + 1 ELSE @]
      /\ UNCHANGED <<parents, deps, earlyIndex, stage, todo, xqPending, told, resolved>>
  BY DEF MoveToWaitingChildren, Untouched
<1> HIDE DEF m
<1>3. h \in Record /\ h.state = "waiting-children" /\ h.parentId = job[j].parentId
  BY <1>1, CountEarlyFacts, BasicFacts, ZenonT(60)
<1> HIDE DEF h
<1>4. /\ g \in Record /\ g.state = (IF ready THEN "waiting" ELSE "waiting-children") /\ g.parentId = job[j].parentId
      /\ g.depdone = h.depdone /\ g.depearly = h.depearly /\ g.depsCompleted = h.depsCompleted
  <2>1. CASE ready
    <3>1. "waiting" \in States
      BY DEF States
    <3> QED BY <1>3, <2>1, <3>1, StateSet
  <2>2. CASE ~ready
    BY <1>3, <2>2
  <2> QED BY <2>1, <2>2
<1> HIDE DEF g
<1>5. stream[j] = 0
  BY <1>2, BasicFacts DEF Due
<1>6. stream' \in [Jobs -> Nat] /\ job' \in [Jobs -> Record]
  BY <1>2, <1>4, BasicFacts
<1>7. \A i \in Jobs : stream'[i] = Due(job'[i])
  BY <1>2, <1>4, <1>5, BasicFacts DEF Due
<1> QED BY <1>2, <1>4, <1>6, <1>7, BasicFacts DEF h, m

LEMMA BasicMoveToWaitingChildren ==
  ASSUME Basic, NEW j \in Jobs, MoveToWaitingChildren(j)
  PROVE  BasicAfter
<1>1. /\ job[j].state = "active"
      /\ job' \in [Jobs -> Record] /\ stream' \in [Jobs -> Nat]
      /\ \A i \in Jobs : stream'[i] = Due(job'[i])
      /\ \A i \in Jobs \ {j} : job'[i] = job[i]
      /\ job'[j].parentId = job[j].parentId
      /\ UNCHANGED <<parents, deps, earlyIndex, stage, todo, xqPending, told, resolved>>
  BY MoveFacts
<1> QED BY <1>1, BasicFacts DEF BasicAfter

LEMMA BasicRemoveJob ==
  ASSUME Basic, NEW j \in Jobs, RemoveJob(j)
  PROVE  BasicAfter
<1>1. /\ Exists(job[j]) /\ UNCHANGED <<told, stage, todo>>
      /\ deps' = [deps EXCEPT ![j] = {}] /\ parents' = [parents EXCEPT ![j] = {}]
  BY DEF RemoveJob
<1>2. Hash("none") \in Record /\ Hash("none").state = "none" /\ Hash("none").parentId = Nobody
  BY HashFacts DEF States
<1>3. /\ deps' \in [Jobs -> SUBSET Jobs] /\ parents' \in [Jobs -> SUBSET Jobs]
      /\ \A i \in Jobs : parents'[i] \subseteq Up[i]
  BY <1>1, BasicFacts
<1>4. CASE job[j].state = "completed"
  <2>1. job' = [job EXCEPT ![j] = Hash("none")] /\ UNCHANGED <<stream, earlyIndex, xqPending, resolved>>
    BY <1>4 DEF RemoveJob, ResolveRemoved
  <2> QED BY <1>1, <1>2, <1>3, <1>4, <2>1, BasicFacts DEF BasicAfter, Due
<1>5. CASE job[j].state /= "completed"
  <2>1. ReportAll(j, Hash("none"))
    BY <1>5 DEF RemoveJob, ResolveRemoved
  <2>2. /\ job' \in [Jobs -> Record] /\ stream' \in [Jobs -> Nat] /\ earlyIndex' \subseteq Jobs
        /\ \A i \in Jobs : stream'[i] = Due(job'[i])
        /\ job'[j] = Hash("none") /\ \A i \in Jobs \ {j} : Onward(job[i], job'[i])
        /\ xqPending' = xqPending \cup Notes(j) /\ Notes(j) \subseteq Edges /\ resolved' = resolved \cup {j}
    BY <1>2, <2>1, ReportAllFacts
  <2>3. \A i \in Jobs : job'[i].parentId = Nobody \/ job'[i].parentId \in Up[i]
    BY <1>2, <2>2, BasicFacts DEF Onward
  <2>4. \A i \in Jobs : job'[i].state = job[i].state \/ job[i].state /= "none"
    BY <1>1, <2>2 DEF Onward, Exists
  <2> QED BY <1>1, <1>3, <2>2, <2>3, <2>4, BasicFacts DEF BasicAfter
<1> QED BY <1>4, <1>5

LEMMA BasicClean ==
  ASSUME Basic, NEW j \in Jobs, Clean(j)
  PROVE  BasicAfter
<1>1. Hash("none") \in Record /\ Hash("none").state = "none" /\ Hash("none").parentId = Nobody
  BY HashFacts DEF States
<1>2. deps' \in [Jobs -> SUBSET Jobs] /\ parents' \in [Jobs -> SUBSET Jobs]
      /\ \A i \in Jobs : parents'[i] \subseteq Up[i]
  BY BasicFacts DEF Clean
<1> QED BY <1>1, <1>2, BasicFacts DEF Clean, Untouched, BasicAfter, Due

LEMMA BasicDeliver ==
  ASSUME Basic, NEW e \in Edges, Deliver(e)
  PROVE  BasicAfter
<1>1. /\ e \in xqPending /\ ReportTo(e[2], deps[e[2]], e[1]) /\ told' = told \cup {e}
      /\ UNCHANGED <<parents, deps, xqPending, stage, todo, resolved>>
  BY DEF Deliver
<1>2. e[1] \in Jobs /\ e[2] \in Jobs /\ deps[e[2]] \in SUBSET Jobs
  BY BasicFacts DEF Edges
<1>3. /\ job' \in [Jobs -> Record] /\ stream' \in [Jobs -> Nat] /\ earlyIndex' \subseteq Jobs
      /\ \A j \in Jobs : Onward(job[j], job'[j]) /\ stream'[j] = Due(job'[j])
  BY <1>1, <1>2, ReportToFacts
<1> QED BY <1>1, <1>3, BasicFacts DEF BasicAfter, Onward

LEMMA BasicDropNote ==
  ASSUME Basic, NEW e \in Edges, DropNote(e)
  PROVE  BasicAfter
BY BasicFacts DEF DropNote, Answered, BasicAfter

LEMMA HealFacts ==
  ASSUME Basic, NEW p \in Jobs, HealEarlyDeps(p)
  PROVE  /\ job' \in [Jobs -> Record] /\ stream' \in [Jobs -> Nat] /\ earlyIndex' \subseteq Jobs
         /\ \A j \in Jobs : Onward(job[j], job'[j]) /\ stream'[j] = Due(job'[j])
         /\ job'[p] = IF Exists(job[p]) THEN Healed(job[p], deps[p]) ELSE job[p]
         /\ \A j \in Jobs \ {p} : job'[j] = job[j]
         /\ \A j \in Jobs : j \in earlyIndex => j \in earlyIndex' \/ (j = p /\ (Exists(job[p]) => job'[p].depearly = {}))
         /\ UNCHANGED <<parents, deps, stage, todo, xqPending, told, resolved>>
<1>1. /\ job \in [Jobs -> Record] /\ stream \in [Jobs -> Nat] /\ earlyIndex \subseteq Jobs
      /\ deps[p] \in SUBSET Jobs /\ \A j \in Jobs : stream[j] = Due(job[j])
  BY BasicFacts
<1>2. UNCHANGED <<parents, deps, stage, todo, xqPending, told, resolved>>
  BY DEF HealEarlyDeps, Untouched
<1>3. CASE ~Exists(job[p])
  <2>1. earlyIndex' = earlyIndex \ {p} /\ UNCHANGED <<job, stream>>
    BY <1>3 DEF HealEarlyDeps
  <2> QED BY <1>1, <1>2, <1>3, <2>1, OnwardSelf
<1>4. CASE Exists(job[p])
  <2> DEFINE new == [job EXCEPT ![p] = Healed(job[p], deps[p])]
             h == CountEarly(job[p], deps[p])
  <2>1. /\ job' = new /\ stream' = Enqueued(job, new)
        /\ earlyIndex' = IF h.depearly = {} THEN earlyIndex \ {p} ELSE earlyIndex
    BY <1>4 DEF HealEarlyDeps, Healed
  <2>2. Onward(job[p], Healed(job[p], deps[p])) /\ Healed(job[p], deps[p]).depearly = h.depearly
    <3>1. job[p] \in Record
      BY <1>1
    <3>2. h.depearly = job[p].depearly \ deps[p]
      BY <1>1, <3>1, CountEarlyFacts, ZenonT(60)
    <3> QED BY <1>1, <3>1, <3>2, HealedFacts
  <2> HIDE DEF h
  <2>3. /\ new \in [Jobs -> Record] /\ \A j \in Jobs \ {p} : new[j] = job[j]
        /\ new[p] = Healed(job[p], deps[p])
    BY <1>1, <2>2 DEF Onward
  <2> HIDE DEF new
  <2>4. \A j \in Jobs : Onward(job[j], new[j])
    BY <1>1, <2>2, <2>3, OnwardSelf
  <2>5. Enqueued(job, new) \in [Jobs -> Nat] /\ \A j \in Jobs : Enqueued(job, new)[j] = Due(new[j])
    BY <1>1, <2>4, EnqueuedFacts
  <2> QED BY <1>1, <1>2, <1>4, <2>1, <2>2, <2>3, <2>4, <2>5
<1> QED BY <1>3, <1>4

LEMMA BasicHealEarlyDeps ==
  ASSUME Basic, NEW p \in Jobs, HealEarlyDeps(p)
  PROVE  BasicAfter
BY HealFacts, BasicFacts DEF BasicAfter, Onward

LEMMA BasicStep ==
  ASSUME Basic, Next
  PROVE  Basic'
<1>1. UNCHANGED flow /\ flow \in Flows
  BY BasicFacts DEF Next
<1>2. BasicAfter
  <2>1. ASSUME NEW j \in Jobs, Produce(j) PROVE BasicAfter
    <3>1. ASSUME Wire(j) PROVE BasicAfter
      BY <3>1, BasicCheck, BasicWrite, BasicLink, BasicLook, BasicReportErased, BasicRegister,
         BasicReportMissing, BasicRecheck DEF Wire
    <3> QED BY <2>1, <3>1, BasicAddNestedLeaf, BasicAddFlow, BasicAddNode, BasicAddLeaf DEF Produce
  <2>2. ASSUME NEW j \in Jobs, Run(j) PROVE BasicAfter
    BY <2>2, BasicActivate, BasicFailRetryPromote, BasicMoveToWaitingChildren, BasicComplete DEF Run
  <2>3. ASSUME NEW e \in Edges, Notify(e) PROVE BasicAfter
    BY <2>3, BasicDeliver, BasicDropNote DEF Notify
  <2>4. ASSUME NEW j \in Jobs, RegisterChild(j) PROVE BasicAfter
    BY <2>4, BasicRegisterLate DEF RegisterChild
  <2> QED BY <2>1, <2>2, <2>3, <2>4, BasicReserveLeaves, BasicRemoveJob, BasicClean, BasicHealEarlyDeps,
             BasicAddLate DEF Next, Step
<1> QED BY <1>1, <1>2, BasicKept

LEMMA BasicInit ==
  ASSUME Init
  PROVE  Basic
<1>1. Hash("none") \in Record /\ Hash("none").state = "none" /\ Hash("none").parentId = Nobody
  BY HashFacts DEF States
<1>2. flow \in Flows /\ Up \in [Jobs -> SUBSET Jobs]
  BY FlowFacts DEF Init
<1>3. TypeOK
  BY <1>1, <1>2 DEF Init, TypeOK, Record, Stages
<1>4. ReleasedOnce
  BY <1>1 DEF Init, ReleasedOnce
<1>5. \A j \in Jobs : Shaped(j)
  BY <1>1 DEF Init, Shaped
<1> QED BY <1>2, <1>3, <1>4, <1>5 DEF Basic

LEMMA BasicAlways == Spec => []Basic
<1>1. Basic /\ [Next]_vars => Basic'
  <2> SUFFICES ASSUME Basic, [Next]_vars PROVE Basic'
    OBVIOUS
  <2>1. CASE UNCHANGED vars
    <3>1. BasicAfter
      BY <2>1, BasicFacts DEF vars, BasicAfter
    <3> QED BY <2>1, <3>1, BasicFacts, BasicKept DEF vars
  <2> QED BY <2>1, BasicStep
<1> QED BY <1>1, BasicInit, PTL DEF Spec

(* The shape of every variable: a note in xq-pending is an edge of the flow,  *)
(* and only notes still there count as answered.                              *)
THEOREM TypeCorrect == Spec => []TypeOK
<1>1. Basic => TypeOK
  BY DEF Basic
<1> QED BY <1>1, BasicAlways, PTL

(* A parent is in the stream exactly while it waits, and once: whichever of   *)
(* its children, the producer, the scheduler and its own                      *)
(* moveToWaitingChildren finds it ready, releaseParentIfReady queues it once. *)
THEOREM QueuedOnce == Spec => []ReleasedOnce
<1>1. Basic => ReleasedOnce
  BY DEF Basic
<1> QED BY <1>1, BasicAlways, PTL

-----------------------------------------------------------------------------
(* How far the producer is with a job, what has become of the job meanwhile, *)
(* and which of its edges the server knows.  A failed job that is cleaned is *)
(* no longer told from a removed one, so these need "clean" out of Races.    *)

Alive(j) == job[j].state \notin {"none", "ghost"}
Made(j)  == stage[j] \notin {"new", "reserved"}
Far(c)   == {p \in Up[c] : ~Near(c, p)}

StageFits(c) ==
  /\ ~Made(c) => c \notin resolved /\ todo[c] = Up[c]
  /\ stage[c] \in {"made", "found", "written", "linked"} => todo[c] = Up[c]
  /\ stage[c] \in {"erased", "missing"} => job[c].state = "none"
  /\ stage[c] \in {"linked", "present"} /\ Alive(c) => Far(c) \subseteq parents[c]
  /\ stage[c] = "done" => todo[c] = {}
  /\ stage[c] \in Wiring \cup {"done"} \/ ((Dag \/ c \in Late) /\ stage[c] /= "new")
       => \A p \in Up[c] : Made(p)
  /\ c \in Late => stage[c] \in {"new", "made", "done"}
  /\ stage[c] = "reserved" => Dag /\ Leaf(c)
  /\ ~Dag /\ c \notin Late /\ stage[c] \notin {"new", "done"} => \E p \in Up[c] : Nested(c, p)

OverFits(c) ==
  /\ Over(c) /\ Made(c) /\ todo[c] /= {} => c \in resolved
  /\ c \in resolved => Over(c)
  /\ job[c].state = "ghost" =>
       c \in resolved /\ (stage[c] \in {"written", "linked"} \/ (stage[c] = "present" /\ ~Dag /\ Far(c) /= {}))

EdgeFits(c) ==
  /\ \A p \in Told(c) : Made(p)
  /\ Alive(c) => \A p \in Up[c] : p \in Told(c) \/ (p \in todo[c] /\ c \notin Late)

Wired(c)  == StageFits(c) /\ OverFits(c) /\ EdgeFits(c)
AllWired  == \A c \in Jobs : Wired(c)

(* A step, seen from both sides of it. *)
Along == Basic /\ Basic' /\ UNCHANGED flow /\ AllWired

(* What a step does to a job that the producer does not handle in it. *)
Quiet(c) ==
  /\ stage'[c] = stage[c] /\ todo'[c] = todo[c]
  /\ IF job'[c].state \in {"none", "ghost"}
     THEN (job'[c].parentId = Nobody \/ job'[c].parentId = job[c].parentId) /\ parents'[c] \subseteq parents[c]
     ELSE Alive(c) /\ job'[c].parentId = job[c].parentId /\ parents'[c] = parents[c]
  /\ Over(c) => job'[c].state \in {"none", "ghost", "completed"}
  /\ job[c].state = "none" => job'[c].state = "none"
  /\ job'[c].state \in {"none", "ghost", "completed"} => Over(c) \/ c \in resolved' \/ todo[c] = {}
  /\ job'[c].state = "ghost" => job[c].state = "ghost"
  /\ c \in resolved => c \in resolved'
  /\ c \in resolved' => c \in resolved \/ (job[c].state /= "none" /\ job'[c].state \in {"none", "completed"})

LEMMA StepFacts ==
  ASSUME Along
  PROVE  /\ Up' = Up /\ Late' = Late /\ Dag' = Dag
         /\ \A c : Far(c)' = Far(c) /\ (Leaf(c)' <=> Leaf(c))
         /\ \A c, p : Nested(c, p)' <=> Nested(c, p)
         /\ \A c : Made(c)' <=> stage'[c] \notin {"new", "reserved"}
         /\ \A c : Alive(c)' <=> job'[c].state \notin {"none", "ghost"}
         /\ \A c : Over(c)' <=> job'[c].state \in {"none", "ghost", "completed"}
         /\ \A c : Told(c)' = (IF job'[c].parentId = Nobody THEN {} ELSE {job'[c].parentId}) \cup parents'[c]
         /\ \A c \in Jobs : Told(c)' \subseteq Up[c]
         /\ job' \in [Jobs -> Record] /\ deps' \in [Jobs -> SUBSET Jobs]
<1>1. UNCHANGED flow
  BY DEF Along
<1>2. /\ Up' = Up /\ Late' = Late /\ Dag' = Dag /\ \A c, p : Near(c, p)' <=> Near(c, p)
      /\ \A c : Leaf(c)' <=> Leaf(c)
  BY <1>1, FlowKept
<1>3. \A c : Far(c)' = Far(c)
  BY <1>2 DEF Far
<1>4. \A c, p : Nested(c, p)' <=> Nested(c, p)
  BY <1>2 DEF Nested
<1>5. \A c \in Jobs : Told(c)' \subseteq Up[c]
  BY <1>2 DEF Along, Basic, Shaped, Told, TreeEdge
<1>6. job' \in [Jobs -> Record] /\ deps' \in [Jobs -> SUBSET Jobs]
  BY DEF Along, Basic, TypeOK, Record
<1> QED BY <1>2, <1>3, <1>4, <1>5, <1>6 DEF Made, Alive, Over, Told, TreeEdge

LEMMA WiredQuiet ==
  ASSUME Along, NEW c \in Jobs, Quiet(c), \A p \in Jobs : Made(p) => Made(p)'
  PROVE  Wired(c)'
<1>1. Wired(c) /\ Up[c] \subseteq Jobs /\ Told(c) \subseteq Up[c]
  BY BasicFacts DEF Along, AllWired
<1>2. StageFits(c)'
  BY <1>1, StepFacts, BasicFacts DEF Quiet, Wired, StageFits, Made, Alive, Along
<1>3. OverFits(c)'
  BY <1>1, StepFacts, BasicFacts DEF Quiet, Wired, OverFits, StageFits, Made, Over, Along
<1>4. Told(c)' \subseteq Told(c) /\ (Alive(c)' => Told(c)' = Told(c))
  BY StepFacts DEF Quiet, Told, TreeEdge, Alive
<1>5. EdgeFits(c)'
  BY <1>1, <1>4, StepFacts DEF Quiet, Wired, EdgeFits, Alive
<1> QED BY <1>2, <1>3, <1>5 DEF Wired

LEMMA QuietOnward ==
  ASSUME NEW c \in Jobs, Onward(job[c], job'[c]), stage'[c] = stage[c], todo'[c] = todo[c],
         parents'[c] = parents[c], resolved' = resolved
  PROVE  Quiet(c)
BY DEF Onward, Quiet, Over, Alive

LEMMA QuietSame ==
  ASSUME NEW c \in Jobs, job'[c] = job[c], stage'[c] = stage[c], todo'[c] = todo[c],
         parents'[c] = parents[c], resolved' = resolved
  PROVE  Quiet(c)
BY DEF Quiet, Over, Alive

(* Steps of workers, clients and the scheduler. *)
LEMMA WiredComplete ==
  ASSUME Along, NEW j \in Jobs, NEW keep \in BOOLEAN, Complete(j, keep)
  PROVE  AllWired'
<1>1. PICK h \in Record : /\ h.state \in {"completed", "none"} /\ h.parentId \in {Nobody, job[j].parentId}
                          /\ h.state = "completed" => h.parentId = job[j].parentId
                          /\ ReportAll(j, h)
  <2>1. CASE keep
    <3> DEFINE g == [job[j] EXCEPT !.state = "completed"]
    <3>1. job[j] \in Record /\ "completed" \in States
      BY BasicFacts DEF States, Along
    <3>2. g \in Record /\ g.state = "completed" /\ g.parentId = job[j].parentId
      BY <3>1, StateSet
    <3>3. ReportAll(j, g)
      BY <2>1 DEF Complete
    <3> HIDE DEF g
    <3> QED BY <3>2, <3>3
  <2>2. CASE ~keep
    BY <2>2, HashFacts DEF Complete, States
  <2> QED BY <2>1, <2>2
<1>2. job[j].state = "active" /\ UNCHANGED <<parents, deps, told, stage, todo>>
  BY DEF Complete
<1>3. /\ job'[j] = h /\ \A i \in Jobs \ {j} : Onward(job[i], job'[i])
      /\ resolved' = resolved \cup {j}
  BY <1>1, ReportAllFacts DEF Along
<1>4. \A i \in Jobs : Quiet(i)
  BY <1>1, <1>2, <1>3 DEF Quiet, Onward, Over, Alive
<1>5. \A p \in Jobs : Made(p) => Made(p)'
  BY <1>2 DEF Made
<1> QED BY <1>4, <1>5, WiredQuiet DEF AllWired

LEMMA WiredRemoveJob ==
  ASSUME Along, NEW j \in Jobs, RemoveJob(j)
  PROVE  AllWired'
<1>1. /\ Exists(job[j]) /\ UNCHANGED <<told, stage, todo>> /\ parents' = [parents EXCEPT ![j] = {}]
  BY DEF RemoveJob
<1>2. Hash("none") \in Record /\ Hash("none").state = "none" /\ Hash("none").parentId = Nobody
  BY HashFacts DEF States
<1>3. \A p \in Jobs : Made(p) => Made(p)'
  BY <1>1 DEF Made
<1>4. parents'[j] = {} /\ \A i \in Jobs \ {j} : parents'[i] = parents[i]
  BY <1>1, BasicFacts DEF Along
<1>5. /\ job'[j] = Hash("none") /\ \A i \in Jobs \ {j} : Onward(job[i], job'[i])
      /\ (resolved' = resolved /\ Over(j)) \/ resolved' = resolved \cup {j}
  <2>1. CASE job[j].state = "completed"
    <3>1. job' = [job EXCEPT ![j] = Hash("none")] /\ UNCHANGED <<stream, earlyIndex, xqPending, resolved>>
      BY <2>1 DEF RemoveJob, ResolveRemoved
    <3> QED BY <2>1, <3>1, BasicFacts, OnwardSelf DEF Over, Along
  <2>2. CASE job[j].state /= "completed"
    <3>1. ReportAll(j, Hash("none"))
      BY <2>2 DEF RemoveJob, ResolveRemoved
    <3> QED BY <1>2, <3>1, ReportAllFacts DEF Along
  <2> QED BY <2>1, <2>2
<1>6. \A i \in Jobs : Quiet(i)
  <2> TAKE i \in Jobs
  <2>1. CASE i = j
    BY <1>1, <1>2, <1>4, <1>5, <2>1 DEF Quiet, Over, Exists
  <2>2. CASE i /= j
    BY <1>1, <1>4, <1>5, <2>2 DEF Quiet, Onward, Over, Alive
  <2> QED BY <2>1, <2>2
<1> QED BY <1>3, <1>6, WiredQuiet DEF AllWired

LEMMA WiredClean ==
  ASSUME Along, NEW j \in Jobs, Clean(j), "clean" \notin Races
  PROVE  AllWired'
<1>1. /\ UNCHANGED <<stage, todo, resolved>> /\ job' = [job EXCEPT ![j] = Hash("none")]
      /\ parents' = [parents EXCEPT ![j] = {}] /\ job[j].state \in {"completed", "failed"}
      /\ job[j].state = "completed" \/ todo[j] = {}
  BY DEF Clean, Untouched
<1>2. Hash("none").state = "none" /\ Hash("none").parentId = Nobody
  BY HashFacts DEF States
<1>3. \A p \in Jobs : Made(p) => Made(p)'
  BY <1>1 DEF Made
<1>4. /\ parents'[j] = {} /\ job'[j] = Hash("none")
      /\ \A i \in Jobs \ {j} : parents'[i] = parents[i] /\ job'[i] = job[i]
  BY <1>1, BasicFacts DEF Along
<1>5. \A i \in Jobs : Quiet(i)
  <2> TAKE i \in Jobs
  <2>1. CASE i = j
    BY <1>1, <1>2, <1>4, <2>1 DEF Quiet, Over
  <2>2. CASE i /= j
    BY <1>1, <1>4, <2>2, QuietSame
  <2> QED BY <2>1, <2>2
<1> QED BY <1>3, <1>5, WiredQuiet DEF AllWired

LEMMA WiredRun ==
  ASSUME Along, NEW j \in Jobs, Run(j)
  PROVE  AllWired'
<1>1. ASSUME Activate(j) \/ Retry(j) \/ Promote(j) \/ \E again \in BOOLEAN : Fail(j, again) PROVE AllWired'
  <2>1. PICK s \in {"active", "delayed", "failed", "waiting"} :
          /\ job' = [job EXCEPT ![j].state = s] /\ job[j].state \in {"waiting", "active", "failed", "delayed"}
          /\ UNCHANGED <<parents, stage, todo, resolved>>
    BY <1>1, Zenon DEF Activate, Fail, Retry, Promote, Untouched
  <2> DEFINE g == [job[j] EXCEPT !.state = s]
  <2>2. g.state = s /\ g.parentId = job[j].parentId
    <3>1. job[j] \in Record /\ s \in States
      BY BasicFacts DEF States, Along
    <3> QED BY <3>1, StateSet
  <2>3. job' = [job EXCEPT ![j] = g]
    BY <2>1
  <2> HIDE DEF g
  <2>4. job'[j] = g /\ \A i \in Jobs \ {j} : job'[i] = job[i]
    BY <2>3, BasicFacts DEF Along
  <2>5. Quiet(j)
    BY <2>1, <2>2, <2>4 DEF Quiet, Over, Alive
  <2>6. \A i \in Jobs \ {j} : Quiet(i)
    BY <2>1, <2>4, QuietSame
  <2>7. \A p \in Jobs : Made(p) => Made(p)'
    BY <2>1 DEF Made
  <2> QED BY <2>5, <2>6, <2>7, WiredQuiet DEF AllWired
<1>2. ASSUME MoveToWaitingChildren(j) PROVE AllWired'
  <2>1. /\ job[j].state = "active" /\ \A i \in Jobs \ {j} : job'[i] = job[i]
        /\ job'[j].state \in {"waiting", "waiting-children"} /\ job'[j].parentId = job[j].parentId
        /\ UNCHANGED <<parents, stage, todo, resolved>>
    BY <1>2, MoveFacts DEF Along
  <2>2. Quiet(j)
    BY <2>1 DEF Quiet, Over, Alive
  <2>3. \A i \in Jobs \ {j} : Quiet(i)
    BY <2>1, QuietSame
  <2>4. \A p \in Jobs : Made(p) => Made(p)'
    BY <2>1 DEF Made
  <2> QED BY <2>2, <2>3, <2>4, WiredQuiet DEF AllWired
<1> QED BY <1>1, <1>2, WiredComplete DEF Run

LEMMA WiredNotify ==
  ASSUME Along, NEW e \in Edges, Notify(e)
  PROVE  AllWired'
<1>1. UNCHANGED <<parents, stage, todo, resolved>> /\ \A j \in Jobs : Onward(job[j], job'[j])
  <2>1. CASE Deliver(e)
    <3>1. ReportTo(e[2], deps[e[2]], e[1]) /\ UNCHANGED <<parents, stage, todo, resolved>>
      BY <2>1 DEF Deliver
    <3>2. e[1] \in Jobs /\ e[2] \in Jobs /\ deps[e[2]] \in SUBSET Jobs
      BY BasicFacts DEF Edges, Along
    <3> QED BY <3>1, <3>2, ReportToFacts DEF Along
  <2>2. CASE DropNote(e)
    BY <2>2, OnwardSelf, BasicFacts DEF DropNote, Along
  <2> QED BY <2>1, <2>2 DEF Notify
<1>2. \A p \in Jobs : Made(p) => Made(p)'
  BY <1>1 DEF Made
<1> QED BY <1>1, <1>2, WiredQuiet, QuietOnward DEF AllWired

LEMMA WiredHealEarlyDeps ==
  ASSUME Along, NEW p \in Jobs, HealEarlyDeps(p)
  PROVE  AllWired'
<1>1. UNCHANGED <<parents, stage, todo, resolved>> /\ \A j \in Jobs : Onward(job[j], job'[j])
  BY HealFacts DEF Along
<1>2. \A q \in Jobs : Made(q) => Made(q)'
  BY <1>1 DEF Made
<1> QED BY <1>1, <1>2, WiredQuiet, QuietOnward DEF AllWired

(* Steps of the producer: c is the job it handles. *)
LEMMA WiredOthers ==
  ASSUME Along, NEW S \in SUBSET Jobs,
         \A j \in Jobs : Made(j) => Made(j)',
         \A j \in Jobs \ S : /\ Onward(job[j], job'[j])
                            /\ stage'[j] = stage[j] /\ todo'[j] = todo[j] /\ parents'[j] = parents[j],
         resolved' = resolved,
         \A j \in S : Wired(j)'
  PROVE  AllWired'
<1>1. \A j \in Jobs \ S : Wired(j)'
  BY WiredQuiet, QuietOnward
<1> QED BY <1>1 DEF AllWired

LEMMA WiredOne ==
  ASSUME Along, NEW c \in Jobs,
         \A j \in Jobs : Made(j) => Made(j)',
         \A j \in Jobs \ {c} : /\ Onward(job[j], job'[j])
                              /\ stage'[j] = stage[j] /\ todo'[j] = todo[j] /\ parents'[j] = parents[j],
         resolved' = resolved,
         Wired(c)'
  PROVE  AllWired'
<1>1. \A j \in Jobs \ {c} : Wired(j)'
  BY WiredQuiet, QuietOnward
<1> QED BY <1>1 DEF AllWired

LEMMA WiredAddNestedLeaf ==
  ASSUME Along, NEW c \in Jobs, AddNestedLeaf(c)
  PROVE  AllWired'
<1>1. /\ ~Dag /\ Leaf(c) /\ c \notin Late /\ stage[c] = "new" /\ (\E p \in Up[c] : Nested(c, p))
      /\ job' = [job EXCEPT ![c] = Hash("waiting")] /\ stage' = [stage EXCEPT ![c] = "made"]
      /\ UNCHANGED <<parents, todo, resolved>>
  BY DEF AddNestedLeaf, Untouched
<1>2. /\ job'[c] = Hash("waiting") /\ stage'[c] = "made" /\ job[c].state = "none" /\ Hash("waiting").state = "waiting"
      /\ Hash("waiting").parentId = Nobody /\ \A j \in Jobs \ {c} : Onward(job[j], job'[j]) /\ stage'[j] = stage[j]
  BY <1>1, HashFacts, OnwardSelf, BasicFacts DEF Along, States
<1>3. \A j \in Jobs : Made(j) => Made(j)'
  BY <1>1, <1>2 DEF Made
<1>4. Wired(c) /\ Up[c] \subseteq Jobs
  BY BasicFacts DEF AllWired, Along
<1>5. StageFits(c)'
  BY <1>1, <1>2, <1>3, <1>4, StepFacts DEF Wired, StageFits, Made, Wiring
<1>6. OverFits(c)'
  BY <1>1, <1>2, <1>4, StepFacts DEF Wired, StageFits, OverFits, Made
<1>7. EdgeFits(c)'
  BY <1>1, <1>2, <1>3, <1>4, StepFacts DEF Wired, StageFits, EdgeFits, Made, Told
<1>8. Wired(c)'
  BY <1>5, <1>6, <1>7 DEF Wired
<1> QED BY <1>1, <1>2, <1>3, <1>8, WiredOthers

LEMMA WiredAddFlow ==
  ASSUME Along, NEW p \in Jobs, AddFlow(p)
  PROVE  AllWired'
<1> DEFINE leaves == {c \in Down(p) : ~Nested(c, p)}
           g == [Hash("waiting") EXCEPT !.parentId = p]
<1>1. /\ ~Dag /\ ~Leaf(p) /\ stage[p] = "new"
      /\ \A c \in Down(p) \ leaves : stage[c] = "made"
      /\ job' = [j \in Jobs |-> IF j = p THEN Hash("waiting-children") ELSE IF j \in leaves THEN g ELSE job[j]]
      /\ stage' = [j \in Jobs |-> IF j \in leaves \/ (j = p /\ Up[p] = {}) THEN "done"
                                  ELSE IF j = p THEN "made" ELSE stage[j]]
      /\ todo' = [j \in Jobs |-> IF j \in leaves THEN {} ELSE todo[j]]
      /\ UNCHANGED <<parents, resolved>>
  BY DEF AddFlow, Untouched
<1>2. leaves \subseteq Jobs /\ p \notin leaves /\ p \notin Late /\ \A c \in leaves : c \notin Late /\ Up[c] = {p}
  <2>1. flow \in Flows
    BY BasicFacts DEF Along
  <2> QED BY <1>1, <2>1, FlowFacts DEF Leaf
<1>3. g.state = "waiting" /\ g.parentId = p
  <2>1. Hash("waiting") \in Record /\ Hash("waiting").state = "waiting" /\ p \in Jobs \cup {Nobody}
    BY HashFacts DEF States
  <2> QED BY <2>1, ParentSet
<1> HIDE DEF leaves, g
<1>4. /\ job'[p] = Hash("waiting-children") /\ Hash("waiting-children").state = "waiting-children"
      /\ Hash("waiting-children").parentId = Nobody
      /\ stage'[p] = IF Up[p] = {} THEN "done" ELSE "made"
      /\ todo'[p] = todo[p]
  BY <1>1, <1>2, HashFacts DEF States
<1>5. \A c \in leaves : job'[c] = g /\ stage'[c] = "done" /\ todo'[c] = {}
  BY <1>1, <1>2
<1>6. \A j \in Jobs \ ({p} \cup leaves) : /\ Onward(job[j], job'[j])
                                       /\ stage'[j] = stage[j] /\ todo'[j] = todo[j] /\ parents'[j] = parents[j]
  BY <1>1, OnwardSelf, BasicFacts DEF Along
<1>7. \A j \in Jobs : Made(j) => Made(j)'
  BY <1>4, <1>5, <1>6 DEF Made
<1>8. Wired(p)'
  <2>1. Wired(p) /\ Up[p] \subseteq Jobs /\ \A q : Nested(p, q)
    BY <1>1, BasicFacts DEF AllWired, Along, Nested
  <2>2. StageFits(p)'
    BY <1>1, <1>2, <1>4, <1>7, <2>1, StepFacts DEF Wired, StageFits, Made, Wiring
  <2>3. OverFits(p)'
    BY <1>1, <1>4, <2>1, StepFacts DEF Wired, StageFits, OverFits, Made
  <2>4. Told(p)' \subseteq Told(p)
    BY <1>1, <1>4, StepFacts DEF Told
  <2>5. todo'[p] = Up[p]
    BY <1>1, <1>4, <2>1 DEF Wired, StageFits, Made
  <2>6. EdgeFits(p)'
    BY <1>2, <1>7, <2>1, <2>4, <2>5, StepFacts, BasicFacts DEF Wired, EdgeFits, Along
  <2> QED BY <2>2, <2>3, <2>6 DEF Wired
<1>9. \A c \in leaves : Wired(c)'
  <2> TAKE c \in leaves
  <2>1. /\ Wired(c) /\ c \in Jobs /\ Told(c) \subseteq Up[c] /\ Up[c] = {p} /\ c \notin Late /\ stage[c] = "new"
        /\ job'[c] = g /\ stage'[c] = "done" /\ todo'[c] = {} /\ Made(p)' /\ parents'[c] = parents[c]
    <3>1. Wired(c) /\ c \in Jobs /\ Up[c] = {p} /\ c \notin Late /\ ~Nested(c, p)
      BY <1>2 DEF AllWired, Along, leaves
    <3>2. stage[c] = "new"
      BY <1>1, <3>1 DEF Wired, StageFits, Made
    <3>3. Made(p)'
      BY <1>4 DEF Made
    <3> QED BY <1>1, <1>2, <1>4, <1>5, <3>1, <3>2, <3>3, BasicFacts DEF AllWired, Along, Made
  <2>2. StageFits(c)'
    BY <2>1, StepFacts DEF Wired, StageFits, Made, Wiring
  <2>3. OverFits(c)'
    BY <1>1, <1>3, <2>1, StepFacts DEF Wired, StageFits, OverFits, Made
  <2>5. Told(c)' \subseteq {p} /\ p \in Told(c)'
    BY <1>3, <2>1, StepFacts, BasicFacts, JobsAssumption DEF Along
  <2>4. EdgeFits(c)'
    BY <2>1, <2>5, StepFacts DEF EdgeFits
  <2> QED BY <2>2, <2>3, <2>4 DEF Wired
<1>10. {p} \cup leaves \in SUBSET Jobs
  BY <1>2
<1> QED BY <1>1, <1>6, <1>7, <1>8, <1>9, <1>10, WiredOthers

LEMMA WiredAddNode ==
  ASSUME Along, NEW p \in Jobs, AddNode(p)
  PROVE  AllWired'
<1>1. /\ Dag /\ ~Leaf(p) /\ stage[p] = "new" /\ \A q \in Jobs : Level[q] > Level[p] => stage[q] = "done"
      /\ job' = [job EXCEPT ![p] = Hash("waiting-children")]
      /\ stage' = [stage EXCEPT ![p] = IF Up[p] = {} THEN "done" ELSE "made"]
      /\ UNCHANGED <<parents, todo, resolved>>
  BY DEF AddNode, Untouched
<1>2. /\ job'[p] = Hash("waiting-children") /\ Hash("waiting-children").state = "waiting-children"
      /\ Hash("waiting-children").parentId = Nobody
      /\ stage'[p] = IF Up[p] = {} THEN "done" ELSE "made"
      /\ \A j \in Jobs \ {p} : Onward(job[j], job'[j]) /\ stage'[j] = stage[j]
  BY <1>1, HashFacts, OnwardSelf, BasicFacts DEF Along, States
<1>3. \A j \in Jobs : Made(j) => Made(j)'
  BY <1>1, <1>2 DEF Made
<1>4. Wired(p) /\ Up[p] \subseteq Jobs /\ p \notin Late
  <2>1. flow \in Flows
    BY BasicFacts DEF Along
  <2> QED BY <1>1, <2>1, FlowFacts DEF AllWired, Along, Leaf
<1>5. \A q \in Up[p] : Made(q)
  <2> TAKE q \in Up[p]
  <2>1. flow \in Flows /\ q \in Jobs /\ p \in Down(q)
    BY <1>4, FlowFacts, BasicFacts DEF Along
  <2>2. Level[p] < Level[q] /\ Level[p] \in Nat /\ Level[q] \in Nat
    BY <2>1, LevelFacts
  <2> QED BY <1>1, <2>1, <2>2 DEF Made
<1>6. StageFits(p)'
  BY <1>1, <1>2, <1>3, <1>4, <1>5, StepFacts DEF Wired, StageFits, Made, Wiring
<1>7. OverFits(p)'
  BY <1>1, <1>2, <1>4, StepFacts DEF Wired, StageFits, OverFits, Made
<1>8. Told(p)' \subseteq Told(p) /\ todo'[p] = Up[p]
  BY <1>1, <1>2, <1>4, StepFacts DEF Told, Wired, StageFits, Made
<1>9. EdgeFits(p)'
  BY <1>3, <1>4, <1>8, StepFacts, BasicFacts DEF Wired, EdgeFits, Along
<1>10. Wired(p)'
  BY <1>6, <1>7, <1>9 DEF Wired
<1> QED BY <1>1, <1>2, <1>3, <1>10, WiredOthers, ZenonT(60)

LEMMA WiredReserveLeaves ==
  ASSUME Along, ReserveLeaves
  PROVE  AllWired'
<1>1. /\ Dag /\ \A q \in Jobs \ (Leaves \cup Late) : stage[q] = "done"
      /\ \A c \in Leaves : stage[c] = "new"
      /\ stage' = [j \in Jobs |-> IF j \in Leaves THEN "reserved" ELSE stage[j]]
      /\ UNCHANGED <<job, parents, todo, resolved>>
  BY DEF ReserveLeaves, Untouched
<1>2. Leaves \subseteq Jobs /\ \A c \in Leaves : c \notin Late /\ Leaf(c)
  BY DEF Leaves
<1>3. \A j \in Jobs : Made(j) => Made(j)'
  BY <1>1 DEF Made
<1>4. \A j \in Jobs \ Leaves : Onward(job[j], job'[j]) /\ stage'[j] = stage[j]
  BY <1>1, OnwardSelf, BasicFacts DEF Along
<1>5. ASSUME NEW c \in Leaves PROVE Wired(c)'
  <2>1. Wired(c) /\ c \in Jobs /\ Up[c] \subseteq Jobs /\ Told(c)' = Told(c) /\ Told(c) \subseteq Up[c]
        /\ job[c].state = "none" /\ stage[c] = "new" /\ stage'[c] = "reserved"
    BY <1>1, <1>2, BasicFacts DEF AllWired, Along, Told, TreeEdge
  <2>2. \A p \in Up[c] : Made(p)
    <3> TAKE p \in Up[c]
    <3>1. flow \in Flows /\ p \in Jobs /\ c \in Down(p)
      BY <1>2, <2>1, FlowFacts, BasicFacts DEF Along
    <3>2. p \notin Leaves /\ p \notin Late
      BY <3>1, FlowFacts DEF Leaves, Leaf
    <3> QED BY <1>1, <3>1, <3>2 DEF Made
  <2>3. StageFits(c)'
    BY <1>1, <1>2, <1>3, <2>1, <2>2, StepFacts DEF Wired, StageFits, Made, Wiring
  <2>4. OverFits(c)'
    BY <1>1, <2>1, StepFacts DEF Wired, StageFits, OverFits, Made
  <2>5. EdgeFits(c)'
    BY <1>1, <1>3, <2>1, StepFacts DEF Wired, EdgeFits
  <2> QED BY <2>3, <2>4, <2>5 DEF Wired
<1> QED BY <1>1, <1>2, <1>3, <1>4, <1>5, WiredOthers

LEMMA WiredAddLeaf ==
  ASSUME Along, NEW c \in Jobs, AddLeaf(c)
  PROVE  AllWired'
<1> DEFINE whole == \E p \in Jobs : Up[c] = {p} /\ Near(c, p)
           q == IF whole THEN CHOOSE p \in Up[c] : TRUE ELSE Nobody
           g == [Hash("waiting") EXCEPT !.parentId = q]
<1>1. (IF whole THEN Up[c] = {q} ELSE q = Nobody) /\ q \in Jobs \cup {Nobody} /\ Up[c] \subseteq Jobs
  BY BasicFacts DEF Along
<1>2. g.state = "waiting" /\ g.parentId = q
  <2> HIDE DEF q
  <2>1. Hash("waiting") \in Record /\ Hash("waiting").state = "waiting"
    BY HashFacts DEF States
  <2> QED BY <1>1, <2>1, ParentSet
<1>3. /\ job' = [job EXCEPT ![c] = g] /\ stage[c] = "reserved" /\ Dag
      /\ stage' = [stage EXCEPT ![c] = IF whole \/ Up[c] = {} THEN "done" ELSE "made"]
      /\ todo' = [todo EXCEPT ![c] = IF whole THEN {} ELSE @]
      /\ UNCHANGED <<parents, resolved>>
  BY DEF AddLeaf, Untouched
<1> HIDE DEF whole, q, g
<1>4. /\ job'[c] = g /\ stage'[c] = (IF whole \/ Up[c] = {} THEN "done" ELSE "made")
      /\ todo'[c] = (IF whole THEN {} ELSE todo[c])
      /\ resolved' = resolved
      /\ \A j \in Jobs \ {c} : /\ Onward(job[j], job'[j])
                              /\ stage'[j] = stage[j] /\ todo'[j] = todo[j] /\ parents'[j] = parents[j]
  BY <1>3, OnwardSelf, BasicFacts DEF Along
<1>5. \A j \in Jobs : Made(j) => Made(j)'
  BY <1>4 DEF Made
<1>6. Wired(c) /\ Told(c) \subseteq Up[c]
  BY BasicFacts DEF AllWired, Along
<1>7. c \notin Late /\ todo[c] = Up[c] /\ c \notin resolved /\ \A p \in Up[c] : Made(p)
  BY <1>3, <1>6 DEF Wired, StageFits, Made
<1>8. StageFits(c)'
  BY <1>1, <1>3, <1>4, <1>5, <1>7, StepFacts DEF StageFits, Made, Wiring
<1>9. OverFits(c)'
  BY <1>2, <1>3, <1>4, <1>7, StepFacts DEF OverFits, Made
<1>10. Told(c)' \subseteq Up[c] /\ (whole => Up[c] \subseteq Told(c)')
  BY <1>1, <1>2, <1>3, <1>4, <1>6, StepFacts, JobsAssumption, BasicFacts DEF Told, Along
<1>11. EdgeFits(c)'
  BY <1>1, <1>4, <1>5, <1>7, <1>10, StepFacts DEF EdgeFits
<1>12. Wired(c)'
  BY <1>8, <1>9, <1>11 DEF Wired
<1> QED BY <1>4, <1>5, <1>12, WiredOne

LEMMA WiredCheck ==
  ASSUME Along, NEW c \in Jobs, Check(c)
  PROVE  AllWired'
<1>1. /\ stage[c] = "made" /\ c \notin Late /\ (~Dag => \A p \in Up[c] : stage[p] /= "new")
      /\ stage' = [stage EXCEPT ![c] = IF Exists(job[c]) THEN "found" ELSE "missing"]
      /\ UNCHANGED <<job, parents, todo, resolved>>
  BY DEF Check, Untouched
<1>2. /\ stage'[c] = (IF Exists(job[c]) THEN "found" ELSE "missing")
      /\ \A j \in Jobs \ {c} : Onward(job[j], job'[j]) /\ stage'[j] = stage[j]
  BY <1>1, OnwardSelf, BasicFacts DEF Along
<1>3. \A j \in Jobs : Made(j) => Made(j)'
  BY <1>2 DEF Made
<1>4. Wired(c) /\ Up[c] \subseteq Jobs /\ Told(c)' = Told(c) /\ Told(c) \subseteq Up[c] /\ AllWired
  BY <1>1, BasicFacts DEF AllWired, Along, Told, TreeEdge
<1>5. \A p \in Up[c] : Made(p)
  BY <1>1, <1>4 DEF AllWired, Wired, StageFits, Made
<1>6. StageFits(c)'
  BY <1>1, <1>2, <1>3, <1>4, <1>5, StepFacts DEF Wired, StageFits, Made, Exists, Wiring
<1>7. OverFits(c)'
  BY <1>1, <1>2, <1>4, StepFacts DEF Wired, OverFits, Made, Exists, Over
<1>8. EdgeFits(c)'
  BY <1>1, <1>3, <1>4, StepFacts DEF Wired, EdgeFits, Alive
<1>9. Wired(c)'
  BY <1>6, <1>7, <1>8 DEF Wired
<1> QED BY <1>1, <1>2, <1>3, <1>9, WiredOthers

LEMMA WiredWrite ==
  ASSUME Along, NEW c \in Jobs, Write(c)
  PROVE  AllWired'
<1>1. PICK g \in Record :
        /\ job' = [job EXCEPT ![c] = g] /\ g.state = IF Exists(job[c]) THEN job[c].state ELSE "ghost"
  <2> DEFINE h == IF Exists(job[c]) THEN job[c] ELSE Hash("ghost")
             q == IF Dag THEN h.parentId ELSE CHOOSE p \in Up[c] : TRUE
  <2>1. /\ h \in Record /\ h.state = IF Exists(job[c]) THEN job[c].state ELSE "ghost"
    BY HashFacts, BasicFacts DEF States, Exists, Along
  <2>2. q \in Jobs \cup {Nobody}
    BY <2>1, BasicFacts DEF Write, Record, Along
  <2> HIDE DEF h
  <2>3. job' = [job EXCEPT ![c] = [h EXCEPT !.parentId = IF Dag THEN @ ELSE CHOOSE p \in Up[c] : TRUE]]
    BY DEF Write, h
  <2>4. job' = [job EXCEPT ![c] = [h EXCEPT !.parentId = q]]
    BY <2>3
  <2> HIDE DEF q
  <2>5. [h EXCEPT !.parentId = q] \in Record /\ [h EXCEPT !.parentId = q].state = h.state
    BY <2>1, <2>2, ParentSet
  <2> QED BY <2>1, <2>4, <2>5
<1>2. /\ stage[c] = "found" /\ stage' = [stage EXCEPT ![c] = "written"]
      /\ UNCHANGED <<parents, todo, resolved>>
  BY DEF Write, Untouched
<1>3. /\ stage'[c] = "written" /\ job'[c] = g
      /\ \A j \in Jobs \ {c} : Onward(job[j], job'[j]) /\ stage'[j] = stage[j]
  BY <1>1, <1>2, OnwardSelf, BasicFacts DEF Along
<1>4. \A j \in Jobs : Made(j) => Made(j)'
  BY <1>3 DEF Made
<1>5. Wired(c) /\ Up[c] \subseteq Jobs /\ Up[c] /= {} /\ Told(c)' \subseteq Up[c]
  BY <1>2, BasicFacts, StepFacts DEF AllWired, Along
<1>6. c \notin Late /\ todo[c] = Up[c] /\ Made(c) /\ \A p \in Up[c] : Made(p)
  BY <1>2, <1>5 DEF Wired, StageFits, Made, Wiring
<1>7. StageFits(c)'
  BY <1>2, <1>3, <1>4, <1>5, <1>6, StepFacts DEF Wired, StageFits, Made
<1>8. OverFits(c)'
  BY <1>1, <1>2, <1>3, <1>5, <1>6, StepFacts DEF Wired, OverFits, Exists, Over
<1>9. EdgeFits(c)'
  BY <1>2, <1>4, <1>5, <1>6, StepFacts DEF EdgeFits
<1>10. Wired(c)'
  BY <1>7, <1>8, <1>9 DEF Wired
<1> QED BY <1>2, <1>3, <1>4, <1>10, WiredOthers

LEMMA WiredLink ==
  ASSUME Along, NEW c \in Jobs, Link(c)
  PROVE  AllWired'
<1>1. /\ stage[c] = "written"
      /\ parents' = [parents EXCEPT ![c] = @ \cup Far(c)]
      /\ stage' = [stage EXCEPT ![c] = IF ~Dag /\ Far(c) /= {} THEN "present" ELSE "linked"]
      /\ UNCHANGED <<job, todo, resolved>>
  BY DEF Link, Far, Untouched
<1>2. /\ stage'[c] = (IF ~Dag /\ Far(c) /= {} THEN "present" ELSE "linked") /\ parents'[c] = parents[c] \cup Far(c)
      /\ \A j \in Jobs \ {c} : /\ Onward(job[j], job'[j])
                              /\ stage'[j] = stage[j] /\ todo'[j] = todo[j] /\ parents'[j] = parents[j]
  BY <1>1, OnwardSelf, BasicFacts DEF Along
<1>3. \A j \in Jobs : Made(j) => Made(j)'
  BY <1>2 DEF Made
<1>4. Wired(c) /\ Up[c] \subseteq Jobs /\ Told(c)' \subseteq Up[c]
  BY BasicFacts, StepFacts DEF AllWired, Along
<1>5. c \notin Late /\ todo[c] = Up[c] /\ Made(c) /\ \A p \in Up[c] : Made(p)
  BY <1>1, <1>4 DEF Wired, StageFits, Made, Wiring
<1>6. StageFits(c)'
  BY <1>1, <1>2, <1>3, <1>4, <1>5, StepFacts DEF Wired, StageFits, Made
<1>7. OverFits(c)'
  BY <1>1, <1>2, <1>4, <1>5, StepFacts DEF Wired, OverFits, Over
<1>8. EdgeFits(c)'
  BY <1>1, <1>3, <1>4, <1>5, StepFacts DEF EdgeFits
<1>9. Wired(c)'
  BY <1>6, <1>7, <1>8 DEF Wired
<1> QED BY <1>1, <1>2, <1>3, <1>9, WiredOne

LEMMA WiredLook ==
  ASSUME Along, NEW c \in Jobs, Look(c)
  PROVE  AllWired'
<1>1. /\ stage[c] = "linked" /\ UNCHANGED <<todo, resolved>>
      /\ \/ /\ job[c].state \in {"none", "ghost"} /\ stage' = [stage EXCEPT ![c] = "erased"]
            /\ job' = [job EXCEPT ![c] = Hash("none")] /\ parents' = [parents EXCEPT ![c] = {}]
         \/ /\ job[c].state \notin {"none", "ghost"} /\ stage' = [stage EXCEPT ![c] = "present"]
            /\ UNCHANGED <<job, parents>>
  BY DEF Look, Untouched
<1>2. /\ \/ /\ job[c].state \in {"none", "ghost"} /\ stage'[c] = "erased"
            /\ job'[c] = Hash("none") /\ parents'[c] = {}
         \/ /\ job[c].state \notin {"none", "ghost"} /\ stage'[c] = "present"
            /\ job'[c] = job[c] /\ parents'[c] = parents[c]
      /\ \A j \in Jobs \ {c} : /\ Onward(job[j], job'[j])
                              /\ stage'[j] = stage[j] /\ todo'[j] = todo[j] /\ parents'[j] = parents[j]
  BY <1>1, OnwardSelf, BasicFacts DEF Along
<1>3. \A j \in Jobs : Made(j) => Made(j)'
  BY <1>2 DEF Made
<1>4. Wired(c) /\ Up[c] \subseteq Jobs /\ Told(c)' \subseteq Up[c] /\ Hash("none").state = "none"
  BY BasicFacts, StepFacts, HashFacts DEF AllWired, Along, States
<1>5. c \notin Late /\ todo[c] = Up[c] /\ Made(c) /\ \A p \in Up[c] : Made(p)
  BY <1>1, <1>4 DEF Wired, StageFits, Made, Wiring
<1>6. StageFits(c)'
  BY <1>1, <1>2, <1>3, <1>4, <1>5, StepFacts DEF Wired, StageFits, Made, Alive
<1>7. OverFits(c)'
  BY <1>1, <1>2, <1>4, <1>5, StepFacts DEF Wired, OverFits, Over
<1>8. EdgeFits(c)'
  BY <1>1, <1>3, <1>4, <1>5, StepFacts DEF EdgeFits
<1>9. Wired(c)'
  BY <1>6, <1>7, <1>8 DEF Wired
<1> QED BY <1>1, <1>2, <1>3, <1>9, WiredOne

(* The last steps of a wiring: c reports to p, or is found still running. *)
LEMMA WiredFinish ==
  ASSUME Along, NEW c \in Jobs, NEW p \in Up[c], Finish(c, p),
         stage[c] \in {"erased", "missing", "present"},
         resolved' = resolved,
         \A j \in Jobs \ {c} : Onward(job[j], job'[j]) /\ parents'[j] = parents[j],
         job'[c] = job[c] \/ (job[c].state \in {"none", "ghost"} /\ job'[c] = Hash("none")),
         parents[c] \subseteq parents'[c] \/ job'[c].state = "none",
         Alive(c) => p \in parents'[c],
         job'[c].state /= "ghost"
  PROVE  AllWired'
<1>1. p \in Jobs /\ Up[c] \subseteq Jobs /\ Wired(c) /\ Told(c)' \subseteq Up[c] /\ Hash("none").state = "none"
  BY BasicFacts, StepFacts, HashFacts DEF AllWired, Along, States
<1>2. /\ todo'[c] = todo[c] \ {p} /\ stage'[c] = (IF todo[c] = {p} THEN "done" ELSE stage[c])
      /\ \A j \in Jobs \ {c} : todo'[j] = todo[j] /\ stage'[j] = stage[j]
  BY FinishFacts DEF Along
<1>3. c \notin Late /\ \A q \in Up[c] : Made(q)
  BY <1>1 DEF Wired, StageFits, Wiring
<1>4. \A j \in Jobs : Made(j) => Made(j)'
  BY <1>2 DEF Made
<1>5. StageFits(c)'
  BY <1>1, <1>2, <1>3, <1>4, StepFacts DEF Wired, StageFits, Made, Alive
<1>6. OverFits(c)'
  BY <1>1, <1>2, StepFacts DEF Wired, OverFits, Over, Made
<1>7. EdgeFits(c)'
  <2>1. \A q \in Told(c)' : Made(q)'
    BY <1>1, <1>3, <1>4
  <2>2. ASSUME Alive(c)', NEW q \in Up[c] PROVE q \in Told(c)' \/ (q \in todo'[c] /\ c \notin Late)
    <3>1. Alive(c) /\ job'[c] = job[c] /\ parents[c] \subseteq parents'[c]
      BY <1>1, <2>2, StepFacts DEF Alive
    <3>2. Told(c) \subseteq Told(c)' /\ (q \in Told(c) \/ q \in todo[c])
      BY <1>1, <3>1, StepFacts DEF Told, TreeEdge, Wired, EdgeFits
    <3> QED BY <1>2, <1>3, <3>1, <3>2, StepFacts
  <2> QED BY <2>1, <2>2, StepFacts DEF EdgeFits
<1>8. Wired(c)'
  BY <1>5, <1>6, <1>7 DEF Wired
<1> QED BY <1>2, <1>4, <1>8, WiredOne

LEMMA WiredReportErased ==
  ASSUME Along, NEW c \in Jobs, NEW p \in Up[c], ReportErased(c, p)
  PROVE  AllWired'
<1>1. /\ stage[c] = "erased" /\ ReportTo(p, deps[p] \cup {c}, c) /\ Finish(c, p)
      /\ UNCHANGED <<parents, resolved>>
  BY DEF ReportErased, Untouched
<1>2. p \in Jobs /\ p /= c /\ deps[p] \cup {c} \in SUBSET Jobs /\ Wired(c)
  BY BasicFacts DEF AllWired, Along
<1>3. /\ \A j \in Jobs : Onward(job[j], job'[j])
      /\ \A j \in Jobs \ {p} : job'[j] = job[j]
  BY <1>1, <1>2, ReportToFacts DEF Along
<1>4. job'[c] = job[c] /\ job[c].state = "none" /\ ~Alive(c)
  BY <1>1, <1>2, <1>3 DEF Wired, StageFits, Alive
<1> QED BY <1>1, <1>3, <1>4, WiredFinish

LEMMA WiredReportMissing ==
  ASSUME Along, NEW c \in Jobs, NEW p \in Up[c], ReportMissing(c, p)
  PROVE  AllWired'
<1>1. /\ stage[c] = "missing" /\ ReportTo(p, deps[p], c) /\ Finish(c, p)
      /\ UNCHANGED <<parents, resolved>>
  BY DEF ReportMissing, Untouched
<1>2. p \in Jobs /\ p /= c /\ deps[p] \in SUBSET Jobs /\ Wired(c)
  BY BasicFacts DEF AllWired, Along
<1>3. /\ \A j \in Jobs : Onward(job[j], job'[j])
      /\ \A j \in Jobs \ {p} : job'[j] = job[j]
  BY <1>1, <1>2, ReportToFacts DEF Along
<1>4. job'[c] = job[c] /\ job[c].state = "none" /\ ~Alive(c)
  BY <1>1, <1>2, <1>3 DEF Wired, StageFits, Alive
<1> QED BY <1>1, <1>3, <1>4, WiredFinish

LEMMA NearOnly ==
  ASSUME Basic, ~Dag, NEW c \in Jobs, NEW p \in Up[c], Near(c, p)
  PROVE  Far(c) = {}
<1>1. PICK q \in Jobs : Up[c] = {q}
  BY BasicFacts, FlowFacts
<1> QED BY <1>1 DEF Far

LEMMA WiredRegister ==
  ASSUME Along, NEW c \in Jobs, NEW p \in Up[c], Register(c, p)
  PROVE  AllWired'
<1>1. /\ \A j \in Jobs : Onward(job[j], job'[j])
      /\ \A j \in Jobs \ {p} : job'[j] = job[j]
      /\ parents' = IF Exists(job[c]) THEN [parents EXCEPT ![c] = @ \cup {p}] ELSE parents
      /\ stage[c] = "present" /\ Near(c, p) /\ Finish(c, p)
      /\ resolved' = resolved
  BY RegisterFacts DEF Along
<1>2. p \in Jobs /\ p /= c /\ Wired(c)
  BY BasicFacts DEF AllWired, Along
<1>3. job'[c] = job[c] /\ job[c].state /= "ghost"
  BY <1>1, <1>2, NearOnly DEF Wired, OverFits, Along
<1>4. /\ parents[c] \subseteq parents'[c] /\ (Alive(c) => p \in parents'[c])
      /\ \A j \in Jobs \ {c} : parents'[j] = parents[j]
  BY <1>1, BasicFacts DEF Along, Alive, Exists
<1> QED BY <1>1, <1>3, <1>4, WiredFinish

LEMMA WiredRecheck ==
  ASSUME Along, NEW c \in Jobs, NEW p \in Up[c], Recheck(c, p)
  PROVE  AllWired'
<1> DEFINE gone == ~Dag /\ job[c].state \in {"none", "ghost"}
<1>1. /\ job'[c] = IF gone THEN Hash("none") ELSE job[c]
      /\ \A j \in Jobs \ {c} : Onward(job[j], job'[j])
      /\ parents' = IF gone THEN [parents EXCEPT ![c] = {}] ELSE parents
      /\ stage[c] = "present" /\ ~Near(c, p) /\ Finish(c, p)
      /\ resolved' = resolved
  BY RecheckFacts DEF Along
<1>2. p \in Jobs /\ Wired(c) /\ Hash("none").state = "none"
  BY BasicFacts, HashFacts DEF AllWired, Along, States
<1>3. job'[c].state /= "ghost"
  BY <1>1, <1>2 DEF Wired, OverFits
<1>4. \A j \in Jobs \ {c} : parents'[j] = parents[j]
  BY <1>1, BasicFacts DEF Along
<1>5. Alive(c) => p \in parents'[c]
  BY <1>1, <1>2 DEF Wired, StageFits, Far, Alive
<1> QED BY <1>1, <1>2, <1>3, <1>4, <1>5, WiredFinish

LEMMA WiredAddLate ==
  ASSUME Along, NEW c \in Jobs, AddLate(c)
  PROVE  AllWired'
<1>1. PICK p \in Jobs : Up[c] = {p} /\ p = CHOOSE q \in Up[c] : TRUE
  BY BasicFacts, FlowFacts DEF AddLate, Along
<1> DEFINE g == [Hash("waiting") EXCEPT !.parentId = p]
<1>2. g.state = "waiting" /\ g.parentId = p
  <2>1. Hash("waiting") \in Record /\ Hash("waiting").state = "waiting" /\ p \in Jobs \cup {Nobody}
    BY HashFacts DEF States
  <2> QED BY <2>1, ParentSet
<1>3. /\ c \in Late /\ stage[c] = "new" /\ job[p].state = "active" /\ job' = [job EXCEPT ![c] = g]
      /\ stage' = [stage EXCEPT ![c] = IF Near(c, p) THEN "done" ELSE "made"]
      /\ todo' = [todo EXCEPT ![c] = IF Near(c, p) THEN {} ELSE @]
      /\ UNCHANGED <<parents, resolved>>
  BY <1>1 DEF AddLate, Untouched
<1> HIDE DEF g
<1>4. /\ job'[c] = g /\ stage'[c] = (IF Near(c, p) THEN "done" ELSE "made")
      /\ todo'[c] = (IF Near(c, p) THEN {} ELSE todo[c])
      /\ resolved' = resolved
      /\ \A j \in Jobs \ {c} : /\ Onward(job[j], job'[j])
                              /\ stage'[j] = stage[j] /\ todo'[j] = todo[j] /\ parents'[j] = parents[j]
  BY <1>3, OnwardSelf, BasicFacts DEF Along
<1>5. \A j \in Jobs : Made(j) => Made(j)'
  BY <1>4 DEF Made
<1>6. Wired(c) /\ Told(c)' \subseteq Up[c] /\ Made(p)
  BY <1>3, BasicFacts, StepFacts DEF AllWired, Along, Made
<1>7. todo[c] = Up[c] /\ c \notin resolved
  BY <1>3, <1>6 DEF Wired, StageFits, Made
<1>8. StageFits(c)'
  <2>1. \A q \in Up[c] : Made(q)'
    BY <1>1, <1>5, <1>6
  <2>2. Made(c)' /\ stage'[c] \in {"done", "made"} /\ (stage'[c] = "done" => todo'[c] = {})
        /\ (stage'[c] = "made" => todo'[c] = Up[c])
    BY <1>4, <1>7, StepFacts
  <2> QED BY <1>3, <2>1, <2>2, StepFacts DEF StageFits
<1>9. OverFits(c)'
  BY <1>2, <1>3, <1>4, <1>7, StepFacts DEF OverFits
<1>10. p \in Told(c)'
  BY <1>2, <1>4, StepFacts, JobsAssumption
<1>11. EdgeFits(c)'
  BY <1>1, <1>5, <1>6, <1>10, StepFacts DEF EdgeFits
<1>12. Wired(c)'
  BY <1>8, <1>9, <1>11 DEF Wired
<1> QED BY <1>4, <1>5, <1>12, WiredOne

LEMMA WiredRegisterLate ==
  ASSUME Along, NEW c \in Jobs, NEW plain \in BOOLEAN, RegisterLate(c, plain)
  PROVE  AllWired'
<1>1. PICK p \in Jobs :
        /\ Up[c] = {p} /\ c \in Late /\ stage[c] = "made" /\ Finish(c, p)
        /\ \A j \in Jobs : Onward(job[j], job'[j])
        /\ \A j \in Jobs \ {p} : job'[j] = job[j]
        /\ UNCHANGED <<parents, resolved>>
  BY RegisterLateFacts DEF Along
<1>2. /\ todo'[c] = todo[c] \ {p} /\ stage'[c] = (IF todo[c] = {p} THEN "done" ELSE stage[c])
      /\ \A j \in Jobs \ {c} : todo'[j] = todo[j] /\ stage'[j] = stage[j]
  BY <1>1, FinishFacts DEF Along
<1>3. \A j \in Jobs : Made(j) => Made(j)'
  BY <1>2 DEF Made
<1>4. Wired(c) /\ c /= p /\ job'[c] = job[c] /\ Told(c)' = Told(c) /\ Told(c) \subseteq Up[c]
  BY <1>1, BasicFacts DEF AllWired, Along, Told, TreeEdge
<1>5. todo[c] = {p} /\ Made(p)
  BY <1>1, <1>4 DEF Wired, StageFits
<1>6. StageFits(c)'
  BY <1>1, <1>2, <1>3, <1>4, <1>5, StepFacts DEF StageFits, Made, Wiring
<1>7. OverFits(c)'
  BY <1>1, <1>2, <1>4, <1>5, StepFacts DEF Wired, OverFits, Over, Made
<1>8. EdgeFits(c)'
  BY <1>1, <1>3, <1>4, <1>5, StepFacts DEF Wired, EdgeFits, Alive
<1>9. Wired(c)'
  BY <1>6, <1>7, <1>8 DEF Wired
<1> QED BY <1>1, <1>2, <1>3, <1>9, WiredOne

LEMMA WiredStep ==
  ASSUME Along, Next, "clean" \notin Races
  PROVE  AllWired'
<1>1. ASSUME NEW j \in Jobs, Produce(j) PROVE AllWired'
  <2>1. ASSUME Wire(j) PROVE AllWired'
    BY <2>1, WiredCheck, WiredWrite, WiredLink, WiredLook, WiredReportErased, WiredRegister,
       WiredReportMissing, WiredRecheck DEF Wire
  <2> QED BY <1>1, <2>1, WiredAddNestedLeaf, WiredAddFlow, WiredAddNode, WiredAddLeaf DEF Produce
<1>2. ASSUME NEW j \in Jobs, RegisterChild(j) PROVE AllWired'
  BY <1>2, WiredRegisterLate DEF RegisterChild
<1> QED BY <1>1, <1>2, WiredRun, WiredNotify, WiredReserveLeaves, WiredRemoveJob, WiredClean,
           WiredHealEarlyDeps, WiredAddLate DEF Next, Step

-----------------------------------------------------------------------------
(* What the parents know of the children that are over.                      *)

(* A hash with deps d whose children all are in R. *)
Sound(h, d, R) == Tallied(h) /\ h.depdone \subseteq d \cap R /\ h.depearly \subseteq R

CountedAt(p) ==
  Alive(p) => Sound(job[p], deps[p], resolved) /\ (job[p].depearly /= {} => p \in earlyIndex)

NoteFits(e) ==
  /\ e[1] \in resolved /\ Made(e[2])
  /\ e \in told /\ Alive(e[2]) => e[1] \in Seen(job[e[2]])

Remembered(c) ==
  c \in resolved => \A p \in Up[c] : Alive(p) =>
    c \in Seen(job[p]) \/ <<c, p>> \in xqPending \/ (p \in todo[c] /\ c \notin Late)

Known ==
  /\ \A p \in Jobs : CountedAt(p)
  /\ \A e \in xqPending : NoteFits(e)
  /\ \A c \in Jobs : Remembered(c)

(* A step leaves p's count right, and p forgets no child. *)
Grown(p) == CountedAt(p)' /\ (Made(p) /\ Alive(p)' => Alive(p) /\ Seen(job[p]) \subseteq Seen(job'[p]))

LEMMA GrownSame ==
  ASSUME Along, NEW p \in Jobs, CountedAt(p), resolved \subseteq resolved', earlyIndex \subseteq earlyIndex',
         Alive(p)' => /\ Alive(p) /\ job'[p].depdone = job[p].depdone /\ job'[p].depearly = job[p].depearly
                      /\ job'[p].depsCompleted = job[p].depsCompleted /\ deps[p] \subseteq deps'[p]
  PROVE  Grown(p)
<1>1. ASSUME Alive(p)' PROVE Sound(job'[p], deps'[p], resolved') /\ (job'[p].depearly /= {} => p \in earlyIndex')
  BY <1>1 DEF CountedAt, Sound, Tallied
<1>2. Alive(p)' => Seen(job'[p]) = Seen(job[p])
  BY DEF Seen
<1> QED BY <1>1, <1>2 DEF Grown, CountedAt

LEMMA GrownFresh ==
  ASSUME Along, NEW p \in Jobs, ~Made(p),
         job'[p].depdone = {}, job'[p].depearly = {}, job'[p].depsCompleted = 0
  PROVE  Grown(p)
<1>1. Sound(job'[p], deps'[p], resolved')
  BY FS_EmptySet DEF Sound, Tallied
<1> QED BY <1>1 DEF Grown, CountedAt

LEMMA GrownReported ==
  ASSUME Along, NEW p \in Jobs, NEW c \in Jobs, CountedAt(p), job'[p] = Reported(job[p], deps'[p], c),
         deps[p] \subseteq deps'[p], c \in resolved', resolved \subseteq resolved', earlyIndex \subseteq earlyIndex',
         ~(job'[p].depearly \subseteq job[p].depearly) => p \in earlyIndex'
  PROVE  Grown(p) /\ (Alive(p)' => c \in Seen(job'[p]))
<1>1. PICK h \in Record, r \in Record, d \in SUBSET Jobs : h = job[p] /\ r = job'[p] /\ d = deps'[p] /\ r = Reported(h, d, c)
  <2>1. job[p] \in Record /\ job'[p] \in Record /\ deps'[p] \in SUBSET Jobs
    BY BasicFacts, StepFacts DEF Along
  <2> QED BY <2>1
<1>2. /\ Onward(h, r)
      /\ r.depdone \subseteq h.depdone \cup (d \cap (h.depearly \cup {c}))
      /\ Exists(h) /\ h.depdone \subseteq d /\ Tallied(h) => Tallied(r) /\ Seen(r) = Seen(h) \cup {c}
  <2> DEFINE q == Reported(h, d, c)
  <2>1. /\ Onward(h, q)
        /\ q.depdone \subseteq h.depdone \cup (d \cap (h.depearly \cup {c}))
        /\ Exists(h) /\ h.depdone \subseteq d /\ Tallied(h) => Tallied(q) /\ Seen(q) = Seen(h) \cup {c}
    BY ReportedFacts
  <2>2. q = r
    BY <1>1
  <2> HIDE DEF q
  <2> QED BY <2>1, <2>2
<1>3. Alive(p)' => Alive(p) /\ Exists(h)
  BY <1>1, <1>2 DEF Onward, Alive, Exists
<1>4. ASSUME Alive(p)'
      PROVE  /\ Tallied(r) /\ Seen(r) = Seen(h) \cup {c} /\ r.depdone \subseteq d \cap resolved'
             /\ r.depearly \subseteq resolved' /\ (r.depearly /= {} => p \in earlyIndex')
  <2>1. Sound(h, deps[p], resolved) /\ (h.depearly /= {} => p \in earlyIndex)
    BY <1>1, <1>3, <1>4 DEF CountedAt
  <2>2. h.depdone \subseteq d /\ Tallied(r) /\ Seen(r) = Seen(h) \cup {c}
    BY <1>1, <1>2, <1>3, <1>4, <2>1 DEF Sound
  <2> QED BY <1>1, <1>2, <2>1, <2>2 DEF Sound, Seen
<1>5. Alive(p)' => Sound(job'[p], deps'[p], resolved') /\ (job'[p].depearly /= {} => p \in earlyIndex')
  BY <1>1, <1>4 DEF Sound
<1> QED BY <1>1, <1>3, <1>4, <1>5 DEF Grown, CountedAt

LEMMA GrownHealed ==
  ASSUME Along, NEW p \in Jobs, CountedAt(p), job'[p] = Healed(job[p], deps'[p]),
         deps[p] \subseteq deps'[p], resolved \subseteq resolved',
         job'[p].depearly /= {} /\ p \in earlyIndex => p \in earlyIndex'
  PROVE  Grown(p)
<1>1. PICK h \in Record, r \in Record, d \in SUBSET Jobs : h = job[p] /\ r = job'[p] /\ d = deps'[p] /\ r = Healed(h, d)
  <2>1. job[p] \in Record /\ job'[p] \in Record /\ deps'[p] \in SUBSET Jobs
    BY BasicFacts, StepFacts DEF Along
  <2> QED BY <2>1
<1>2. /\ Onward(h, r)
      /\ r.depdone = h.depdone \cup (h.depearly \cap d) /\ r.depearly = h.depearly \ d
      /\ Tallied(h) => Tallied(r) /\ Seen(r) = Seen(h)
  BY <1>1, HealedFacts
<1>3. Alive(p)' => Alive(p)
  BY <1>1, <1>2 DEF Onward, Alive
<1>4. ASSUME Alive(p)'
      PROVE  /\ Tallied(r) /\ Seen(r) = Seen(h) /\ r.depdone \subseteq d \cap resolved'
             /\ r.depearly \subseteq resolved' /\ (r.depearly /= {} => p \in earlyIndex')
  <2>1. Sound(h, deps[p], resolved) /\ (h.depearly /= {} => p \in earlyIndex)
    BY <1>1, <1>3, <1>4 DEF CountedAt
  <2> QED BY <1>1, <1>2, <2>1 DEF Sound
<1>5. Alive(p)' => Sound(job'[p], deps'[p], resolved') /\ (job'[p].depearly /= {} => p \in earlyIndex')
  BY <1>1, <1>4 DEF Sound
<1> QED BY <1>1, <1>3, <1>4, <1>5 DEF Grown, CountedAt

(* A child that is over and a parent the producer has not added yet. *)
LEMMA NotYet ==
  ASSUME Along, NEW c \in Jobs, NEW p \in Up[c], c \in resolved, ~Made(p)
  PROVE  p \in todo[c] /\ c \notin Late
<1>1. Wired(c) /\ stage[c] \in Stages
  BY BasicFacts DEF Along, AllWired
<1> QED BY <1>1 DEF Wired, StageFits, Made, Stages, Wiring

LEMMA KnownStep ==
  ASSUME Along, Known, resolved \subseteq resolved',
         \A p \in Jobs : Grown(p) /\ (Made(p) => Made(p)'),
         \A e \in xqPending' \ xqPending : e[1] \in resolved' /\ Made(e[2])',
         \A e \in told' \ told : Alive(e[2])' => e[1] \in Seen(job'[e[2]]),
         \A e \in xqPending \ xqPending' : Alive(e[2])' => e[1] \in Seen(job'[e[2]]),
         \A c \in resolved' \ resolved : \A p \in Up[c] : Alive(p)' =>
            c \in Seen(job'[p]) \/ <<c, p>> \in xqPending' \/ (p \in todo'[c] /\ c \notin Late),
         \A c \in resolved : \A p \in Up[c] : p \in todo[c] \ todo'[c] /\ c \notin Late /\ Alive(p)' => c \in Seen(job'[p])
  PROVE  Known'
<1>1. /\ told \subseteq xqPending /\ told' \subseteq xqPending' /\ xqPending \subseteq Edges /\ xqPending' \subseteq Edges
      /\ \A e \in Edges : e[1] \in Jobs /\ e[2] \in Jobs /\ e = <<e[1], e[2]>>
      /\ \A c \in Jobs : Up[c] \subseteq Jobs
  <2>1. Edges' = Edges
    BY FlowKept DEF Along
  <2> QED BY <2>1, BasicFacts DEF Along, Basic, TypeOK, Edges
<1>2. \A p \in Jobs : CountedAt(p)'
  BY DEF Grown
<1>3. ASSUME NEW e \in xqPending' PROVE NoteFits(e)'
  <2>1. e[1] \in resolved' /\ Made(e[2])'
    BY <1>1 DEF Known, NoteFits
  <2>2. ASSUME e \in told', Alive(e[2])' PROVE e[1] \in Seen(job'[e[2]])
    <3>1. CASE e \in told
      <4>1. NoteFits(e) /\ e[2] \in Jobs
        BY <1>1, <3>1 DEF Known
      <4> QED BY <2>2, <3>1, <4>1 DEF NoteFits, Grown
    <3>2. CASE e \notin told
      BY <2>2, <3>2
    <3> QED BY <3>1, <3>2
  <2> QED BY <2>1, <2>2 DEF NoteFits
<1>4. ASSUME NEW c \in Jobs PROVE Remembered(c)'
  <2>1. Up' = Up /\ Late' = Late
    BY StepFacts
  <2>2. ASSUME c \in resolved', NEW p \in Up[c], Alive(p)'
        PROVE  c \in Seen(job'[p]) \/ <<c, p>> \in xqPending' \/ (p \in todo'[c] /\ c \notin Late)
    <3>1. CASE c \in resolved /\ Made(p)
      <4>1. Alive(p) /\ Seen(job[p]) \subseteq Seen(job'[p]) /\ Remembered(c)
        BY <1>1, <2>2, <3>1 DEF Known, Grown
      <4>2. c \in Seen(job[p]) \/ <<c, p>> \in xqPending \/ (p \in todo[c] /\ c \notin Late)
        BY <3>1, <4>1 DEF Remembered
      <4>3. <<c, p>>[1] = c /\ <<c, p>>[2] = p
        OBVIOUS
      <4> QED BY <2>2, <3>1, <4>1, <4>2, <4>3
    <3>2. CASE c \in resolved /\ ~Made(p)
      BY <2>2, <3>2, NotYet
    <3>3. CASE c \notin resolved
      BY <2>2, <3>3
    <3> QED BY <3>1, <3>2, <3>3
  <2> QED BY <2>1, <2>2 DEF Remembered
<1> QED BY <1>2, <1>3, <1>4 DEF Known

(* The same for the steps that finish no job and touch no note. *)
LEMMA KnownQuiet ==
  ASSUME Along, Known, UNCHANGED <<resolved, xqPending, told>>,
         \A p \in Jobs : Grown(p) /\ (Made(p) => Made(p)'),
         \A c \in resolved : \A p \in Up[c] : p \in todo[c] \ todo'[c] /\ c \notin Late /\ Alive(p)' => c \in Seen(job'[p])
  PROVE  Known'
BY KnownStep

Ahead == Along /\ Known /\ \A p \in Jobs : Made(p) => Made(p)'

LEMMA MadeKept ==
  ASSUME Along, Next
  PROVE  \A p \in Jobs : Made(p) => Made(p)'
<1> SUFFICES ASSUME NEW p \in Jobs, Made(p) PROVE stage'[p] \notin {"new", "reserved"}
  BY DEF Made
<1>1. stage \in [Jobs -> Stages] /\ stage[p] \notin {"new", "reserved"}
  BY BasicFacts DEF Made, Along
<1>2. ASSUME NEW j \in Jobs, Produce(j) PROVE stage'[p] \notin {"new", "reserved"}
  <2>1. ASSUME NEW q \in Up[j], Finish(j, q) PROVE stage'[p] \notin {"new", "reserved"}
    BY <1>1, <2>1 DEF Finish
  <2>2. CASE Wire(j)
    BY <1>1, <2>1, <2>2 DEF Wire, Check, Write, Link, Look, ReportErased, Register, ReportMissing, Recheck
  <2>3. CASE AddFlow(j)
    BY <1>1, <2>3 DEF AddFlow
  <2> QED BY <1>1, <1>2, <2>2, <2>3 DEF Produce, AddNestedLeaf, AddNode, AddLeaf
<1>3. ASSUME NEW j \in Jobs, Run(j) PROVE stage'[p] \notin {"new", "reserved"}
  BY <1>1, <1>3 DEF Run, Activate, Retry, Promote, MoveToWaitingChildren, Complete, Fail
<1>4. ASSUME NEW j \in Jobs, AddLate(j) \/ RegisterChild(j) PROVE stage'[p] \notin {"new", "reserved"}
  BY <1>1, <1>4 DEF AddLate, RegisterChild, RegisterLate, Finish
<1>5. CASE ReserveLeaves
  BY <1>1, <1>5 DEF ReserveLeaves
<1>6. ASSUME NEW j \in Jobs, RemoveJob(j) \/ Clean(j) \/ HealEarlyDeps(j) PROVE stage'[p] \notin {"new", "reserved"}
  BY <1>1, <1>6 DEF RemoveJob, Clean, HealEarlyDeps
<1>7. ASSUME NEW e \in Edges, Notify(e) PROVE stage'[p] \notin {"new", "reserved"}
  BY <1>1, <1>7 DEF Notify, Deliver, DropNote
<1> QED BY <1>2, <1>3, <1>4, <1>5, <1>6, <1>7 DEF Next, Step

(* Steps that change no count. *)
LEMMA KnownSame ==
  ASSUME Ahead, UNCHANGED <<resolved, xqPending, told, todo>>, earlyIndex \subseteq earlyIndex',
         \A p \in Jobs : Alive(p)' =>
            /\ Alive(p) /\ job'[p].depdone = job[p].depdone /\ job'[p].depearly = job[p].depearly
            /\ job'[p].depsCompleted = job[p].depsCompleted /\ deps[p] \subseteq deps'[p]
  PROVE  Known'
<1>1. \A p \in Jobs : CountedAt(p)
  BY DEF Ahead, Known
<1>2. \A p \in Jobs : Grown(p)
  BY <1>1, GrownSame DEF Ahead
<1> QED BY <1>2, KnownQuiet DEF Ahead

(* Steps that add jobs. *)
LEMMA KnownFresh ==
  ASSUME Ahead, UNCHANGED <<resolved, xqPending, told, earlyIndex>>,
         \A p \in Jobs :
            \/ ~Made(p) /\ job'[p].depdone = {} /\ job'[p].depearly = {} /\ job'[p].depsCompleted = 0
            \/ job'[p] = job[p] /\ deps[p] \subseteq deps'[p],
         \A c \in Jobs : todo'[c] = todo[c] \/ ~Made(c)
  PROVE  Known'
<1>1. \A p \in Jobs : CountedAt(p)
  BY DEF Ahead, Known
<1>2. \A p \in Jobs : Grown(p)
  <2> TAKE p \in Jobs
  <2>1. CASE ~Made(p) /\ job'[p].depdone = {} /\ job'[p].depearly = {} /\ job'[p].depsCompleted = 0
    BY <2>1, GrownFresh DEF Ahead
  <2>2. CASE job'[p] = job[p] /\ deps[p] \subseteq deps'[p]
    BY <1>1, <2>2, GrownSame DEF Ahead, Alive
  <2> QED BY <2>1, <2>2
<1>3. \A c \in resolved : todo'[c] = todo[c]
  BY BasicFacts DEF Ahead, Along, AllWired, Wired, StageFits
<1> QED BY <1>2, <1>3, KnownQuiet DEF Ahead

(* Steps in which child c, which is over, reports to p. *)
LEMMA KnownReport ==
  ASSUME Ahead, NEW c \in Jobs, NEW p \in Jobs, c \in resolved,
         UNCHANGED <<resolved, xqPending, told>>, earlyIndex \subseteq earlyIndex',
         job'[p] = Reported(job[p], deps'[p], c),
         \A j \in Jobs \ {p} : Alive(j)' => job'[j] = job[j],
         \A j \in Jobs : deps[j] \subseteq deps'[j],
         \A j \in Jobs : ~(job'[j].depearly \subseteq job[j].depearly) => j \in earlyIndex',
         todo'[c] = todo[c] \ {p}, \A j \in Jobs \ {c} : todo'[j] = todo[j]
  PROVE  Known'
<1>1. \A j \in Jobs : CountedAt(j)
  BY DEF Ahead, Known
<1>2. Grown(p) /\ (Alive(p)' => c \in Seen(job'[p]))
  BY <1>1, GrownReported DEF Ahead
<1>3. \A j \in Jobs \ {p} : Grown(j)
  BY <1>1, GrownSame DEF Ahead, Alive
<1>4. resolved \subseteq Jobs
  BY BasicFacts DEF Ahead, Along
<1> QED BY <1>2, <1>3, <1>4, KnownQuiet DEF Ahead

LEMMA KnownAdd ==
  ASSUME Ahead, NEW j \in Jobs, AddNestedLeaf(j) \/ AddFlow(j) \/ AddNode(j) \/ AddLeaf(j) \/ AddLate(j)
  PROVE  Known'
<1>1. /\ job \in [Jobs -> Record] /\ deps \in [Jobs -> SUBSET Jobs] /\ todo \in [Jobs -> SUBSET Jobs]
      /\ \A c \in Jobs : Wired(c)
  BY BasicFacts DEF Ahead, Along, AllWired
<1>2. /\ Hash("waiting") \in Record /\ Hash("waiting").depdone = {} /\ Hash("waiting").depearly = {}
      /\ Hash("waiting").depsCompleted = 0
  BY HashFacts DEF States
<1>3. /\ Hash("waiting-children").depdone = {} /\ Hash("waiting-children").depearly = {}
      /\ Hash("waiting-children").depsCompleted = 0
  BY HashFacts DEF States
<1>4. \A p \in Jobs \cup {Nobody} :
        LET g == [Hash("waiting") EXCEPT !.parentId = p]
        IN  g.depdone = {} /\ g.depearly = {} /\ g.depsCompleted = 0
  BY <1>2, ParentSet
<1>5. CASE AddNestedLeaf(j)
  BY <1>1, <1>2, <1>5, KnownFresh DEF AddNestedLeaf, Untouched, Made
<1>6. CASE AddNode(j)
  BY <1>1, <1>3, <1>6, KnownFresh DEF AddNode, Untouched, Made
<1>7. CASE AddFlow(j)
  <2> DEFINE leaves == {c \in Down(j) : ~Nested(c, j)}
             g == [Hash("waiting") EXCEPT !.parentId = j]
  <2>1. /\ ~Dag /\ ~Leaf(j) /\ stage[j] = "new"
        /\ job' = [i \in Jobs |-> IF i = j THEN Hash("waiting-children") ELSE IF i \in leaves THEN g ELSE job[i]]
        /\ deps' = [deps EXCEPT ![j] = Down(j)]
        /\ todo' = [i \in Jobs |-> IF i \in leaves THEN {} ELSE todo[i]]
        /\ UNCHANGED <<resolved, xqPending, told, earlyIndex>>
    BY <1>7 DEF AddFlow, Registered, Untouched
  <2>2. \A c \in leaves : c \in Jobs /\ c /= j /\ ~Made(c)
    <3> TAKE c \in leaves
    <3>1. flow \in Flows
      BY BasicFacts DEF Ahead, Along
    <3>2. c \in Jobs /\ c \notin Late /\ Up[c] = {j} /\ ~Nested(c, j) /\ c /= j
      BY <2>1, <3>1, FlowFacts
    <3>3. ~Made(j)
      BY <2>1 DEF Made
    <3> QED BY <1>1, <2>1, <3>2, <3>3 DEF Wired, StageFits, Made
  <2>3. g.depdone = {} /\ g.depearly = {} /\ g.depsCompleted = 0
    BY <1>4
  <2> HIDE DEF leaves, g
  <2>4. \A p \in Jobs :
          \/ ~Made(p) /\ job'[p].depdone = {} /\ job'[p].depearly = {} /\ job'[p].depsCompleted = 0
          \/ job'[p] = job[p] /\ deps[p] \subseteq deps'[p]
    BY <1>1, <1>3, <2>1, <2>2, <2>3 DEF Made
  <2>5. \A c \in Jobs : todo'[c] = todo[c] \/ ~Made(c)
    BY <2>1, <2>2
  <2> QED BY <2>1, <2>4, <2>5, KnownFresh
<1>8. CASE AddLeaf(j) \/ AddLate(j)
  <2>1. PICK g \in Record :
          /\ job' = [job EXCEPT ![j] = g] /\ g.depdone = {} /\ g.depearly = {} /\ g.depsCompleted = 0
    <3>1. PICK q \in Jobs \cup {Nobody} : job' = [job EXCEPT ![j] = [Hash("waiting") EXCEPT !.parentId = q]]
      <4>1. CASE AddLeaf(j)
        <5> DEFINE whole == \E p \in Jobs : Up[j] = {p} /\ Near(j, p)
                   q == IF whole THEN CHOOSE p \in Up[j] : TRUE ELSE Nobody
        <5>1. q \in Jobs \cup {Nobody}
          OBVIOUS
        <5>2. job' = [job EXCEPT ![j] = [Hash("waiting") EXCEPT !.parentId = q]]
          BY <4>1 DEF AddLeaf
        <5> HIDE DEF q
        <5> QED BY <5>1, <5>2
      <4>2. CASE AddLate(j)
        <5>1. PICK p \in Jobs : Up[j] = {p}
          BY <4>2, BasicFacts, FlowFacts DEF AddLate, Ahead, Along
        <5>2. job' = [job EXCEPT ![j] = [Hash("waiting") EXCEPT !.parentId = p]]
          BY <4>2, <5>1 DEF AddLate
        <5> QED BY <5>2
      <4> QED BY <1>8, <4>1, <4>2
    <3> DEFINE g == [Hash("waiting") EXCEPT !.parentId = q]
    <3>2. g \in Record /\ g.depdone = {} /\ g.depearly = {} /\ g.depsCompleted = 0
      BY <1>2, ParentSet
    <3> HIDE DEF g
    <3>3. job' = [job EXCEPT ![j] = g]
      BY <3>1 DEF g
    <3> QED BY <3>2, <3>3
  <2>2. stage[j] \in {"new", "reserved"} /\ UNCHANGED <<resolved, xqPending, told, earlyIndex>>
    BY <1>8 DEF AddLeaf, AddLate, Untouched
  <2>3. \A p \in Jobs : deps[p] \subseteq deps'[p]
    <3>1. CASE AddLeaf(j)
      BY <1>1, <3>1 DEF AddLeaf
    <3>2. CASE AddLate(j)
      <4> DEFINE p == CHOOSE q \in Up[j] : TRUE
      <4>1. deps' = [deps EXCEPT ![p] = IF Near(j, p) THEN @ \cup {j} ELSE @]
        BY <3>2 DEF AddLate
      <4> HIDE DEF p
      <4> QED BY <1>1, <4>1
    <3> QED BY <1>8, <3>1, <3>2
  <2>4. \A c \in Jobs \ {j} : todo'[c] = todo[c]
    BY <1>1, <1>8 DEF AddLeaf, AddLate
  <2> QED BY <1>1, <2>1, <2>2, <2>3, <2>4, KnownFresh DEF Made
<1> QED BY <1>5, <1>6, <1>7, <1>8

LEMMA KnownCheckWriteLinkLook ==
  ASSUME Ahead, NEW c \in Jobs, Check(c) \/ Write(c) \/ Link(c) \/ Look(c)
  PROVE  Known'
<1>1. job \in [Jobs -> Record] /\ deps \in [Jobs -> SUBSET Jobs]
  BY BasicFacts DEF Ahead, Along
<1>2. UNCHANGED <<resolved, xqPending, told, todo, earlyIndex>> /\ \A p \in Jobs : deps[p] \subseteq deps'[p]
  BY <1>1 DEF Check, Write, Link, Look, Untouched
<1>3. \A p \in Jobs \ {c} : job'[p] = job[p]
  BY <1>1 DEF Check, Write, Link, Look
<1>4. job'[c].state \notin {"none", "ghost"} =>
        /\ Alive(c) /\ job'[c].depdone = job[c].depdone /\ job'[c].depearly = job[c].depearly
        /\ job'[c].depsCompleted = job[c].depsCompleted
  <2>1. CASE Check(c) \/ Link(c)
    BY <2>1 DEF Check, Link, Alive
  <2>2. CASE Look(c)
    <3>1. Hash("none").state = "none"
      BY HashFacts DEF States
    <3> QED BY <1>1, <2>2, <3>1 DEF Look, Alive
  <2>3. CASE Write(c)
    <3> DEFINE h == IF Exists(job[c]) THEN job[c] ELSE Hash("ghost")
               q == IF Dag THEN h.parentId ELSE CHOOSE p \in Up[c] : TRUE
               g == [h EXCEPT !.parentId = q]
    <3>1. h \in Record /\ (h.state = "ghost" \/ (Exists(job[c]) /\ h = job[c]))
      BY <1>1, HashFacts DEF States
    <3>2. Up[c] \subseteq Jobs /\ Up[c] /= {}
      BY <2>3, BasicFacts DEF Write, Ahead, Along
    <3>3. q \in Jobs \cup {Nobody}
      BY <3>1, <3>2 DEF Record
    <3> HIDE DEF h
    <3>4. job' = [job EXCEPT ![c] = [h EXCEPT !.parentId = IF Dag THEN @ ELSE CHOOSE p \in Up[c] : TRUE]]
      BY <2>3 DEF Write, h
    <3>5. job' = [job EXCEPT ![c] = g]
      BY <3>4
    <3> HIDE DEF q
    <3>6. /\ g.state = h.state /\ g.depdone = h.depdone /\ g.depearly = h.depearly
          /\ g.depsCompleted = h.depsCompleted
      BY <3>1, <3>3, ParentSet
    <3> HIDE DEF g
    <3>7. job'[c] = g
      BY <1>1, <3>5
    <3> QED BY <3>1, <3>6, <3>7 DEF Alive, Exists
  <2> QED BY <2>1, <2>2, <2>3
<1>5. \A p \in Jobs : Alive(p)' =>
            /\ Alive(p) /\ job'[p].depdone = job[p].depdone /\ job'[p].depearly = job[p].depearly
            /\ job'[p].depsCompleted = job[p].depsCompleted /\ deps[p] \subseteq deps'[p]
  BY <1>2, <1>3, <1>4 DEF Alive
<1> QED BY <1>2, <1>5, KnownSame

LEMMA KnownReports ==
  ASSUME Ahead, NEW c \in Jobs, NEW p \in Up[c],
         ReportErased(c, p) \/ Register(c, p) \/ ReportMissing(c, p) \/ Recheck(c, p)
  PROVE  Known'
<1>1. /\ job \in [Jobs -> Record] /\ deps \in [Jobs -> SUBSET Jobs] /\ p \in Jobs /\ p /= c
      /\ Wired(c) /\ p \in todo[c] /\ Made(c)
  BY BasicFacts DEF Ahead, Along, AllWired, ReportErased, Register, ReportMissing, Recheck, Made
<1>2. /\ todo'[c] = todo[c] \ {p} /\ \A j \in Jobs \ {c} : todo'[j] = todo[j]
  <2>1. Finish(c, p) /\ stage[c] \notin {"new", "reserved", "done"}
    BY DEF ReportErased, Register, ReportMissing, Recheck
  <2> QED BY <2>1, FinishFacts DEF Ahead, Along
<1>3. Over(c) => c \in resolved
  BY <1>1 DEF Wired, OverFits
<1>4. ASSUME NEW d \in SUBSET Jobs, ReportTo(p, d, c), c \in resolved, deps'[p] = d, deps[p] \subseteq d,
             \A j \in Jobs : deps[j] \subseteq deps'[j],
             UNCHANGED <<resolved, xqPending, told>>
      PROVE  Known'
  <2>1. /\ job'[p] = Reported(job[p], d, c) /\ \A j \in Jobs \ {p} : job'[j] = job[j]
        /\ earlyIndex \subseteq earlyIndex'
        /\ \A j \in Jobs : ~(job'[j].depearly \subseteq job[j].depearly) => j \in earlyIndex'
    BY <1>1, <1>4, ReportToFacts DEF Ahead, Along
  <2> QED BY <1>1, <1>2, <1>4, <2>1, KnownReport
<1>5. CASE ReportErased(c, p)
  <2>1. /\ stage[c] = "erased" /\ ReportTo(p, deps[p] \cup {c}, c) /\ deps' = [deps EXCEPT ![p] = @ \cup {c}]
        /\ UNCHANGED <<resolved, xqPending, told>>
    BY <1>5 DEF ReportErased, Untouched
  <2>2. c \in resolved
    BY <1>1, <1>3, <2>1 DEF Wired, StageFits, Over
  <2>3. deps'[p] = deps[p] \cup {c} /\ deps[p] \cup {c} \in SUBSET Jobs /\ \A j \in Jobs : deps[j] \subseteq deps'[j]
    BY <1>1, <2>1
  <2> QED BY <1>4, <2>1, <2>2, <2>3
<1>6. CASE ReportMissing(c, p)
  <2>1. /\ stage[c] = "missing" /\ ReportTo(p, deps[p], c) /\ deps' = deps
        /\ UNCHANGED <<resolved, xqPending, told>>
    BY <1>6 DEF ReportMissing, Untouched
  <2>2. c \in resolved
    BY <1>1, <1>3, <2>1 DEF Wired, StageFits, Over
  <2> QED BY <1>1, <1>4, <2>1, <2>2
<1>7. CASE Register(c, p)
  <2>1. /\ job'[p] = IF job[c].state \in {"none", "completed"} THEN Reported(job[p], deps[p] \cup {c}, c) ELSE job[p]
        /\ \A j \in Jobs \ {p} : job'[j] = job[j]
        /\ deps' = [deps EXCEPT ![p] = @ \cup {c}] /\ earlyIndex \subseteq earlyIndex'
        /\ \A j \in Jobs : ~(job'[j].depearly \subseteq job[j].depearly) => j \in earlyIndex'
        /\ stage[c] = "present" /\ Near(c, p) /\ UNCHANGED <<xqPending, told, resolved>>
    BY <1>7, RegisterFacts DEF Ahead, Along
  <2>2. deps'[p] = deps[p] \cup {c} /\ \A j \in Jobs : deps[j] \subseteq deps'[j]
    BY <1>1, <2>1
  <2>3. CASE job[c].state \in {"none", "completed"}
    <3>1. c \in resolved
      BY <1>3, <2>3 DEF Over
    <3> QED BY <1>1, <1>2, <2>1, <2>2, <2>3, <3>1, KnownReport
  <2>4. CASE job[c].state \notin {"none", "completed"}
    <3>1. job[c].state /= "ghost"
      BY <1>1, <2>1, NearOnly DEF Wired, OverFits, Ahead, Along
    <3>2. c \notin resolved
      BY <1>1, <2>4, <3>1 DEF Wired, OverFits, Over
    <3>3. \A j \in Jobs : job'[j] = job[j] /\ CountedAt(j)
      BY <2>1, <2>4 DEF Ahead, Known
    <3>4. \A j \in Jobs : Grown(j)
      BY <2>1, <2>2, <3>3, GrownSame DEF Ahead, Alive
    <3>5. \A d \in resolved : todo'[d] = todo[d]
      BY <1>2, <3>2, BasicFacts DEF Ahead, Along
    <3> QED BY <2>1, <3>4, <3>5, KnownQuiet DEF Ahead
  <2> QED BY <2>3, <2>4
<1>8. CASE Recheck(c, p)
  <2> DEFINE gone == ~Dag /\ job[c].state \in {"none", "ghost"}
  <2>1. /\ job'[c] = IF gone THEN Hash("none") ELSE job[c]
        /\ job'[p] = IF Over(c) THEN Reported(job[p], deps[p], c) ELSE job[p]
        /\ \A j \in Jobs \ {c, p} : job'[j] = job[j]
        /\ earlyIndex \subseteq earlyIndex'
        /\ \A j \in Jobs : ~(job'[j].depearly \subseteq job[j].depearly) => j \in earlyIndex'
        /\ UNCHANGED <<deps, xqPending, told, resolved>>
    BY <1>8, RecheckFacts DEF Ahead, Along
  <2> HIDE DEF gone
  <2>2. Hash("none").state = "none"
    BY HashFacts DEF States
  <2>3. \A j \in Jobs \ {p} : Alive(j)' => job'[j] = job[j]
    BY <2>1, <2>2 DEF Alive
  <2>4. CASE Over(c)
    BY <1>1, <1>2, <1>3, <2>1, <2>3, <2>4, KnownReport
  <2>5. CASE ~Over(c)
    <3>1. c \notin resolved
      BY <1>1, <2>5 DEF Wired, OverFits
    <3>2. \A j \in Jobs : (Alive(j)' => job'[j] = job[j]) /\ CountedAt(j)
      BY <2>1, <2>3, <2>5 DEF Ahead, Known
    <3>3. \A j \in Jobs : Grown(j)
      BY <2>1, <3>2, GrownSame DEF Ahead, Alive
    <3>4. \A d \in resolved : todo'[d] = todo[d]
      BY <1>2, <3>1, BasicFacts DEF Ahead, Along
    <3> QED BY <2>1, <3>3, <3>4, KnownQuiet DEF Ahead
  <2> QED BY <2>4, <2>5
<1> QED BY <1>5, <1>6, <1>7, <1>8

LEMMA KnownRegisterLate ==
  ASSUME Ahead, NEW c \in Jobs, NEW plain \in BOOLEAN, RegisterLate(c, plain)
  PROVE  Known'
<1>1. PICK p \in Jobs :
        /\ Up[c] = {p} /\ c \in Late /\ stage[c] = "made" /\ Finish(c, p)
        /\ deps' = [deps EXCEPT ![p] = deps[p] \cup {c}]
        /\ job'[p] = job[p] \/ (Exists(job[p]) /\ job'[p] = Healed(job[p], deps[p] \cup {c}))
        /\ \A j \in Jobs : Onward(job[j], job'[j])
        /\ \A j \in Jobs \ {p} : job'[j] = job[j]
        /\ UNCHANGED <<earlyIndex, xqPending, told, resolved>>
  BY RegisterLateFacts DEF Ahead, Along
<1>2. \A j \in Jobs \ {c} : todo'[j] = todo[j]
  BY <1>1, FinishFacts DEF Ahead, Along
<1>3. deps'[p] = deps[p] \cup {c} /\ \A j \in Jobs : deps[j] \subseteq deps'[j]
  BY <1>1, BasicFacts DEF Ahead, Along
<1>4. \A j \in Jobs : CountedAt(j)
  BY DEF Ahead, Known
<1>5. Grown(p)
  <2>1. CASE job'[p] = job[p]
    BY <1>1, <1>3, <1>4, <2>1, GrownSame DEF Ahead, Alive
  <2>2. CASE job'[p] = Healed(job[p], deps'[p])
    BY <1>1, <1>3, <1>4, <2>2, GrownHealed DEF Ahead
  <2> QED BY <1>1, <1>3, <2>1, <2>2
<1>6. \A j \in Jobs \ {p} : Grown(j)
  BY <1>1, <1>3, <1>4, GrownSame DEF Ahead, Alive
<1>7. resolved \subseteq Jobs
  BY BasicFacts DEF Ahead, Along
<1> QED BY <1>1, <1>2, <1>5, <1>6, <1>7, KnownQuiet DEF Ahead

LEMMA KnownReserveLeaves ==
  ASSUME Ahead, ReserveLeaves
  PROVE  Known'
<1>1. UNCHANGED <<job, resolved, xqPending, told, todo, earlyIndex>> /\ deps' = Reserved(Leaves)
  BY DEF ReserveLeaves, Untouched
<1>2. \A p \in Jobs : deps[p] \subseteq deps'[p]
  BY <1>1 DEF Reserved
<1> QED BY <1>1, <1>2, KnownSame DEF Alive

LEMMA KnownRun ==
  ASSUME Ahead, NEW j \in Jobs, Activate(j) \/ Retry(j) \/ Promote(j) \/ \E again \in BOOLEAN : Fail(j, again)
  PROVE  Known'
<1>1. PICK s \in {"active", "delayed", "failed", "waiting"} :
        /\ job' = [job EXCEPT ![j].state = s] /\ job[j].state \in {"waiting", "active", "failed", "delayed"}
        /\ UNCHANGED <<deps, earlyIndex, todo, resolved, xqPending, told>>
  BY Zenon DEF Activate, Fail, Retry, Promote, Untouched
<1> DEFINE g == [job[j] EXCEPT !.state = s]
<1>2. g.depdone = job[j].depdone /\ g.depearly = job[j].depearly /\ g.depsCompleted = job[j].depsCompleted
  <2>1. job[j] \in Record /\ s \in States
    BY BasicFacts DEF States, Ahead, Along
  <2> QED BY <2>1, StateSet
<1>3. job' = [job EXCEPT ![j] = g]
  BY <1>1
<1> HIDE DEF g
<1>4. job'[j] = g /\ Alive(j) /\ \A i \in Jobs \ {j} : job'[i] = job[i]
  BY <1>1, <1>3, BasicFacts DEF Ahead, Along, Alive
<1>5. \A p \in Jobs : Alive(p)' =>
            /\ Alive(p) /\ job'[p].depdone = job[p].depdone /\ job'[p].depearly = job[p].depearly
            /\ job'[p].depsCompleted = job[p].depsCompleted /\ deps[p] \subseteq deps'[p]
  BY <1>1, <1>2, <1>4 DEF Alive
<1> QED BY <1>1, <1>5, KnownSame

LEMMA KnownMove ==
  ASSUME Ahead, NEW j \in Jobs, MoveToWaitingChildren(j)
  PROVE  Known'
<1> DEFINE m == [job[j] EXCEPT !.state = "waiting-children"]
           h == CountEarly(m, deps[j])
<1>1. /\ job[j].state = "active" /\ \A i \in Jobs \ {j} : job'[i] = job[i]
      /\ job'[j].depdone = h.depdone /\ job'[j].depearly = h.depearly
      /\ job'[j].depsCompleted = h.depsCompleted
      /\ UNCHANGED <<deps, earlyIndex, todo, xqPending, told, resolved>>
  BY MoveFacts DEF Ahead, Along
<1>2. /\ m \in Record /\ m.depdone = job[j].depdone /\ m.depearly = job[j].depearly
      /\ m.depsCompleted = job[j].depsCompleted
  <2>1. job[j] \in Record /\ "waiting-children" \in States
    BY BasicFacts DEF States, Ahead, Along
  <2> QED BY <2>1, StateSet
<1>3. Alive(j) /\ deps[j] \in SUBSET Jobs /\ \A i \in Jobs : CountedAt(i)
  BY <1>1, BasicFacts DEF Alive, Ahead, Along, Known
<1> HIDE DEF m
<1>4. Tallied(m) /\ m.depdone \subseteq deps[j] \cap resolved /\ m.depearly \subseteq resolved
      /\ (m.depearly /= {} => j \in earlyIndex)
  BY <1>2, <1>3 DEF CountedAt, Sound, Tallied
<1>5. /\ Tallied(h) /\ Seen(h) = Seen(m) /\ h.depdone = m.depdone \cup (m.depearly \cap deps[j])
      /\ h.depearly = m.depearly \ deps[j]
  BY <1>2, <1>3, <1>4, EarlyTallied, CountEarlyFacts
<1> HIDE DEF h
<1>6. Sound(job'[j], deps'[j], resolved') /\ (job'[j].depearly /= {} => j \in earlyIndex')
      /\ Seen(job'[j]) = Seen(job[j])
  BY <1>1, <1>2, <1>4, <1>5 DEF Sound, Tallied, Seen
<1>7. Grown(j)
  BY <1>3, <1>6 DEF Grown, CountedAt
<1>8. \A i \in Jobs \ {j} : Grown(i)
  BY <1>1, <1>3, GrownSame DEF Ahead, Alive
<1> QED BY <1>1, <1>7, <1>8, KnownQuiet DEF Ahead

(* A job finishes or is removed. *)
LEMMA KnownReportAll ==
  ASSUME Ahead, NEW j \in Jobs, NEW h \in Record, ReportAll(j, h), Exists(job[j]), h.state /= "waiting",
         h.state = "none" \/ (Alive(j) /\ h.depdone = job[j].depdone /\ h.depearly = job[j].depearly
                             /\ h.depsCompleted = job[j].depsCompleted),
         UNCHANGED <<told, todo>>, \A i \in Jobs \ {j} : deps'[i] = deps[i], h.state /= "none" => deps'[j] = deps[j]
  PROVE  Known'
<1>1. /\ job'[j] = h /\ \A i \in Jobs \ {j} : Onward(job[i], job'[i])
      /\ \A i \in Jobs \ {j} : job'[i] = IF i \in Told(j) /\ Near(j, i)
                                        THEN Reported(job[i], deps[i], j) ELSE job[i]
      /\ earlyIndex \subseteq earlyIndex'
      /\ \A i \in Jobs : ~(job'[i].depearly \subseteq job[i].depearly) => i \in earlyIndex'
      /\ xqPending' = xqPending \cup Notes(j) /\ resolved' = resolved \cup {j}
  BY ReportAllFacts DEF Ahead, Along
<1>2. /\ Wired(j) /\ j \notin Up[j] /\ Told(j) \subseteq Up[j] /\ Up[j] \subseteq Jobs
      /\ \A i \in Jobs : CountedAt(i) /\ (Made(i) => Made(i)')
  BY BasicFacts DEF Ahead, Along, AllWired, Known
<1>3. Grown(j)
  <2>1. CASE h.state = "none"
    BY <1>1, <2>1 DEF Grown, CountedAt, Alive
  <2>2. CASE h.state /= "none"
    BY <1>1, <1>2, <2>2, GrownSame DEF Ahead, Alive
  <2> QED BY <2>1, <2>2
<1>4. ASSUME NEW i \in Jobs \ {j}
      PROVE  Grown(i) /\ (i \in Told(j) /\ Near(j, i) /\ Alive(i)' => j \in Seen(job'[i]))
  <2>1. CASE i \in Told(j) /\ Near(j, i)
    <3>1. job'[i] = Reported(job[i], deps'[i], j)
      BY <1>1, <2>1
    <3> QED BY <1>1, <1>2, <3>1, GrownReported DEF Ahead
  <2>2. CASE ~(i \in Told(j) /\ Near(j, i))
    BY <1>1, <1>2, <2>2, GrownSame DEF Ahead, Alive
  <2> QED BY <2>1, <2>2
<1>5. ASSUME NEW e \in xqPending' \ xqPending PROVE e[1] \in resolved' /\ Made(e[2])'
  <2>1. PICK p \in Told(j) : e = <<j, p>>
    BY <1>1 DEF Notes
  <2>2. Made(p) /\ p \in Jobs
    BY <1>2 DEF Wired, EdgeFits
  <2>3. Made(p)'
    BY <1>2, <2>2
  <2>4. e[1] = j /\ e[2] = p
    BY <2>1
  <2> QED BY <1>1, <2>3, <2>4
<1>6. ASSUME NEW c \in resolved' \ resolved, NEW p \in Up[c], Alive(p)'
      PROVE  c \in Seen(job'[p]) \/ <<c, p>> \in xqPending' \/ (p \in todo'[c] /\ c \notin Late)
  <2>1. c = j /\ p \in Jobs /\ p /= j
    BY <1>1, <1>2
  <2>2. Alive(j)
    BY <1>2, <2>1 DEF Wired, OverFits, Alive, Exists
  <2>3. p \in Told(j) \/ (p \in todo[j] /\ j \notin Late)
    BY <1>2, <2>1, <2>2 DEF Wired, EdgeFits
  <2>4. CASE p \in Told(j) /\ Near(j, p)
    BY <1>4, <1>6, <2>1, <2>4
  <2>5. CASE p \in Told(j) /\ ~Near(j, p)
    BY <1>1, <2>1, <2>5 DEF Notes
  <2>6. CASE p \in todo[j] /\ j \notin Late
    BY <2>1, <2>6
  <2> QED BY <2>3, <2>4, <2>5, <2>6
<1>7. \A p \in Jobs : Grown(p) /\ (Made(p) => Made(p)')
  BY <1>2, <1>3, <1>4
<1> QED BY <1>1, <1>5, <1>6, <1>7, KnownStep DEF Ahead

LEMMA KnownComplete ==
  ASSUME Ahead, NEW j \in Jobs, NEW keep \in BOOLEAN, Complete(j, keep)
  PROVE  Known'
<1>1. job[j].state = "active" /\ UNCHANGED <<deps, told, todo>> /\ job[j] \in Record
  BY BasicFacts DEF Complete, Ahead, Along
<1>2. CASE keep
  <2> DEFINE g == [job[j] EXCEPT !.state = "completed"]
  <2>1. "completed" \in States
    BY DEF States
  <2>2. /\ g \in Record /\ g.state = "completed" /\ g.depdone = job[j].depdone /\ g.depearly = job[j].depearly
        /\ g.depsCompleted = job[j].depsCompleted
    BY <1>1, <2>1, StateSet
  <2>3. ReportAll(j, g)
    BY <1>2 DEF Complete
  <2> HIDE DEF g
  <2> QED BY <1>1, <2>2, <2>3, KnownReportAll DEF Exists, Alive
<1>3. CASE ~keep
  <2>1. ReportAll(j, Hash("none")) /\ Hash("none") \in Record /\ Hash("none").state = "none"
    BY <1>3, HashFacts DEF Complete, States
  <2> QED BY <1>1, <2>1, KnownReportAll DEF Exists
<1> QED BY <1>2, <1>3

LEMMA KnownRemoveClean ==
  ASSUME Ahead, NEW j \in Jobs, RemoveJob(j) \/ Clean(j)
  PROVE  Known'
<1>1. Hash("none") \in Record /\ Hash("none").state = "none"
  BY HashFacts DEF States
<1>2. /\ deps' = [deps EXCEPT ![j] = {}] /\ UNCHANGED <<told, todo>>
  BY DEF RemoveJob, Clean, Untouched
<1>3. \A i \in Jobs \ {j} : deps'[i] = deps[i]
  BY <1>2, BasicFacts DEF Ahead, Along
<1>4. CASE job' = [job EXCEPT ![j] = Hash("none")] /\ UNCHANGED <<earlyIndex, xqPending, resolved>>
  <2>1. \A p \in Jobs : Alive(p)' => job'[p] = job[p] /\ p /= j
    BY <1>1, <1>4, BasicFacts DEF Ahead, Along, Alive
  <2> QED BY <1>2, <1>3, <1>4, <2>1, KnownSame DEF Alive
<1>5. CASE RemoveJob(j) /\ job[j].state /= "completed"
  <2>1. ReportAll(j, Hash("none")) /\ Exists(job[j])
    BY <1>5 DEF RemoveJob, ResolveRemoved
  <2> QED BY <1>1, <1>2, <1>3, <2>1, KnownReportAll
<1> QED BY <1>4, <1>5 DEF RemoveJob, ResolveRemoved, Clean, Untouched

LEMMA KnownNotify ==
  ASSUME Ahead, NEW e \in Edges, Notify(e)
  PROVE  Known'
<1>1. /\ e[1] \in Jobs /\ e[2] \in Jobs /\ told \subseteq xqPending /\ deps \in [Jobs -> SUBSET Jobs]
      /\ \A i \in Jobs : CountedAt(i) /\ (Made(i) => Made(i)')
  BY BasicFacts DEF Ahead, Along, Edges, Known
<1>2. CASE Deliver(e)
  <2>1. PICK c \in Jobs, p \in Jobs : c = e[1] /\ p = e[2]
    BY <1>1
  <2>2. /\ e \in xqPending /\ ReportTo(p, deps[p], c) /\ told' = told \cup {e}
        /\ UNCHANGED <<deps, xqPending, todo, resolved>>
    BY <1>2, <2>1 DEF Deliver
  <2>3. /\ job'[p] = Reported(job[p], deps[p], c) /\ \A j \in Jobs \ {p} : job'[j] = job[j]
        /\ earlyIndex \subseteq earlyIndex'
        /\ \A j \in Jobs : ~(job'[j].depearly \subseteq job[j].depearly) => j \in earlyIndex'
    BY <1>1, <2>2, ReportToFacts DEF Ahead, Along
  <2>4. c \in resolved
    BY <2>1, <2>2 DEF Ahead, Known, NoteFits
  <2>5. Grown(p) /\ (Alive(p)' => c \in Seen(job'[p]))
    BY <1>1, <2>2, <2>3, <2>4, GrownReported DEF Ahead
  <2>6. \A j \in Jobs \ {p} : Grown(j)
    BY <1>1, <2>2, <2>3, GrownSame DEF Ahead, Alive
  <2>7. \A n \in told' \ told : Alive(n[2])' => n[1] \in Seen(job'[n[2]])
    <3> TAKE n \in told' \ told
    <3>1. n = e
      BY <2>2
    <3> QED BY <2>1, <2>5, <3>1
  <2> QED BY <1>1, <2>2, <2>5, <2>6, <2>7, KnownStep DEF Ahead
<1>3. CASE DropNote(e)
  <2>1. /\ e \in told /\ xqPending' = xqPending \ {e} /\ told' = told \ {e}
        /\ UNCHANGED <<job, deps, earlyIndex, stage, todo, resolved>>
    BY <1>3 DEF DropNote, Answered
  <2>2. \A j \in Jobs : Grown(j)
    BY <1>1, <2>1, GrownSame DEF Ahead, Alive
  <2>3. NoteFits(e)
    BY <1>1, <2>1 DEF Ahead, Known
  <2>4. \A n \in xqPending \ xqPending' : Alive(n[2])' => n[1] \in Seen(job'[n[2]])
    <3> TAKE n \in xqPending \ xqPending'
    <3>1. n = e
      BY <2>1
    <3>2. PICK p \in Jobs : p = n[2]
      BY <1>1, <3>1
    <3>3. Alive(p)' => Alive(p) /\ n[1] \in Seen(job[p])
      BY <2>1, <2>3, <3>1, <3>2 DEF NoteFits, Alive
    <3> QED BY <2>1, <3>2, <3>3
  <2> QED BY <1>1, <2>1, <2>2, <2>4, KnownStep DEF Ahead
<1> QED BY <1>2, <1>3 DEF Notify

LEMMA KnownHeal ==
  ASSUME Ahead, NEW p \in Jobs, HealEarlyDeps(p)
  PROVE  Known'
<1>1. /\ job'[p] = IF Exists(job[p]) THEN Healed(job[p], deps[p]) ELSE job[p]
      /\ \A j \in Jobs \ {p} : job'[j] = job[j]
      /\ \A j \in Jobs : j \in earlyIndex => j \in earlyIndex' \/ (j = p /\ (Exists(job[p]) => job'[p].depearly = {}))
      /\ UNCHANGED <<deps, todo, xqPending, told, resolved>>
  BY HealFacts DEF Ahead, Along
<1>2. \A i \in Jobs : CountedAt(i) /\ (Made(i) => Made(i)')
  BY DEF Ahead, Known
<1>3. Grown(p)
  <2>1. CASE Exists(job[p])
    <3>1. job'[p] = Healed(job[p], deps'[p]) /\ (job'[p].depearly /= {} /\ p \in earlyIndex => p \in earlyIndex')
      BY <1>1, <2>1
    <3> QED BY <1>1, <1>2, <3>1, GrownHealed DEF Ahead
  <2>2. CASE ~Exists(job[p])
    <3>1. ~Alive(p)'
      BY <1>1, <2>2 DEF Alive, Exists
    <3> QED BY <3>1 DEF Grown, CountedAt
  <2> QED BY <2>1, <2>2
<1>4. ASSUME NEW j \in Jobs \ {p} PROVE Grown(j)
  <2>1. CountedAt(j) /\ job'[j] = job[j] /\ deps'[j] = deps[j] /\ resolved' = resolved
        /\ (j \in earlyIndex => j \in earlyIndex')
    BY <1>1, <1>2
  <2>2. Alive(j)' <=> Alive(j)
    BY <2>1 DEF Alive
  <2> QED BY <2>1, <2>2 DEF Grown, CountedAt
<1> QED BY <1>1, <1>2, <1>3, <1>4, KnownQuiet DEF Ahead

LEMMA KnownNext ==
  ASSUME Ahead, Next
  PROVE  Known'
<1>1. ASSUME NEW j \in Jobs, Produce(j) PROVE Known'
  BY <1>1, KnownAdd, KnownCheckWriteLinkLook, KnownReports DEF Produce, Wire
<1>2. ASSUME NEW j \in Jobs, Run(j) PROVE Known'
  BY <1>2, KnownRun, KnownMove, KnownComplete DEF Run
<1>3. ASSUME NEW j \in Jobs, RegisterChild(j) PROVE Known'
  BY <1>3, KnownRegisterLate DEF RegisterChild
<1> QED BY <1>1, <1>2, <1>3, KnownReserveLeaves, KnownRemoveClean, KnownHeal, KnownAdd, KnownNotify DEF Next, Step

(* What holds of a flow in every reachable state. *)
FlowInv == Basic /\ AllWired /\ Known

LEMMA FlowInvInit ==
  ASSUME Init
  PROVE  FlowInv
<1>1. Basic
  BY BasicInit
<1>2. /\ \A j \in Jobs : stage[j] = "new" /\ job[j].state = "none" /\ todo[j] = Up[j] /\ Told(j) = {}
      /\ xqPending = {} /\ resolved = {}
  BY HashFacts DEF Init, States, Told, TreeEdge
<1>3. AllWired
  BY <1>2 DEF AllWired, Wired, StageFits, OverFits, EdgeFits, Made, Over, Alive, Wiring
<1>4. Known
  BY <1>2 DEF Known, CountedAt, NoteFits, Remembered, Alive
<1> QED BY <1>1, <1>3, <1>4 DEF FlowInv

LEMMA FlowInvStep ==
  ASSUME FlowInv, [Next]_vars, "clean" \notin Races
  PROVE  FlowInv'
<1>1. CASE Next
  <2>1. Along
    BY <1>1, BasicStep DEF Along, FlowInv, Next
  <2>2. Ahead
    BY <1>1, <2>1, MadeKept DEF Ahead, FlowInv
  <2> QED BY <1>1, <2>1, <2>2, WiredStep, KnownNext DEF FlowInv, Along
<1>2. CASE UNCHANGED vars
  <2>1. Basic'
    <3>1. BasicAfter
      BY <1>2, BasicFacts DEF vars, BasicAfter, FlowInv
    <3> QED BY <1>2, <3>1, BasicFacts, BasicKept DEF vars, FlowInv
  <2>2. Along
    BY <1>2, <2>1 DEF Along, FlowInv, vars
  <2>3. \A p \in Jobs : Made(p) => Made(p)'
    BY <1>2 DEF Made, vars
  <2>4. AllWired'
    BY <1>2, <2>2, <2>3, QuietSame, WiredQuiet DEF AllWired, vars
  <2>5. Known'
    BY <1>2, <2>2, <2>3, KnownSame DEF Ahead, FlowInv, vars, Alive
  <2> QED BY <2>1, <2>4, <2>5 DEF FlowInv
<1> QED BY <1>1, <1>2

(* depsCompleted counts each child once, only registered ones and only        *)
(* finished ones, and no finished child is forgotten: its parent has counted  *)
(* or parked it, a note in xq-pending says so, or the producer has yet to     *)
(* look at it.  It is proved for the runs in which no failed child is deleted *)
(* while the producer wires it, which the producer cannot tell from a removal.*)
THEOREM ChildrenReachParents ==
  ASSUME "clean" \notin Races
  PROVE  Spec => []ChildrenCounted
<1>1. FlowInv => ChildrenCounted
  <2> SUFFICES ASSUME FlowInv PROVE CountedOnce /\ NoChildForgotten
    BY DEF ChildrenCounted
  <2>1. CountedOnce
    BY DEF FlowInv, Known, CountedAt, Sound, Tallied, CountedOnce, Alive
  <2>2. NoChildForgotten
    BY BasicFacts DEF FlowInv, Known, Remembered, NoChildForgotten, Alive, Seen
  <2> QED BY <2>1, <2>2
<1> QED BY <1>1, FlowInvInit, FlowInvStep, PTL DEF Spec

-----------------------------------------------------------------------------
(* A parent waits for all its children before it runs, those the producer has *)
(* yet to add included.  Three facts about where the producer is carry it.    *)

Ran == {"waiting", "delayed", "active", "completed", "failed"}

(* addDAG has nodes of the flow left to add. *)
Fresh == Dag /\ \E q \in Jobs \ Late : stage[q] = "new"

(* The producer has yet to make p wait for c. *)
Unwired(c, p) ==
  /\ Dag /\ p \in todo[c]
  /\ stage[c] = "new" \/ (~Leaf(c) /\ ~(stage[c] \in {"found", "written", "linked", "present"} /\ p \in Far(c)))

(* addDAG begins a level when the ones above it are wired, the leaves last. *)
LevelFits(c) ==
  Dag /\ c \notin Late /\ stage[c] /= "new" =>
    /\ \A q \in Jobs \ Late : Level[q] > Level[c] => stage[q] = "done"
    /\ Leaf(c) => \A q \in Jobs \ Late : stage[q] /= "new"

DepsFits(p) == job[p].state = "waiting-children" =>
                 \A c \in Down(p) : c \in resolved \/ c \in deps[p] \/ Unwired(c, p)

RunsAt(p) == job[p].state \in Ran => Down(p) \subseteq resolved

(* Until the last leaf is reserved nothing can run and nothing can finish. *)
Idle(j)   == job[j].state = "none" \/ (job[j].state = "waiting-children" /\ ~Leaf(j))
FreshFits == Fresh => resolved = {} /\ \A j \in Jobs : Idle(j)

Ordered == FreshFits /\ \A p \in Jobs : LevelFits(p) /\ DepsFits(p) /\ RunsAt(p)

LEMMA DoneKept ==
  ASSUME Along, Next
  PROVE  \A q \in Jobs : /\ stage[q] = "done" => stage'[q] = "done"
                         /\ stage[q] /= "new" => stage'[q] /= "new"
<1> DEFINE Kept(q) == (stage[q] = "done" => stage'[q] = "done") /\ (stage[q] /= "new" => stage'[q] /= "new")
<1> SUFFICES ASSUME NEW q \in Jobs PROVE Kept(q)
  OBVIOUS
<1>1. stage \in [Jobs -> Stages]
  BY BasicFacts DEF Along
<1>2. ASSUME NEW j \in Jobs, Produce(j) PROVE Kept(q)
  <2>1. ASSUME NEW p \in Up[j], Finish(j, p), stage[j] /= "done" PROVE Kept(q)
    BY <1>1, <2>1 DEF Finish
  <2>2. CASE Wire(j)
    BY <1>1, <2>1, <2>2 DEF Wire, Check, Write, Link, Look, ReportErased, Register, ReportMissing, Recheck
  <2>3. CASE AddFlow(j)
    BY <1>1, <2>3 DEF AddFlow
  <2> QED BY <1>1, <1>2, <2>2, <2>3 DEF Produce, AddNestedLeaf, AddNode, AddLeaf
<1>3. ASSUME NEW j \in Jobs, Run(j) PROVE Kept(q)
  BY <1>1, <1>3 DEF Run, Activate, Retry, Promote, MoveToWaitingChildren, Complete, Fail
<1>4. ASSUME NEW j \in Jobs, AddLate(j) \/ RegisterChild(j) PROVE Kept(q)
  BY <1>1, <1>4 DEF AddLate, RegisterChild, RegisterLate, Finish
<1>5. CASE ReserveLeaves
  BY <1>1, <1>5 DEF ReserveLeaves, Leaves
<1>6. ASSUME NEW j \in Jobs, RemoveJob(j) \/ Clean(j) \/ HealEarlyDeps(j) PROVE Kept(q)
  BY <1>1, <1>6 DEF RemoveJob, Clean, HealEarlyDeps
<1>7. ASSUME NEW e \in Edges, Notify(e) PROVE Kept(q)
  BY <1>1, <1>7 DEF Notify, Deliver, DropNote
<1> QED BY <1>2, <1>3, <1>4, <1>5, <1>6, <1>7 DEF Next, Step

(* How addDAG takes a node up. *)
LEMMA NewLeft ==
  ASSUME Along, Next, Dag, NEW q \in Jobs \ Late, stage[q] = "new", stage'[q] /= "new"
  PROVE  AddNode(q) \/ (ReserveLeaves /\ Leaf(q))
<1>1. stage \in [Jobs -> Stages]
  BY BasicFacts DEF Along
<1>2. ASSUME NEW j \in Jobs, Produce(j) PROVE AddNode(q)
  <2>1. ASSUME NEW p \in Up[j], Finish(j, p), stage[j] /= "new" PROVE FALSE
    BY <1>1, <2>1 DEF Finish
  <2>2. ~Wire(j)
    BY <1>1, <2>1 DEF Wire, Check, Write, Link, Look, ReportErased, Register, ReportMissing, Recheck
  <2> QED BY <1>1, <1>2, <2>2 DEF Produce, AddNestedLeaf, AddFlow, AddNode, AddLeaf
<1>3. ASSUME NEW j \in Jobs, Run(j) PROVE FALSE
  BY <1>1, <1>3 DEF Run, Activate, Retry, Promote, MoveToWaitingChildren, Complete, Fail
<1>4. ASSUME NEW j \in Jobs, AddLate(j) \/ RegisterChild(j) PROVE FALSE
  BY <1>1, <1>4 DEF AddLate, RegisterChild, RegisterLate, Finish
<1>5. CASE ReserveLeaves
  BY <1>1, <1>5 DEF ReserveLeaves, Leaves
<1>6. ASSUME NEW j \in Jobs, RemoveJob(j) \/ Clean(j) \/ HealEarlyDeps(j) PROVE FALSE
  BY <1>1, <1>6 DEF RemoveJob, Clean, HealEarlyDeps
<1>7. ASSUME NEW e \in Edges, Notify(e) PROVE FALSE
  BY <1>1, <1>7 DEF Notify, Deliver, DropNote
<1> QED BY <1>2, <1>3, <1>4, <1>5, <1>6, <1>7 DEF Next, Step

LEMMA LevelStep ==
  ASSUME Along, Next, NEW c \in Jobs, LevelFits(c)
  PROVE  LevelFits(c)'
<1>1. Late' = Late /\ Dag' = Dag /\ Level' = Level /\ (Leaf(c)' <=> Leaf(c))
  BY FlowKept DEF Along
<1> SUFFICES ASSUME Dag, c \notin Late, stage'[c] /= "new"
             PROVE  /\ \A q \in Jobs \ Late : Level[q] > Level[c] => stage'[q] = "done"
                    /\ Leaf(c) => \A q \in Jobs \ Late : stage'[q] /= "new"
  BY <1>1 DEF LevelFits
<1>2. CASE stage[c] /= "new"
  BY <1>2, DoneKept DEF LevelFits
<1>3. CASE stage[c] = "new"
  <2>1. Level \in [Jobs -> Nat] /\ \A p \in Jobs : Leaf(p) => Level[p] = 0
    BY LevelFacts, BasicFacts DEF Along
  <2>2. CASE AddNode(c)
    <3>1. \A q \in Jobs : Level[q] > Level[c] => stage[q] = "done"
      BY <2>2 DEF AddNode
    <3>2. ~Leaf(c)
      BY <2>2 DEF AddNode
    <3> QED BY <3>1, <3>2, DoneKept
  <2>3. CASE ReserveLeaves /\ Leaf(c)
    <3>1. \A q \in Jobs \ Late : Leaf(q) \/ stage[q] = "done"
      BY <2>3 DEF ReserveLeaves, Leaves
    <3>2. \A q \in Jobs \ Late : Leaf(q) => stage'[q] /= "new"
      BY <2>3, BasicFacts DEF ReserveLeaves, Leaves, Along
    <3>3. \A q \in Jobs \ Late : Level[q] > Level[c] => ~Leaf(q)
      BY <2>1, <2>3
    <3> QED BY <3>1, <3>2, <3>3, DoneKept
  <2> QED BY <1>3, <2>2, <2>3, NewLeft
<1> QED BY <1>2, <1>3

(* Once the leaves are reserved every parent waits for all its children. *)
LEMMA AllWaitedFor ==
  ASSUME Along, Ordered, ~Fresh, NEW p \in Jobs, job[p].state = "waiting-children"
  PROVE  Down(p) \subseteq resolved \cup deps[p]
<1> SUFFICES ASSUME NEW c \in Down(p), Unwired(c, p) PROVE FALSE
  BY DEF Ordered, DepsFits
<1>1. c \in Jobs \ Late /\ p \in Up[c] /\ Dag
  BY FlowFacts, BasicFacts DEF Along, Unwired
<1>2. stage[c] /= "new" /\ ~Leaf(c) /\ p \in todo[c]
  BY <1>1 DEF Fresh, Unwired
<1>3. stage[c] /= "done"
  BY <1>1, <1>2 DEF Along, AllWired, Wired, StageFits
<1>4. PICK d \in Down(c) : Level[d] < Level[c]
  BY <1>1, <1>2, LevelFacts, BasicFacts DEF Along
<1>5. d \in Jobs \ Late /\ stage[d] /= "new"
  BY <1>1, <1>4, FlowFacts, BasicFacts DEF Fresh, Along
<1>6. Level[d] \in Nat /\ Level[c] \in Nat
  BY <1>1, <1>5, LevelFacts, BasicFacts DEF Along
<1> QED BY <1>1, <1>3, <1>4, <1>5, <1>6 DEF Ordered, LevelFits

(* What a step does to a job whose parent's wait may be over. *)
Proper(p) == job'[p].state \in Ran \cup {"waiting-children"} =>
  \/ job[p].state \in Ran
  \/ Down(p) = {}
  \/ job'[p].state = "waiting-children" /\ Down(p) \subseteq deps'[p]
  \/ /\ job[p].state = "waiting-children" /\ deps[p] \subseteq deps'[p]
     /\ job'[p].state /= job[p].state => Cardinality(deps'[p]) <= job'[p].depsCompleted

LEMMA ProperSame ==
  ASSUME NEW p \in Jobs, job'[p].state = job[p].state, deps[p] \subseteq deps'[p]
  PROVE  Proper(p)
BY DEF Proper

LEMMA ProperReported ==
  ASSUME Along, NEW p \in Jobs, NEW c \in Jobs, job'[p] = Reported(job[p], deps'[p], c), deps[p] \subseteq deps'[p]
  PROVE  Proper(p)
<1>1. PICK h \in Record, d \in SUBSET Jobs : h = job[p] /\ d = deps'[p]
  BY BasicFacts, StepFacts DEF Along
<1> DEFINE r == Reported(h, d, c)
<1>2. Onward(h, r) /\ (r.state /= h.state => Cardinality(d) <= r.depsCompleted)
  BY ReportedFacts
<1>3. r = job'[p]
  BY <1>1
<1> HIDE DEF r
<1> QED BY <1>1, <1>2, <1>3 DEF Proper, Onward, Ran

LEMMA ProperHealed ==
  ASSUME Along, NEW p \in Jobs, job'[p] = Healed(job[p], deps'[p]), deps[p] \subseteq deps'[p]
  PROVE  Proper(p)
<1>1. PICK h \in Record, d \in SUBSET Jobs : h = job[p] /\ d = deps'[p]
  BY BasicFacts, StepFacts DEF Along
<1> DEFINE r == Healed(h, d)
<1>2. Onward(h, r) /\ (r.state /= h.state => Cardinality(d) <= r.depsCompleted)
  BY HealedFacts
<1>3. r = job'[p]
  BY <1>1
<1> HIDE DEF r
<1> QED BY <1>1, <1>2, <1>3 DEF Proper, Onward, Ran

LEMMA ProperAdd ==
  ASSUME Along, NEW c \in Jobs, AddNestedLeaf(c) \/ AddFlow(c) \/ AddLeaf(c) \/ AddLate(c)
  PROVE  \A p \in Jobs : Proper(p)
<1>1. job \in [Jobs -> Record] /\ deps \in [Jobs -> SUBSET Jobs] /\ stage \in [Jobs -> Stages]
  BY BasicFacts DEF Along
<1>2. CASE AddNestedLeaf(c)
  <2>1. Down(c) = {} /\ deps' = deps /\ \A p \in Jobs \ {c} : job'[p] = job[p]
    BY <1>1, <1>2 DEF AddNestedLeaf, Leaf
  <2> QED BY <2>1, ProperSame DEF Proper
<1>3. CASE AddFlow(c)
  <2> DEFINE leaves == {d \in Down(c) : ~Nested(d, c)}
  <2>1. /\ job' = [j \in Jobs |-> IF j = c THEN Hash("waiting-children")
                                ELSE IF j \in leaves THEN [Hash("waiting") EXCEPT !.parentId = c] ELSE job[j]]
        /\ deps' = [deps EXCEPT ![c] = Down(c)]
    BY <1>3 DEF AddFlow, Registered
  <2>2. job'[c].state = "waiting-children" /\ deps'[c] = Down(c)
    BY <1>1, <2>1, HashFacts DEF States
  <2>3. \A p \in leaves : Down(p) = {}
    BY DEF Nested, Leaf
  <2>4. \A p \in Jobs \ {c} : p \notin leaves => job'[p] = job[p] /\ deps'[p] = deps[p]
    BY <1>1, <2>1
  <2> QED BY <2>2, <2>3, <2>4, ProperSame DEF Proper
<1>4. CASE AddLeaf(c)
  <2>1. Down(c) = {}
    BY <1>4 DEF AddLeaf, Along, AllWired, Wired, StageFits, Leaf
  <2>2. \A p \in Jobs \ {c} : job'[p] = job[p] /\ deps[p] \subseteq deps'[p]
    BY <1>1, <1>4 DEF AddLeaf
  <2> QED BY <2>1, <2>2, ProperSame DEF Proper
<1>5. CASE AddLate(c)
  <2>1. Down(c) = {}
    BY <1>5, FlowFacts, BasicFacts DEF AddLate, Along
  <2>2. \A p \in Jobs \ {c} : job'[p] = job[p] /\ deps[p] \subseteq deps'[p]
    BY <1>1, <1>5 DEF AddLate
  <2> QED BY <2>1, <2>2, ProperSame DEF Proper
<1> QED BY <1>2, <1>3, <1>4, <1>5

LEMMA ProperWire ==
  ASSUME Along, NEW c \in Jobs, Wire(c)
  PROVE  \A p \in Jobs : Proper(p)
<1>1. job \in [Jobs -> Record] /\ deps \in [Jobs -> SUBSET Jobs] /\ \A j \in Jobs : Up[j] \subseteq Jobs
  BY BasicFacts DEF Along
<1>2. CASE Check(c)
  <2>1. job' = job /\ \A p \in Jobs : deps[p] \subseteq deps'[p]
    BY <1>1, <1>2 DEF Check
  <2> QED BY <2>1, ProperSame
<1>3. CASE Write(c)
  <2> DEFINE h == IF Exists(job[c]) THEN job[c] ELSE Hash("ghost")
             q == IF Dag THEN h.parentId ELSE CHOOSE p \in Up[c] : TRUE
  <2>1. job' = [job EXCEPT ![c] = [h EXCEPT !.parentId = q]] /\ deps' = deps
    BY <1>3 DEF Write
  <2>2. h \in Record /\ (h = job[c] \/ h.state = "ghost")
    BY <1>1, HashFacts DEF States
  <2> HIDE DEF h, q
  <2>3. job'[c].state = h.state /\ \A p \in Jobs \ {c} : job'[p] = job[p]
    BY <1>1, <2>1, <2>2 DEF Record
  <2> QED BY <2>1, <2>2, <2>3, ProperSame DEF Proper, Ran
<1>4. CASE Link(c)
  BY <1>4, ProperSame DEF Link
<1>5. CASE Look(c)
  <2>1. deps' = deps /\ \A p \in Jobs : job'[p] = job[p] \/ job'[p] = Hash("none")
    BY <1>1, <1>5 DEF Look
  <2>2. Hash("none").state = "none"
    BY HashFacts DEF States
  <2> QED BY <2>1, <2>2, ProperSame DEF Proper, Ran
<1>6. ASSUME NEW q \in Up[c], ReportErased(c, q) \/ ReportMissing(c, q) \/ Register(c, q)
      PROVE  \A p \in Jobs : Proper(p)
  <2>1. PICK d \in SUBSET Jobs : d = IF ReportMissing(c, q) THEN deps[q] ELSE deps[q] \cup {c}
    BY <1>1
  <2>2. deps' = IF ReportMissing(c, q) THEN deps ELSE [deps EXCEPT ![q] = @ \cup {c}]
    BY <1>6 DEF ReportErased, ReportMissing, Register, RegisterParent
  <2>3. deps'[q] = d /\ \A p \in Jobs : deps[p] \subseteq deps'[p]
    BY <1>1, <2>1, <2>2
  <2>4. ReportTo(q, d, c) \/ job' = job
    BY <1>6, <2>1 DEF ReportErased, ReportMissing, Register, RegisterParent
  <2>5. CASE job' = job
    BY <2>3, <2>5, ProperSame
  <2>6. CASE ReportTo(q, d, c)
    <3>1. job'[q] = Reported(job[q], d, c) /\ \A p \in Jobs \ {q} : job'[p] = job[p]
      BY <1>1, <2>6, ReportToFacts DEF Along
    <3>2. Proper(q)
      BY <1>1, <2>3, <3>1, ProperReported
    <3> QED BY <2>3, <3>1, <3>2, ProperSame
  <2> QED BY <2>4, <2>5, <2>6
<1>7. ASSUME NEW q \in Up[c], Recheck(c, q)
      PROVE  \A p \in Jobs : Proper(p)
  <2>1. /\ deps' = deps /\ q \in Jobs /\ q /= c
        /\ job'[c] = Hash("none") \/ job'[c] = job[c]
        /\ job'[q] = Reported(job[q], deps[q], c) \/ job'[q] = job[q]
        /\ \A p \in Jobs \ {c, q} : job'[p] = job[p]
    BY <1>7, RecheckFacts DEF Along
  <2>2. Proper(q)
    BY <2>1, ProperReported, ProperSame
  <2>3. Hash("none").state = "none"
    BY HashFacts DEF States
  <2>4. Proper(c)
    BY <2>1, <2>3, ProperSame DEF Proper, Ran
  <2> QED BY <2>1, <2>2, <2>4, ProperSame
<1> QED BY <1>2, <1>3, <1>4, <1>5, <1>6, <1>7 DEF Wire

LEMMA ProperReportAll ==
  ASSUME Along, NEW c \in Jobs, NEW h \in Record, h.state \in {"completed", "none"}, ReportAll(c, h),
         \A j \in Jobs \ {c} : deps'[j] = deps[j], h.state = "completed" => job[c].state \in Ran
  PROVE  \A p \in Jobs : Proper(p)
<1>1. /\ job'[c] = h /\ \A j \in Jobs \ {c} : job'[j] = IF j \in Told(c) /\ Near(c, j)
                                                       THEN Reported(job[j], deps[j], c) ELSE job[j]
  BY ReportAllFacts DEF Along
<1>2. Proper(c)
  BY <1>1 DEF Proper, Ran
<1>3. \A j \in Jobs \ {c} : Proper(j)
  BY <1>1, ProperReported, ProperSame
<1> QED BY <1>2, <1>3

LEMMA ProperStep ==
  ASSUME Along, Next, ~Fresh
  PROVE  \A p \in Jobs : Proper(p)
<1>1. /\ job \in [Jobs -> Record] /\ deps \in [Jobs -> SUBSET Jobs]
      /\ Hash("none") \in Record /\ Hash("none").state = "none"
  BY BasicFacts, HashFacts DEF Along, States
<1>2. ASSUME NEW j \in Jobs, Produce(j) PROVE \A p \in Jobs : Proper(p)
  <2>1. ~AddNode(j)
    BY FlowFacts, BasicFacts DEF Along, AddNode, Fresh, Leaf
  <2> QED BY <1>2, <2>1, ProperAdd, ProperWire DEF Produce
<1>3. CASE ReserveLeaves
  <2>1. job' = job /\ \A p \in Jobs : deps[p] \subseteq deps'[p]
    BY <1>1, <1>3 DEF ReserveLeaves, Reserved
  <2> QED BY <2>1, ProperSame
<1>4. ASSUME NEW j \in Jobs, Activate(j) \/ Retry(j) \/ Promote(j) \/ MoveToWaitingChildren(j) \/ \E keep \in BOOLEAN : Fail(j, keep)
      PROVE  \A p \in Jobs : Proper(p)
  <2>1. job[j].state \in Ran /\ deps' = deps
    BY <1>4 DEF Activate, Retry, Promote, MoveToWaitingChildren, Fail, Ran
  <2>2. \A p \in Jobs \ {j} : job'[p] = job[p]
    BY <1>1, <1>4 DEF Activate, Retry, Promote, MoveToWaitingChildren, Fail
  <2> QED BY <2>1, <2>2, ProperSame DEF Proper
<1>5. ASSUME NEW j \in Jobs, NEW keep \in BOOLEAN, Complete(j, keep)
      PROVE  \A p \in Jobs : Proper(p)
  <2>1. PICK h \in Record : h.state \in {"completed", "none"} /\ ReportAll(j, h)
    <3>1. [job[j] EXCEPT !.state = "completed"] \in Record /\ [job[j] EXCEPT !.state = "completed"].state = "completed"
      <4>1. job[j] \in Record /\ "completed" \in States
        BY <1>1 DEF States
      <4> QED BY <4>1, StateSet
    <3> QED BY <1>1, <1>5, <3>1 DEF Complete
  <2>2. job[j].state \in Ran /\ deps' = deps
    BY <1>5 DEF Complete, Ran
  <2> QED BY <2>1, <2>2, ProperReportAll
<1>6. ASSUME NEW j \in Jobs, RemoveJob(j) \/ Clean(j)
      PROVE  \A p \in Jobs : Proper(p)
  <2>1. \A p \in Jobs \ {j} : deps'[p] = deps[p]
    BY <1>1, <1>6 DEF RemoveJob, Clean
  <2>2. CASE job' = [job EXCEPT ![j] = Hash("none")]
    <3>1. job'[j].state = "none" /\ \A p \in Jobs \ {j} : job'[p] = job[p]
      BY <1>1, <2>2
    <3> QED BY <2>1, <3>1, ProperSame DEF Proper, Ran
  <2>3. CASE ReportAll(j, Hash("none"))
    BY <1>1, <2>1, <2>3, ProperReportAll
  <2> QED BY <1>6, <2>2, <2>3 DEF RemoveJob, ResolveRemoved, Clean
<1>7. ASSUME NEW j \in Jobs, HealEarlyDeps(j)
      PROVE  \A p \in Jobs : Proper(p)
  <2>1. deps' = deps /\ (job'[j] = Healed(job[j], deps[j]) \/ job'[j] = job[j]) /\ \A p \in Jobs \ {j} : job'[p] = job[p]
    BY <1>7, HealFacts DEF Along
  <2> QED BY <2>1, ProperHealed, ProperSame
<1>8. ASSUME NEW j \in Jobs, NEW plain \in BOOLEAN, RegisterLate(j, plain)
      PROVE  \A p \in Jobs : Proper(p)
  <2>1. PICK q \in Jobs :
           /\ deps' = [deps EXCEPT ![q] = deps[q] \cup {j}]
           /\ job'[q] = job[q] \/ job'[q] = Healed(job[q], deps[q] \cup {j})
           /\ \A p \in Jobs \ {q} : job'[p] = job[p]
    BY <1>8, RegisterLateFacts, SMTT(40) DEF Along
  <2>2. deps'[q] = deps[q] \cup {j} /\ \A p \in Jobs : deps[p] \subseteq deps'[p]
    BY <1>1, <2>1
  <2> QED BY <2>1, <2>2, ProperHealed, ProperSame
<1>9. ASSUME NEW e \in Edges, Notify(e)
      PROVE  \A p \in Jobs : Proper(p)
  <2>1. e[1] \in Jobs /\ e[2] \in Jobs
    BY DEF Edges
  <2>2. CASE DropNote(e)
    BY <2>2, ProperSame DEF DropNote
  <2>3. CASE Deliver(e)
    <3>1. ReportTo(e[2], deps[e[2]], e[1]) /\ deps' = deps /\ deps[e[2]] \in SUBSET Jobs
      BY <1>1, <2>1, <2>3 DEF Deliver
    <3>2. job'[e[2]] = Reported(job[e[2]], deps[e[2]], e[1]) /\ \A p \in Jobs \ {e[2]} : job'[p] = job[p]
      BY <2>1, <3>1, ReportToFacts DEF Along
    <3> QED BY <2>1, <3>1, <3>2, ProperReported, ProperSame
  <2> QED BY <1>9, <2>2, <2>3 DEF Notify
<1> QED BY <1>2, <1>3, <1>4, <1>5, <1>6, <1>7, <1>8, <1>9, ProperAdd DEF Next, Step, Run, RegisterChild

(* Once the leaves are reserved. *)
LEMMA OrderedLate ==
  ASSUME Along, Next, Ordered, ~Fresh, \A p \in Jobs : CountedAt(p)', resolved \subseteq resolved'
  PROVE  \A p \in Jobs : DepsFits(p)' /\ RunsAt(p)'
<1>0. \A p \in Jobs : Down(p)' = Down(p)
  BY FlowKept DEF Along
<1> SUFFICES ASSUME NEW p \in Jobs, job'[p].state \in Ran \cup {"waiting-children"}
             PROVE  /\ Down(p) \subseteq resolved' \cup deps'[p]
                    /\ job'[p].state \in Ran => Down(p) \subseteq resolved'
  BY <1>0 DEF DepsFits, RunsAt
<1>1. Proper(p) /\ RunsAt(p) /\ "waiting-children" \notin Ran
  BY ProperStep DEF Ordered, Ran
<1>2. CASE job[p].state \in Ran \/ Down(p) = {}
  BY <1>1, <1>2 DEF RunsAt
<1>3. CASE job'[p].state = "waiting-children" /\ Down(p) \subseteq deps'[p]
  BY <1>1, <1>3
<1>4. CASE /\ job[p].state = "waiting-children" /\ deps[p] \subseteq deps'[p]
           /\ job'[p].state /= job[p].state => Cardinality(deps'[p]) <= job'[p].depsCompleted
  <2>1. Down(p) \subseteq resolved \cup deps[p]
    BY <1>4, AllWaitedFor
  <2>2. ASSUME job'[p].state \in Ran PROVE deps'[p] \subseteq resolved'
    <3>1. deps'[p] \in SUBSET Jobs /\ IsFiniteSet(Jobs)
      BY StepFacts, JobsAssumption
    <3>2. Sound(job'[p], deps'[p], resolved')
      BY <2>2 DEF CountedAt, Alive, Ran
    <3>3. PICK k \in SUBSET Jobs, d \in SUBSET Jobs : k = job'[p].depdone /\ d = deps'[p]
      BY <3>1, StepFacts DEF Record
    <3>4. /\ k \subseteq d /\ k \subseteq resolved'
          /\ Cardinality(d) <= Cardinality(k)
      BY <1>1, <1>4, <2>2, <3>2, <3>3 DEF Sound, Tallied
    <3>5. IsFiniteSet(d)
      BY <3>1, FS_Subset
    <3>6. Cardinality(k) \in Nat /\ Cardinality(d) \in Nat /\ Cardinality(k) <= Cardinality(d)
      BY <3>4, <3>5, FS_Subset, FS_CardinalityType
    <3>7. k = d
      BY <3>4, <3>5, <3>6, FS_Subset
    <3> QED BY <3>3, <3>4, <3>7
  <2> QED BY <1>1, <1>4, <2>1, <2>2
<1> QED BY <1>1, <1>2, <1>3, <1>4 DEF Proper

(* Before: nothing runs, nothing finishes, and no wait is forgotten. *)
EarlyStep ==
  /\ resolved' = {} /\ \A j \in Jobs : Idle(j)'
  /\ \A p \in Jobs : DepsFits(p)'

LEMMA MadeIdle ==
  ASSUME Along, Ordered, Fresh, NEW c \in Jobs, Made(c), todo[c] /= {}
  PROVE  job[c].state = "waiting-children"
BY DEF Ordered, FreshFits, Idle, Along, AllWired, Wired, OverFits, Over

(* A wait is kept unless p starts to wait for the child or the producer has moved on. *)
LEMMA EarlyFits ==
  ASSUME Along, Ordered, Fresh, UNCHANGED resolved,
         \A p \in Jobs : /\ job'[p].state = job[p].state /\ deps[p] \subseteq deps'[p]
                         /\ \A c \in Down(p) : Unwired(c, p) => c \in deps'[p] \/ Unwired(c, p)'
  PROVE  EarlyStep
<1>1. resolved = {} /\ \A j \in Jobs : Idle(j)
  BY DEF Ordered, FreshFits
<1>2. \A j \in Jobs : Idle(j)'
  BY <1>1, StepFacts DEF Idle
<1>3. \A p \in Jobs : Down(p)' = Down(p)
  BY FlowKept DEF Along
<1>4. \A p \in Jobs : DepsFits(p)'
  BY <1>3 DEF DepsFits, Ordered
<1> QED BY <1>1, <1>2, <1>4 DEF EarlyStep

LEMMA EarlyAddNode ==
  ASSUME Along, Ordered, Fresh, NEW q \in Jobs, AddNode(q)
  PROVE  EarlyStep
<1>1. /\ resolved = {} /\ (\A j \in Jobs : Idle(j)) /\ resolved' = {}
      /\ Dag /\ ~Leaf(q) /\ stage[q] = "new" /\ deps' = deps /\ todo' = todo
      /\ stage' = [stage EXCEPT ![q] = IF Up[q] = {} THEN "done" ELSE "made"]
      /\ job' = [job EXCEPT ![q] = Hash("waiting-children")]
  BY DEF Ordered, FreshFits, AddNode, Untouched
<1>2. q \in Jobs \ Late
  BY <1>1, FlowFacts, BasicFacts DEF Along, Leaf
<1>3. job'[q].state = "waiting-children" /\ \A j \in Jobs \ {q} : job'[j] = job[j]
  BY <1>1, BasicFacts, HashFacts DEF Along, States
<1>4. \A j \in Jobs : Idle(j)'
  BY <1>1, <1>3, StepFacts DEF Idle
<1>5. /\ \A j \in Jobs \ {q} : stage'[j] = stage[j]
      /\ stage'[q] = IF Up[q] = {} THEN "done" ELSE "made"
  BY <1>1, BasicFacts DEF Along
<1>6. ASSUME NEW p \in Jobs, NEW c \in Down(p), job'[p].state = "waiting-children"
      PROVE  c \in deps'[p] \/ Unwired(c, p)'
  <2>1. c \in Jobs \ Late /\ p \in Up[c]
    BY FlowFacts, BasicFacts DEF Along
  <2>2. (Leaf(c)' <=> Leaf(c)) /\ Dag' = Dag /\ Far(c)' = Far(c)
    BY StepFacts
  <2>3. CASE p = q
    <3>1. Level[c] < Level[q] /\ Level[c] \in Nat /\ Level[q] \in Nat
      BY <2>1, <2>3, LevelFacts, BasicFacts DEF Along
    <3>2. stage[c] = "new"
      BY <1>1, <1>2, <2>1, <3>1 DEF Ordered, LevelFits
    <3>3. c /= q /\ todo[c] = Up[c]
      BY <3>1, <2>1, <3>2 DEF Along, AllWired, Wired, StageFits, Made
    <3> QED BY <1>1, <1>5, <2>1, <2>2, <2>3, <3>2, <3>3 DEF Unwired
  <2>4. CASE p /= q
    <3>1. c \in deps[p] \/ Unwired(c, p)
      BY <1>1, <1>3, <1>6, <2>4 DEF Ordered, DepsFits
    <3>2. CASE c = q
      <4>1. stage'[c] = "made"
        BY <1>5, <2>1, <3>2
      <4> QED BY <1>1, <2>2, <3>1, <3>2, <4>1 DEF Unwired
    <3>3. CASE c /= q
      BY <1>1, <1>5, <2>1, <2>2, <3>1, <3>3 DEF Unwired
    <3> QED BY <3>2, <3>3
  <2> QED BY <2>3, <2>4
<1>7. \A p \in Jobs : Down(p)' = Down(p)
  BY FlowKept DEF Along
<1>8. \A p \in Jobs : DepsFits(p)'
  BY <1>6, <1>7 DEF DepsFits
<1> QED BY <1>1, <1>4, <1>8 DEF EarlyStep

LEMMA EarlyReserve ==
  ASSUME Along, Ordered, Fresh, ReserveLeaves
  PROVE  EarlyStep
<1>1. /\ job' = job /\ todo' = todo /\ resolved' = resolved
      /\ deps' = [p \in Jobs |-> deps[p] \cup {c \in Leaves : p \in Up[c]}]
      /\ \A c \in Jobs \ Leaves : stage'[c] = stage[c]
  BY BasicFacts DEF ReserveLeaves, Reserved, Untouched, Along
<1>2. ASSUME NEW p \in Jobs, NEW c \in Down(p), Unwired(c, p)
      PROVE  c \in deps'[p] \/ Unwired(c, p)'
  <2>1. c \in Jobs \ Late /\ p \in Up[c]
    BY FlowFacts, BasicFacts DEF Along
  <2>2. (Leaf(c)' <=> Leaf(c)) /\ Dag' = Dag /\ Far(c)' = Far(c)
    BY StepFacts
  <2>3. CASE c \in Leaves
    BY <1>1, <2>1, <2>3
  <2>4. CASE c \notin Leaves
    BY <1>1, <1>2, <2>1, <2>2, <2>4 DEF Unwired
  <2> QED BY <2>3, <2>4
<1>3. \A p \in Jobs : deps[p] \subseteq deps'[p]
  BY <1>1
<1> QED BY <1>1, <1>2, <1>3, EarlyFits

LEMMA EarlyCheckWriteLinkLook ==
  ASSUME Along, Ordered, Fresh, NEW c \in Jobs, Check(c) \/ Write(c) \/ Link(c) \/ Look(c)
  PROVE  EarlyStep
<1>1. /\ job \in [Jobs -> Record] /\ deps \in [Jobs -> SUBSET Jobs] /\ stage \in [Jobs -> Stages]
      /\ Dag /\ Wired(c) /\ Shaped(c)
  BY BasicFacts DEF Along, AllWired, Basic, Fresh
<1>2. job[c].state = "waiting-children"
  <2>1. stage[c] \in {"made", "found", "written", "linked"}
    BY DEF Check, Write, Link, Look
  <2>2. Made(c) /\ todo[c] /= {}
    BY <1>1, <2>1 DEF Made, Wired, StageFits, Shaped
  <2> QED BY <2>2, MadeIdle
<1>3. /\ todo' = todo /\ resolved' = resolved /\ \A d \in Jobs \ {c} : stage'[d] = stage[d]
  BY <1>1 DEF Check, Write, Link, Look, Untouched
<1>4. \A p \in Jobs : job'[p].state = job[p].state
  <2>1. CASE Write(c)
    <3>1. Exists(job[c])
      BY <1>2 DEF Exists
    <3>2. job' = [job EXCEPT ![c] = [job[c] EXCEPT !.parentId = job[c].parentId]]
      BY <1>1, <2>1, <3>1 DEF Write
    <3> QED BY <1>1, <3>2 DEF Record
  <2>2. CASE Look(c)
    BY <1>2, <2>2 DEF Look
  <2> QED BY <2>1, <2>2 DEF Check, Link
<1>5. \A p \in Jobs : /\ deps[p] \subseteq deps'[p]
                      /\ Check(c) /\ p \in Up[c] /\ ~Near(c, p) => c \in deps'[p]
  BY <1>1 DEF Check, Write, Link, Look
<1>6. Check(c) \/ (stage[c] \in {"found", "written", "linked"} /\ stage'[c] \in {"written", "linked", "present"})
  BY <1>1, <1>2 DEF Write, Link, Look
<1>7. ASSUME NEW p \in Jobs, NEW d \in Down(p), Unwired(d, p)
      PROVE  d \in deps'[p] \/ Unwired(d, p)'
  <2>1. d \in Jobs \ Late /\ p \in Up[d]
    BY FlowFacts, BasicFacts DEF Along
  <2>2. (Leaf(d)' <=> Leaf(d)) /\ Dag' = Dag /\ Far(d)' = Far(d)
    BY StepFacts
  <2>3. CASE d /= c
    BY <1>3, <1>7, <2>1, <2>2, <2>3 DEF Unwired
  <2>4. CASE d = c
    <3>1. ~Leaf(c) /\ p \in todo[c]
      BY <1>6, <1>7, <2>4 DEF Unwired, Check
    <3>2. CASE Check(c)
      <4>1. p \in Far(c) => c \in deps'[p]
        BY <1>5, <3>2 DEF Far
      <4> QED BY <1>1, <1>3, <2>2, <2>4, <3>1, <4>1 DEF Unwired
    <3>3. CASE stage[c] \in {"found", "written", "linked"} /\ stage'[c] \in {"written", "linked", "present"}
      <4>1. p \notin Far(c)
        BY <1>7, <2>4, <3>3 DEF Unwired
      <4> QED BY <1>1, <1>3, <2>2, <2>4, <3>1, <4>1 DEF Unwired
    <3> QED BY <1>6, <3>2, <3>3
  <2> QED BY <2>3, <2>4
<1> QED BY <1>3, <1>4, <1>5, <1>7, EarlyFits

LEMMA EarlyRegisterRecheck ==
  ASSUME Along, Ordered, Fresh, NEW c \in Jobs, NEW q \in Up[c], Register(c, q) \/ Recheck(c, q)
  PROVE  EarlyStep
<1>1. stage[c] = "present" /\ q \in todo[c] /\ Dag /\ q \in Jobs
  BY BasicFacts DEF Register, Recheck, Fresh, Along
<1>2. job[c].state = "waiting-children"
  BY <1>1, MadeIdle DEF Made
<1>3. /\ todo'[c] = todo[c] \ {q} /\ stage'[c] = IF todo[c] = {q} THEN "done" ELSE stage[c]
      /\ \A j \in Jobs \ {c} : todo'[j] = todo[j] /\ stage'[j] = stage[j]
  <2>1. Finish(c, q)
    BY DEF Register, Recheck
  <2> QED BY <1>1, <2>1, FinishFacts DEF Along
<1>4. /\ resolved' = resolved /\ job' = job /\ \A p \in Jobs : deps[p] \subseteq deps'[p]
      /\ q \notin Far(c) => c \in deps'[q]
  <2>1. CASE Register(c, q)
    <3>1. job' = job /\ deps' = [deps EXCEPT ![q] = @ \cup {c}] /\ resolved' = resolved
      BY <1>2, <2>1 DEF Register, RegisterParent, Untouched
    <3> QED BY <1>1, <3>1, BasicFacts DEF Along
  <2>2. CASE Recheck(c, q)
    BY <1>1, <1>2, <2>2 DEF Recheck, Over, Untouched, Far
  <2> QED BY <2>1, <2>2
<1>5. ASSUME NEW p \in Jobs, NEW d \in Down(p), Unwired(d, p)
      PROVE  d \in deps'[p] \/ Unwired(d, p)'
  <2>1. d \in Jobs \ Late /\ p \in Up[d]
    BY FlowFacts, BasicFacts DEF Along
  <2>2. (Leaf(d)' <=> Leaf(d)) /\ Dag' = Dag /\ Far(d)' = Far(d)
    BY StepFacts
  <2>3. CASE d /= c
    BY <1>3, <1>5, <2>1, <2>2, <2>3 DEF Unwired
  <2>4. CASE d = c /\ p = q
    BY <1>1, <1>4, <1>5, <2>4 DEF Unwired
  <2>5. CASE d = c /\ p /= q
    BY <1>1, <1>3, <1>5, <2>2, <2>5 DEF Unwired
  <2> QED BY <2>3, <2>4, <2>5
<1> QED BY <1>4, <1>5, EarlyFits

LEMMA EarlyHeal ==
  ASSUME Along, Known, Ordered, Fresh, NEW q \in Jobs, HealEarlyDeps(q)
  PROVE  EarlyStep
<1>1. /\ UNCHANGED <<deps, stage, todo, resolved>>
      /\ job'[q] = IF Exists(job[q]) THEN Healed(job[q], deps[q]) ELSE job[q]
      /\ \A j \in Jobs \ {q} : job'[j] = job[j]
  BY HealFacts DEF Along
<1>2. job'[q].state = job[q].state
  <2> SUFFICES ASSUME Exists(job[q]) PROVE Healed(job[q], deps[q]).state = job[q].state
    BY <1>1
  <2>1. Sound(job[q], deps[q], {})
    <3>1. resolved = {} /\ Idle(q) /\ CountedAt(q)
      BY DEF Ordered, FreshFits, Known
    <3> QED BY <3>1 DEF CountedAt, Alive, Exists, Idle
  <2>2. PICK h \in Record, d \in SUBSET Jobs : h = job[q] /\ d = deps[q]
    BY BasicFacts DEF Along
  <2> DEFINE e == CountEarly(h, d)
  <2>3. e.state = h.state /\ e.depdone = h.depdone \cup (h.depearly \cap d) /\ Tallied(e)
    BY <2>1, <2>2, CountEarlyFacts, EarlyTallied DEF Sound
  <2>4. e.depsCompleted = h.depsCompleted
    BY <2>1, <2>2, <2>3 DEF Sound, Tallied
  <2>5. Healed(h, d) = e
    BY <2>4 DEF Healed
  <2> HIDE DEF e
  <2> QED BY <2>2, <2>3, <2>5
<1>3. \A p \in Jobs : \A c \in Down(p) : Unwired(c, p) => Unwired(c, p)'
  BY <1>1, StepFacts DEF Unwired
<1> QED BY <1>1, <1>2, <1>3, EarlyFits

LEMMA OrderedEarly ==
  ASSUME Along, Known, Next, Ordered, Fresh, "remove" \notin Races
  PROVE  EarlyStep
<1>1. Dag /\ resolved = {} /\ (\A j \in Jobs : Idle(j)) /\ \E q \in Jobs \ Late : stage[q] = "new"
  BY DEF Ordered, FreshFits, Fresh
<1>2. \A c \in Jobs : Made(c) /\ todo[c] /= {} => job[c].state = "waiting-children"
  BY MadeIdle
<1>3. \A c \in Jobs : Wired(c) /\ Shaped(c)
  BY DEF Along, AllWired, Basic
<1>4. ASSUME NEW j \in Jobs, Produce(j) PROVE EarlyStep
  <2>1. ~AddNestedLeaf(j) /\ ~AddFlow(j)
    BY <1>1 DEF AddNestedLeaf, AddFlow
  <2>2. ~AddLeaf(j)
    <3>1. stage[j] = "reserved" => j \notin Late /\ Leaf(j)
      BY <1>3 DEF Wired, StageFits
    <3> QED BY <1>1, <3>1 DEF AddLeaf, Ordered, LevelFits
  <2>3. \A q \in Up[j] : ~ReportErased(j, q) /\ ~ReportMissing(j, q)
    BY <1>2, <1>3 DEF ReportErased, ReportMissing, Wired, StageFits, Made
  <2> QED BY <1>4, <2>1, <2>2, <2>3, EarlyAddNode, EarlyCheckWriteLinkLook, EarlyRegisterRecheck DEF Produce, Wire
<1>5. ASSUME NEW j \in Jobs PROVE ~Run(j) /\ ~Clean(j) /\ ~AddLate(j) /\ ~RemoveJob(j)
  <2>1. Idle(j)
    BY <1>1
  <2>2. ~Run(j) /\ ~Clean(j)
    BY <2>1 DEF Idle, Run, Activate, Retry, Promote, MoveToWaitingChildren, Complete, Fail, Clean
  <2>3. ~AddLate(j)
    <3>1. j \in Late => \E p \in Jobs : Up[j] = {p}
      BY FlowFacts, BasicFacts DEF Along
    <3> QED BY <1>1, <3>1 DEF AddLate, Idle
  <2>4. ~RemoveJob(j)
    BY <1>1, <2>1 DEF Idle, RemoveJob, Exists, Settled
  <2> QED BY <2>2, <2>3, <2>4
<1>6. ASSUME NEW j \in Jobs PROVE ~RegisterChild(j)
  <2>1. ASSUME j \in Late, stage[j] = "made" PROVE FALSE
    <3>1. Leaf(j)
      BY <2>1, FlowFacts, BasicFacts DEF Along, Leaf
    <3>2. todo[j] = Up[j] /\ Up[j] /= {} /\ Made(j)
      BY <1>3, <2>1 DEF Wired, StageFits, Shaped, Made
    <3> QED BY <1>1, <1>2, <3>1, <3>2 DEF Idle
  <2> QED BY <2>1 DEF RegisterChild, RegisterLate
<1>7. ASSUME NEW e \in Edges PROVE ~Notify(e)
  <2>1. e \notin xqPending
    BY <1>1 DEF Known, NoteFits
  <2> QED BY <2>1, BasicFacts DEF Notify, Deliver, DropNote, Answered, Along
<1> QED BY <1>4, <1>5, <1>6, <1>7, EarlyReserve, EarlyHeal DEF Next, Step

LEMMA ResolvedKept ==
  ASSUME Next
  PROVE  resolved \subseteq resolved'
<1>1. ASSUME NEW j \in Jobs, Produce(j) PROVE resolved' = resolved
  <2>1. ~Wire(j) => resolved' = resolved
    BY <1>1 DEF Produce, AddNestedLeaf, AddFlow, AddNode, AddLeaf, Untouched
  <2>2. Wire(j) => resolved' = resolved
    BY DEF Wire, Check, Write, Link, Look, ReportErased, ReportMissing, Register, Recheck, Untouched
  <2> QED BY <2>1, <2>2
<1>2. ASSUME NEW j \in Jobs, Run(j) PROVE resolved \subseteq resolved'
  BY <1>2 DEF Run, Activate, Retry, Promote, MoveToWaitingChildren, Complete, Fail, ReportAll, Untouched
<1>3. ASSUME NEW j \in Jobs, RemoveJob(j) \/ Clean(j) \/ HealEarlyDeps(j) PROVE resolved \subseteq resolved'
  BY <1>3 DEF RemoveJob, ResolveRemoved, ReportAll, Clean, HealEarlyDeps, Untouched
<1>4. ASSUME NEW j \in Jobs, AddLate(j) \/ RegisterChild(j) PROVE resolved' = resolved
  BY <1>4 DEF AddLate, RegisterChild, RegisterLate, Untouched
<1>5. ASSUME NEW e \in Edges, Notify(e) PROVE resolved' = resolved
  BY <1>5 DEF Notify, Deliver, DropNote
<1> QED BY <1>1, <1>2, <1>3, <1>4, <1>5 DEF Next, Step, ReserveLeaves, Untouched

LEMMA OrderedStep ==
  ASSUME FlowInv, Ordered, [Next]_vars, Races = {}
  PROVE  Ordered'
<1>1. CASE Next
  <2>1. Along /\ Known
    BY <1>1, BasicStep DEF Along, FlowInv, Next
  <2>2. \A p \in Jobs : LevelFits(p)'
    BY <1>1, <2>1, LevelStep DEF Ordered
  <2>3. CASE Fresh
    <3>1. EarlyStep
      BY <1>1, <2>1, <2>3, OrderedEarly
    <3>2. \A p \in Jobs : RunsAt(p)'
      BY <3>1 DEF EarlyStep, RunsAt, Idle, Ran
    <3> QED BY <2>2, <3>1, <3>2 DEF EarlyStep, Ordered, FreshFits
  <2>4. CASE ~Fresh
    <3>1. ~Fresh'
      <4>1. Late' = Late /\ Dag' = Dag
        BY <2>1, StepFacts
      <4> QED BY <1>1, <2>1, <2>4, <4>1, DoneKept DEF Fresh
    <3>2. \A p \in Jobs : CountedAt(p)'
      BY FlowInvStep DEF FlowInv, Known
    <3>3. \A p \in Jobs : DepsFits(p)' /\ RunsAt(p)'
      BY <1>1, <2>1, <2>4, <3>2, OrderedLate, ResolvedKept
    <3> QED BY <2>2, <3>1, <3>3 DEF Ordered, FreshFits
  <2> QED BY <2>3, <2>4
<1>2. CASE UNCHANGED vars
  BY <1>2 DEF vars, Ordered, FreshFits, Fresh, Idle, LevelFits, DepsFits, RunsAt, Unwired, Far, Near, Leaf,
              Down, Up, Late, Dag, Level, Queue
<1> QED BY <1>1, <1>2

LEMMA OrderedInit ==
  ASSUME Init
  PROVE  Ordered
<1>1. /\ \A j \in Jobs : stage[j] = "new" /\ job[j].state = "none"
      /\ resolved = {}
  BY HashFacts DEF Init, States
<1> QED BY <1>1 DEF Ordered, FreshFits, Fresh, Idle, LevelFits, DepsFits, RunsAt, Ran

(* A parent runs only when every child its flow gives it has completed or was *)
(* removed, those the producer has yet to add included.  It is proved for the *)
(* runs in which nobody removes an inner node of a DAG before addDAG has      *)
(* reserved the leaves, which releases parents that do not yet wait for all   *)
(* their children, and no failed child is deleted while the producer wires it.*)
THEOREM ParentsRunLast ==
  ASSUME Races = {}
  PROVE  Spec => []RunsAfterChildren
<1>1. Init => FlowInv /\ Ordered
  BY FlowInvInit, OrderedInit
<1>2. FlowInv /\ Ordered /\ [Next]_vars => (FlowInv /\ Ordered)'
  BY FlowInvStep, OrderedStep
<1>3. Ordered => RunsAfterChildren
  BY DEF Ordered, RunsAt, RunsAfterChildren, Ran
<1> QED BY <1>1, <1>2, <1>3, PTL DEF Spec
=============================================================================
