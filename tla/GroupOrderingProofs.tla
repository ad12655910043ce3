------------------------ MODULE GroupOrderingProofs ------------------------
(***************************************************************************)
(* Theorems about GroupOrdering, for every number of jobs and every set of *)
(* options, with the windows in Races closed: jobs of a key start in their *)
(* turn, and the group hash agrees with the jobs.                          *)
(*                                                                         *)
(* The functions of the module map hashes jb and a group g to new ones,    *)
(* and so the invariant is a predicate of such a pair: a lemma about each  *)
(* step that is shared (advance, promote, free, close, wake) carries it    *)
(* through the calls that are made of several.                             *)
(***************************************************************************)
EXTENDS GroupOrdering, FiniteSetTheorems, WellFoundedInduction, TLAPS

-----------------------------------------------------------------------------
(* The inductive invariant *)

JobRecord == [state : States, seq : Nat, retained : BOOLEAN, revoked : BOOLEAN, entry : Places]
GrpRecord == [active : Nat, nextSeq : Nat \ {0}, skips : SUBSET Nat,
              parked : SUBSET [id : Jobs, score : Nat], returning : SUBSET Jobs,
              resume : {"none", "later", "due"}, open : BOOLEAN, count : Nat, issued : Nat]

Typed(jb, g) == jb \in [Jobs -> JobRecord] /\ g \in GrpRecord /\ g.issued <= MaxSeq /\ g.count <= MaxCount

(* Where the entry of a job may be in each of its states. *)
Fits(r) ==
  /\ r.state \in {"new", "completed", "delayed", "parked", "suspended"} => r.entry = "none"
  /\ r.state = "waiting" => r.entry \in {"stream", "claimed", "refused", "dead"}
  /\ r.state = "active" => r.entry \in {"ready", "running", "dead"}
  /\ r.state = "failed" => r.entry \in {"none", "claimed"}
  /\ r.state = "gone" => r.entry \in Held \cup {"none"}
  /\ r.state \in {"new", "gone"} <=> r.seq = 0
  /\ r.retained => r.state \in Pending
  /\ r.state = "suspended" => r.retained
AllFit(jb) == \A j \in Jobs : Fits(jb[j])

Owns(jb, g, j)  == jb[j].state \in Pending /\ jb[j].seq < g.nextSeq
Holders(jb, g)  == {j \in Jobs : Owns(jb, g, j)}
Taken(jb, g, n) == n \in g.skips \/ \E j \in Jobs : jb[j].state \in Pending /\ jb[j].seq = n

(* Sequence numbers are never shared, and the sequence has no hole: each number *)
(* from nextSeq on is skipped or belongs to a job that will come.               *)
Sequenced(jb, g) ==
  /\ \A j, k \in Jobs : jb[j].seq = jb[k].seq /\ jb[j].seq /= 0 => j = k
  /\ \A j \in Jobs : jb[j].seq <= g.issued
  /\ g.nextSeq <= g.issued + 1
  /\ g.skips \subseteq 1..g.issued
  /\ \A j \in Jobs : jb[j].state \in Pending => jb[j].seq \notin g.skips
  /\ \A n \in g.nextSeq..g.issued : Taken(jb, g, n)

(* Who owns a slot, and that the slots in use are counted and within the limit. *)
Marked(r, n) ==
  /\ r.retained => r.seq < n
  /\ r.state = "active" => r.seq < n
  /\ r.state = "delayed" /\ r.seq < n => r.retained
Slotted(jb, g) ==
  /\ \A j \in Jobs : Marked(jb[j], g.nextSeq)
  /\ g.active = Cardinality(Holders(jb, g))
  /\ g.active <= MaxConcurrency

(* groupq, and the returning jobs, which wait for the sweep. *)
Queued(jb, g) ==
  /\ {p.id : p \in g.parked} = {j \in Jobs : jb[j].state = "parked"}
  /\ \A p, r \in g.parked : p.id = r.id => p = r
  /\ \A p \in g.parked : p.id \in g.returning \/ p.score = jb[p.id].seq
  /\ \A j \in g.returning : jb[j].retained
  /\ g.returning /= {} => g.resume /= "none"

Core(jb, g) == Typed(jb, g) /\ AllFit(jb) /\ Sequenced(jb, g) /\ Slotted(jb, g) /\ Queued(jb, g)

(* Who wakes the parked jobs without a sweep: a job that owns a slot, or, while *)
(* there is a free slot, the job whose turn is next.                            *)
Busy(jb, g)   == \E j \in Jobs : Owns(jb, g, j) /\ jb[j].state /= "parked"
OnTurn(jb, g) == \E j \in Jobs : /\ jb[j].state \in Pending \ {"parked"} /\ jb[j].seq >= g.nextSeq
                                 /\ \A n \in g.nextSeq..(jb[j].seq - 1) : n \in g.skips
Woken(jb, g)  == Busy(jb, g) \/ (g.active < MaxConcurrency /\ OnTurn(jb, g))
Served(jb, g) == g.resume = "none" /\ g.parked /= {} => Woken(jb, g)

Good(jb, g) == Core(jb, g) /\ Served(jb, g)

IInv == ordering \in Orderings /\ Good(job, grp)

-----------------------------------------------------------------------------
(* Numbers and sets *)

Options == ordering \in Orderings

LEMMA Sizes ==
  ASSUME Options
  PROVE  /\ MaxSeq \in Nat /\ MaxConcurrency \in Nat \ {0} /\ RateMax \in Nat /\ MaxCount \in Nat
         /\ MaxCount >= RateMax /\ HasTtl \in BOOLEAN
         /\ MaxJobs \in Nat /\ Jobs \subseteq Nat /\ IsFiniteSet(Jobs) /\ Cardinality(Jobs) = MaxJobs
<1>1. MaxJobs \in Nat
  BY SizeAssumption
<1>2. IsFiniteSet(Jobs) /\ Cardinality(Jobs) = MaxJobs
  <2>1. 1 \in Int /\ MaxJobs \in Int
    BY <1>1
  <2>2. IsFiniteSet(1..MaxJobs) /\ Cardinality(1..MaxJobs) = IF 1 > MaxJobs THEN 0 ELSE MaxJobs - 1 + 1
    BY <2>1, FS_Interval
  <2> QED BY <1>1, <2>2 DEF Jobs
<1> QED BY <1>1, <1>2, SizeAssumption DEF Options, MaxSeq, MaxConcurrency, RateMax, MaxCount, HasTtl, Jobs

LEMMA LeastOf ==
  ASSUME NEW S \in SUBSET Nat, S /= {}
  PROVE  \E n \in S : \A m \in S : n <= m
<1>1. \E n \in S : \A m \in S : <<m, n>> \notin OpToRel(<, Nat)
  BY NatLessThanWellFounded, WFMin
<1>2. PICK n \in S : \A m \in S : <<m, n>> \notin OpToRel(<, Nat)
  BY <1>1
<1>3. \A m \in S : ~(m < n)
  BY <1>2 DEF OpToRel
<1> QED BY <1>3

LEMMA GreatestOf ==
  ASSUME NEW S \in SUBSET Nat, S /= {}, IsFiniteSet(S)
  PROVE  \E n \in S : \A m \in S : m <= n
<1> DEFINE above(n) == {m \in S : m > n}
           T == {Cardinality(above(n)) : n \in S}
<1>1. \A n \in S : IsFiniteSet(above(n)) /\ Cardinality(above(n)) \in Nat
  <2> SUFFICES ASSUME NEW n \in S PROVE IsFiniteSet(above(n)) /\ Cardinality(above(n)) \in Nat
    OBVIOUS
  <2>1. above(n) \in SUBSET S
    OBVIOUS
  <2>2. IsFiniteSet(above(n))
    BY <2>1, FS_Subset
  <2> QED BY <2>2, FS_CardinalityType
<1>2. T \in SUBSET Nat /\ T /= {}
  BY <1>1
<1>3. \E c \in T : \A d \in T : c <= d
  <2> HIDE DEF T
  <2> QED BY <1>2, LeastOf
<1>4. PICK n \in S : \A m \in S : Cardinality(above(n)) <= Cardinality(above(m))
  BY <1>3
<1>5. ASSUME NEW m \in S, m > n PROVE FALSE
  <2> HIDE DEF T
  <2>1. m \in Nat /\ n \in Nat /\ \A k \in S : k \in Nat
    OBVIOUS
  <2>2. above(m) \in SUBSET above(n)
    <3>1. \A k \in S : k > m => k > n
      BY <1>5, <2>1
    <3> QED BY <3>1
  <2>3. m \in above(n) /\ m \notin above(m)
    <3>1. ~(m > m)
      BY <2>1
    <3> QED BY <1>5, <3>1
  <2>4. IsFiniteSet(above(n)) /\ Cardinality(above(n)) \in Nat /\ Cardinality(above(m)) \in Nat
    BY <1>1
  <2>5. Cardinality(above(n)) <= Cardinality(above(m))
    BY <1>4
  <2> HIDE DEF above
  <2>6. Cardinality(above(m)) <= Cardinality(above(n))
    BY <2>2, <2>4, FS_Subset
  <2>7. Cardinality(above(n)) = Cardinality(above(m))
    BY <2>4, <2>5, <2>6
  <2>8. above(n) = above(m)
    BY <2>2, <2>4, <2>7, FS_Subset
  <2> QED BY <2>3, <2>8
<1> QED BY <1>5

LEMMA HoldersFinite ==
  ASSUME Options, NEW jb, NEW g
  PROVE  /\ IsFiniteSet(Holders(jb, g)) /\ Cardinality(Holders(jb, g)) \in Nat
         /\ Cardinality(Holders(jb, g)) <= MaxJobs
<1>1. Holders(jb, g) \in SUBSET Jobs
  BY DEF Holders
<1>2. IsFiniteSet(Holders(jb, g)) /\ Cardinality(Holders(jb, g)) <= Cardinality(Jobs)
  BY <1>1, Sizes, FS_Subset
<1> QED BY <1>2, Sizes, FS_CardinalityType

(* What the options bound, in the form the lemmas below use. *)
LEMMA CoreFacts ==
  ASSUME Options, NEW jb, NEW g, Core(jb, g)
  PROVE  /\ jb \in [Jobs -> JobRecord] /\ g \in GrpRecord /\ g.issued <= MaxSeq /\ g.count <= MaxCount
         /\ g.active \in Nat /\ g.nextSeq \in Nat \ {0} /\ g.skips \in SUBSET Nat
         /\ g.parked \in SUBSET [id : Jobs, score : Nat] /\ g.returning \in SUBSET Jobs
         /\ g.resume \in {"none", "later", "due"} /\ g.open \in BOOLEAN /\ g.count \in Nat /\ g.issued \in Nat
         /\ \A j \in Jobs : jb[j] \in JobRecord /\ jb[j].seq \in Nat
<1>1. jb \in [Jobs -> JobRecord] /\ g \in GrpRecord /\ g.issued <= MaxSeq /\ g.count <= MaxCount
  BY DEF Core, Typed
<1>2. \A j \in Jobs : jb[j] \in JobRecord /\ jb[j].seq \in Nat
  BY <1>1 DEF JobRecord
<1> QED BY <1>1, <1>2 DEF GrpRecord

-----------------------------------------------------------------------------
(* advancePastSkips: the sequence moves to a number that is not skipped, and   *)
(* no job owns a slot that did not own it before.                              *)

LEMMA AdvanceFacts ==
  ASSUME Options, NEW jb, NEW g, Core(jb, g)
  PROVE  LET a == Advance(g)
         IN  /\ a \in GrpRecord
             /\ a.active = g.active /\ a.parked = g.parked /\ a.returning = g.returning
             /\ a.resume = g.resume /\ a.open = g.open /\ a.count = g.count /\ a.issued = g.issued
             /\ a.nextSeq \in g.nextSeq..(g.issued + 1) /\ a.nextSeq \notin g.skips
             /\ \A n \in g.nextSeq..(a.nextSeq - 1) : n \in g.skips
             /\ a.skips = g.skips \ (g.nextSeq..(a.nextSeq - 1))
<1> DEFINE s == g.nextSeq
           Stop(k) == k \notin g.skips /\ \A i \in s..(k - 1) : i \in g.skips
           n == CHOOSE k \in s..(MaxSeq + 1) : Stop(k)
           T == {k \in s..(g.issued + 1) : k \notin g.skips}
<1>1. /\ g \in GrpRecord /\ s \in Nat \ {0} /\ g.issued \in Nat /\ g.issued <= MaxSeq /\ MaxSeq \in Nat
      /\ s <= g.issued + 1 /\ g.skips \subseteq 1..g.issued
  BY CoreFacts, Sizes DEF Core, Sequenced
<1>2. T \in SUBSET Nat /\ T /= {}
  <2>1. g.issued + 1 \in T
    BY <1>1
  <2>2. T \in SUBSET Nat
    BY <1>1
  <2> QED BY <2>1, <2>2
<1>3. PICK m \in T : \A k \in T : m <= k
  <2> HIDE DEF T
  <2> QED BY <1>2, LeastOf
<1>4. m \in s..(g.issued + 1) /\ m \in s..(MaxSeq + 1) /\ Stop(m)
  <2>1. m \in s..(g.issued + 1) /\ m \notin g.skips
    BY <1>3
  <2>2. \A i \in s..(m - 1) : i \in s..(g.issued + 1) /\ ~(m <= i)
    BY <1>1, <2>1
  <2>3. \A i \in s..(m - 1) : i \in g.skips
    BY <1>3, <2>2
  <2> QED BY <1>1, <2>1, <2>3
<1>5. n \in s..(MaxSeq + 1) /\ Stop(n)
  <2>1. \E k \in s..(MaxSeq + 1) : Stop(k)
    BY <1>4
  <2> HIDE DEF Stop
  <2> QED BY <2>1
<1>6. n \in s..(g.issued + 1)
  <2>1. CASE n <= m
    BY <1>1, <1>4, <1>5, <2>1
  <2>2. CASE ~(n <= m)
    <3>1. m \in s..(n - 1)
      BY <1>1, <1>4, <1>5, <2>2
    <3> QED BY <1>4, <1>5, <3>1
  <2> QED BY <2>1, <2>2
<1>7. Advance(g) = [g EXCEPT !.nextSeq = n, !.skips = g.skips \ (s..(n - 1))]
  BY DEF Advance
<1> HIDE DEF n
<1>8. n \in Nat \ {0} /\ g.skips \ (s..(n - 1)) \in SUBSET Nat
  BY <1>1, <1>6
<1> QED BY <1>1, <1>5, <1>6, <1>7, <1>8 DEF GrpRecord

LEMMA AdvanceOwns ==
  ASSUME Options, NEW jb, NEW g, Core(jb, g)
  PROVE  /\ \A j \in Jobs : Owns(jb, Advance(g), j) <=> Owns(jb, g, j)
         /\ Holders(jb, Advance(g)) = Holders(jb, g)
<1> DEFINE a == Advance(g)
<1>1. /\ a.nextSeq \in g.nextSeq..(g.issued + 1) /\ g.nextSeq \in Nat /\ g.issued \in Nat
      /\ \A n \in g.nextSeq..(a.nextSeq - 1) : n \in g.skips
      /\ \A j \in Jobs : jb[j].seq \in Nat
  BY AdvanceFacts, CoreFacts
<1> HIDE DEF a
<1>2. \A j \in Jobs : jb[j].state \in Pending => jb[j].seq \notin g.skips
  BY DEF Core, Sequenced
<1>3. ASSUME NEW j \in Jobs PROVE Owns(jb, a, j) <=> Owns(jb, g, j)
  <2>1. ASSUME jb[j].state \in Pending, jb[j].seq < a.nextSeq PROVE jb[j].seq < g.nextSeq
    <3>1. jb[j].seq \notin g.nextSeq..(a.nextSeq - 1)
      BY <1>1, <1>2, <2>1
    <3> QED BY <1>1, <2>1, <3>1
  <2>2. jb[j].seq < g.nextSeq => jb[j].seq < a.nextSeq
    BY <1>1
  <2> QED BY <2>1, <2>2 DEF Owns
<1> QED BY <1>3 DEF Holders, a

LEMMA AdvanceCore ==
  ASSUME Options, NEW jb, NEW g, Core(jb, g)
  PROVE  Core(jb, Advance(g))
<1> DEFINE a == Advance(g)
<1>1. /\ a \in GrpRecord
      /\ a.active = g.active /\ a.parked = g.parked /\ a.returning = g.returning
      /\ a.resume = g.resume /\ a.open = g.open /\ a.count = g.count /\ a.issued = g.issued
  BY AdvanceFacts
<1>2. /\ a.nextSeq \in g.nextSeq..(g.issued + 1)
      /\ \A n \in g.nextSeq..(a.nextSeq - 1) : n \in g.skips
      /\ a.skips = g.skips \ (g.nextSeq..(a.nextSeq - 1))
  BY AdvanceFacts
<1>3. (\A j \in Jobs : Owns(jb, a, j) <=> Owns(jb, g, j)) /\ Holders(jb, a) = Holders(jb, g)
  BY AdvanceOwns
<1> HIDE DEF a
<1>4. g.nextSeq \in Nat /\ g.issued \in Nat /\ a.nextSeq \in Nat /\ \A j \in Jobs : jb[j].seq \in Nat
  BY <1>1, CoreFacts DEF GrpRecord
<1>5. Typed(jb, a)
  BY <1>1 DEF Core, Typed
<1>6. Sequenced(jb, a)
  <2>1. /\ \A j, k \in Jobs : jb[j].seq = jb[k].seq /\ jb[j].seq /= 0 => j = k
        /\ \A j \in Jobs : jb[j].seq <= a.issued
        /\ a.skips \subseteq 1..a.issued
        /\ \A j \in Jobs : jb[j].state \in Pending => jb[j].seq \notin a.skips
    BY <1>1, <1>2 DEF Core, Sequenced
  <2>2. a.nextSeq <= a.issued + 1
    BY <1>1, <1>2, <1>4
  <2>3. ASSUME NEW n \in a.nextSeq..a.issued PROVE Taken(jb, a, n)
    <3>1. n \in g.nextSeq..g.issued /\ n \notin g.nextSeq..(a.nextSeq - 1)
      BY <1>1, <1>2, <1>4
    <3>2. Taken(jb, g, n)
      BY <3>1 DEF Core, Sequenced
    <3> QED BY <1>2, <3>1, <3>2 DEF Taken
  <2> QED BY <2>1, <2>2, <2>3 DEF Sequenced
<1>7. Slotted(jb, a)
  <2>1. ASSUME NEW j \in Jobs PROVE Marked(jb[j], a.nextSeq)
    <3>1. Marked(jb[j], g.nextSeq)
      BY DEF Core, Slotted
    <3>2. jb[j].seq < g.nextSeq => jb[j].seq < a.nextSeq
      <4>1. g.nextSeq <= a.nextSeq /\ jb[j].seq \in Nat
        BY <1>2, <1>4
      <4> QED BY <1>4, <4>1
    <3>3. jb[j].state = "delayed" /\ jb[j].seq < a.nextSeq => jb[j].seq < g.nextSeq
      BY <1>3 DEF Owns, Pending
    <3> QED BY <3>1, <3>2, <3>3 DEF Marked
  <2>2. a.active = Cardinality(Holders(jb, a)) /\ a.active <= MaxConcurrency
    BY <1>1, <1>3 DEF Core, Slotted
  <2> QED BY <2>1, <2>2 DEF Slotted
<1>8. Queued(jb, a)
  BY <1>1 DEF Core, Queued
<1>9. AllFit(jb)
  BY DEF Core
<1> QED BY <1>5, <1>6, <1>7, <1>8, <1>9 DEF Core, a

(* The job whose turn is next is the one the sequence has reached. *)
LEMMA AdvanceTurn ==
  ASSUME Options, NEW jb, NEW g, Core(jb, g), g.nextSeq \notin g.skips,
         NEW j \in Jobs, jb[j].state \in Pending, ~Owns(jb, g, j)
  PROVE  \E k \in Jobs : jb[k].state \in Pending /\ jb[k].seq = g.nextSeq
<1>1. g.nextSeq \in Nat /\ g.issued \in Nat /\ jb[j].seq \in Nat
  BY CoreFacts
<1>2. jb[j].seq <= g.issued /\ ~(jb[j].seq < g.nextSeq)
  BY DEF Core, Sequenced, Owns
<1>3. g.nextSeq \in g.nextSeq..g.issued
  BY <1>1, <1>2
<1>4. Taken(jb, g, g.nextSeq)
  BY <1>3 DEF Core, Sequenced
<1> QED BY <1>4 DEF Taken

LEMMA AdvanceServed ==
  ASSUME Options, NEW jb, NEW g, Core(jb, g), Served(jb, g)
  PROVE  Served(jb, Advance(g))
<1> DEFINE a == Advance(g)
<1>1. /\ a.active = g.active /\ a.parked = g.parked /\ a.resume = g.resume
      /\ a.nextSeq \in g.nextSeq..(g.issued + 1)
      /\ a.skips = g.skips \ (g.nextSeq..(a.nextSeq - 1))
  BY AdvanceFacts
<1>2. \A j \in Jobs : Owns(jb, a, j) <=> Owns(jb, g, j)
  BY AdvanceOwns
<1> HIDE DEF a
<1>3. g.nextSeq \in Nat /\ g.issued \in Nat /\ \A j \in Jobs : jb[j].seq \in Nat
  BY CoreFacts
<1>4. Busy(jb, g) => Busy(jb, a)
  BY <1>2 DEF Busy
<1>5. ASSUME OnTurn(jb, g) PROVE OnTurn(jb, a)
  <2>1. PICK j \in Jobs : /\ jb[j].state \in Pending \ {"parked"} /\ jb[j].seq >= g.nextSeq
                          /\ \A n \in g.nextSeq..(jb[j].seq - 1) : n \in g.skips
    BY <1>5 DEF OnTurn
  <2>2. ~Owns(jb, a, j)
    BY <1>2, <1>3, <2>1 DEF Owns
  <2>3. jb[j].seq >= a.nextSeq
    BY <1>1, <1>3, <2>1, <2>2 DEF Owns
  <2>4. ASSUME NEW n \in a.nextSeq..(jb[j].seq - 1) PROVE n \in a.skips
    <3>1. n \in g.nextSeq..(jb[j].seq - 1) /\ n \notin g.nextSeq..(a.nextSeq - 1)
      BY <1>1, <1>3
    <3> QED BY <1>1, <2>1, <3>1
  <2> QED BY <2>1, <2>3, <2>4 DEF OnTurn
<1> QED BY <1>1, <1>4, <1>5 DEF Served, Woken, a

-----------------------------------------------------------------------------
(* Steps that leave the sequence and the slots alone *)

SameBook(g, h) ==
  /\ h.active = g.active /\ h.nextSeq = g.nextSeq /\ h.skips = g.skips /\ h.issued = g.issued
SameJobs(jb, kb) ==
  \A j \in Jobs : kb[j].seq = jb[j].seq /\ (kb[j].state \in Pending <=> jb[j].state \in Pending)

LEMMA SameOwners ==
  ASSUME NEW jb, NEW g, NEW kb, NEW h, SameBook(g, h), SameJobs(jb, kb)
  PROVE  /\ \A j \in Jobs : Owns(kb, h, j) <=> Owns(jb, g, j)
         /\ Holders(kb, h) = Holders(jb, g)
<1>1. \A j \in Jobs : Owns(kb, h, j) <=> Owns(jb, g, j)
  BY DEF SameBook, SameJobs, Owns
<1> QED BY <1>1 DEF Holders

LEMMA SameSequence ==
  ASSUME NEW jb, NEW g, NEW kb, NEW h, SameBook(g, h), SameJobs(jb, kb), Sequenced(jb, g)
  PROVE  Sequenced(kb, h)
<1>1. \A n \in g.nextSeq..g.issued : Taken(jb, g, n)
  BY DEF Sequenced
<1>2. \A n : Taken(jb, g, n) => Taken(kb, h, n)
  BY DEF SameBook, SameJobs, Taken
<1>3. \A n \in h.nextSeq..h.issued : Taken(kb, h, n)
  BY <1>1, <1>2 DEF SameBook
<1>4. /\ \A j, k \in Jobs : kb[j].seq = kb[k].seq /\ kb[j].seq /= 0 => j = k
      /\ \A j \in Jobs : kb[j].seq <= h.issued
      /\ h.nextSeq <= h.issued + 1
      /\ h.skips \subseteq 1..h.issued
  BY DEF SameBook, SameJobs, Sequenced
<1>5. \A j \in Jobs : kb[j].state \in Pending => kb[j].seq \notin h.skips
  BY DEF SameBook, SameJobs, Sequenced
<1> QED BY <1>3, <1>4, <1>5 DEF Sequenced

LEMMA SameCore ==
  ASSUME NEW jb, NEW g, NEW kb, NEW h, Core(jb, g), SameBook(g, h), SameJobs(jb, kb),
         Typed(kb, h), AllFit(kb), \A j \in Jobs : Marked(kb[j], g.nextSeq), Queued(kb, h)
  PROVE  Core(kb, h)
<1>1. Sequenced(kb, h)
  BY SameSequence DEF Core
<1>2. Holders(kb, h) = Holders(jb, g)
  BY SameOwners
<1>3. Slotted(kb, h)
  BY <1>2 DEF Core, Slotted, SameBook
<1> QED BY <1>1, <1>3 DEF Core

LEMMA SameServed ==
  ASSUME NEW jb, NEW g, NEW kb, NEW h, Served(jb, g), SameBook(g, h), SameJobs(jb, kb),
         h.resume = "none" /\ h.parked /= {} => g.resume = "none" /\ g.parked /= {},
         \A j \in Jobs : kb[j].state = "parked" => jb[j].state = "parked"
  PROVE  Served(kb, h)
<1>1. SUFFICES ASSUME h.resume = "none", h.parked /= {} PROVE Woken(kb, h)
  BY DEF Served
<1>2. Woken(jb, g)
  BY <1>1 DEF Served
<1>3. Busy(jb, g) => Busy(kb, h)
  BY SameOwners DEF Busy
<1>4. OnTurn(jb, g) => OnTurn(kb, h)
  <2> SUFFICES ASSUME OnTurn(jb, g) PROVE OnTurn(kb, h)
    OBVIOUS
  <2>1. PICK j \in Jobs : /\ jb[j].state \in Pending \ {"parked"} /\ jb[j].seq >= g.nextSeq
                          /\ \A n \in g.nextSeq..(jb[j].seq - 1) : n \in g.skips
    BY DEF OnTurn
  <2>2. kb[j].state \in Pending \ {"parked"} /\ kb[j].seq = jb[j].seq
    BY <2>1 DEF SameJobs
  <2> QED BY <2>1, <2>2 DEF OnTurn, SameBook
<1> QED BY <1>2, <1>3, <1>4 DEF Woken, SameBook

(* What promote does to a parked job. *)
LEMMA ToStreamFacts ==
  ASSUME NEW jb \in [Jobs -> JobRecord], NEW ids \in SUBSET Jobs
  PROVE  LET kb == ToStream(jb, ids)
         IN  /\ kb \in [Jobs -> JobRecord]
             /\ \A j \in Jobs : /\ kb[j].seq = jb[j].seq /\ kb[j].retained = jb[j].retained
                                /\ kb[j].revoked = jb[j].revoked
                                /\ j \in ids => kb[j].state = "waiting" /\ kb[j].entry = "stream"
                                /\ j \notin ids => kb[j] = jb[j]
<1> DEFINE kb == ToStream(jb, ids)
<1>1. \A j \in Jobs : kb[j] = IF j \in ids THEN [jb[j] EXCEPT !.state = "waiting", !.entry = "stream"] ELSE jb[j]
  BY DEF ToStream
<1>2. kb = [j \in Jobs |-> IF j \in ids THEN [jb[j] EXCEPT !.state = "waiting", !.entry = "stream"] ELSE jb[j]]
  BY DEF ToStream
<1>3. "waiting" \in States /\ "stream" \in Places
  BY DEF States, Pending, Places
<1>4. \A j \in Jobs : [jb[j] EXCEPT !.state = "waiting", !.entry = "stream"] \in JobRecord
  BY <1>3 DEF JobRecord
<1>5. kb \in [Jobs -> JobRecord]
  BY <1>2, <1>4
<1> HIDE DEF kb
<1>6. \A j \in Jobs : /\ kb[j].seq = jb[j].seq /\ kb[j].retained = jb[j].retained
                      /\ kb[j].revoked = jb[j].revoked
                      /\ j \in ids => kb[j].state = "waiting" /\ kb[j].entry = "stream"
                      /\ j \notin ids => kb[j] = jb[j]
  BY <1>1 DEF JobRecord
<1> QED BY <1>5, <1>6 DEF kb

LEMMA UnparkFacts ==
  ASSUME NEW g \in GrpRecord, NEW ids
  PROVE  LET h == Unpark(g, ids)
         IN  /\ h \in GrpRecord /\ SameBook(g, h)
             /\ h.parked = {p \in g.parked : p.id \notin ids}
             /\ h.returning = g.returning /\ h.resume = g.resume /\ h.open = g.open /\ h.count = g.count
BY DEF Unpark, GrpRecord, SameBook

LEMMA PromoteCore ==
  ASSUME Options, NEW jb, NEW g, Core(jb, g), NEW ids \in SUBSET Jobs,
         \A i \in ids : jb[i].state = "parked"
  PROVE  Core(ToStream(jb, ids), Unpark(g, ids)) /\ SameJobs(jb, ToStream(jb, ids))
<1> DEFINE kb == ToStream(jb, ids)
           h  == Unpark(g, ids)
<1>1. jb \in [Jobs -> JobRecord] /\ g \in GrpRecord
  BY CoreFacts
<1>2. /\ kb \in [Jobs -> JobRecord]
      /\ \A j \in Jobs : /\ kb[j].seq = jb[j].seq /\ kb[j].retained = jb[j].retained
                         /\ j \in ids => kb[j].state = "waiting" /\ kb[j].entry = "stream"
                         /\ j \notin ids => kb[j] = jb[j]
  BY <1>1, ToStreamFacts
<1>3. /\ h \in GrpRecord /\ SameBook(g, h)
      /\ h.parked = {p \in g.parked : p.id \notin ids}
      /\ h.returning = g.returning /\ h.resume = g.resume /\ h.open = g.open /\ h.count = g.count
  BY <1>1, UnparkFacts
<1> HIDE DEF kb, h
<1>4. SameJobs(jb, kb)
  BY <1>2 DEF SameJobs, Pending
<1>5. Typed(kb, h)
  BY <1>2, <1>3 DEF Core, Typed, SameBook
<1>6. AllFit(kb)
  <2> SUFFICES ASSUME NEW j \in Jobs PROVE Fits(kb[j])
    BY DEF AllFit
  <2>1. Fits(jb[j])
    BY DEF Core, AllFit
  <2>2. CASE j \in ids
    <3>1. jb[j].seq /= 0
      BY <2>1, <2>2 DEF Fits
    <3> QED BY <1>2, <2>2, <3>1 DEF Fits, Pending
  <2>3. CASE j \notin ids
    BY <1>2, <2>1, <2>3
  <2> QED BY <2>2, <2>3
<1>7. ASSUME NEW j \in Jobs PROVE Marked(kb[j], g.nextSeq)
  <2>1. Marked(jb[j], g.nextSeq)
    BY DEF Core, Slotted
  <2>2. CASE j \in ids
    BY <1>2, <2>1, <2>2 DEF Marked
  <2>3. CASE j \notin ids
    BY <1>2, <2>1, <2>3
  <2> QED BY <2>2, <2>3
<1>8. Queued(kb, h)
  <2>1. {p.id : p \in h.parked} = {j \in Jobs : kb[j].state = "parked"}
    <3>1. {p.id : p \in g.parked} = {j \in Jobs : jb[j].state = "parked"}
      BY DEF Core, Queued
    <3>2. \A j \in Jobs : kb[j].state = "parked" <=> jb[j].state = "parked" /\ j \notin ids
      BY <1>2
    <3> QED BY <1>3, <3>1, <3>2
  <2>2. \A p, r \in h.parked : p.id = r.id => p = r
    BY <1>3 DEF Core, Queued
  <2>3. \A p \in h.parked : p.id \in h.returning \/ p.score = kb[p.id].seq
    <3>1. \A p \in g.parked : p.id \in Jobs
      BY <1>1 DEF GrpRecord
    <3> QED BY <1>2, <1>3, <3>1 DEF Core, Queued
  <2>4. \A j \in h.returning : kb[j].retained
    <3>1. g.returning \subseteq Jobs /\ \A j \in g.returning : jb[j].retained
      BY <1>1 DEF GrpRecord, Core, Queued
    <3>2. \A j \in Jobs : jb[j].retained => kb[j].retained
      BY <1>2
    <3> QED BY <1>3, <3>1, <3>2
  <2>5. h.returning /= {} => h.resume /= "none"
    BY <1>3 DEF Core, Queued
  <2> QED BY <2>1, <2>2, <2>3, <2>4, <2>5 DEF Queued
<1>9. Core(kb, h)
  <2>1. \A j \in Jobs : Marked(kb[j], g.nextSeq)
    BY <1>7
  <2> QED BY <1>3, <1>4, <1>5, <1>6, <1>8, <2>1, SameCore
<1> QED BY <1>4, <1>9 DEF kb, h

(* A promotion loop with a free slot takes the first parked job when its turn *)
(* has come; when it has not, the job whose turn it is waits elsewhere.       *)
LEMMA PromotableFacts ==
  ASSUME NEW jb, NEW g \in GrpRecord, NEW slots, NEW one, Queued(jb, g)
  PROVE  LET ids == Promotable(jb, g, slots, one)
         IN  ids \in SUBSET Jobs /\ \A i \in ids : jb[i].state = "parked"
<1>1. Promotable(jb, g, slots, one) \subseteq {p.id : p \in g.parked}
  BY DEF Promotable
<1> QED BY <1>1 DEF Queued

LEMMA FirstParked ==
  ASSUME Options, NEW jb, NEW g, Core(jb, g), g.parked /= {},
         \A p \in g.parked : p.score = jb[p.id].seq
  PROVE  \E p \in g.parked : \A r \in g.parked : ~Before(r, p) /\ p.score <= r.score
<1> DEFINE T == {p.score : p \in g.parked}
<1>1. \A p \in g.parked : p.id \in Jobs /\ p.score \in Nat
  BY CoreFacts
<1>2. \E n \in T : \A m \in T : n <= m
  <2>1. T \in SUBSET Nat /\ T /= {}
    BY <1>1
  <2> HIDE DEF T
  <2> QED BY <2>1, LeastOf
<1>3. PICK p \in g.parked : \A r \in g.parked : p.score <= r.score
  BY <1>2
<1>4. ASSUME NEW r \in g.parked, Before(r, p) PROVE FALSE
  <2>1. r.score = p.score /\ r.id < p.id
    BY <1>1, <1>3, <1>4 DEF Before
  <2>2. jb[r.id].seq = jb[p.id].seq
    BY <2>1
  <2>3. jb[r.id].state = "parked" /\ jb[r.id].seq /= 0
    <3>1. jb[r.id].state = "parked"
      BY DEF Core, Queued
    <3>2. Fits(jb[r.id])
      BY <1>1 DEF Core, AllFit
    <3> QED BY <3>1, <3>2 DEF Fits
  <2>4. r.id = p.id
    BY <1>1, <2>2, <2>3 DEF Core, Sequenced
  <2> QED BY <1>1, <2>1, <2>4, Sizes
<1> QED BY <1>3, <1>4

LEMMA PromotedServed ==
  ASSUME Options, NEW jb, NEW g, Core(jb, g), g.nextSeq \notin g.skips,
         g.resume = "none" => \A p \in g.parked : p.score = jb[p.id].seq,
         g.active < MaxConcurrency, NEW slots \in Int, slots > 0, NEW one
  PROVE  LET ids == Promotable(jb, g, slots, one)
         IN  Served(ToStream(jb, ids), Unpark(g, ids))
<1> DEFINE ids == Promotable(jb, g, slots, one)
           kb  == ToStream(jb, ids)
           h   == Unpark(g, ids)
           ahead(p) == {r \in g.parked : Before(r, p)}
           moved(p) == {r \in ahead(p) : one \/ jb[r.id].seq >= g.nextSeq}
           due(p)   == jb[p.id].seq <= g.nextSeq + Cardinality(moved(p))
<1>1. /\ jb \in [Jobs -> JobRecord] /\ g \in GrpRecord /\ g.nextSeq \in Nat
      /\ \A j \in Jobs : jb[j].seq \in Nat
      /\ \A p \in g.parked : p.id \in Jobs
  BY CoreFacts
<1>2. ids \in SUBSET Jobs /\ \A i \in ids : jb[i].state = "parked"
  BY <1>1, PromotableFacts DEF Core
<1>3. ids = {p.id : p \in {r \in g.parked : /\ Cardinality(ahead(r)) < slots
                                             /\ due(r) /\ \A s \in ahead(r) : due(s)}}
  BY DEF Promotable
<1> HIDE DEF ids
<1>4. \A j \in Jobs : /\ kb[j].seq = jb[j].seq
                      /\ j \in ids => kb[j].state = "waiting"
                      /\ j \notin ids => kb[j] = jb[j]
  BY <1>1, <1>2, ToStreamFacts
<1>5. SameBook(g, h) /\ h.resume = g.resume /\ h.parked = {p \in g.parked : p.id \notin ids}
  BY <1>1, UnparkFacts
<1> HIDE DEF kb, h
<1> SUFFICES ASSUME h.resume = "none", h.parked /= {} PROVE OnTurn(kb, h) \/ Busy(kb, h)
  BY <1>5 DEF Served, Woken, SameBook, kb, h, ids
<1>6. g.parked /= {} /\ \A p \in g.parked : p.score = jb[p.id].seq
  BY <1>5
<1>7. PICK p \in g.parked : \A r \in g.parked : ~Before(r, p) /\ p.score <= r.score
  BY <1>6, FirstParked
<1>8. p.id \in Jobs /\ jb[p.id].state = "parked" /\ jb[p.id].seq \in Nat
  BY <1>1 DEF Core, Queued
<1>9. CASE jb[p.id].seq <= g.nextSeq
  <2>1. ahead(p) = {}
    BY <1>7
  <2>2. moved(p) = {}
    BY <2>1
  <2>3. Cardinality(ahead(p)) = 0 /\ Cardinality(moved(p)) = 0
    <3> HIDE DEF ahead, moved
    <3> QED BY <2>1, <2>2, FS_EmptySet
  <2>4. due(p) /\ Cardinality(ahead(p)) < slots
    <3> HIDE DEF moved, ahead
    <3> QED BY <1>1, <1>9, <2>3
  <2>5. p.id \in ids
    <3>1. \A s \in ahead(p) : due(s)
      BY <2>1
    <3> HIDE DEF due, ahead
    <3> QED BY <1>3, <2>4, <3>1
  <2>6. kb[p.id].state = "waiting" /\ kb[p.id].seq = jb[p.id].seq
    BY <1>4, <1>8, <2>5
  <2>7. CASE jb[p.id].seq < g.nextSeq
    <3>1. Owns(kb, h, p.id)
      BY <1>5, <2>6, <2>7 DEF Owns, SameBook, Pending
    <3> QED BY <1>8, <2>6, <3>1 DEF Busy
  <2>8. CASE jb[p.id].seq = g.nextSeq
    <3>1. kb[p.id].state \in Pending \ {"parked"}
      BY <2>6 DEF Pending
    <3>2. h.nextSeq = g.nextSeq /\ h.skips = g.skips
      BY <1>5 DEF SameBook
    <3>3. kb[p.id].seq >= h.nextSeq /\ \A n \in h.nextSeq..(kb[p.id].seq - 1) : n \in h.skips
      BY <1>1, <2>6, <2>8, <3>2
    <3> QED BY <1>8, <3>1, <3>3 DEF OnTurn
  <2> QED BY <1>1, <1>8, <1>9, <2>7, <2>8
<1>10. CASE ~(jb[p.id].seq <= g.nextSeq)
  <2>1. ~Owns(jb, g, p.id) /\ jb[p.id].state \in Pending
    BY <1>1, <1>8, <1>10 DEF Owns, Pending
  <2>2. PICK k \in Jobs : jb[k].state \in Pending /\ jb[k].seq = g.nextSeq
    BY <1>8, <2>1, AdvanceTurn
  <2>3. jb[k].state /= "parked"
    <3> SUFFICES ASSUME jb[k].state = "parked" PROVE FALSE
      OBVIOUS
    <3>1. PICK r \in g.parked : r.id = k
      BY DEF Core, Queued
    <3>2. r.score = g.nextSeq /\ p.score = jb[p.id].seq
      BY <1>6, <2>2, <3>1
    <3>3. p.score <= r.score
      BY <1>7
    <3> QED BY <1>1, <1>8, <1>10, <3>2, <3>3
  <2>4. kb[k] = jb[k]
    BY <1>2, <1>4, <2>3
  <2>5. h.nextSeq = g.nextSeq /\ h.skips = g.skips
    BY <1>5 DEF SameBook
  <2>6. kb[k].seq >= h.nextSeq /\ \A n \in h.nextSeq..(kb[k].seq - 1) : n \in h.skips
    BY <1>1, <2>2, <2>4, <2>5
  <2>7. OnTurn(kb, h)
    BY <2>2, <2>3, <2>4, <2>6 DEF OnTurn
  <2> QED BY <2>7
<1> QED BY <1>9, <1>10

-----------------------------------------------------------------------------
(* A job ends: its slot is given back, or the hole it leaves is closed *)

Ended(jb, kb, j) ==
  /\ kb \in [Jobs -> JobRecord] /\ \A k \in Jobs \ {j} : kb[k] = jb[k]
  /\ Fits(kb[j]) /\ kb[j].state \notin Pending /\ kb[j].seq \in {jb[j].seq, 0}

LEMMA EndedFacts ==
  ASSUME Options, NEW jb, NEW g, Core(jb, g), NEW j \in Jobs, NEW kb, Ended(jb, kb, j)
  PROVE  /\ AllFit(kb) /\ \A n : (\A k \in Jobs : Marked(jb[k], n)) => \A k \in Jobs : Marked(kb[k], n)
         /\ \A k, l \in Jobs : kb[k].seq = kb[l].seq /\ kb[k].seq /= 0 => k = l
         /\ \A k \in Jobs : kb[k].seq <= g.issued
         /\ kb[j].state \notin {"parked", "active", "delayed"} /\ ~kb[j].retained
<1>1. kb[j].state \notin {"parked", "active", "delayed"} /\ ~kb[j].retained
  BY DEF Ended, Fits, Pending
<1>2. AllFit(kb)
  BY DEF Ended, Core, AllFit
<1>3. ASSUME NEW n, \A k \in Jobs : Marked(jb[k], n), NEW k \in Jobs PROVE Marked(kb[k], n)
  <2>1. CASE k = j
    BY <1>1, <2>1 DEF Marked
  <2>2. CASE k /= j
    BY <1>3, <2>2 DEF Ended
  <2> QED BY <2>1, <2>2
<1>4. \A k, l \in Jobs : kb[k].seq = kb[l].seq /\ kb[k].seq /= 0 => k = l
  BY DEF Ended, Core, Sequenced
<1>5. \A k \in Jobs : kb[k].seq <= g.issued
  <2>1. g.issued \in Nat /\ \A k \in Jobs : jb[k].seq <= g.issued
    BY CoreFacts DEF Core, Sequenced
  <2> QED BY <2>1 DEF Ended
<1> QED BY <1>1, <1>2, <1>3, <1>4, <1>5

LEMMA OneLess ==
  ASSUME Options, NEW jb, NEW g, Core(jb, g), NEW j \in Jobs, Owns(jb, g, j)
  PROVE  /\ g.active > 0 /\ Minus1(g.active) = g.active - 1 /\ Minus1(g.active) < MaxConcurrency
         /\ Cardinality(Holders(jb, g) \ {j}) = g.active - 1
<1>1. IsFiniteSet(Holders(jb, g)) /\ Cardinality(Holders(jb, g)) \in Nat
  BY HoldersFinite
<1>2. g.active = Cardinality(Holders(jb, g)) /\ g.active <= MaxConcurrency /\ MaxConcurrency \in Nat
  BY Sizes DEF Core, Slotted
<1>3. j \in Holders(jb, g)
  BY DEF Holders
<1>4. Cardinality(Holders(jb, g) \ {j}) = Cardinality(Holders(jb, g)) - 1
  BY <1>1, <1>3, FS_RemoveElement
<1>5. g.active /= 0
  BY <1>1, <1>2, <1>3, FS_EmptySet
<1> QED BY <1>1, <1>2, <1>4, <1>5 DEF Minus1

LEMMA FreedCore ==
  ASSUME Options, NEW jb, NEW g, Core(jb, g), NEW j \in Jobs, Owns(jb, g, j), jb[j].state /= "parked",
         NEW kb, Ended(jb, kb, j)
  PROVE  Core(kb, Freed(g, j)) /\ Freed(g, j).active < MaxConcurrency
<1> DEFINE h == Freed(g, j)
<1>1. /\ g \in GrpRecord /\ g.active \in Nat /\ g.nextSeq \in Nat /\ g.issued \in Nat
      /\ \A p \in g.parked : p.id \in Jobs
  BY CoreFacts
<1>2. /\ g.active > 0 /\ Minus1(g.active) = g.active - 1 /\ Minus1(g.active) < MaxConcurrency
      /\ Cardinality(Holders(jb, g) \ {j}) = g.active - 1
  BY OneLess
<1>3. /\ h \in GrpRecord /\ h.active = g.active - 1 /\ h.returning = g.returning \ {j}
      /\ h.nextSeq = g.nextSeq /\ h.skips = g.skips /\ h.issued = g.issued
      /\ h.parked = g.parked /\ h.resume = g.resume /\ h.count = g.count
  <2>1. h = [g EXCEPT !.active = Minus1(g.active), !.returning = g.returning \ {j}]
    BY DEF Freed
  <2>2. Minus1(g.active) = g.active - 1 /\ g.active - 1 \in Nat
    BY <1>1, <1>2
  <2> HIDE DEF h
  <2> QED BY <1>1, <2>1, <2>2 DEF GrpRecord
<1>4. /\ AllFit(kb) /\ \A k \in Jobs : Marked(kb[k], g.nextSeq)
      /\ \A k, l \in Jobs : kb[k].seq = kb[l].seq /\ kb[k].seq /= 0 => k = l
      /\ \A k \in Jobs : kb[k].seq <= g.issued
      /\ kb[j].state \notin {"parked", "active", "delayed"} /\ ~kb[j].retained
  BY EndedFacts DEF Core, Slotted
<1>5. \A k \in Jobs : k /= j => kb[k] = jb[k]
  BY DEF Ended
<1> HIDE DEF h
<1>6. Typed(kb, h)
  BY <1>3 DEF Core, Typed, Ended
<1>7. Sequenced(kb, h)
  <2>1. ASSUME NEW n \in g.nextSeq..g.issued PROVE Taken(kb, h, n)
    <3>1. Taken(jb, g, n)
      BY DEF Core, Sequenced
    <3>2. CASE n \in g.skips
      BY <1>3, <3>2 DEF Taken
    <3>3. ASSUME NEW k \in Jobs, jb[k].state \in Pending, jb[k].seq = n PROVE Taken(kb, h, n)
      <4>1. k /= j
        BY <1>1, <3>3 DEF Owns
      <4> QED BY <1>5, <3>3, <4>1 DEF Taken
    <3> QED BY <3>1, <3>2, <3>3 DEF Taken
  <2>2. \A k \in Jobs : kb[k].state \in Pending => kb[k].seq \notin h.skips
    BY <1>3, <1>5 DEF Core, Sequenced, Ended
  <2>3. h.nextSeq <= h.issued + 1 /\ h.skips \subseteq 1..h.issued
    BY <1>3 DEF Core, Sequenced
  <2> QED BY <1>3, <1>4, <2>1, <2>2, <2>3 DEF Sequenced
<1>8. Slotted(kb, h)
  <2>1. Holders(kb, h) = Holders(jb, g) \ {j}
    BY <1>3, <1>5 DEF Holders, Owns, Ended
  <2>2. h.active = Cardinality(Holders(kb, h))
    BY <1>2, <1>3, <2>1
  <2>3. h.active <= MaxConcurrency
    BY <1>1, <1>2, <1>3, Sizes
  <2> QED BY <1>3, <1>4, <2>2, <2>3 DEF Slotted
<1>9. Queued(kb, h)
  <2>1. {p.id : p \in h.parked} = {k \in Jobs : kb[k].state = "parked"}
    <3>1. {p.id : p \in g.parked} = {k \in Jobs : jb[k].state = "parked"}
      BY DEF Core, Queued
    <3>2. \A k \in Jobs : kb[k].state = "parked" <=> jb[k].state = "parked"
      BY <1>4, <1>5
    <3> QED BY <1>3, <3>1, <3>2
  <2>2. \A p \in h.parked : p.id /= j
    <3>1. \A p \in g.parked : jb[p.id].state = "parked"
      BY DEF Core, Queued
    <3> QED BY <1>3, <3>1
  <2>3. \A p \in h.parked : p.id \in h.returning \/ p.score = kb[p.id].seq
    BY <1>1, <1>3, <1>5, <2>2 DEF Core, Queued
  <2>4. \A k \in h.returning : kb[k].retained
    <3>1. g.returning \subseteq Jobs /\ \A k \in g.returning : jb[k].retained
      BY <1>1 DEF GrpRecord, Core, Queued
    <3> QED BY <1>3, <1>5, <3>1
  <2>5. /\ \A p, r \in h.parked : p.id = r.id => p = r
        /\ h.returning /= {} => h.resume /= "none"
    BY <1>3 DEF Core, Queued
  <2> QED BY <2>1, <2>3, <2>4, <2>5 DEF Queued
<1>10. Core(kb, h) /\ h.active < MaxConcurrency
  BY <1>2, <1>3, <1>4, <1>6, <1>7, <1>8, <1>9 DEF Core
<1> QED BY <1>10 DEF h

(* Ending a job of this kind gives its slot back exactly if it owns one. *)
Closes(jb, g, j) ==
  /\ jb[j].state \notin {"new", "gone", "active"}
  /\ Owns(jb, g, j) => jb[j].retained

LEMMA ClosedCore ==
  ASSUME Options, NEW jb, NEW g, Core(jb, g), NEW j \in Jobs, Closes(jb, g, j),
         NEW kb, Ended(jb, kb, j)
  PROVE  LET h == Closed(Unpark(g, {j}), jb, j)
         IN  /\ Core(kb, h) /\ h.resume = g.resume
             /\ Served(jb, g) /\ h.active >= MaxConcurrency => Served(kb, h)
<1> DEFINE h == Closed(Unpark(g, {j}), jb, j)
           u == Unpark(g, {j})
<1>1. /\ g \in GrpRecord /\ g.active \in Nat /\ g.nextSeq \in Nat /\ g.issued \in Nat
      /\ g.skips \in SUBSET Nat /\ jb[j] \in JobRecord /\ jb[j].seq \in Nat
      /\ \A p \in g.parked : p.id \in Jobs
  BY CoreFacts
<1>2. /\ u \in GrpRecord /\ SameBook(g, u) /\ u.parked = {p \in g.parked : p.id \notin {j}}
      /\ u.returning = g.returning /\ u.resume = g.resume /\ u.open = g.open /\ u.count = g.count
  BY <1>1, UnparkFacts
<1>3. h = [u EXCEPT !.skips = @ \cup {jb[j].seq}, !.returning = @ \ {j},
                    !.active = IF jb[j].retained THEN Minus1(@) ELSE @]
  BY DEF Closed
<1>4. Minus1(g.active) \in Nat
  BY <1>1 DEF Minus1
<1> HIDE DEF u, h
<1>5. /\ h \in GrpRecord /\ h.active = (IF jb[j].retained THEN Minus1(g.active) ELSE g.active)
      /\ h.returning = g.returning \ {j} /\ h.skips = g.skips \cup {jb[j].seq}
      /\ h.nextSeq = g.nextSeq /\ h.issued = g.issued
      /\ h.parked = {p \in g.parked : p.id /= j} /\ h.resume = g.resume /\ h.count = g.count
  <2>1. (IF jb[j].retained THEN Minus1(g.active) ELSE g.active) \in Nat
    BY <1>1, <1>4
  <2>2. u.active = g.active /\ u.skips = g.skips /\ u.nextSeq = g.nextSeq /\ u.issued = g.issued
    BY <1>2 DEF SameBook
  <2>3. u.parked = {p \in g.parked : p.id /= j}
    BY <1>2
  <2> QED BY <1>1, <1>2, <1>3, <2>1, <2>2, <2>3 DEF GrpRecord
<1>6. /\ AllFit(kb) /\ \A k \in Jobs : Marked(kb[k], g.nextSeq)
      /\ \A k, l \in Jobs : kb[k].seq = kb[l].seq /\ kb[k].seq /= 0 => k = l
      /\ \A k \in Jobs : kb[k].seq <= g.issued
      /\ kb[j].state \notin {"parked", "active", "delayed"} /\ ~kb[j].retained
  BY EndedFacts DEF Core, Slotted
<1>7. \A k \in Jobs : k /= j => kb[k] = jb[k]
  BY DEF Ended
<1>8. jb[j].seq \in 1..g.issued
  <2>1. Fits(jb[j]) /\ jb[j].seq <= g.issued
    BY DEF Core, AllFit, Sequenced
  <2>2. jb[j].seq /= 0
    BY <2>1 DEF Fits, Closes
  <2> QED BY <1>1, <2>1, <2>2
<1>9. Typed(kb, h)
  BY <1>5 DEF Core, Typed, Ended
<1>10. Sequenced(kb, h)
  <2>1. ASSUME NEW n \in g.nextSeq..g.issued PROVE Taken(kb, h, n)
    <3>1. Taken(jb, g, n)
      BY DEF Core, Sequenced
    <3>2. CASE n \in g.skips
      BY <1>5, <3>2 DEF Taken
    <3>3. ASSUME NEW k \in Jobs, jb[k].state \in Pending, jb[k].seq = n PROVE Taken(kb, h, n)
      BY <1>5, <1>7, <3>3 DEF Taken
    <3> QED BY <3>1, <3>2, <3>3 DEF Taken
  <2>2. ASSUME NEW k \in Jobs, kb[k].state \in Pending PROVE kb[k].seq \notin h.skips
    <3>1. k /= j /\ kb[k] = jb[k]
      BY <1>7, <2>2 DEF Ended
    <3>2. jb[k].seq \notin g.skips
      BY <2>2, <3>1 DEF Core, Sequenced
    <3>3. jb[k].seq /= jb[j].seq
      BY <1>8, <3>1 DEF Core, Sequenced
    <3> QED BY <1>5, <3>1, <3>2, <3>3
  <2>3. h.nextSeq <= h.issued + 1 /\ h.skips \subseteq 1..h.issued
    BY <1>5, <1>8 DEF Core, Sequenced
  <2> QED BY <1>5, <1>6, <2>1, <2>2, <2>3 DEF Sequenced
<1>11. jb[j].retained <=> Owns(jb, g, j)
  <2>1. Fits(jb[j]) /\ Marked(jb[j], g.nextSeq)
    BY DEF Core, AllFit, Slotted
  <2>2. jb[j].retained => Owns(jb, g, j)
    BY <2>1 DEF Owns, Fits, Marked
  <2>3. Owns(jb, g, j) => jb[j].retained
    BY DEF Closes
  <2> QED BY <2>2, <2>3
<1>12. Holders(kb, h) = Holders(jb, g) \ {j}
  BY <1>5, <1>7 DEF Holders, Owns, Ended
<1>13. Slotted(kb, h)
  <2>1. h.active = Cardinality(Holders(kb, h)) /\ h.active <= MaxConcurrency
    <3>1. CASE Owns(jb, g, j)
      <4>1. h.active = Minus1(g.active)
        BY <1>5, <1>11, <3>1
      <4>2. Minus1(g.active) = g.active - 1 /\ Minus1(g.active) < MaxConcurrency
            /\ Cardinality(Holders(jb, g) \ {j}) = g.active - 1
        BY <3>1, OneLess
      <4> QED BY <1>1, <1>4, <1>12, <4>1, <4>2, Sizes
    <3>2. CASE ~Owns(jb, g, j)
      <4>1. Holders(jb, g) \ {j} = Holders(jb, g)
        BY <3>2 DEF Holders
      <4>2. h.active = g.active
        BY <1>5, <1>11, <3>2
      <4> QED BY <1>12, <4>1, <4>2 DEF Core, Slotted
    <3> QED BY <3>1, <3>2
  <2> QED BY <1>5, <1>6, <2>1 DEF Slotted
<1>14. Queued(kb, h)
  <2>1. {p.id : p \in h.parked} = {k \in Jobs : kb[k].state = "parked"}
    <3>1. {p.id : p \in g.parked} = {k \in Jobs : jb[k].state = "parked"}
      BY DEF Core, Queued
    <3>2. \A k \in Jobs : kb[k].state = "parked" <=> jb[k].state = "parked" /\ k /= j
      BY <1>6, <1>7
    <3> QED BY <1>5, <3>1, <3>2
  <2>2. \A p \in h.parked : p.id \in h.returning \/ p.score = kb[p.id].seq
    BY <1>1, <1>5, <1>7 DEF Core, Queued
  <2>3. \A k \in h.returning : kb[k].retained
    <3>1. g.returning \subseteq Jobs /\ \A k \in g.returning : jb[k].retained
      BY <1>1 DEF GrpRecord, Core, Queued
    <3> QED BY <1>5, <1>7, <3>1
  <2>4. /\ \A p, r \in h.parked : p.id = r.id => p = r
        /\ h.returning /= {} => h.resume /= "none"
    BY <1>5 DEF Core, Queued
  <2> QED BY <2>1, <2>2, <2>3, <2>4 DEF Queued
<1>15. Core(kb, h)
  BY <1>6, <1>9, <1>10, <1>13, <1>14 DEF Core
<1>16. ASSUME Served(jb, g), h.active >= MaxConcurrency PROVE Served(kb, h)
  <2> SUFFICES ASSUME h.resume = "none", h.parked /= {} PROVE Busy(kb, h)
    BY DEF Served, Woken
  <2>1. g.resume = "none" /\ g.parked /= {}
    BY <1>5
  <2>2. ~Owns(jb, g, j)
    <3> SUFFICES ASSUME Owns(jb, g, j) PROVE FALSE
      OBVIOUS
    <3>1. h.active = Minus1(g.active)
      BY <1>5, <1>11
    <3>2. Minus1(g.active) < MaxConcurrency
      BY OneLess
    <3> QED BY <1>4, <1>16, <3>1, <3>2, Sizes
  <2>3. h.active = g.active
    BY <1>5, <1>11, <2>2
  <2>4. Busy(jb, g)
    <3>1. ~(g.active < MaxConcurrency)
      BY <1>1, <1>16, <2>3, Sizes
    <3> QED BY <1>16, <2>1, <3>1 DEF Served, Woken
  <2>5. PICK k \in Jobs : Owns(jb, g, k) /\ jb[k].state /= "parked"
    BY <2>4 DEF Busy
  <2>6. k /= j /\ kb[k] = jb[k]
    BY <1>7, <2>2, <2>5
  <2> QED BY <1>5, <2>5, <2>6 DEF Busy, Owns
<1> QED BY <1>5, <1>15, <1>16 DEF h

-----------------------------------------------------------------------------
(* releaseGroupSlotAndPromote and closeOrderingHoleAndPromote *)

LEMMA ResumeGood ==
  ASSUME Options, NEW jb, NEW g, Core(jb, g), NEW t \in {"later", "due"}
  PROVE  Good(jb, [g EXCEPT !.resume = t])
<1> DEFINE h == [g EXCEPT !.resume = t]
<1>1. g \in GrpRecord
  BY CoreFacts
<1>2. /\ h \in GrpRecord /\ SameBook(g, h) /\ h.resume = t /\ h.parked = g.parked
      /\ h.returning = g.returning /\ h.count = g.count
  BY <1>1 DEF GrpRecord, SameBook
<1> HIDE DEF h
<1>3. Typed(jb, h)
  BY <1>2 DEF Core, Typed, SameBook
<1>4. Queued(jb, h)
  BY <1>2 DEF Core, Queued
<1>5. SameJobs(jb, jb)
  BY DEF SameJobs
<1>6. Core(jb, h)
  <2>1. AllFit(jb) /\ \A j \in Jobs : Marked(jb[j], g.nextSeq)
    BY DEF Core, Slotted
  <2> QED BY <1>2, <1>3, <1>4, <1>5, <2>1, SameCore
<1>7. Served(jb, h)
  BY <1>2 DEF Served
<1> QED BY <1>6, <1>7 DEF Good, h

LEMMA WakeGood ==
  ASSUME Options, NEW jb, NEW g, Core(jb, g), g.active >= MaxConcurrency => Served(jb, g),
         NEW timed \in BOOLEAN, Wake(jb, g, timed)
  PROVE  Good(job', grp')
<1> DEFINE free  == MaxConcurrency - g.active
           slots == IF timed /\ RateMax > 0 /\ g.open THEN Least(free, RateMax - g.count) ELSE free
           a     == Advance(g)
           ids   == Promotable(jb, a, slots, TRUE)
<1>1. /\ g.active \in Nat /\ g.count \in Nat /\ MaxConcurrency \in Nat /\ RateMax \in Nat
      /\ g.open \in BOOLEAN
  BY CoreFacts, Sizes
<1>2. \/ (g.parked = {} \/ free <= 0) /\ Settle(jb, g)
      \/ Settle(jb, [g EXCEPT !.resume = "later"])
      \/ free > 0 /\ ~(timed /\ RateBlocked(g)) /\ Promote(jb, a, ids)
  BY DEF Wake
<1>3. CASE (g.parked = {} \/ free <= 0) /\ Settle(jb, g)
  <2>1. Served(jb, g)
    <3>1. CASE g.parked = {}
      BY <3>1 DEF Served
    <3>2. CASE free <= 0
      BY <1>1, <3>2
    <3> QED BY <1>3, <3>1, <3>2
  <2> QED BY <1>3, <2>1 DEF Settle, Good
<1>4. CASE Settle(jb, [g EXCEPT !.resume = "later"])
  <2>1. Good(jb, [g EXCEPT !.resume = "later"])
    BY ResumeGood
  <2> QED BY <1>4, <2>1 DEF Settle
<1>5. CASE free > 0 /\ ~(timed /\ RateBlocked(g)) /\ Promote(jb, a, ids)
  <2>1. slots \in Int /\ slots > 0
    <3>1. CASE timed /\ RateMax > 0 /\ g.open
      <4>1. g.count < RateMax
        BY <1>1, <1>5, <3>1 DEF RateBlocked
      <4>2. RateMax - g.count \in Int /\ RateMax - g.count > 0 /\ free \in Int /\ free > 0
        BY <1>1, <1>5, <4>1
      <4>3. slots = Least(free, RateMax - g.count)
        BY <3>1
      <4> HIDE DEF slots
      <4> QED BY <4>2, <4>3 DEF Least
    <3>2. CASE ~(timed /\ RateMax > 0 /\ g.open)
      BY <1>1, <1>5, <3>2
    <3> QED BY <3>1, <3>2
  <2>2. Core(jb, a) /\ a.active = g.active /\ a.skips = g.skips \ (g.nextSeq..(a.nextSeq - 1))
        /\ a.nextSeq \notin g.skips /\ a \in GrpRecord
    BY AdvanceCore, AdvanceFacts
  <2>3. a.active < MaxConcurrency
    BY <1>1, <1>5, <2>2
  <2> HIDE DEF a, slots
  <2>4. a.resume = "none" => \A p \in a.parked : p.score = jb[p.id].seq
    BY <2>2 DEF Core, Queued
  <2>5. a.nextSeq \notin a.skips
    BY <2>2
  <2>6. ids \in SUBSET Jobs /\ \A i \in ids : jb[i].state = "parked"
    BY <2>2, PromotableFacts DEF Core
  <2>7. Served(ToStream(jb, ids), Unpark(a, ids))
    BY <2>1, <2>2, <2>3, <2>4, <2>5, PromotedServed
  <2> HIDE DEF ids
  <2>8. Core(ToStream(jb, ids), Unpark(a, ids))
    BY <2>2, <2>6, PromoteCore
  <2> QED BY <1>5, <2>7, <2>8 DEF Promote, Settle, Good
<1> QED BY <1>2, <1>3, <1>4, <1>5

LEMMA FreesGood ==
  ASSUME Options, Core(job, grp), NEW j \in Jobs, Owns(job, grp, j), job[j].state /= "parked",
         NEW kb, Ended(job, kb, j), NEW timed \in BOOLEAN, Wake(kb, Freed(grp, j), timed)
  PROVE  Good(job', grp')
<1> DEFINE h == Freed(grp, j)
<1>1. Core(kb, h) /\ h.active < MaxConcurrency
  BY FreedCore
<1> HIDE DEF h
<1>2. ~(h.active >= MaxConcurrency)
  BY <1>1, CoreFacts, Sizes
<1>3. Wake(kb, h, timed)
  BY DEF h
<1> QED BY <1>1, <1>2, <1>3, WakeGood

LEMMA CloseHoleGood ==
  ASSUME Options, Good(job, grp), NEW j \in Jobs, Closes(job, grp, j),
         NEW kb, Ended(job, kb, j), NEW timed \in BOOLEAN, CloseHole(kb, Unpark(grp, {j}), j, timed)
  PROVE  Good(job', grp')
<1> DEFINE h == Closed(Unpark(grp, {j}), job, j)
<1>1. /\ Core(kb, h) /\ h.resume = grp.resume
      /\ h.active >= MaxConcurrency => Served(kb, h)
  BY ClosedCore DEF Good
<1>2. Unpark(grp, {j}).resume = grp.resume
  BY CoreFacts, UnparkFacts DEF Good
<1>3. \/ grp.resume \in {"later", "due"} /\ Settle(kb, h)
      \/ Wake(kb, h, timed)
  BY <1>2 DEF CloseHole
<1> HIDE DEF h
<1>4. CASE grp.resume \in {"later", "due"} /\ Settle(kb, h)
  BY <1>1, <1>4 DEF Settle, Good, Served
<1>5. CASE Wake(kb, h, timed)
  BY <1>1, <1>5, WakeGood
<1> QED BY <1>3, <1>4, <1>5

-----------------------------------------------------------------------------
(* Steps of one job that move its entry and leave the group alone *)

Moves(r, s, g) ==
  /\ s \in JobRecord /\ Fits(s) /\ s.seq = r.seq /\ (s.state \in Pending <=> r.state \in Pending)
  /\ Marked(s, g.nextSeq) /\ (r.retained => s.retained)

LEMMA MovedCore ==
  ASSUME Options, NEW jb, NEW g, Core(jb, g), NEW j \in Jobs, NEW s, Moves(jb[j], s, g)
  PROVE  LET kb == [jb EXCEPT ![j] = s]
         IN  /\ kb \in [Jobs -> JobRecord] /\ kb[j] = s /\ \A k \in Jobs \ {j} : kb[k] = jb[k]
             /\ SameJobs(jb, kb) /\ AllFit(kb) /\ (\A k \in Jobs : Marked(kb[k], g.nextSeq))
             /\ \A h : /\ h \in GrpRecord /\ SameBook(g, h) /\ h.count <= MaxCount
                       /\ Queued(kb, h)
                       => Core(kb, h)
<1> DEFINE kb == [jb EXCEPT ![j] = s]
<1>1. jb \in [Jobs -> JobRecord] /\ s \in JobRecord
  BY CoreFacts DEF Moves
<1>2. kb \in [Jobs -> JobRecord] /\ kb[j] = s /\ \A k \in Jobs \ {j} : kb[k] = jb[k]
  BY <1>1
<1> HIDE DEF kb
<1>3. SameJobs(jb, kb)
  <2> SUFFICES ASSUME NEW k \in Jobs
               PROVE  kb[k].seq = jb[k].seq /\ (kb[k].state \in Pending <=> jb[k].state \in Pending)
    BY DEF SameJobs
  <2>1. CASE k = j
    BY <1>2, <2>1 DEF Moves
  <2>2. CASE k /= j
    BY <1>2, <2>2
  <2> QED BY <2>1, <2>2
<1>4. AllFit(kb)
  <2> SUFFICES ASSUME NEW k \in Jobs PROVE Fits(kb[k])
    BY DEF AllFit
  <2>1. CASE k = j
    BY <1>2, <2>1 DEF Moves
  <2>2. CASE k /= j
    BY <1>2, <2>2 DEF Core, AllFit
  <2> QED BY <2>1, <2>2
<1>5. ASSUME NEW k \in Jobs PROVE Marked(kb[k], g.nextSeq)
  <2>1. CASE k = j
    BY <1>2, <2>1 DEF Moves
  <2>2. CASE k /= j
    BY <1>2, <2>2 DEF Core, Slotted
  <2> QED BY <2>1, <2>2
<1>6. ASSUME NEW h, h \in GrpRecord, SameBook(g, h), h.count <= MaxCount, Queued(kb, h)
      PROVE  Core(kb, h)
  <2>1. Typed(kb, h)
    BY <1>2, <1>6 DEF Core, Typed, SameBook
  <2>2. \A k \in Jobs : Marked(kb[k], g.nextSeq)
    BY <1>5
  <2> QED BY <1>3, <1>4, <1>6, <2>1, <2>2, SameCore
<1> QED BY <1>2, <1>3, <1>4, <1>5, <1>6 DEF kb

(* The group keeps its queue: only the sliding window may change. *)
SameQueue(g, h) ==
  /\ h \in GrpRecord /\ SameBook(g, h) /\ h.count <= MaxCount
  /\ h.parked = g.parked /\ h.returning = g.returning /\ h.resume = g.resume

LEMMA MovedGood ==
  ASSUME Options, NEW jb, NEW g, Good(jb, g), NEW j \in Jobs, NEW s, Moves(jb[j], s, g),
         s.state = "parked" <=> jb[j].state = "parked", NEW h, SameQueue(g, h)
  PROVE  Good([jb EXCEPT ![j] = s], h)
<1> DEFINE kb == [jb EXCEPT ![j] = s]
<1>1. Core(jb, g) /\ Served(jb, g)
  BY DEF Good
<1>2. /\ kb \in [Jobs -> JobRecord] /\ kb[j] = s /\ \A k \in Jobs \ {j} : kb[k] = jb[k]
      /\ SameJobs(jb, kb)
  BY <1>1, MovedCore
<1>3. h \in GrpRecord /\ SameBook(g, h) /\ h.count <= MaxCount /\ Queued(kb, h) => Core(kb, h)
  BY <1>1, MovedCore
<1> HIDE DEF kb
<1>4. \A k \in Jobs : kb[k].state = "parked" <=> jb[k].state = "parked"
  BY <1>2
<1>5. \A k \in Jobs : jb[k].retained => kb[k].retained
  <2> SUFFICES ASSUME NEW k \in Jobs, jb[k].retained PROVE kb[k].retained
    OBVIOUS
  <2>1. CASE k = j
    BY <1>2, <2>1 DEF Moves
  <2>2. CASE k /= j
    BY <1>2, <2>2
  <2> QED BY <2>1, <2>2
<1>6. Queued(kb, h)
  <2>1. {p.id : p \in h.parked} = {k \in Jobs : kb[k].state = "parked"}
    <3>1. {p.id : p \in g.parked} = {k \in Jobs : jb[k].state = "parked"}
      BY <1>1 DEF Core, Queued
    <3> QED BY <1>4, <3>1 DEF SameQueue
  <2>2. \A p \in h.parked : p.id \in h.returning \/ p.score = kb[p.id].seq
    <3>1. \A p \in g.parked : p.id \in Jobs
      BY <1>1, CoreFacts
    <3>2. \A p \in g.parked : p.id \in g.returning \/ p.score = jb[p.id].seq
      BY <1>1 DEF Core, Queued
    <3> QED BY <1>2, <3>1, <3>2 DEF SameQueue, SameJobs
  <2>3. \A k \in h.returning : kb[k].retained
    <3>1. g.returning \subseteq Jobs
      BY <1>1, CoreFacts
    <3>2. \A k \in g.returning : jb[k].retained
      BY <1>1 DEF Core, Queued
    <3> QED BY <1>5, <3>1, <3>2 DEF SameQueue
  <2>4. /\ \A p, r \in h.parked : p.id = r.id => p = r
        /\ h.returning /= {} => h.resume /= "none"
    BY <1>1 DEF Core, Queued, SameQueue
  <2> QED BY <2>1, <2>2, <2>3, <2>4 DEF Queued
<1>7. Core(kb, h)
  BY <1>3, <1>6 DEF SameQueue
<1>8. Served(kb, h)
  BY <1>1, <1>2, <1>4, SameServed DEF SameQueue
<1> QED BY <1>7, <1>8 DEF Good, kb

LEMMA SameQueueSelf ==
  ASSUME Options, NEW jb, NEW g, Core(jb, g)
  PROVE  SameQueue(g, g)
BY CoreFacts DEF SameQueue, SameBook

LEMMA WindowGood ==
  ASSUME Options, NEW jb, NEW g, Good(jb, g), NEW h, SameQueue(g, h)
  PROVE  Good(jb, h)
<1>1. Core(jb, g) /\ Served(jb, g) /\ SameJobs(jb, jb)
  BY DEF Good, SameJobs
<1>2. Typed(jb, h) /\ Queued(jb, h)
  BY <1>1 DEF Core, Typed, Queued, SameQueue, SameBook
<1>3. AllFit(jb) /\ \A k \in Jobs : Marked(jb[k], g.nextSeq)
  BY <1>1 DEF Core, Slotted
<1>4. Core(jb, h)
  BY <1>1, <1>2, <1>3, SameCore DEF SameQueue
<1>5. Served(jb, h)
  BY <1>1, SameServed DEF SameQueue
<1> QED BY <1>4, <1>5 DEF Good

(* A job that is not parked goes back to the stream. *)
LEMMA BackGood ==
  ASSUME Options, NEW jb, NEW g, Good(jb, g), NEW j \in Jobs,
         jb[j].state \in Pending \ {"parked"}, NEW h, SameQueue(g, h)
  PROVE  Good(ToStream(jb, {j}), h)
<1> DEFINE s == [jb[j] EXCEPT !.state = "waiting", !.entry = "stream"]
<1>1. Core(jb, g) /\ jb \in [Jobs -> JobRecord] /\ jb[j] \in JobRecord
  BY CoreFacts DEF Good
<1>2. ToStream(jb, {j}) = [jb EXCEPT ![j] = s]
  BY <1>1 DEF ToStream
<1>3. s \in JobRecord /\ s.state = "waiting" /\ s.entry = "stream" /\ s.seq = jb[j].seq
      /\ s.retained = jb[j].retained
  BY <1>1 DEF JobRecord, States, Pending, Places
<1> HIDE DEF s
<1>4. Fits(jb[j]) /\ Marked(jb[j], g.nextSeq)
  BY <1>1 DEF Core, AllFit, Slotted
<1>5. Fits(s)
  <2>1. s.seq /= 0
    BY <1>3, <1>4 DEF Fits, Pending
  <2> QED BY <1>3, <2>1 DEF Fits, Pending
<1>6. Marked(s, g.nextSeq)
  BY <1>3, <1>4 DEF Marked
<1>7. Moves(jb[j], s, g)
  BY <1>3, <1>5, <1>6 DEF Moves, Pending
<1>8. Good([jb EXCEPT ![j] = s], h)
  BY <1>3, <1>7, MovedGood
<1> QED BY <1>2, <1>8

-----------------------------------------------------------------------------
(* The actions that move one entry *)

LEMMA EntryState ==
  ASSUME Options, NEW jb, NEW g, Core(jb, g), NEW j \in Jobs
  PROVE  /\ jb[j] \in JobRecord /\ Fits(jb[j]) /\ Marked(jb[j], g.nextSeq)
         /\ jb[j].entry = "stream" => jb[j].state = "waiting"
         /\ jb[j].entry = "claimed" => jb[j].state \in {"waiting", "failed", "gone"}
         /\ jb[j].entry = "refused" => jb[j].state \in {"waiting", "gone"}
         /\ jb[j].entry \in {"ready", "running"} => jb[j].state \in {"active", "gone"}
         /\ jb[j].entry = "dead" => jb[j].state \in {"waiting", "active"}
<1>1. jb[j] \in JobRecord /\ Fits(jb[j]) /\ Marked(jb[j], g.nextSeq)
  BY CoreFacts DEF Core, AllFit, Slotted
<1>2. jb[j].state \in Pending \cup {"new", "completed", "failed", "gone"}
  BY <1>1 DEF JobRecord, States
<1> QED BY <1>1, <1>2 DEF Fits, Pending, Held

LEMMA EntryGood ==
  ASSUME Options, NEW jb, NEW g, Good(jb, g), NEW j \in Jobs, NEW e \in Places,
         Fits([jb[j] EXCEPT !.entry = e])
  PROVE  Good([jb EXCEPT ![j].entry = e], g)
<1> DEFINE s == [jb[j] EXCEPT !.entry = e]
<1>1. Core(jb, g) /\ jb[j] \in JobRecord /\ Marked(jb[j], g.nextSeq)
  BY EntryState DEF Good
<1>2. s \in JobRecord /\ s.state = jb[j].state /\ s.seq = jb[j].seq /\ s.retained = jb[j].retained /\ Fits(s)
  BY <1>1 DEF JobRecord
<1> HIDE DEF s
<1>3. Marked(s, g.nextSeq)
  BY <1>1, <1>2 DEF Marked
<1>4. Moves(jb[j], s, g)
  BY <1>2, <1>3 DEF Moves
<1>5. SameQueue(g, g)
  BY <1>1, SameQueueSelf
<1>6. Good([jb EXCEPT ![j] = s], g)
  BY <1>2, <1>4, <1>5, MovedGood
<1> QED BY <1>6 DEF s

(* The fields of a record with another entry. *)
LEMMA EntryFits ==
  ASSUME NEW r \in JobRecord, Fits(r), NEW e \in Places,
         \/ r.state = "waiting" /\ e \in {"stream", "claimed", "refused", "dead"}
         \/ r.state = "active" /\ e \in {"ready", "running", "dead"}
         \/ r.state \in {"failed", "gone"} /\ e = "none"
         \/ r.state = "gone" /\ e \in Held
  PROVE  Fits([r EXCEPT !.entry = e])
<1> DEFINE s == [r EXCEPT !.entry = e]
<1>1. s.state = r.state /\ s.seq = r.seq /\ s.retained = r.retained /\ s.entry = e
  BY DEF JobRecord
<1> HIDE DEF s
<1>2. Fits(s)
  BY <1>1 DEF Fits, Held
<1> QED BY <1>2 DEF s

LEMMA DismissGood ==
  ASSUME Options, Good(job, grp), NEW j \in Jobs, Dismiss(j)
  PROVE  Good(job', grp')
<1>1. job[j].state = "gone" /\ job' = [job EXCEPT ![j].entry = "none"] /\ grp' = grp
  BY DEF Dismiss
<1>2. job[j] \in JobRecord /\ Fits(job[j]) /\ "none" \in Places
  BY EntryState DEF Good, Places
<1>3. Fits([job[j] EXCEPT !.entry = "none"])
  BY <1>1, <1>2, EntryFits
<1> QED BY <1>1, <1>2, <1>3, EntryGood

LEMMA ClaimGood ==
  ASSUME Options, Good(job, grp), NEW j \in Jobs, Claim(j)
  PROVE  Good(job', grp')
<1>1. job[j].entry = "stream" /\ job' = [job EXCEPT ![j].entry = "claimed"] /\ grp' = grp
  BY DEF Claim
<1>2. job[j] \in JobRecord /\ Fits(job[j]) /\ job[j].state = "waiting" /\ "claimed" \in Places
  BY <1>1, EntryState DEF Good, Places
<1>3. Fits([job[j] EXCEPT !.entry = "claimed"])
  BY <1>2, EntryFits
<1> QED BY <1>1, <1>2, <1>3, EntryGood

LEMMA RefusedGood ==
  ASSUME Options, Good(job, grp), NEW j \in Jobs, job[j].state = "waiting",
         job' = [job EXCEPT ![j].entry = "refused"], grp' = grp
  PROVE  Good(job', grp')
<1>1. job[j] \in JobRecord /\ Fits(job[j]) /\ "refused" \in Places
  BY EntryState DEF Good, Places
<1>2. Fits([job[j] EXCEPT !.entry = "refused"])
  BY <1>1, EntryFits
<1> QED BY <1>1, <1>2, EntryGood

LEMMA StartGood ==
  ASSUME Options, Good(job, grp), NEW j \in Jobs, Start(j)
  PROVE  Good(job', grp')
<1>1. job[j].entry = "ready" /\ job' = [job EXCEPT ![j].entry = "running"] /\ grp' = grp
  BY DEF Start
<1>2. job[j] \in JobRecord /\ Fits(job[j]) /\ job[j].state \in {"active", "gone"} /\ "running" \in Places
  BY <1>1, EntryState DEF Good, Places
<1>3. Fits([job[j] EXCEPT !.entry = "running"])
  BY <1>2, EntryFits DEF Held
<1> QED BY <1>1, <1>2, <1>3, EntryGood

LEMMA CrashGood ==
  ASSUME Options, Good(job, grp), NEW j \in Jobs, Crash(j)
  PROVE  Good(job', grp')
<1>1. job[j].entry \in Held
      /\ job' = [job EXCEPT ![j].entry = IF job[j].state \in {"waiting", "active"} THEN "dead" ELSE "none"]
      /\ grp' = grp
  BY DEF Crash
<1>2. job[j] \in JobRecord /\ Fits(job[j]) /\ job[j].state \in {"waiting", "active", "failed", "gone"}
      /\ "dead" \in Places /\ "none" \in Places
  BY <1>1, EntryState DEF Good, Places, Held
<1>3. CASE job[j].state \in {"waiting", "active"}
  <2>1. Fits([job[j] EXCEPT !.entry = "dead"])
    BY <1>2, <1>3, EntryFits
  <2>2. job' = [job EXCEPT ![j].entry = "dead"] /\ grp' = grp /\ "dead" \in Places
    BY <1>1, <1>2, <1>3
  <2>3. Good([job EXCEPT ![j].entry = "dead"], grp)
    BY <2>1, <2>2, EntryGood
  <2> QED BY <2>2, <2>3
<1>4. CASE job[j].state \notin {"waiting", "active"}
  <2>1. Fits([job[j] EXCEPT !.entry = "none"])
    BY <1>2, <1>4, EntryFits
  <2>2. job' = [job EXCEPT ![j].entry = "none"] /\ grp' = grp /\ "none" \in Places
    BY <1>1, <1>2, <1>4
  <2>3. Good([job EXCEPT ![j].entry = "none"], grp)
    BY <2>1, <2>2, EntryGood
  <2> QED BY <2>2, <2>3
<1> QED BY <1>3, <1>4

(* Signal, promote, redispatch: the job goes back to the stream. *)
LEMMA ToStreamGood ==
  ASSUME Options, Good(job, grp), NEW j \in Jobs, job[j].state \in Pending \ {"parked"},
         Settle(ToStream(job, {j}), grp)
  PROVE  Good(job', grp')
<1>1. SameQueue(grp, grp)
  BY SameQueueSelf DEF Good
<1>2. Good(ToStream(job, {j}), grp)
  BY <1>1, BackGood
<1> QED BY <1>2 DEF Settle

LEMMA HandBackGood ==
  ASSUME Options, Good(job, grp), Races = {}, NEW j \in Jobs, HandBack(j)
  PROVE  Good(job', grp')
<1>1. /\ job[j].entry = "claimed" /\ grp' = grp
      /\ \/ job[j].state = "waiting" /\ job' = ToStream(job, {j})
         \/ job[j].state = "gone" /\ job' = [job EXCEPT ![j].entry = "none"]
  BY DEF HandBack
<1>2. CASE job[j].state = "waiting" /\ job' = ToStream(job, {j})
  BY <1>1, <1>2, ToStreamGood DEF Settle, Pending
<1>3. CASE job[j].state = "gone" /\ job' = [job EXCEPT ![j].entry = "none"]
  BY <1>1, <1>3, DismissGood DEF Dismiss
<1> QED BY <1>1, <1>2, <1>3

LEMMA RedispatchGood ==
  ASSUME Options, Good(job, grp), NEW j \in Jobs,
         Redispatch(j) \/ PromoteDelayed(j) \/ Signal(j)
  PROVE  Good(job', grp')
<1>1. job[j].entry = "dead" => job[j].state \in {"waiting", "active"}
  BY EntryState DEF Good
<1>2. job[j].state \in Pending \ {"parked"} /\ Settle(ToStream(job, {j}), grp)
  BY <1>1 DEF Redispatch, PromoteDelayed, Signal, Pending
<1> QED BY <1>2, ToStreamGood

(* A retry, a delay, a suspension: the job keeps its slot and is marked so. *)
LEMMA YieldGood ==
  ASSUME Options, Good(job, grp), NEW j \in Jobs, NEW t \in {"delayed", "suspended"}, Yield(j, t)
  PROVE  Good(job', grp')
<1> DEFINE s == [job[j] EXCEPT !.state = t, !.retained = TRUE, !.entry = "none"]
<1>1. /\ job[j].state = "active" /\ grp' = grp
      /\ job' = [job EXCEPT ![j] = s]
  BY DEF Yield, Settle, Yielded
<1>2. job[j] \in JobRecord /\ Fits(job[j]) /\ Marked(job[j], grp.nextSeq)
  BY EntryState DEF Good
<1>3. s \in JobRecord /\ s.state = t /\ s.retained = TRUE /\ s.entry = "none" /\ s.seq = job[j].seq
  BY <1>2 DEF JobRecord, States, Pending, Places
<1> HIDE DEF s
<1>4. Fits(s)
  BY <1>1, <1>2, <1>3 DEF Fits, Pending
<1>5. Marked(s, grp.nextSeq)
  BY <1>1, <1>2, <1>3 DEF Marked
<1>6. Moves(job[j], s, grp)
  BY <1>1, <1>3, <1>4, <1>5 DEF Moves, Pending
<1>7. SameQueue(grp, grp)
  BY SameQueueSelf DEF Good
<1> QED BY <1>1, <1>3, <1>6, <1>7, MovedGood

-----------------------------------------------------------------------------
(* The gates of activation: a job is parked, or takes its turn *)

(* h is the group g with job j in the queue. *)
Parks(g, h, j, score) ==
  /\ h \in GrpRecord /\ SameBook(g, h) /\ h.count <= MaxCount
  /\ h.parked = {p \in g.parked : p.id /= j} \cup {[id |-> j, score |-> score]}

ParkedJob(r) == [r EXCEPT !.state = "parked", !.entry = "none"]

LEMMA ParkCore ==
  ASSUME Options, NEW jb, NEW g, Core(jb, g), NEW j \in Jobs, NEW s, Moves(jb[j], s, g),
         s.state = "parked", NEW score \in Nat, NEW h, Parks(g, h, j, score),
         score = jb[j].seq \/ j \in h.returning,
         h.returning \in {g.returning, g.returning \cup {j}}, j \in h.returning => s.retained,
         h.returning /= {} => h.resume /= "none"
  PROVE  Core([jb EXCEPT ![j] = s], h)
<1> DEFINE kb == [jb EXCEPT ![j] = s]
<1>1. /\ kb \in [Jobs -> JobRecord] /\ kb[j] = s /\ \A k \in Jobs \ {j} : kb[k] = jb[k]
      /\ SameJobs(jb, kb)
      /\ h \in GrpRecord /\ SameBook(g, h) /\ h.count <= MaxCount /\ Queued(kb, h) => Core(kb, h)
  BY MovedCore
<1>2. \A p \in g.parked : p.id \in Jobs
  BY CoreFacts
<1> HIDE DEF kb
<1>3. Queued(kb, h)
  <2>1. {p.id : p \in h.parked} = {k \in Jobs : kb[k].state = "parked"}
    <3>1. {p.id : p \in g.parked} = {k \in Jobs : jb[k].state = "parked"}
      BY DEF Core, Queued
    <3>2. \A k \in Jobs : kb[k].state = "parked" <=> k = j \/ jb[k].state = "parked"
      BY <1>1
    <3>3. {p.id : p \in h.parked} = {p.id : p \in g.parked} \cup {j}
      <4> DEFINE q == [id |-> j, score |-> score]
      <4>1. h.parked = {p \in g.parked : p.id /= j} \cup {q} /\ q.id = j
        BY DEF Parks
      <4> HIDE DEF q
      <4>2. \A p \in h.parked : p.id \in {r.id : r \in g.parked} \cup {j}
        BY <4>1
      <4>3. \A p \in g.parked : p.id \in {r.id : r \in h.parked}
        BY <4>1
      <4>4. j \in {r.id : r \in h.parked}
        BY <4>1
      <4> QED BY <4>2, <4>3, <4>4
    <3> QED BY <3>1, <3>2, <3>3
  <2>2. \A p, r \in h.parked : p.id = r.id => p = r
    BY DEF Parks, Core, Queued
  <2>3. ASSUME NEW p \in h.parked PROVE p.id \in h.returning \/ p.score = kb[p.id].seq
    <3>1. CASE p = [id |-> j, score |-> score]
      BY <1>1, <3>1 DEF Moves
    <3>2. CASE p \in g.parked /\ p.id /= j
      <4>1. p.id \in g.returning \/ p.score = jb[p.id].seq
        BY <3>2 DEF Core, Queued
      <4> QED BY <1>1, <1>2, <3>2, <4>1
    <3> QED BY <3>1, <3>2 DEF Parks
  <2>4. \A k \in h.returning : kb[k].retained
    <3>1. g.returning \subseteq Jobs /\ \A k \in g.returning : jb[k].retained
      BY CoreFacts DEF Core, Queued
    <3> QED BY <1>1, <3>1
  <2> QED BY <2>1, <2>2, <2>3, <2>4 DEF Queued
<1> QED BY <1>1, <1>3 DEF Parks, kb

LEMMA ParkedMoves ==
  ASSUME Options, NEW jb, NEW g, Core(jb, g), NEW j \in Jobs, jb[j].state = "waiting"
  PROVE  /\ Moves(jb[j], ParkedJob(jb[j]), g) /\ ParkedJob(jb[j]).state = "parked"
         /\ ParkedJob(jb[j]).retained = jb[j].retained
<1> DEFINE s == ParkedJob(jb[j])
<1>1. jb[j] \in JobRecord /\ Fits(jb[j]) /\ Marked(jb[j], g.nextSeq)
  BY EntryState
<1>2. s \in JobRecord /\ s.state = "parked" /\ s.entry = "none" /\ s.seq = jb[j].seq
      /\ s.retained = jb[j].retained
  BY <1>1 DEF ParkedJob, JobRecord, States, Pending, Places
<1> HIDE DEF s
<1>3. Fits(s)
  BY <1>1, <1>2 DEF Fits, Pending
<1>4. Marked(s, g.nextSeq)
  BY <1>1, <1>2 DEF Marked
<1>5. Moves(jb[j], s, g) /\ s.state = "parked" /\ s.retained = jb[j].retained
  BY <1>2, <1>3, <1>4 DEF Moves, Pending
<1> QED BY <1>5 DEF s

(* A job that is early, or finds no slot, leaves one that will wake it. *)
LEMMA ParkServed ==
  ASSUME Options, NEW jb, NEW g, Good(jb, g), g.nextSeq \notin g.skips,
         NEW j \in Jobs, jb[j].state = "waiting", ~Owns(jb, g, j),
         jb[j].seq > g.nextSeq \/ g.active >= MaxConcurrency,
         NEW kb, SameJobs(jb, kb), \A k \in Jobs \ {j} : kb[k] = jb[k],
         NEW h, SameBook(g, h), h.resume = g.resume
  PROVE  Served(kb, h)
<1>1. Core(jb, g) /\ Served(jb, g)
  BY DEF Good
<1>2. /\ g.active \in Nat /\ g.nextSeq \in Nat /\ jb[j].seq \in Nat /\ MaxConcurrency \in Nat \ {0}
      /\ \A k \in Jobs : jb[k].seq \in Nat
  BY <1>1, CoreFacts, Sizes
<1>3. SUFFICES ASSUME h.resume = "none" PROVE Woken(kb, h)
  BY DEF Served
<1>4. (\A k \in Jobs : Owns(kb, h, k) <=> Owns(jb, g, k))
      /\ h.active = g.active /\ h.nextSeq = g.nextSeq /\ h.skips = g.skips
  BY SameOwners DEF SameBook
<1>5. g.parked = {} => \A k \in Jobs : jb[k].state /= "parked"
  BY <1>1 DEF Core, Queued
<1>6. ASSUME Busy(jb, g) PROVE Busy(kb, h)
  <2>1. PICK k \in Jobs : Owns(jb, g, k) /\ jb[k].state /= "parked"
    BY <1>6 DEF Busy
  <2>2. k /= j
    BY <2>1
  <2> QED BY <1>4, <2>1, <2>2 DEF Busy
<1>7. CASE g.active >= MaxConcurrency
  <2>1. Busy(jb, g)
    <3>1. CASE g.parked = {}
      <4>1. Holders(jb, g) /= {}
        <5>1. g.active = Cardinality(Holders(jb, g))
          BY <1>1 DEF Core, Slotted
        <5>2. Cardinality(Holders(jb, g)) /= 0
          BY <1>2, <1>7, <5>1
        <5> QED BY <5>2, FS_EmptySet
      <4>2. PICK k \in Jobs : Owns(jb, g, k)
        BY <4>1 DEF Holders
      <4> QED BY <1>5, <3>1, <4>2 DEF Busy
    <3>2. CASE g.parked /= {}
      <4>1. ~(g.active < MaxConcurrency)
        BY <1>2, <1>7
      <4> QED BY <1>1, <1>3, <3>2, <4>1 DEF Served, Woken
    <3> QED BY <3>1, <3>2
  <2> QED BY <1>6, <2>1 DEF Woken
<1>8. CASE g.active < MaxConcurrency
  <2>1. jb[j].seq > g.nextSeq
    BY <1>2, <1>8
  <2>2. ASSUME NEW k \in Jobs, jb[k].state \in Pending \ {"parked"}, jb[k].seq = g.nextSeq
        PROVE  OnTurn(kb, h)
    <3>1. k /= j
      BY <1>2, <2>1, <2>2
    <3>2. kb[k] = jb[k]
      BY <3>1
    <3>3. kb[k].seq >= h.nextSeq /\ \A n \in h.nextSeq..(kb[k].seq - 1) : n \in h.skips
      BY <1>2, <1>4, <2>2, <3>2
    <3> QED BY <2>2, <3>2, <3>3 DEF OnTurn
  <2>3. CASE g.parked = {}
    <3>1. PICK k \in Jobs : jb[k].state \in Pending /\ jb[k].seq = g.nextSeq
      BY <1>1, AdvanceTurn DEF Pending
    <3>2. OnTurn(kb, h)
      BY <1>5, <2>2, <2>3, <3>1
    <3> QED BY <1>4, <1>8, <3>2 DEF Woken
  <2>4. CASE g.parked /= {} /\ Busy(jb, g)
    BY <1>6, <2>4 DEF Woken
  <2>5. CASE g.parked /= {} /\ ~Busy(jb, g)
    <3>1. OnTurn(jb, g)
      BY <1>1, <1>3, <2>5 DEF Served, Woken
    <3>2. PICK k \in Jobs : /\ jb[k].state \in Pending \ {"parked"} /\ jb[k].seq >= g.nextSeq
                            /\ \A n \in g.nextSeq..(jb[k].seq - 1) : n \in g.skips
      BY <3>1 DEF OnTurn
    <3>3. jb[k].seq = g.nextSeq
      <4>1. ~(jb[k].seq > g.nextSeq)
        <5> SUFFICES ASSUME jb[k].seq > g.nextSeq PROVE FALSE
          OBVIOUS
        <5>1. g.nextSeq \in g.nextSeq..(jb[k].seq - 1)
          BY <1>2
        <5> QED BY <3>2, <5>1
      <4> QED BY <1>2, <3>2, <4>1
    <3>4. OnTurn(kb, h)
      BY <2>2, <3>2, <3>3
    <3> QED BY <1>4, <1>8, <3>4 DEF Woken
  <2> QED BY <2>3, <2>4, <2>5
<1> QED BY <1>2, <1>7, <1>8

ActiveJob(r) == [r EXCEPT !.state = "active", !.entry = "ready"]

LEMMA ActiveFacts ==
  ASSUME NEW r \in JobRecord, Fits(r), r.state = "waiting"
  PROVE  LET s == ActiveJob(r)
         IN  /\ s \in JobRecord /\ Fits(s) /\ s.state = "active" /\ s.seq = r.seq
             /\ s.retained = r.retained
<1> DEFINE s == ActiveJob(r)
<1>1. s \in JobRecord /\ s.state = "active" /\ s.seq = r.seq /\ s.retained = r.retained /\ s.entry = "ready"
  BY DEF ActiveJob, JobRecord, States, Pending, Places
<1> HIDE DEF s
<1>2. Fits(s)
  BY <1>1 DEF Fits, Pending
<1> QED BY <1>1, <1>2 DEF s

(* The job whose turn it is takes a slot. *)
LEMMA TakeGood ==
  ASSUME Options, NEW jb, NEW g, Core(jb, g), NEW j \in Jobs, jb[j].state = "waiting",
         jb[j].seq = g.nextSeq, g.active < MaxConcurrency,
         NEW h \in GrpRecord, h.active = g.active + 1, h.nextSeq = g.nextSeq + 1,
         h.skips = g.skips, h.parked = g.parked, h.returning = g.returning, h.resume = g.resume,
         h.issued = g.issued, h.count <= MaxCount
  PROVE  Good([jb EXCEPT ![j] = ActiveJob(jb[j])], h)
<1> DEFINE s  == ActiveJob(jb[j])
           kb == [jb EXCEPT ![j] = s]
<1>1. /\ jb \in [Jobs -> JobRecord] /\ g.active \in Nat /\ g.nextSeq \in Nat /\ g.issued \in Nat
      /\ (\A k \in Jobs : jb[k].seq \in Nat) /\ (\A p \in g.parked : p.id \in Jobs)
      /\ g.returning \subseteq Jobs /\ MaxConcurrency \in Nat
  BY CoreFacts, Sizes
<1>2. jb[j] \in JobRecord /\ Fits(jb[j]) /\ Marked(jb[j], g.nextSeq)
  BY EntryState
<1>3. s \in JobRecord /\ Fits(s) /\ s.state = "active" /\ s.seq = jb[j].seq /\ s.retained = jb[j].retained
  BY <1>2, ActiveFacts
<1> HIDE DEF s
<1>4. kb \in [Jobs -> JobRecord] /\ kb[j] = s /\ \A k \in Jobs \ {j} : kb[k] = jb[k]
  BY <1>1, <1>3
<1> HIDE DEF kb
<1>5. SameJobs(jb, kb)
  BY <1>3, <1>4 DEF SameJobs, Pending
<1>6. \A k \in Jobs \ {j} : jb[k].seq /= g.nextSeq
  <2>1. jb[j].seq /= 0
    BY <1>2 DEF Fits
  <2> QED BY <2>1 DEF Core, Sequenced
<1>7. Typed(kb, h)
  BY <1>4 DEF Core, Typed
<1>8. AllFit(kb)
  <2> SUFFICES ASSUME NEW k \in Jobs PROVE Fits(kb[k])
    BY DEF AllFit
  <2> QED BY <1>3, <1>4 DEF Core, AllFit
<1>9. Sequenced(kb, h)
  <2>1. ASSUME NEW n \in h.nextSeq..h.issued PROVE Taken(kb, h, n)
    <3>1. n \in g.nextSeq..g.issued
      BY <1>1
    <3>2. Taken(jb, g, n)
      BY <3>1 DEF Core, Sequenced
    <3> QED BY <1>5, <3>2 DEF Taken, SameJobs
  <2>2. h.nextSeq <= h.issued + 1
    <3>1. jb[j].seq <= g.issued
      BY DEF Core, Sequenced
    <3> QED BY <1>1, <3>1
  <2>3. /\ \A k, l \in Jobs : kb[k].seq = kb[l].seq /\ kb[k].seq /= 0 => k = l
        /\ \A k \in Jobs : kb[k].seq <= h.issued
    BY <1>5 DEF Core, Sequenced, SameJobs
  <2>4. /\ \A k \in Jobs : kb[k].state \in Pending => kb[k].seq \notin h.skips
        /\ h.skips \subseteq 1..h.issued
    BY <1>5 DEF Core, Sequenced, SameJobs
  <2> QED BY <2>1, <2>2, <2>3, <2>4 DEF Sequenced
<1>10. \A k \in Jobs \ {j} : jb[k].seq < h.nextSeq <=> jb[k].seq < g.nextSeq
  BY <1>1, <1>6
<1>11. Owns(kb, h, j) /\ ~Owns(jb, g, j)
  BY <1>1, <1>3, <1>4 DEF Owns, Pending
<1>12. Holders(kb, h) = Holders(jb, g) \cup {j}
  <2>1. \A k \in Jobs \ {j} : Owns(kb, h, k) <=> Owns(jb, g, k)
    BY <1>4, <1>10 DEF Owns
  <2> QED BY <1>11, <2>1 DEF Holders
<1>13. Slotted(kb, h)
  <2>1. ASSUME NEW k \in Jobs PROVE Marked(kb[k], h.nextSeq)
    <3>1. CASE k = j
      BY <1>1, <1>3, <1>4, <3>1 DEF Marked
    <3>2. CASE k /= j
      <4>1. Marked(jb[k], g.nextSeq)
        BY DEF Core, Slotted
      <4>2. kb[k] = jb[k] /\ (jb[k].seq < h.nextSeq <=> jb[k].seq < g.nextSeq)
        BY <1>4, <1>10, <3>2
      <4> QED BY <4>1, <4>2 DEF Marked
    <3> QED BY <3>1, <3>2
  <2>2. h.active = Cardinality(Holders(kb, h))
    <3>1. g.active = Cardinality(Holders(jb, g)) /\ IsFiniteSet(Holders(jb, g)) /\ j \notin Holders(jb, g)
      BY <1>11, HoldersFinite DEF Core, Slotted, Holders
    <3>2. Cardinality(Holders(jb, g) \cup {j}) = Cardinality(Holders(jb, g)) + 1
      BY <3>1, FS_AddElement
    <3> QED BY <1>12, <3>1, <3>2
  <2>3. h.active <= MaxConcurrency
    BY <1>1
  <2> QED BY <2>1, <2>2, <2>3 DEF Slotted
<1>14. Queued(kb, h)
  <2>1. {p.id : p \in h.parked} = {k \in Jobs : kb[k].state = "parked"}
    <3>1. {p.id : p \in g.parked} = {k \in Jobs : jb[k].state = "parked"}
      BY DEF Core, Queued
    <3>2. \A k \in Jobs : kb[k].state = "parked" <=> jb[k].state = "parked"
      BY <1>3, <1>4
    <3> QED BY <3>1, <3>2
  <2>2. \A p \in h.parked : p.id \in h.returning \/ p.score = kb[p.id].seq
    BY <1>1, <1>5 DEF Core, Queued, SameJobs
  <2>3. \A k \in h.returning : kb[k].retained
    <3>1. \A k \in g.returning : jb[k].retained
      BY DEF Core, Queued
    <3>2. \A k \in Jobs : jb[k].retained => kb[k].retained
      BY <1>3, <1>4
    <3> QED BY <1>1, <3>1, <3>2
  <2>4. /\ \A p, r \in h.parked : p.id = r.id => p = r
        /\ h.returning /= {} => h.resume /= "none"
    BY DEF Core, Queued
  <2> QED BY <2>1, <2>2, <2>3, <2>4 DEF Queued
<1>15. Served(kb, h)
  <2>1. kb[j].state /= "parked"
    BY <1>3, <1>4
  <2> QED BY <1>11, <2>1 DEF Served, Woken, Busy
<1>16. Good(kb, h)
  BY <1>7, <1>8, <1>9, <1>13, <1>14, <1>15 DEF Good, Core
<1> QED BY <1>16 DEF kb, s

LEMMA ParkFacts ==
  ASSUME NEW g \in GrpRecord, g.count <= MaxCount, NEW j \in Jobs, NEW score \in Nat
  PROVE  LET h == Park(g, j, score)
         IN  /\ Parks(g, h, j, score) /\ h.returning = g.returning /\ h.resume = g.resume
             /\ h.open = g.open /\ h.count = g.count
<1> DEFINE h == Park(g, j, score)
           q == {p \in g.parked : p.id /= j} \cup {[id |-> j, score |-> score]}
<1>1. h = [g EXCEPT !.parked = q]
  BY DEF Park
<1>2. q \in SUBSET [id : Jobs, score : Nat]
  BY DEF GrpRecord
<1> HIDE DEF h
<1>3. /\ h \in GrpRecord /\ h.parked = q /\ SameBook(g, h)
      /\ h.returning = g.returning /\ h.resume = g.resume /\ h.open = g.open /\ h.count = g.count
  <2> HIDE DEF q
  <2> QED BY <1>1, <1>2 DEF GrpRecord, SameBook
<1> QED BY <1>3 DEF Parks, h

(* Without a member of the group nothing is taken out of its queue. *)
LEMMA UnparkNone ==
  ASSUME NEW g \in GrpRecord, NEW j, \A p \in g.parked : p.id /= j
  PROVE  LET h == Unpark(g, {j})
         IN  /\ h \in GrpRecord /\ SameBook(g, h) /\ h.parked = g.parked
             /\ h.returning = g.returning /\ h.resume = g.resume /\ h.count = g.count
<1>1. {p \in g.parked : p.id \notin {j}} = g.parked
  OBVIOUS
<1> QED BY <1>1, UnparkFacts

LEMMA GateParks ==
  ASSUME Options, NEW g, Good(job, g), NEW j \in Jobs, job[j].state = "waiting",
         NEW h, Parks(g, h, j, job[j].seq), h.returning = g.returning,
         \/ h.resume = "later"
         \/ /\ h.resume = g.resume /\ g.nextSeq \notin g.skips /\ ~Owns(job, g, j)
            /\ job[j].seq > g.nextSeq \/ g.active >= MaxConcurrency
  PROVE  Good([job EXCEPT ![j] = ParkedJob(job[j])], h)
<1> DEFINE s  == ParkedJob(job[j])
           kb == [job EXCEPT ![j] = s]
<1>1. Core(job, g)
  BY DEF Good
<1>2. Moves(job[j], s, g) /\ s.state = "parked" /\ s.retained = job[j].retained
  BY <1>1, ParkedMoves
<1> HIDE DEF s
<1>3. SameJobs(job, kb) /\ \A k \in Jobs \ {j} : kb[k] = job[k]
  BY <1>1, <1>2, MovedCore
<1>4. \A k \in g.returning : job[k].retained
  BY <1>1 DEF Core, Queued
<1>5. h.returning /= {} => h.resume /= "none"
  BY <1>1 DEF Core, Queued
<1>6. job[j].seq \in Nat /\ SameBook(g, h)
  BY <1>1, CoreFacts DEF Parks
<1>7. Core(kb, h)
  <2>1. j \in h.returning => s.retained
    BY <1>2, <1>4
  <2> HIDE DEF kb
  <2>2. h.returning \in {g.returning, g.returning \cup {j}}
    OBVIOUS
  <2> QED BY <1>1, <1>2, <1>5, <1>6, <2>1, <2>2, ParkCore DEF kb
<1> HIDE DEF kb
<1>8. CASE h.resume = "later"
  BY <1>7, <1>8 DEF Good, Served, kb, s
<1>9. CASE /\ h.resume = g.resume /\ g.nextSeq \notin g.skips /\ ~Owns(job, g, j)
           /\ job[j].seq > g.nextSeq \/ g.active >= MaxConcurrency
  <2>1. Served(kb, h)
    BY <1>3, <1>6, <1>9, ParkServed
  <2> QED BY <1>7, <2>1 DEF Good, kb, s
<1> QED BY <1>8, <1>9

LEMMA GateGood ==
  ASSUME Options, Good(job, grp), NEW j \in Jobs, job[j].state = "waiting",
         NEW chain \in BOOLEAN, Gate(j, chain)
  PROVE  Good(job', grp')
<1> DEFINE g     == Advance(grp)
           seq   == job[j].seq
           back  == Returning(seq, g)
           full  == ~back /\ g.active >= MaxConcurrency
           slow  == RateBlocked(g) /\ (chain \/ ~back)
           waits == Park(g, j, seq)
           rated == IF RateMax = 0 THEN g
                    ELSE [g EXCEPT !.open = TRUE, !.count = IF g.open THEN @ + 1 ELSE 1]
           taken == IF back THEN rated ELSE [rated EXCEPT !.active = @ + 1, !.nextSeq = seq + 1]
           kb    == [job EXCEPT ![j] = ParkedJob(job[j])]
           lb    == [job EXCEPT ![j] = ActiveJob(job[j])]
<1>1. Core(job, grp) /\ Served(job, grp)
  BY DEF Good
<1>2. Good(job, g) /\ Core(job, g) /\ g.nextSeq \notin g.skips
  <2>1. g.skips = grp.skips \ (grp.nextSeq..(g.nextSeq - 1)) /\ g.nextSeq \notin grp.skips
    BY <1>1, AdvanceFacts
  <2>2. Core(job, g) /\ Served(job, g)
    BY <1>1, AdvanceCore, AdvanceServed
  <2> HIDE DEF g
  <2> QED BY <2>1, <2>2 DEF Good
<1>3. /\ [job EXCEPT ![j].state = "parked", ![j].entry = "none"] = kb
      /\ [job EXCEPT ![j].state = "active", ![j].entry = "ready"] = lb
  BY DEF ParkedJob, ActiveJob
<1>4. \/ seq > g.nextSeq /\ job' = kb /\ grp' = waits
      \/ seq <= g.nextSeq /\ full /\ job' = kb /\ grp' = waits
      \/ job' = kb /\ grp' = [waits EXCEPT !.resume = "later"]
      \/ /\ seq <= g.nextSeq /\ ~full /\ taken.count <= MaxCount
         /\ job' = lb /\ grp' = Unpark(taken, {j})
  BY <1>3 DEF Gate, Settle
<1> HIDE DEF g
<1>5. /\ g \in GrpRecord /\ g.nextSeq \in Nat /\ g.active \in Nat /\ g.count \in Nat /\ seq \in Nat
      /\ g.count <= MaxCount /\ MaxConcurrency \in Nat
  BY <1>2, CoreFacts, Sizes
<1>6. Parks(g, waits, j, seq) /\ waits.returning = g.returning /\ waits.resume = g.resume
  BY <1>5, ParkFacts
<1>7. back <=> Owns(job, g, j)
  BY DEF Returning, Owns, Pending
<1> HIDE DEF kb, lb, waits
<1>8. CASE seq > g.nextSeq /\ job' = kb /\ grp' = waits
  <2>1. ~Owns(job, g, j)
    BY <1>5, <1>8 DEF Owns
  <2> QED BY <1>2, <1>6, <1>8, <2>1, GateParks DEF kb
<1>9. CASE seq <= g.nextSeq /\ full /\ job' = kb /\ grp' = waits
  <2>1. ~Owns(job, g, j) /\ g.active >= MaxConcurrency
    BY <1>7, <1>9
  <2> QED BY <1>2, <1>6, <1>9, <2>1, GateParks DEF kb
<1>10. CASE job' = kb /\ grp' = [waits EXCEPT !.resume = "later"]
  <2> DEFINE w == [waits EXCEPT !.resume = "later"]
  <2>1. Parks(g, w, j, seq) /\ w.returning = g.returning /\ w.resume = "later"
    <3>1. waits \in GrpRecord
      BY <1>6 DEF Parks
    <3> QED BY <1>6, <3>1 DEF Parks, GrpRecord, SameBook
  <2> HIDE DEF w
  <2>2. Good(kb, w)
    BY <1>2, <2>1, GateParks DEF kb
  <2> QED BY <1>10, <2>2 DEF w
<1>11. CASE /\ seq <= g.nextSeq /\ ~full /\ taken.count <= MaxCount
            /\ job' = lb /\ grp' = Unpark(taken, {j})
  <2>1. /\ rated \in GrpRecord /\ SameBook(g, rated) /\ rated.parked = g.parked
        /\ rated.returning = g.returning /\ rated.resume = g.resume
    <3>1. CASE RateMax = 0
      BY <1>5, <3>1 DEF SameBook
    <3>2. CASE RateMax /= 0
      <4> DEFINE c == IF g.open THEN g.count + 1 ELSE 1
      <4>1. rated = [g EXCEPT !.open = TRUE, !.count = c] /\ c \in Nat
        BY <1>5, <3>2
      <4> HIDE DEF c, rated
      <4> QED BY <1>5, <4>1 DEF GrpRecord, SameBook
    <3> QED BY <3>1, <3>2
  <2> HIDE DEF rated
  <2>2. \A p \in g.parked : p.id /= j
    BY <1>2 DEF Core, Queued
  <2>3. CASE back
    <3>1. taken = rated
      BY <2>3
    <3> HIDE DEF taken
    <3>10. taken \in GrpRecord /\ \A p \in taken.parked : p.id /= j
      BY <2>1, <2>2, <3>1
    <3> DEFINE h == Unpark(taken, {j})
    <3>2. /\ h \in GrpRecord /\ SameBook(rated, h) /\ h.parked = rated.parked
          /\ h.returning = rated.returning /\ h.resume = rated.resume /\ h.count = rated.count
      BY <3>1, <3>10, UnparkNone
    <3> HIDE DEF h
    <3>3. SameQueue(g, h)
      BY <1>11, <2>1, <3>1, <3>2 DEF SameQueue, SameBook
    <3>4. job[j] \in JobRecord /\ Fits(job[j]) /\ Marked(job[j], g.nextSeq)
      BY <1>2, EntryState
    <3>5. /\ ActiveJob(job[j]) \in JobRecord /\ Fits(ActiveJob(job[j]))
          /\ ActiveJob(job[j]).state = "active" /\ ActiveJob(job[j]).seq = seq
          /\ ActiveJob(job[j]).retained = job[j].retained
      BY <3>4, ActiveFacts
    <3>6. seq < g.nextSeq
      BY <2>3 DEF Returning
    <3>7. Marked(ActiveJob(job[j]), g.nextSeq)
      BY <3>5, <3>6 DEF Marked
    <3>8. Moves(job[j], ActiveJob(job[j]), g)
      BY <3>5, <3>7 DEF Moves, Pending
    <3>9. Good(lb, h)
      BY <1>2, <3>3, <3>5, <3>8, MovedGood DEF lb
    <3> QED BY <1>11, <3>9 DEF h
  <2>4. CASE ~back
    <3>1. taken = [rated EXCEPT !.active = rated.active + 1, !.nextSeq = seq + 1]
      BY <2>4
    <3>2. seq = g.nextSeq /\ g.active < MaxConcurrency
      <4>1. ~(seq < g.nextSeq)
        BY <2>4 DEF Returning
      <4>2. ~(g.active >= MaxConcurrency)
        BY <1>11, <2>4
      <4> QED BY <1>5, <1>11, <4>1, <4>2
    <3>3. /\ taken \in GrpRecord /\ taken.active = g.active + 1 /\ taken.nextSeq = g.nextSeq + 1
          /\ taken.skips = g.skips /\ taken.parked = g.parked /\ taken.returning = g.returning
          /\ taken.resume = g.resume /\ taken.issued = g.issued
      <4>1. rated.active + 1 \in Nat /\ seq + 1 \in Nat \ {0} /\ rated.active = g.active
        BY <1>5, <2>1 DEF SameBook
      <4> HIDE DEF taken, seq
      <4> QED BY <2>1, <3>1, <3>2, <4>1 DEF GrpRecord, SameBook
    <3> HIDE DEF taken
    <3> DEFINE h == Unpark(taken, {j})
    <3>4. /\ h \in GrpRecord /\ SameBook(taken, h) /\ h.parked = taken.parked
          /\ h.returning = taken.returning /\ h.resume = taken.resume /\ h.count = taken.count
      BY <2>2, <3>3, UnparkNone
    <3> HIDE DEF h
    <3>5. /\ h.active = g.active + 1 /\ h.nextSeq = g.nextSeq + 1
          /\ h.skips = g.skips /\ h.parked = g.parked /\ h.returning = g.returning
          /\ h.resume = g.resume /\ h.issued = g.issued /\ h.count <= MaxCount
      BY <1>11, <3>3, <3>4 DEF SameBook
    <3>6. Good(lb, h)
      BY <1>2, <3>2, <3>4, <3>5, TakeGood DEF lb
    <3> QED BY <1>11, <3>6 DEF h
  <2> QED BY <2>3, <2>4
<1> QED BY <1>4, <1>8, <1>9, <1>10, <1>11

LEMMA MoveToActiveGood ==
  ASSUME Options, Good(job, grp), NEW j \in Jobs, MoveToActive(j)
  PROVE  Good(job', grp')
<1>1. job[j].entry = "claimed" /\ job[j].state \in {"waiting", "failed", "gone"}
      /\ job[j] \in JobRecord /\ Fits(job[j]) /\ "none" \in Places
  BY EntryState DEF MoveToActive, Good, Places
<1>2. \/ job[j].state /= "waiting" /\ job' = [job EXCEPT ![j].entry = "none"] /\ grp' = grp
      \/ job[j].state = "waiting" /\ job' = [job EXCEPT ![j].entry = "refused"] /\ grp' = grp
      \/ job[j].state = "waiting" /\ Gate(j, FALSE)
  BY DEF MoveToActive
<1>3. CASE job[j].state /= "waiting" /\ job' = [job EXCEPT ![j].entry = "none"] /\ grp' = grp
  <2>1. Fits([job[j] EXCEPT !.entry = "none"])
    BY <1>1, <1>3, EntryFits
  <2> QED BY <1>1, <1>3, <2>1, EntryGood
<1>4. CASE job[j].state = "waiting" /\ job' = [job EXCEPT ![j].entry = "refused"] /\ grp' = grp
  BY <1>4, RefusedGood
<1>5. CASE job[j].state = "waiting" /\ Gate(j, FALSE)
  <2> DEFINE chain == FALSE
  <2>1. chain \in BOOLEAN /\ Gate(j, chain)
    BY <1>5
  <2> HIDE DEF chain
  <2> QED BY <1>5, <2>1, GateGood
<1> QED BY <1>2, <1>3, <1>4, <1>5

LEMMA FetchNextGood ==
  ASSUME Options, Good(job, grp), NEW j \in Jobs, FetchNext(j)
  PROVE  Good(job', grp')
<1>1. job[j].state = "waiting"
  BY EntryState DEF FetchNext, Good
<1>2. \/ job' = [job EXCEPT ![j].entry = "refused"] /\ grp' = grp
      \/ Gate(j, TRUE)
  BY DEF FetchNext
<1>3. CASE job' = [job EXCEPT ![j].entry = "refused"] /\ grp' = grp
  BY <1>1, <1>3, RefusedGood
<1>4. CASE Gate(j, TRUE)
  <2> DEFINE chain == TRUE
  <2>1. chain \in BOOLEAN /\ Gate(j, chain)
    BY <1>4
  <2> HIDE DEF chain
  <2> QED BY <1>1, <2>1, GateGood
<1> QED BY <1>2, <1>3, <1>4

-----------------------------------------------------------------------------
(* Jobs end *)

LEMMA ActiveOwns ==
  ASSUME Options, NEW jb, NEW g, Core(jb, g), NEW j \in Jobs, jb[j].state \in {"active", "suspended"}
  PROVE  Owns(jb, g, j)
<1>1. Fits(jb[j]) /\ Marked(jb[j], g.nextSeq)
  BY EntryState
<1> QED BY <1>1 DEF Fits, Marked, Owns, Pending

LEMMA EndsEnded ==
  ASSUME Options, Core(job, grp), NEW j \in Jobs, job[j].state \notin {"new", "gone"},
         NEW s \in {"completed", "failed"}
  PROVE  Ended(job, Ends(j, s), j)
<1> DEFINE r  == [job[j] EXCEPT !.state = s, !.retained = FALSE, !.entry = "none"]
           kb == [job EXCEPT ![j] = r]
<1>1. job \in [Jobs -> JobRecord] /\ job[j] \in JobRecord /\ Fits(job[j])
  BY CoreFacts, EntryState
<1>2. Ends(j, s) = kb
  BY DEF Ends
<1>3. r \in JobRecord /\ r.state = s /\ r.retained = FALSE /\ r.entry = "none" /\ r.seq = job[j].seq
  BY <1>1 DEF JobRecord, States, Pending, Places
<1> HIDE DEF r
<1>4. kb \in [Jobs -> JobRecord] /\ kb[j] = r /\ \A k \in Jobs \ {j} : kb[k] = job[k]
  BY <1>1, <1>3
<1>5. Fits(r) /\ r.state \notin Pending
  <2>1. r.seq /= 0
    BY <1>1, <1>3 DEF Fits
  <2> QED BY <1>3, <2>1 DEF Fits, Pending
<1> HIDE DEF kb
<1>6. Ended(job, kb, j)
  BY <1>3, <1>4, <1>5 DEF Ended
<1> QED BY <1>2, <1>6

LEMMA FreesStep ==
  ASSUME Options, Good(job, grp), NEW j \in Jobs, Owns(job, grp, j), job[j].state /= "parked",
         NEW s \in {"completed", "failed"}, Frees(j, s)
  PROVE  Good(job', grp')
<1> DEFINE kb == Ends(j, s)
           timed == TRUE
<1>1. Core(job, grp)
  BY DEF Good
<1>2. Ended(job, kb, j)
  <2>1. job[j].state \notin {"new", "gone"}
    BY DEF Owns, Pending
  <2> QED BY <1>1, <2>1, EndsEnded
<1>3. Wake(kb, Freed(grp, j), timed) /\ timed \in BOOLEAN
  BY DEF Frees
<1> HIDE DEF kb, timed
<1> QED BY <1>1, <1>2, <1>3, FreesGood

LEMMA CompleteGood ==
  ASSUME Options, Good(job, grp), NEW j \in Jobs, Complete(j)
  PROVE  Good(job', grp')
<1>1. CASE Dismiss(j)
  BY <1>1, DismissGood
<1>2. CASE job[j].state = "active" /\ Frees(j, "completed")
  <2>1. Owns(job, grp, j)
    BY <1>2, ActiveOwns DEF Good
  <2> QED BY <1>2, <2>1, FreesStep
<1> QED BY <1>1, <1>2 DEF Complete

LEMMA HoldsOwns ==
  ASSUME Races = {}, NEW j \in Jobs, MayFree(j)
  PROVE  Owns(job, grp, j)
BY DEF MayFree, Holds, Owns

LEMMA FailGood ==
  ASSUME Options, Good(job, grp), Races = {}, NEW j \in Jobs, Fail(j) \/ GiveUp(j)
  PROVE  Good(job', grp')
<1>1. CASE Dismiss(j)
  BY <1>1, DismissGood
<1>2. CASE job[j].entry \in {"running", "refused", "dead"} /\ MayFree(j) /\ Frees(j, "failed")
  <2>1. Owns(job, grp, j)
    BY <1>2, HoldsOwns
  <2>2. job[j].state /= "parked"
    BY <1>2, EntryState DEF Good
  <2> QED BY <1>2, <2>1, <2>2, FreesStep
<1> QED BY <1>1, <1>2 DEF Fail, GiveUp

LEMMA SuspendTimeoutGood ==
  ASSUME Options, Good(job, grp), NEW j \in Jobs, SuspendTimeout(j)
  PROVE  Good(job', grp')
<1>1. job[j].state = "suspended" /\ Frees(j, "failed")
  BY DEF SuspendTimeout
<1>2. Owns(job, grp, j)
  BY <1>1, ActiveOwns DEF Good
<1> QED BY <1>1, <1>2, FreesStep

LEMMA MayEndCloses ==
  ASSUME Options, Core(job, grp), Races = {}, NEW j \in Jobs, MayEnd(j),
         job[j].state \notin {"new", "gone", "active"}
  PROVE  Closes(job, grp, j)
<1>1. Fits(job[j]) /\ Marked(job[j], grp.nextSeq)
  BY EntryState
<1>2. SUFFICES ASSUME Owns(job, grp, j) PROVE job[j].retained
  BY DEF Closes
<1>3. job[j].state \in {"waiting", "delayed", "parked", "suspended"} /\ job[j].seq < grp.nextSeq
  BY <1>2 DEF Owns, Pending
<1>4. CASE job[j].state \in {"waiting", "parked"}
  BY <1>3, <1>4 DEF MayEnd, Unmarked
<1>5. CASE job[j].state = "delayed"
  BY <1>1, <1>3, <1>5 DEF Marked
<1>6. CASE job[j].state = "suspended"
  BY <1>1, <1>6 DEF Fits
<1> QED BY <1>3, <1>4, <1>5, <1>6

LEMMA ExpireGood ==
  ASSUME Options, Good(job, grp), Races = {}, NEW j \in Jobs, Expire(j)
  PROVE  Good(job', grp')
<1>1. /\ job[j].state \in {"waiting", "delayed", "parked", "active"} /\ MayEnd(j)
      /\ IF job[j].state = "active" THEN Frees(j, "failed")
         ELSE CloseHole(Ends(j, "failed"), Unpark(grp, {j}), j, TRUE)
  BY DEF Expire
<1>2. Core(job, grp)
  BY DEF Good
<1>3. CASE job[j].state = "active"
  <2>1. Owns(job, grp, j)
    BY <1>2, <1>3, ActiveOwns
  <2> QED BY <1>1, <1>3, <2>1, FreesStep
<1>4. CASE job[j].state /= "active"
  <2> DEFINE kb == Ends(j, "failed")
             timed == TRUE
  <2>1. Ended(job, kb, j)
    BY <1>1, <1>2, EndsEnded
  <2>2. Closes(job, grp, j)
    BY <1>1, <1>2, <1>4, MayEndCloses
  <2>3. CloseHole(kb, Unpark(grp, {j}), j, timed) /\ timed \in BOOLEAN
    BY <1>1, <1>4
  <2> HIDE DEF kb, timed
  <2> QED BY <2>1, <2>2, <2>3, CloseHoleGood
<1> QED BY <1>3, <1>4

LEMMA RevokeGood ==
  ASSUME Options, Good(job, grp), Races = {}, NEW j \in Jobs, Revoke(j)
  PROVE  Good(job', grp')
<1> DEFINE flag == [job EXCEPT ![j].revoked = TRUE]
           f  == [job[j] EXCEPT !.revoked = TRUE]
           r  == [job[j] EXCEPT !.revoked = TRUE, !.state = "failed", !.retained = FALSE,
                                !.entry = DropEntry(@)]
           kb == [job EXCEPT ![j] = r]
<1>1. Core(job, grp) /\ job \in [Jobs -> JobRecord] /\ job[j] \in JobRecord /\ Fits(job[j])
      /\ Marked(job[j], grp.nextSeq)
  BY CoreFacts, EntryState DEF Good
<1>2. flag = [job EXCEPT ![j] = f]
  OBVIOUS
<1>3. [flag EXCEPT ![j].state = "failed", ![j].retained = FALSE, ![j].entry = DropEntry(@)] = kb
  BY <1>1 DEF JobRecord
<1>4. \/ /\ job[j].state \in {"active", "suspended", "completed", "failed"}
         /\ job' = [job EXCEPT ![j] = f] /\ grp' = grp
      \/ /\ job[j].state \in {"waiting", "delayed", "parked"} /\ MayEnd(j) /\ job[j].entry /= "refused"
         /\ CloseHole(kb, Unpark(grp, {j}), j, TRUE)
  BY <1>2, <1>3 DEF Revoke, Settle
<1>5. CASE /\ job[j].state \in {"active", "suspended", "completed", "failed"}
           /\ job' = [job EXCEPT ![j] = f] /\ grp' = grp
  <2>1. f \in JobRecord /\ f.state = job[j].state /\ f.seq = job[j].seq /\ f.entry = job[j].entry
        /\ f.retained = job[j].retained
    BY <1>1 DEF JobRecord
  <2> HIDE DEF f
  <2>2. Fits(f) /\ Marked(f, grp.nextSeq)
    BY <1>1, <2>1 DEF Fits, Marked
  <2>3. Moves(job[j], f, grp) /\ SameQueue(grp, grp)
    BY <1>1, <2>1, <2>2, SameQueueSelf DEF Moves
  <2> QED BY <1>5, <2>1, <2>3, MovedGood
<1>6. CASE /\ job[j].state \in {"waiting", "delayed", "parked"} /\ MayEnd(j) /\ job[j].entry /= "refused"
           /\ CloseHole(kb, Unpark(grp, {j}), j, TRUE)
  <2> DEFINE timed == TRUE
  <2>1. DropEntry(job[j].entry) \in {"none", "claimed"}
    BY <1>1, <1>6 DEF Fits, DropEntry, Held
  <2>2. r \in JobRecord /\ r.state = "failed" /\ r.retained = FALSE /\ r.seq = job[j].seq
        /\ r.entry \in {"none", "claimed"}
    BY <1>1, <2>1 DEF JobRecord, States, Pending, Places
  <2> HIDE DEF r
  <2>3. kb \in [Jobs -> JobRecord] /\ kb[j] = r /\ \A k \in Jobs \ {j} : kb[k] = job[k]
    BY <1>1, <2>2
  <2>4. Fits(r) /\ r.state \notin Pending
    <3>1. r.seq /= 0
      BY <1>1, <1>6, <2>2 DEF Fits
    <3> QED BY <2>2, <3>1 DEF Fits, Pending
  <2> HIDE DEF kb
  <2>5. Ended(job, kb, j)
    BY <2>2, <2>3, <2>4 DEF Ended
  <2>6. Closes(job, grp, j)
    BY <1>1, <1>6, MayEndCloses
  <2>7. CloseHole(kb, Unpark(grp, {j}), j, timed) /\ timed \in BOOLEAN
    BY <1>6
  <2> HIDE DEF timed
  <2> QED BY <2>5, <2>6, <2>7, CloseHoleGood
<1> QED BY <1>4, <1>5, <1>6

LEMMA RemoveGood ==
  ASSUME Options, Good(job, grp), Races = {}, NEW j \in Jobs, Remove(j)
  PROVE  Good(job', grp')
<1> DEFINE r  == [NewJob EXCEPT !.state = "gone", !.entry = DropEntry(job[j].entry)]
           kb == [job EXCEPT ![j] = r]
           timed == FALSE
<1>1. Core(job, grp) /\ job \in [Jobs -> JobRecord] /\ job[j] \in JobRecord
  BY CoreFacts, EntryState DEF Good
<1>2. /\ job[j].state \notin {"new", "gone"} /\ MayEnd(j)
      /\ IF job[j].state = "active" THEN Wake(kb, Freed(grp, j), timed)
         ELSE CloseHole(kb, Unpark(grp, {j}), j, timed)
  BY DEF Remove
<1>3. timed \in BOOLEAN
  OBVIOUS
<1> HIDE DEF timed
<1>4. Ended(job, kb, j)
  <2>1. DropEntry(job[j].entry) \in Held \cup {"none"}
    BY DEF DropEntry
  <2>2. r \in JobRecord /\ r.state = "gone" /\ r.retained = FALSE /\ r.seq = 0
        /\ r.entry \in Held \cup {"none"}
    BY <2>1 DEF JobRecord, States, Pending, Places, Held, NewJob
  <2> HIDE DEF r
  <2>3. kb \in [Jobs -> JobRecord] /\ kb[j] = r /\ \A k \in Jobs \ {j} : kb[k] = job[k]
    BY <1>1, <2>2
  <2>4. Fits(r) /\ r.state \notin Pending
    BY <2>2 DEF Fits, Pending
  <2> HIDE DEF kb
  <2> QED BY <2>2, <2>3, <2>4 DEF Ended
<1> HIDE DEF kb
<1>5. CASE job[j].state = "active"
  <2>1. Owns(job, grp, j)
    BY <1>1, <1>5, ActiveOwns
  <2> QED BY <1>1, <1>2, <1>3, <1>4, <1>5, <2>1, FreesGood
<1>6. CASE job[j].state /= "active"
  <2>1. Closes(job, grp, j)
    BY <1>1, <1>2, <1>6, MayEndCloses
  <2> QED BY <1>2, <1>3, <1>4, <1>6, <2>1, CloseHoleGood
<1> QED BY <1>5, <1>6

-----------------------------------------------------------------------------
(* Rate limits and closing workers *)

LEMMA LastScoreNat ==
  ASSUME Options, Core(job, grp), grp.parked /= {}
  PROVE  LastScore \in Nat
<1> DEFINE ids == {p.id : p \in grp.parked}
           T   == {p.score : p \in grp.parked}
           f   == [i \in ids |-> (CHOOSE p \in grp.parked : p.id = i).score]
<1>1. (\A p \in grp.parked : p.id \in Jobs /\ p.score \in Nat)
      /\ \A p, r \in grp.parked : p.id = r.id => p = r
  BY CoreFacts DEF Core, Queued
<1>2. \A p \in grp.parked : f[p.id] = p.score
  <2> SUFFICES ASSUME NEW p \in grp.parked PROVE f[p.id] = p.score
    OBVIOUS
  <2>1. (CHOOSE r \in grp.parked : r.id = p.id) = p
    BY <1>1
  <2> QED BY <2>1
<1>3. f \in [ids -> T]
  <2>1. ASSUME NEW i \in ids PROVE f[i] \in T
    <3>1. PICK p \in grp.parked : p.id = i
      OBVIOUS
    <3>2. f[i] = p.score
      BY <1>2, <3>1
    <3> HIDE DEF f
    <3> QED BY <3>2
  <2>2. \A i \in ids : f[i] \in T
    BY <2>1
  <2>3. f = [i \in ids |-> f[i]]
    OBVIOUS
  <2> HIDE DEF f, ids, T
  <2> QED BY <2>2, <2>3
<1>4. \A t \in T : \E i \in ids : f[i] = t
  <2> SUFFICES ASSUME NEW t \in T PROVE \E i \in ids : f[i] = t
    OBVIOUS
  <2>1. PICK p \in grp.parked : p.score = t
    OBVIOUS
  <2>2. p.id \in ids /\ f[p.id] = t
    BY <1>2, <2>1
  <2> HIDE DEF f, ids
  <2> QED BY <2>2
<1> HIDE DEF f
<1>5. f \in Surjection(ids, T)
  <2> HIDE DEF ids, T
  <2> QED BY <1>3, <1>4 DEF Surjection
<1>6. IsFiniteSet(ids)
  <2>1. ids \in SUBSET Jobs
    BY <1>1
  <2> HIDE DEF ids
  <2> QED BY <2>1, Sizes, FS_Subset
<1>7. T \in SUBSET Nat /\ T /= {}
  BY <1>1
<1>8. IsFiniteSet(T)
  <2> HIDE DEF ids, T
  <2> QED BY <1>5, <1>6, FS_Surjection
<1>9. \E n \in T : \A m \in T : m <= n
  <2> HIDE DEF T
  <2> QED BY <1>7, <1>8, GreatestOf
<1>10. \E n \in T : \A p \in grp.parked : p.score <= n
  BY <1>9
<1>11. LastScore = CHOOSE n \in T : \A p \in grp.parked : p.score <= n
  BY DEF LastScore
<1>12. LastScore \in T
  <2> HIDE DEF T
  <2> QED BY <1>10, <1>11
<1> QED BY <1>7, <1>12

LEMMA LimitRequeueGood ==
  ASSUME Options, Good(job, grp), NEW j \in Jobs, NEW front \in BOOLEAN, LimitRequeue(j, front)
  PROVE  Good(job', grp')
<1> DEFINE s     == [job[j] EXCEPT !.state = "parked", !.retained = TRUE, !.entry = "none"]
           score == IF front \/ grp.parked = {} THEN job[j].seq ELSE LastScore + 1
           p     == Park(grp, j, score)
           h     == [p EXCEPT !.returning = p.returning \cup {j}, !.resume = "later"]
<1>1. job[j].state = "active" /\ job' = [job EXCEPT ![j] = s] /\ grp' = h
  BY DEF LimitRequeue, Settle
<1>2. Core(job, grp) /\ job[j] \in JobRecord /\ Fits(job[j]) /\ Marked(job[j], grp.nextSeq)
      /\ grp \in GrpRecord /\ grp.count <= MaxCount /\ job[j].seq \in Nat
  BY EntryState, CoreFacts DEF Good
<1>3. score \in Nat
  <2>1. grp.parked /= {} => LastScore + 1 \in Nat
    BY <1>2, LastScoreNat
  <2> QED BY <1>2, <2>1
<1> HIDE DEF score
<1>4. Parks(grp, p, j, score) /\ p.returning = grp.returning /\ p.resume = grp.resume
  BY <1>2, <1>3, ParkFacts
<1> HIDE DEF p
<1>5. Parks(grp, h, j, score) /\ h.returning = grp.returning \cup {j} /\ h.resume = "later"
  BY <1>4 DEF Parks, GrpRecord, SameBook
<1> HIDE DEF h
<1>6. s \in JobRecord /\ s.state = "parked" /\ s.retained = TRUE /\ s.entry = "none" /\ s.seq = job[j].seq
  BY <1>2 DEF JobRecord, States, Pending, Places
<1> HIDE DEF s
<1>7. Fits(s) /\ Marked(s, grp.nextSeq)
  BY <1>1, <1>2, <1>6 DEF Fits, Marked, Pending
<1>8. Moves(job[j], s, grp)
  BY <1>1, <1>6, <1>7 DEF Moves, Pending
<1>9. Core([job EXCEPT ![j] = s], h)
  BY <1>2, <1>3, <1>5, <1>6, <1>8, ParkCore
<1>10. Served([job EXCEPT ![j] = s], h)
  BY <1>5 DEF Served
<1> QED BY <1>1, <1>9, <1>10 DEF Good

LEMMA LimitFailGood ==
  ASSUME Options, Good(job, grp), NEW j \in Jobs, LimitFail(j)
  PROVE  Good(job', grp')
<1> DEFINE kb == Ends(j, "failed")
           h  == Freed(grp, j)
<1>1. job[j].state = "active" /\ job' = kb /\ grp' = [h EXCEPT !.resume = "later"]
  BY DEF LimitFail, Settle
<1>2. Core(job, grp) /\ Owns(job, grp, j)
  BY <1>1, ActiveOwns DEF Good
<1>3. Ended(job, kb, j)
  BY <1>1, <1>2, EndsEnded
<1> HIDE DEF kb
<1>4. Core(kb, h)
  BY <1>1, <1>2, <1>3, FreedCore
<1> HIDE DEF h
<1> QED BY <1>1, <1>4, ResumeGood

(* undoGroupClaim: the sequence steps back to the job that goes back. *)
LEMMA UndoneGood ==
  ASSUME Options, Good(job, grp), NEW j \in Jobs, job[j].state = "active", ~job[j].retained,
         grp.nextSeq = job[j].seq + 1,
         NEW h \in GrpRecord, h.active = Minus1(grp.active), h.nextSeq = job[j].seq,
         h.skips = grp.skips, h.parked = grp.parked, h.returning = grp.returning,
         h.resume = grp.resume, h.issued = grp.issued, h.count <= MaxCount
  PROVE  Good(ToStream(job, {j}), h)
<1> DEFINE kb == ToStream(job, {j})
<1>1. /\ Core(job, grp) /\ job \in [Jobs -> JobRecord] /\ grp.active \in Nat /\ grp.nextSeq \in Nat
      /\ grp.issued \in Nat /\ (\A k \in Jobs : job[k].seq \in Nat)
      /\ (\A p \in grp.parked : p.id \in Jobs) /\ grp.returning \subseteq Jobs /\ MaxConcurrency \in Nat
  BY CoreFacts, Sizes DEF Good
<1>2. Fits(job[j]) /\ Owns(job, grp, j)
  BY <1>1, EntryState, ActiveOwns
<1>3. /\ kb \in [Jobs -> JobRecord]
      /\ kb[j].seq = job[j].seq /\ kb[j].retained = job[j].retained
      /\ kb[j].state = "waiting" /\ kb[j].entry = "stream"
      /\ \A k \in Jobs : k /= j => kb[k] = job[k]
  BY <1>1, ToStreamFacts
<1>4. /\ h.active = grp.active - 1 /\ h.active < MaxConcurrency
      /\ Cardinality(Holders(job, grp) \ {j}) = grp.active - 1
  BY <1>1, <1>2, OneLess
<1> HIDE DEF kb
<1>5. SameJobs(job, kb)
  BY <1>3 DEF SameJobs, Pending
<1>6. \A k \in Jobs \ {j} : job[k].seq < h.nextSeq <=> job[k].seq < grp.nextSeq
  <2>1. \A k \in Jobs \ {j} : job[k].seq /= job[j].seq
    <3>1. job[j].seq /= 0
      BY <1>2 DEF Fits
    <3> QED BY <1>1, <3>1 DEF Core, Sequenced
  <2> QED BY <1>1, <2>1
<1>7. Typed(kb, h)
  BY <1>1, <1>3 DEF Core, Typed
<1>8. AllFit(kb)
  <2> SUFFICES ASSUME NEW k \in Jobs PROVE Fits(kb[k])
    BY DEF AllFit
  <2>1. CASE k = j
    BY <1>2, <1>3, <2>1 DEF Fits, Pending
  <2>2. CASE k /= j
    BY <1>1, <1>3, <2>2 DEF Core, AllFit
  <2> QED BY <2>1, <2>2
<1>9. Sequenced(kb, h)
  <2>1. ASSUME NEW n \in h.nextSeq..h.issued PROVE Taken(kb, h, n)
    <3>1. CASE n = job[j].seq
      BY <1>3, <3>1 DEF Taken, Pending
    <3>2. CASE n /= job[j].seq
      <4>1. n \in grp.nextSeq..grp.issued
        BY <1>1, <3>2
      <4>2. Taken(job, grp, n)
        BY <1>1, <4>1 DEF Core, Sequenced
      <4> QED BY <1>5, <4>2 DEF Taken, SameJobs
    <3> QED BY <3>1, <3>2
  <2>2. h.nextSeq <= h.issued + 1
    <3>1. grp.nextSeq <= grp.issued + 1
      BY <1>1 DEF Core, Sequenced
    <3>2. job[j].seq \in Nat
      BY <1>1
    <3> QED BY <1>1, <3>1, <3>2
  <2>3. /\ \A k, l \in Jobs : kb[k].seq = kb[l].seq /\ kb[k].seq /= 0 => k = l
        /\ \A k \in Jobs : kb[k].seq <= h.issued
    BY <1>1, <1>5 DEF Core, Sequenced, SameJobs
  <2>4. /\ \A k \in Jobs : kb[k].state \in Pending => kb[k].seq \notin h.skips
        /\ h.skips \subseteq 1..h.issued
    BY <1>1, <1>5 DEF Core, Sequenced, SameJobs
  <2> QED BY <2>1, <2>2, <2>3, <2>4 DEF Sequenced
<1>10. ~Owns(kb, h, j)
  <2>1. ~(job[j].seq < job[j].seq)
    BY <1>1
  <2> QED BY <1>3, <2>1 DEF Owns
<1>11. Holders(kb, h) = Holders(job, grp) \ {j}
  <2>1. \A k \in Jobs \ {j} : Owns(kb, h, k) <=> Owns(job, grp, k)
    BY <1>3, <1>6 DEF Owns
  <2> QED BY <1>10, <2>1 DEF Holders
<1>12. Slotted(kb, h)
  <2>1. ASSUME NEW k \in Jobs PROVE Marked(kb[k], h.nextSeq)
    <3>1. CASE k = j
      BY <1>3, <3>1 DEF Marked
    <3>2. CASE k /= j
      <4>1. Marked(job[k], grp.nextSeq)
        BY <1>1 DEF Core, Slotted
      <4>2. kb[k] = job[k] /\ (job[k].seq < h.nextSeq <=> job[k].seq < grp.nextSeq)
        BY <1>3, <1>6, <3>2
      <4> QED BY <4>1, <4>2 DEF Marked
    <3> QED BY <3>1, <3>2
  <2>2. h.active = Cardinality(Holders(kb, h))
    BY <1>4, <1>11
  <2>3. h.active <= MaxConcurrency
    BY <1>1, <1>4
  <2> QED BY <2>1, <2>2, <2>3 DEF Slotted
<1>13. Queued(kb, h)
  <2>1. {p.id : p \in h.parked} = {k \in Jobs : kb[k].state = "parked"}
    <3>1. {p.id : p \in grp.parked} = {k \in Jobs : job[k].state = "parked"}
      BY <1>1 DEF Core, Queued
    <3>2. \A k \in Jobs : kb[k].state = "parked" <=> job[k].state = "parked"
      BY <1>3
    <3> QED BY <3>1, <3>2
  <2>2. \A p \in h.parked : p.id \in h.returning \/ p.score = kb[p.id].seq
    BY <1>1, <1>5 DEF Core, Queued, SameJobs
  <2>3. \A k \in h.returning : kb[k].retained
    <3>1. \A k \in grp.returning : job[k].retained
      BY <1>1 DEF Core, Queued
    <3>2. \A k \in Jobs : job[k].retained => kb[k].retained
      BY <1>3
    <3> QED BY <1>1, <3>1, <3>2
  <2>4. /\ \A p, r \in h.parked : p.id = r.id => p = r
        /\ h.returning /= {} => h.resume /= "none"
    BY <1>1 DEF Core, Queued
  <2> QED BY <2>1, <2>2, <2>3, <2>4 DEF Queued
<1>14. Served(kb, h)
  <2>1. kb[j].state \in Pending \ {"parked"}
    BY <1>3 DEF Pending
  <2>2. kb[j].seq >= h.nextSeq /\ \A n \in h.nextSeq..(kb[j].seq - 1) : n \in h.skips
    BY <1>1, <1>3
  <2>3. OnTurn(kb, h)
    BY <2>1, <2>2 DEF OnTurn
  <2> QED BY <1>4, <2>3 DEF Served, Woken
<1>15. Good(kb, h)
  BY <1>7, <1>8, <1>9, <1>12, <1>13, <1>14 DEF Good, Core
<1> QED BY <1>15 DEF kb

LEMMA UndoClaimGood ==
  ASSUME Options, Good(job, grp), NEW j \in Jobs, UndoClaim(j)
  PROVE  Good(job', grp')
<1> DEFINE keeps == job[j].retained \/ (job[j].seq < grp.nextSeq /\ grp.nextSeq /= job[j].seq + 1)
           g     == IF keeps THEN grp ELSE Undone(grp, job[j].seq)
           h     == [g EXCEPT !.count = Minus1(@)]
<1>1. /\ job[j].state \in {"active", "gone"}
      /\ \/ Dismiss(j)
         \/ job[j].state = "active" /\ job' = ToStream(job, {j}) /\ grp' = h
  <2>1. job[j].entry = "ready"
        /\ IF job[j].state = "gone" THEN Settle([job EXCEPT ![j].entry = "none"], grp)
           ELSE Settle(ToStream(job, {j}), h)
    BY DEF UndoClaim
  <2>2. job[j].state \in {"active", "gone"}
    BY <2>1, EntryState DEF Good
  <2> HIDE DEF h
  <2> QED BY <2>1, <2>2 DEF Settle, Dismiss
<1>2. CASE Dismiss(j)
  BY <1>2, DismissGood
<1>3. CASE job[j].state = "active" /\ job' = ToStream(job, {j}) /\ grp' = h
  <2>1. /\ Core(job, grp) /\ grp \in GrpRecord /\ grp.count \in Nat /\ grp.count <= MaxCount
        /\ grp.active \in Nat /\ grp.nextSeq \in Nat /\ job[j].seq \in Nat /\ MaxCount \in Nat
    BY CoreFacts, Sizes DEF Good
  <2>2. Minus1(grp.count) \in Nat /\ Minus1(grp.count) <= MaxCount
    BY <2>1 DEF Minus1
  <2>3. CASE keeps
    <3>1. h = [grp EXCEPT !.count = Minus1(grp.count)]
      BY <2>3
    <3> HIDE DEF h
    <3>2. SameQueue(grp, h)
      BY <2>1, <2>2, <3>1 DEF SameQueue, SameBook, GrpRecord
    <3>3. job[j].state \in Pending \ {"parked"}
      BY <1>3 DEF Pending
    <3> QED BY <1>3, <3>2, <3>3, BackGood
  <2>4. CASE ~keeps
    <3>1. ~job[j].retained /\ grp.nextSeq = job[j].seq + 1 /\ job[j].seq \in Nat \ {0}
      <4>1. Owns(job, grp, j)
        BY <1>3, <2>1, ActiveOwns
      <4>2. Fits(job[j])
        BY <2>1, EntryState
      <4>3. job[j].seq /= 0
        BY <1>3, <4>2 DEF Fits
      <4> QED BY <2>1, <2>4, <4>1, <4>3 DEF Owns
    <3>2. g = [grp EXCEPT !.active = Minus1(grp.active), !.nextSeq = job[j].seq]
      BY <2>4, <3>1 DEF Undone
    <3>3. Minus1(grp.active) \in Nat
      BY <2>1 DEF Minus1
    <3> HIDE DEF g
    <3>4. g \in GrpRecord /\ g.active = Minus1(grp.active) /\ g.nextSeq = job[j].seq
          /\ g.skips = grp.skips /\ g.parked = grp.parked /\ g.returning = grp.returning
          /\ g.resume = grp.resume /\ g.issued = grp.issued /\ g.count = grp.count
      BY <2>1, <3>1, <3>2, <3>3 DEF GrpRecord
    <3>5. h \in GrpRecord /\ h.active = Minus1(grp.active) /\ h.nextSeq = job[j].seq
          /\ h.skips = grp.skips /\ h.parked = grp.parked /\ h.returning = grp.returning
          /\ h.resume = grp.resume /\ h.issued = grp.issued /\ h.count <= MaxCount
      BY <2>2, <3>4 DEF GrpRecord
    <3> HIDE DEF h
    <3>6. Good(ToStream(job, {j}), h)
      BY <1>3, <3>1, <3>5, UndoneGood
    <3> QED BY <1>3, <3>6
  <2> QED BY <2>3, <2>4
<1> QED BY <1>1, <1>2, <1>3

-----------------------------------------------------------------------------
(* New sequence numbers *)

LEMMA IssueGood ==
  ASSUME Options, NEW jb, NEW g, Good(jb, g), NEW j \in Jobs, jb[j].state \notin Pending,
         g.issued < MaxSeq, NEW s \in JobRecord, Fits(s), s.state \in {"waiting", "delayed"},
         s.retained = FALSE, s.seq = g.issued + 1
  PROVE  Good([jb EXCEPT ![j] = s], [g EXCEPT !.issued = @ + 1])
<1> DEFINE kb == [jb EXCEPT ![j] = s]
           h  == [g EXCEPT !.issued = @ + 1]
<1>1. /\ Core(jb, g) /\ Served(jb, g) /\ jb \in [Jobs -> JobRecord] /\ g \in GrpRecord
      /\ g.active \in Nat /\ g.nextSeq \in Nat
      /\ g.issued \in Nat /\ (\A k \in Jobs : jb[k].seq \in Nat) /\ MaxSeq \in Nat
      /\ (\A p \in g.parked : p.id \in Jobs) /\ g.returning \subseteq Jobs
  BY CoreFacts, Sizes DEF Good
<1>2. kb \in [Jobs -> JobRecord] /\ kb[j] = s /\ \A k \in Jobs \ {j} : kb[k] = jb[k]
  BY <1>1
<1>3. /\ h \in GrpRecord /\ h.active = g.active /\ h.nextSeq = g.nextSeq /\ h.skips = g.skips
      /\ h.parked = g.parked /\ h.returning = g.returning /\ h.resume = g.resume
      /\ h.count = g.count /\ h.issued = g.issued + 1
  BY <1>1 DEF GrpRecord
<1> HIDE DEF kb, h
<1>4. Typed(kb, h)
  <2>1. h.issued <= MaxSeq
    BY <1>1, <1>3
  <2> QED BY <1>1, <1>2, <1>3, <2>1 DEF Core, Typed
<1>5. AllFit(kb)
  <2> SUFFICES ASSUME NEW k \in Jobs PROVE Fits(kb[k])
    BY DEF AllFit
  <2> QED BY <1>1, <1>2 DEF Core, AllFit
<1>6. \A k \in Jobs : jb[k].seq <= g.issued /\ jb[k].seq /= g.issued + 1
  <2>1. \A k \in Jobs : jb[k].seq <= g.issued
    BY <1>1 DEF Core, Sequenced
  <2> QED BY <1>1, <2>1
<1>7. Sequenced(kb, h)
  <2>1. ASSUME NEW n \in h.nextSeq..h.issued PROVE Taken(kb, h, n)
    <3>1. CASE n = g.issued + 1
      BY <1>2, <3>1 DEF Taken, Pending
    <3>2. CASE n /= g.issued + 1
      <4>1. n \in g.nextSeq..g.issued
        BY <1>1, <1>3, <3>2
      <4>2. Taken(jb, g, n)
        BY <1>1, <4>1 DEF Core, Sequenced
      <4>3. ASSUME NEW k \in Jobs, jb[k].state \in Pending, jb[k].seq = n PROVE Taken(kb, h, n)
        <5>1. k /= j
          BY <4>3
        <5> QED BY <1>2, <4>3, <5>1 DEF Taken
      <4> QED BY <1>3, <4>2, <4>3 DEF Taken
    <3> QED BY <3>1, <3>2
  <2>2. \A k, l \in Jobs : kb[k].seq = kb[l].seq /\ kb[k].seq /= 0 => k = l
    BY <1>1, <1>2, <1>6 DEF Core, Sequenced
  <2>3. \A k \in Jobs : kb[k].seq <= h.issued
    <3> SUFFICES ASSUME NEW k \in Jobs PROVE kb[k].seq <= h.issued
      OBVIOUS
    <3>1. CASE k = j
      BY <1>1, <1>2, <1>3, <3>1
    <3>2. CASE k /= j
      <4>1. kb[k].seq = jb[k].seq /\ jb[k].seq <= g.issued /\ jb[k].seq \in Nat
        BY <1>1, <1>2, <1>6, <3>2
      <4> QED BY <1>1, <1>3, <4>1
    <3> QED BY <3>1, <3>2
  <2>4. h.nextSeq <= h.issued + 1
    <3>1. g.nextSeq <= g.issued + 1
      BY <1>1 DEF Core, Sequenced
    <3> QED BY <1>1, <1>3, <3>1
  <2>5. h.skips \subseteq 1..h.issued
    <3>1. g.skips \subseteq 1..g.issued
      BY <1>1 DEF Core, Sequenced
    <3> QED BY <1>1, <1>3, <3>1
  <2>6. ASSUME NEW k \in Jobs, kb[k].state \in Pending PROVE kb[k].seq \notin h.skips
    <3>1. CASE k = j
      <4>1. g.issued + 1 \notin 1..g.issued
        BY <1>1
      <4>2. g.skips \subseteq 1..g.issued
        BY <1>1 DEF Core, Sequenced
      <4> QED BY <1>2, <1>3, <3>1, <4>1, <4>2
    <3>2. CASE k /= j
      BY <1>1, <1>2, <1>3, <2>6, <3>2 DEF Core, Sequenced
    <3> QED BY <3>1, <3>2
  <2> QED BY <2>1, <2>2, <2>3, <2>4, <2>5, <2>6 DEF Sequenced
<1>8. ~(s.seq < g.nextSeq)
  <2>1. g.nextSeq <= g.issued + 1
    BY <1>1 DEF Core, Sequenced
  <2> QED BY <1>1, <2>1
<1>9. \A k \in Jobs : Owns(kb, h, k) <=> Owns(jb, g, k)
  <2> SUFFICES ASSUME NEW k \in Jobs PROVE Owns(kb, h, k) <=> Owns(jb, g, k)
    OBVIOUS
  <2>1. CASE k = j
    BY <1>2, <1>3, <1>8, <2>1 DEF Owns
  <2>2. CASE k /= j
    BY <1>2, <1>3, <2>2 DEF Owns
  <2> QED BY <2>1, <2>2
<1>10. Slotted(kb, h)
  <2>1. ASSUME NEW k \in Jobs PROVE Marked(kb[k], h.nextSeq)
    <3>1. CASE k = j
      BY <1>2, <1>3, <1>8, <3>1 DEF Marked
    <3>2. CASE k /= j
      BY <1>1, <1>2, <1>3, <3>2 DEF Core, Slotted
    <3> QED BY <3>1, <3>2
  <2>2. Holders(kb, h) = Holders(jb, g)
    BY <1>9 DEF Holders
  <2> QED BY <1>1, <1>3, <2>1, <2>2 DEF Core, Slotted
<1>11. \A k \in Jobs : kb[k].state = "parked" <=> jb[k].state = "parked"
  BY <1>2 DEF Pending
<1>12. Queued(kb, h)
  <2>1. {p.id : p \in h.parked} = {k \in Jobs : kb[k].state = "parked"}
    <3>1. {p.id : p \in g.parked} = {k \in Jobs : jb[k].state = "parked"}
      BY <1>1 DEF Core, Queued
    <3> QED BY <1>3, <1>11, <3>1
  <2>2. \A p \in h.parked : p.id \in h.returning \/ p.score = kb[p.id].seq
    <3>1. \A p \in g.parked : p.id \in Jobs /\ jb[p.id].state = "parked"
      BY <1>1 DEF Core, Queued
    <3>2. \A p \in g.parked : p.id /= j
      BY <3>1 DEF Pending
    <3> QED BY <1>1, <1>2, <1>3, <3>1, <3>2 DEF Core, Queued
  <2>3. \A k \in h.returning : kb[k].retained
    <3>1. \A k \in g.returning : jb[k].retained
      BY <1>1 DEF Core, Queued
    <3>2. j \notin g.returning
      <4>1. Fits(jb[j])
        BY <1>1 DEF Core, AllFit
      <4> QED BY <3>1, <4>1 DEF Fits
    <3> QED BY <1>1, <1>2, <1>3, <3>1, <3>2
  <2>4. /\ \A p, r \in h.parked : p.id = r.id => p = r
        /\ h.returning /= {} => h.resume /= "none"
    BY <1>1, <1>3 DEF Core, Queued
  <2> QED BY <2>1, <2>2, <2>3, <2>4 DEF Queued
<1>13. Served(kb, h)
  <2>1. Busy(jb, g) => Busy(kb, h)
    BY <1>9, <1>11 DEF Busy
  <2>2. OnTurn(jb, g) => OnTurn(kb, h)
    <3> SUFFICES ASSUME OnTurn(jb, g) PROVE OnTurn(kb, h)
      OBVIOUS
    <3>1. PICK k \in Jobs : /\ jb[k].state \in Pending \ {"parked"} /\ jb[k].seq >= g.nextSeq
                            /\ \A n \in g.nextSeq..(jb[k].seq - 1) : n \in g.skips
      BY DEF OnTurn
    <3>2. kb[k] = jb[k]
      BY <1>2, <3>1
    <3> QED BY <1>3, <3>1, <3>2 DEF OnTurn
  <2> QED BY <1>1, <1>3, <2>1, <2>2 DEF Served, Woken
<1>14. Good(kb, h)
  BY <1>4, <1>5, <1>7, <1>10, <1>12, <1>13 DEF Good, Core
<1> QED BY <1>14 DEF kb, h

LEMMA AddJobGood ==
  ASSUME Options, Good(job, grp), NEW j \in Jobs, NEW delayed \in BOOLEAN, AddJob(j, delayed)
  PROVE  Good(job', grp')
<1> DEFINE s == [NewJob EXCEPT !.seq = grp.issued + 1,
                               !.state = IF delayed THEN "delayed" ELSE "waiting",
                               !.entry = IF delayed THEN "none" ELSE "stream"]
<1>1. job[j].state = "new" /\ grp.issued < MaxSeq /\ job' = [job EXCEPT ![j] = s]
      /\ grp' = [grp EXCEPT !.issued = @ + 1]
  BY DEF AddJob
<1>2. grp.issued \in Nat
  BY CoreFacts DEF Good
<1>3. /\ s \in JobRecord /\ s.state \in {"waiting", "delayed"} /\ s.retained = FALSE
      /\ s.seq = grp.issued + 1
      /\ s.state = "waiting" => s.entry = "stream"
      /\ s.state = "delayed" => s.entry = "none"
  <2> DEFINE n == grp.issued + 1
             t == IF delayed THEN "delayed" ELSE "waiting"
             e == IF delayed THEN "none" ELSE "stream"
  <2>1. n \in Nat /\ t \in {"waiting", "delayed"} /\ e \in {"none", "stream"}
        /\ (t = "waiting" => e = "stream") /\ (t = "delayed" => e = "none")
    BY <1>2
  <2>4. s = [NewJob EXCEPT !.seq = n, !.state = t, !.entry = e]
    OBVIOUS
  <2> HIDE DEF s, n, t, e
  <2>5. s = [state |-> t, seq |-> n, retained |-> FALSE, revoked |-> FALSE, entry |-> e]
    BY <2>4 DEF NewJob
  <2>3. s \in JobRecord /\ s.state = t /\ s.retained = FALSE /\ s.seq = n /\ s.entry = e
    BY <2>1, <2>5 DEF JobRecord, States, Pending, Places
  <2> QED BY <2>1, <2>3 DEF n
<1> HIDE DEF s
<1>4. Fits(s)
  <2>1. s.seq /= 0
    BY <1>2, <1>3
  <2> QED BY <1>3, <2>1 DEF Fits, Pending
<1>5. job[j].state \notin Pending
  BY <1>1 DEF Pending
<1> QED BY <1>1, <1>3, <1>4, <1>5, IssueGood

LEMMA RetryGood ==
  ASSUME Options, Good(job, grp), NEW j \in Jobs, Retry(j)
  PROVE  Good(job', grp')
<1> DEFINE s == [job[j] EXCEPT !.state = "delayed", !.retained = FALSE, !.seq = FreshSeq(j)]
<1>1. /\ job[j].state = "failed" /\ job[j].entry = "none" /\ grp.issued < MaxSeq
      /\ job' = [job EXCEPT ![j] = s] /\ grp' = [grp EXCEPT !.issued = @ + 1]
  BY DEF Retry, Settle
<1>2. grp.issued \in Nat /\ job[j] \in JobRecord
  BY CoreFacts, EntryState DEF Good
<1>3. s \in JobRecord /\ s.state = "delayed" /\ s.retained = FALSE /\ s.seq = grp.issued + 1 /\ s.entry = "none"
  <2> DEFINE n == FreshSeq(j)
  <2>1. n \in Nat /\ n = grp.issued + 1
    BY <1>2 DEF FreshSeq
  <2>2. s = [job[j] EXCEPT !.state = "delayed", !.retained = FALSE, !.seq = n]
    OBVIOUS
  <2> HIDE DEF n, s
  <2>3. s \in JobRecord /\ s.state = "delayed" /\ s.retained = FALSE /\ s.seq = n /\ s.entry = "none"
    BY <1>1, <1>2, <2>1, <2>2 DEF JobRecord, States, Pending
  <2> QED BY <2>1, <2>3
<1> HIDE DEF s
<1>4. Fits(s)
  <2>1. s.seq /= 0
    BY <1>2, <1>3
  <2> QED BY <1>3, <2>1 DEF Fits, Pending
<1>5. job[j].state \notin Pending
  BY <1>1 DEF Pending
<1> QED BY <1>1, <1>3, <1>4, <1>5, IssueGood

-----------------------------------------------------------------------------
(* drain, and the sweep of rate limited groups *)

LEMMA DrainGood ==
  ASSUME Options, Good(job, grp), Races = {}, NEW delayed \in BOOLEAN, Drain(delayed)
  PROVE  Good(job', grp')
<1> DEFINE out  == {j \in Jobs : job[j].entry = "stream" \/ (delayed /\ job[j].state = "delayed")}
           K    == {j \in out : job[j].retained}
           kept == Cardinality(K)
           gone == [NewJob EXCEPT !.state = "gone"]
           jb   == [j \in Jobs |-> IF j \in out THEN gone ELSE job[j]]
           seqs == {job[j].seq : j \in out}
           g    == [grp EXCEPT !.skips = @ \cup seqs, !.returning = @ \ out,
                               !.active = IF @ > kept THEN @ - kept ELSE 0]
           timed == TRUE
<1>1. /\ \A j \in out : MayEnd(j)
      /\ IF g.resume = "later" THEN Settle(jb, g) ELSE Wake(jb, g, timed)
  BY DEF Drain
<1>2. timed \in BOOLEAN
  OBVIOUS
<1> HIDE DEF timed
<1>3. /\ Core(job, grp) /\ Served(job, grp) /\ job \in [Jobs -> JobRecord] /\ grp \in GrpRecord
      /\ grp.active \in Nat /\ grp.nextSeq \in Nat /\ grp.issued \in Nat /\ grp.skips \in SUBSET Nat
      /\ (\A j \in Jobs : job[j].seq \in Nat) /\ grp.returning \subseteq Jobs
      /\ (\A p \in grp.parked : p.id \in Jobs) /\ MaxConcurrency \in Nat \ {0}
  BY CoreFacts, Sizes DEF Good
<1>4. out \subseteq Jobs /\ \A j \in out : job[j].state \in {"waiting", "delayed"}
  <2>1. \A j \in Jobs : job[j].entry = "stream" => job[j].state = "waiting"
    BY <1>3, EntryState
  <2> QED BY <2>1
<1>5. \A j \in out : job[j].retained <=> Owns(job, grp, j)
  <2> SUFFICES ASSUME NEW j \in out PROVE job[j].retained <=> Owns(job, grp, j)
    OBVIOUS
  <2>1. j \in Jobs /\ job[j].state \in {"waiting", "delayed"}
    BY <1>4
  <2>2. MayEnd(j)
    BY <1>1
  <2> HIDE DEF out
  <2>3. Closes(job, grp, j)
    BY <1>3, <2>1, <2>2, MayEndCloses
  <2>4. Fits(job[j]) /\ Marked(job[j], grp.nextSeq)
    BY <1>3, <2>1, EntryState
  <2>5. job[j].retained => Owns(job, grp, j)
    BY <2>4 DEF Owns, Fits, Marked
  <2> QED BY <2>3, <2>5 DEF Closes
<1> HIDE DEF out
<1>6. IsFiniteSet(Holders(job, grp)) /\ Cardinality(Holders(job, grp)) = grp.active
  BY <1>3, HoldersFinite DEF Core, Slotted
<1>7. Holders(job, grp) \cap out = K
  BY <1>4, <1>5 DEF Holders
<1>8. /\ IsFiniteSet(K) /\ kept \in Nat /\ kept <= grp.active
      /\ Cardinality(Holders(job, grp) \ out) = grp.active - kept
  <2>1. K \in SUBSET Holders(job, grp)
    BY <1>7
  <2> HIDE DEF K
  <2>2. IsFiniteSet(K) /\ Cardinality(K) <= Cardinality(Holders(job, grp))
    BY <1>6, <2>1, FS_Subset
  <2>3. Cardinality(K) \in Nat
    BY <2>2, FS_CardinalityType
  <2>4. Cardinality(Holders(job, grp) \ out) = Cardinality(Holders(job, grp)) - Cardinality(Holders(job, grp) \cap out)
    BY <1>6, FS_Difference
  <2>5. Cardinality(Holders(job, grp) \cap out) = Cardinality(K)
    BY <1>7
  <2> QED BY <1>6, <2>2, <2>3, <2>4, <2>5
<1>9. (kept = 0 => K = {})
  <2> HIDE DEF K
  <2> QED BY <1>8, FS_EmptySet
<1> HIDE DEF K, kept
<1>10. gone \in JobRecord /\ Fits(gone) /\ gone.state = "gone" /\ gone.seq = 0 /\ ~gone.retained
  <2>1. gone \in JobRecord /\ gone.state = "gone" /\ gone.seq = 0 /\ gone.retained = FALSE /\ gone.entry = "none"
    BY DEF NewJob, JobRecord, States, Pending, Places
  <2> HIDE DEF gone
  <2> QED BY <2>1 DEF Pending, Fits
<1> HIDE DEF gone
<1>11. /\ jb \in [Jobs -> JobRecord]
       /\ (\A j \in out : jb[j] = gone) /\ (\A j \in Jobs \ out : jb[j] = job[j])
  BY <1>3, <1>4, <1>10
<1>12. seqs \subseteq 1..grp.issued
  <2> SUFFICES ASSUME NEW j \in out PROVE job[j].seq \in 1..grp.issued
    OBVIOUS
  <2>1. j \in Jobs /\ job[j].state \in {"waiting", "delayed"}
    BY <1>4
  <2>2. Fits(job[j]) /\ job[j].seq <= grp.issued /\ job[j].seq \in Nat
    BY <1>3, <2>1 DEF Core, AllFit, Sequenced
  <2>3. job[j].seq /= 0
    BY <2>1, <2>2 DEF Fits
  <2> QED BY <1>3, <2>2, <2>3
<1>13. \A j \in out : job[j].seq \in seqs
  OBVIOUS
<1>14. \A k \in Jobs \ out : job[k].seq /= 0 => job[k].seq \notin seqs
  BY <1>3, <1>4 DEF Core, Sequenced
<1> HIDE DEF jb, seqs
<1>15. /\ g \in GrpRecord /\ g.active = grp.active - kept /\ g.skips = grp.skips \cup seqs
       /\ g.returning = grp.returning \ out /\ g.nextSeq = grp.nextSeq /\ g.issued = grp.issued
       /\ g.parked = grp.parked /\ g.resume = grp.resume /\ g.count = grp.count
  <2> DEFINE a == IF grp.active > kept THEN grp.active - kept ELSE 0
  <2>1. g = [grp EXCEPT !.skips = grp.skips \cup seqs, !.returning = grp.returning \ out, !.active = a]
    OBVIOUS
  <2>2. a \in Nat /\ a = grp.active - kept
    BY <1>3, <1>8
  <2>3. grp.skips \cup seqs \in SUBSET Nat
    <3>1. \A n \in 1..grp.issued : n \in Nat
      BY <1>3
    <3>2. \A n \in grp.skips : n \in Nat
      BY <1>3
    <3> QED BY <1>12, <3>1, <3>2
  <2> HIDE DEF g, a
  <2> QED BY <1>3, <2>1, <2>2, <2>3 DEF GrpRecord
<1> HIDE DEF g
<1>16. Typed(jb, g)
  BY <1>3, <1>11, <1>15 DEF Core, Typed
<1>17. AllFit(jb)
  <2> SUFFICES ASSUME NEW j \in Jobs PROVE Fits(jb[j])
    BY DEF AllFit
  <2> QED BY <1>3, <1>10, <1>11 DEF Core, AllFit
<1>18. gone.state \notin Pending
  BY <1>10 DEF Pending
<1>19. Sequenced(jb, g)
  <2>1. ASSUME NEW n \in g.nextSeq..g.issued PROVE Taken(jb, g, n)
    <3>1. Taken(job, grp, n)
      BY <1>3, <1>15 DEF Core, Sequenced
    <3>2. ASSUME NEW k \in Jobs, job[k].state \in Pending, job[k].seq = n PROVE Taken(jb, g, n)
      <4>1. CASE k \in out
        BY <1>13, <1>15, <3>2, <4>1 DEF Taken
      <4>2. CASE k \notin out
        BY <1>11, <3>2, <4>2 DEF Taken
      <4> QED BY <4>1, <4>2
    <3> QED BY <1>15, <3>1, <3>2 DEF Taken
  <2>2. \A k, l \in Jobs : jb[k].seq = jb[l].seq /\ jb[k].seq /= 0 => k = l
    <3> SUFFICES ASSUME NEW k \in Jobs, NEW l \in Jobs, jb[k].seq = jb[l].seq, jb[k].seq /= 0
                 PROVE  k = l
      OBVIOUS
    <3>1. k \notin out /\ l \notin out
      BY <1>10, <1>11
    <3> QED BY <1>3, <1>11, <3>1 DEF Core, Sequenced
  <2>3. \A k \in Jobs : jb[k].seq <= g.issued
    <3> SUFFICES ASSUME NEW k \in Jobs PROVE jb[k].seq <= g.issued
      OBVIOUS
    <3>1. CASE k \in out
      BY <1>3, <1>10, <1>11, <1>15, <3>1
    <3>2. CASE k \notin out
      BY <1>3, <1>11, <1>15, <3>2 DEF Core, Sequenced
    <3> QED BY <3>1, <3>2
  <2>4. ASSUME NEW k \in Jobs, jb[k].state \in Pending PROVE jb[k].seq \notin g.skips
    <3>1. k \notin out /\ jb[k] = job[k]
      BY <1>11, <1>18, <2>4
    <3>2. job[k].seq \notin grp.skips /\ Fits(job[k])
      BY <1>3, <2>4, <3>1 DEF Core, Sequenced, AllFit
    <3>3. job[k].seq /= 0
      BY <2>4, <3>1, <3>2 DEF Fits, Pending
    <3> QED BY <1>14, <1>15, <3>1, <3>2, <3>3
  <2>5. g.nextSeq <= g.issued + 1 /\ g.skips \subseteq 1..g.issued
    BY <1>3, <1>12, <1>15 DEF Core, Sequenced
  <2> QED BY <2>1, <2>2, <2>3, <2>4, <2>5 DEF Sequenced
<1>20. Holders(jb, g) = Holders(job, grp) \ out
  <2>1. \A k \in out : ~Owns(jb, g, k)
    BY <1>11, <1>18 DEF Owns
  <2>2. \A k \in Jobs \ out : Owns(jb, g, k) <=> Owns(job, grp, k)
    BY <1>11, <1>15 DEF Owns
  <2> QED BY <2>1, <2>2 DEF Holders
<1>21. Slotted(jb, g)
  <2>1. ASSUME NEW k \in Jobs PROVE Marked(jb[k], g.nextSeq)
    <3>1. CASE k \in out
      BY <1>10, <1>11, <3>1 DEF Marked
    <3>2. CASE k \notin out
      BY <1>3, <1>11, <1>15, <3>2 DEF Core, Slotted
    <3> QED BY <3>1, <3>2
  <2>2. g.active = Cardinality(Holders(jb, g))
    BY <1>8, <1>15, <1>20
  <2>3. g.active <= MaxConcurrency
    <3>1. grp.active <= MaxConcurrency
      BY <1>3 DEF Core, Slotted
    <3> QED BY <1>3, <1>8, <1>15, <3>1
  <2> QED BY <2>1, <2>2, <2>3 DEF Slotted
<1>22. \A k \in Jobs : jb[k].state = "parked" <=> job[k].state = "parked"
  BY <1>4, <1>10, <1>11
<1>23. Queued(jb, g)
  <2>1. {p.id : p \in g.parked} = {k \in Jobs : jb[k].state = "parked"}
    <3>1. {p.id : p \in grp.parked} = {k \in Jobs : job[k].state = "parked"}
      BY <1>3 DEF Core, Queued
    <3> QED BY <1>15, <1>22, <3>1
  <2>2. \A p \in g.parked : p.id \in g.returning \/ p.score = jb[p.id].seq
    <3>1. \A p \in grp.parked : job[p.id].state = "parked"
      BY <1>3 DEF Core, Queued
    <3>2. \A p \in grp.parked : p.id \notin out
      BY <1>4, <3>1
    <3> QED BY <1>3, <1>11, <1>15, <3>2 DEF Core, Queued
  <2>3. \A k \in g.returning : jb[k].retained
    <3>1. \A k \in grp.returning : job[k].retained
      BY <1>3 DEF Core, Queued
    <3> QED BY <1>3, <1>11, <1>15, <3>1
  <2>4. /\ \A p, r \in g.parked : p.id = r.id => p = r
        /\ g.returning /= {} => g.resume /= "none"
    BY <1>3, <1>15 DEF Core, Queued
  <2> QED BY <2>1, <2>2, <2>3, <2>4 DEF Queued
<1>24. Core(jb, g)
  BY <1>16, <1>17, <1>19, <1>21, <1>23 DEF Core
<1>25. CASE g.resume = "later" /\ Settle(jb, g)
  BY <1>24, <1>25 DEF Settle, Good, Served
<1>26. CASE Wake(jb, g, timed)
  <2>1. ASSUME g.active >= MaxConcurrency PROVE Served(jb, g)
    <3> SUFFICES ASSUME g.resume = "none", g.parked /= {} PROVE Busy(jb, g)
      BY DEF Served, Woken
    <3>1. grp.active <= MaxConcurrency
      BY <1>3 DEF Core, Slotted
    <3>2. kept = 0 /\ ~(grp.active < MaxConcurrency)
      BY <1>3, <1>8, <1>15, <2>1, <3>1
    <3>3. Busy(job, grp)
      BY <1>3, <1>15, <3>2 DEF Served, Woken
    <3>4. PICK k \in Jobs : Owns(job, grp, k) /\ job[k].state /= "parked"
      BY <3>3 DEF Busy
    <3>5. k \notin out
      BY <1>5, <1>9, <3>2, <3>4 DEF K
    <3> QED BY <1>11, <1>15, <3>4, <3>5 DEF Busy, Owns
  <2> QED BY <1>2, <1>24, <1>26, <2>1, WakeGood
<1> QED BY <1>1, <1>25, <1>26

LEMMA GroupGood ==
  ASSUME Options, Good(job, grp), PauseGroup \/ ResumeDue \/ WindowEnds
  PROVE  Good(job', grp')
<1>1. Core(job, grp) /\ grp \in GrpRecord /\ grp.count <= MaxCount
  BY CoreFacts DEF Good
<1>2. CASE PauseGroup
  BY <1>1, <1>2, ResumeGood DEF PauseGroup
<1>3. CASE ResumeDue
  BY <1>1, <1>3, ResumeGood DEF ResumeDue
<1>4. CASE WindowEnds
  <2> DEFINE h == [grp EXCEPT !.open = FALSE]
  <2>1. SameQueue(grp, h)
    BY <1>1 DEF SameQueue, SameBook, GrpRecord
  <2> HIDE DEF h
  <2>2. Good(job, h)
    BY <2>1, WindowGood
  <2> QED BY <1>4, <2>2 DEF WindowEnds, h
<1> QED BY <1>2, <1>3, <1>4

(* A promotion loop reads only the sequence numbers of the jobs. *)
LEMMA PromotableSame ==
  ASSUME NEW jb, NEW kb, NEW g \in GrpRecord, \A j \in Jobs : kb[j].seq = jb[j].seq,
         NEW slots, NEW one
  PROVE  Promotable(jb, g, slots, one) = Promotable(kb, g, slots, one)
<1> DEFINE ahead(p)   == {r \in g.parked : Before(r, p)}
           movedJ(p)  == {r \in ahead(p) : one \/ jb[r.id].seq >= g.nextSeq}
           movedK(p)  == {r \in ahead(p) : one \/ kb[r.id].seq >= g.nextSeq}
           dueJ(p)    == jb[p.id].seq <= g.nextSeq + Cardinality(movedJ(p))
           dueK(p)    == kb[p.id].seq <= g.nextSeq + Cardinality(movedK(p))
           first(r)   == Cardinality(ahead(r)) < slots
<1>1. \A p \in g.parked : kb[p.id].seq = jb[p.id].seq
  BY DEF GrpRecord
<1>2. \A p : movedJ(p) = movedK(p)
  BY <1>1
<1> HIDE DEF movedJ, movedK
<1>3. \A p \in g.parked : dueJ(p) <=> dueK(p)
  BY <1>1, <1>2
<1>4. \A r \in g.parked : \A s \in ahead(r) : s \in g.parked
  OBVIOUS
<1>5. Promotable(jb, g, slots, one)
      = {p.id : p \in {r \in g.parked : first(r) /\ dueJ(r) /\ \A s \in ahead(r) : dueJ(s)}}
  BY DEF Promotable, movedJ
<1>6. Promotable(kb, g, slots, one)
      = {p.id : p \in {r \in g.parked : first(r) /\ dueK(r) /\ \A s \in ahead(r) : dueK(s)}}
  BY DEF Promotable, movedK
<1> HIDE DEF dueJ, dueK, ahead, first
<1>7. {r \in g.parked : first(r) /\ dueJ(r) /\ \A s \in ahead(r) : dueJ(s)}
      = {r \in g.parked : first(r) /\ dueK(r) /\ \A s \in ahead(r) : dueK(s)}
  BY <1>3, <1>4
<1> QED BY <1>5, <1>6, <1>7

(* The sweep lets go of the returning jobs first. *)
LEMMA SweptCore ==
  ASSUME Options, NEW jb, NEW a, Core(jb, a), NEW back \in SUBSET Jobs,
         \A i \in Jobs : i \in back <=> i \in a.returning /\ jb[i].state = "parked",
         NEW rest \in GrpRecord, SameBook(a, rest), rest.count = a.count,
         rest.parked = {p \in a.parked : p.id \notin back}, rest.returning = {}, rest.resume = "none"
  PROVE  /\ Core(ToStream(jb, back), rest) /\ SameJobs(jb, ToStream(jb, back))
         /\ \A p \in rest.parked : p.score = jb[p.id].seq
<1> DEFINE kb == ToStream(jb, back)
           h  == Unpark(a, back)
<1>1. Core(kb, h) /\ SameJobs(jb, kb)
  BY PromoteCore
<1>2. a \in GrpRecord /\ (\A p \in a.parked : p.id \in Jobs) /\ a.count <= MaxCount
  BY CoreFacts
<1>3. SameBook(a, h) /\ h.parked = {p \in a.parked : p.id \notin back} /\ h.returning = a.returning
  BY <1>2, UnparkFacts
<1> HIDE DEF kb, h
<1>4. \A p \in rest.parked : p.score = jb[p.id].seq
  <2> SUFFICES ASSUME NEW p \in a.parked, p.id \notin back PROVE p.score = jb[p.id].seq
    OBVIOUS
  <2>1. p.id \in Jobs /\ jb[p.id].state = "parked"
    BY <1>2 DEF Core, Queued
  <2>2. p.id \notin a.returning
    BY <2>1
  <2> QED BY <2>2 DEF Core, Queued
<1>5. Queued(kb, rest)
  <2>1. {p.id : p \in rest.parked} = {k \in Jobs : kb[k].state = "parked"}
    <3>1. {p.id : p \in h.parked} = {k \in Jobs : kb[k].state = "parked"}
      BY <1>1 DEF Core, Queued
    <3> QED BY <1>3, <3>1
  <2>2. \A p \in rest.parked : p.score = kb[p.id].seq
    BY <1>1, <1>2, <1>4 DEF SameJobs
  <2>3. \A p, r \in rest.parked : p.id = r.id => p = r
    BY DEF Core, Queued
  <2> QED BY <2>1, <2>2, <2>3 DEF Queued
<1>6. SameBook(h, rest) /\ SameJobs(kb, kb)
  BY <1>3 DEF SameBook, SameJobs
<1>7. Typed(kb, rest)
  BY <1>1, <1>2, <1>3 DEF Core, Typed, SameBook
<1>8. AllFit(kb) /\ \A k \in Jobs : Marked(kb[k], h.nextSeq)
  BY <1>1 DEF Core, Slotted
<1>9. Core(kb, rest)
  BY <1>1, <1>5, <1>6, <1>7, <1>8, SameCore
<1> QED BY <1>1, <1>4, <1>9 DEF kb

LEMMA SweepGood ==
  ASSUME Options, Good(job, grp), Sweep
  PROVE  Good(job', grp')
<1> DEFINE a     == Advance(grp)
           g     == [a EXCEPT !.resume = "none"]
           free  == MaxConcurrency - grp.active
           room  == IF RateMax > 0 THEN Least(RateMax, free) ELSE free
           back  == {j \in g.returning : job[j].state = "parked" /\ Waiting(g, j)}
           u     == Unpark(g, back)
           rest  == [u EXCEPT !.returning = {}]
           early == {p \in g.parked : job[p.id].seq < g.nextSeq}
           first == CHOOSE p \in early : \A r \in early : r = p \/ Before(p, r)
           one   == FALSE
           ids   == Promotable(job, rest, room, one)
           kb    == ToStream(job, back)
<1>1. \/ (back /= {} \/ room > 0 \/ early = {}) /\ Promote(job, rest, back \cup ids)
      \/ back = {} /\ early /= {} /\ Promote(job, rest, {first.id})
  BY DEF Sweep
<1> HIDE DEF one
<1>2. /\ Core(job, grp) /\ job \in [Jobs -> JobRecord]
      /\ grp.active \in Nat /\ MaxConcurrency \in Nat \ {0} /\ RateMax \in Nat
      /\ \A j \in Jobs : job[j].seq \in Nat
  BY CoreFacts, Sizes DEF Good
<1>3. /\ Core(job, a) /\ a \in GrpRecord /\ a.active = grp.active /\ a.nextSeq \notin a.skips
      /\ a.nextSeq \in Nat /\ a.returning \subseteq Jobs /\ \A p \in a.parked : p.id \in Jobs
  <2>1. Core(job, a)
    BY <1>2, AdvanceCore
  <2>2. /\ a.active = grp.active /\ a.nextSeq \notin grp.skips
        /\ a.skips = grp.skips \ (grp.nextSeq..(a.nextSeq - 1))
    BY <1>2, AdvanceFacts
  <2> HIDE DEF a
  <2> QED BY <2>1, <2>2, CoreFacts
<1> HIDE DEF a
<1>4. /\ g \in GrpRecord /\ SameBook(a, g) /\ g.parked = a.parked /\ g.returning = a.returning
      /\ g.resume = "none" /\ g.count = a.count
  BY <1>3 DEF GrpRecord, SameBook
<1> HIDE DEF g
<1>5. back \in SUBSET Jobs /\ \A i \in Jobs : i \in back <=> i \in a.returning /\ job[i].state = "parked"
  <2>1. back \in SUBSET Jobs
    BY <1>3, <1>4
  <2>2. \A i \in Jobs : job[i].state = "parked" => Waiting(g, i)
    <3>1. {p.id : p \in a.parked} = {j \in Jobs : job[j].state = "parked"}
      BY <1>3 DEF Core, Queued
    <3> QED BY <1>4, <3>1 DEF Waiting
  <2> QED BY <1>4, <2>1, <2>2
<1> HIDE DEF back
<1>6. /\ u \in GrpRecord /\ SameBook(g, u) /\ u.parked = {p \in g.parked : p.id \notin back}
      /\ u.resume = g.resume /\ u.count = g.count
  BY <1>4, UnparkFacts
<1> HIDE DEF u
<1>7. /\ rest \in GrpRecord /\ SameBook(a, rest) /\ rest.count = a.count
      /\ rest.parked = {p \in a.parked : p.id \notin back} /\ rest.returning = {} /\ rest.resume = "none"
  BY <1>4, <1>6 DEF GrpRecord, SameBook
<1> HIDE DEF rest
<1>8. Core(kb, rest) /\ SameJobs(job, kb) /\ \A p \in rest.parked : p.score = job[p.id].seq
  BY <1>3, <1>5, <1>7, SweptCore
<1>9. /\ kb \in [Jobs -> JobRecord]
      /\ \A j \in Jobs : j \in back => kb[j].state = "waiting" /\ kb[j].entry = "stream"
      /\ \A j \in Jobs : j \notin back => kb[j] = job[j]
  BY <1>2, <1>5, ToStreamFacts
<1>10. \A p \in rest.parked : p.score = kb[p.id].seq
  BY <1>3, <1>7, <1>8 DEF SameJobs
<1>11. rest.nextSeq \notin rest.skips /\ rest.active = grp.active /\ rest.nextSeq = a.nextSeq
  BY <1>3, <1>7 DEF SameBook
<1>12. \A j \in Jobs : Owns(kb, rest, j) <=> Owns(job, a, j)
  BY <1>7, <1>8, SameOwners
\* A job that owns a slot and is moved, or was never parked, is awake afterwards.
<1>13. ASSUME NEW is \in SUBSET Jobs, \A i \in is : kb[i].state = "parked",
              NEW j \in Jobs, Owns(kb, rest, j), j \in is \/ kb[j].state /= "parked"
       PROVE  Good(ToStream(kb, is), Unpark(rest, is))
  <2> DEFINE lb == ToStream(kb, is)
             h  == Unpark(rest, is)
  <2>1. Core(lb, h) /\ SameJobs(kb, lb)
    BY <1>8, <1>13, PromoteCore
  <2>2. lb[j].state /= "parked"
    BY <1>9, <1>13, ToStreamFacts
  <2>3. SameBook(rest, h)
    BY <1>7, UnparkFacts
  <2> HIDE DEF lb, h
  <2>4. Owns(lb, h, j)
    BY <1>13, <2>1, <2>3, SameOwners
  <2>5. Good(lb, h)
    BY <2>1, <2>2, <2>4 DEF Good, Served, Woken, Busy
  <2> QED BY <2>5 DEF lb, h
<1> HIDE DEF kb
<1>14. CASE (back /= {} \/ room > 0 \/ early = {}) /\ Promote(job, rest, back \cup ids)
  <2>1. ids = Promotable(kb, rest, room, one)
    BY <1>7, <1>8, PromotableSame DEF SameJobs
  <2> HIDE DEF ids
  <2>2. ids \in SUBSET Jobs /\ \A i \in ids : kb[i].state = "parked"
    BY <1>7, <1>8, <2>1, PromotableFacts DEF Core
  <2>3. ToStream(job, back \cup ids) = ToStream(kb, ids)
    <3>1. ASSUME NEW j \in Jobs
          PROVE  (IF j \in back \cup ids THEN [job[j] EXCEPT !.state = "waiting", !.entry = "stream"] ELSE job[j])
                 = (IF j \in ids THEN [kb[j] EXCEPT !.state = "waiting", !.entry = "stream"] ELSE kb[j])
      <4>1. j \in ids => j \notin back
        BY <1>9, <2>2
      <4>2. kb[j] = IF j \in back THEN [job[j] EXCEPT !.state = "waiting", !.entry = "stream"] ELSE job[j]
        BY DEF kb, ToStream
      <4> QED BY <4>1, <4>2
    <3> QED BY <3>1 DEF ToStream
  <2>4. Unpark(rest, back \cup ids) = Unpark(rest, ids)
    <3>1. {p \in rest.parked : p.id \notin back \cup ids} = {p \in rest.parked : p.id \notin ids}
      BY <1>7
    <3> QED BY <3>1 DEF Unpark
  <2>5. job' = ToStream(kb, ids) /\ grp' = Unpark(rest, ids)
    BY <1>14, <2>3, <2>4 DEF Promote, Settle
  <2>6. CASE room > 0
    <3>1. room \in Int /\ free > 0
      <4>1. free \in Int
        BY <1>2
      <4> HIDE DEF free
      <4> QED BY <1>2, <2>6, <4>1 DEF Least
    <3>2. rest.active < MaxConcurrency
      BY <1>2, <1>11, <3>1
    <3> HIDE DEF room, free
    <3>3. Served(ToStream(kb, ids), Unpark(rest, ids))
      BY <1>8, <1>10, <1>11, <2>1, <2>6, <3>1, <3>2, PromotedServed
    <3>4. Core(ToStream(kb, ids), Unpark(rest, ids))
      BY <1>8, <2>2, PromoteCore
    <3> QED BY <2>5, <3>3, <3>4 DEF Good
  <2>7. CASE back /= {}
    <3>1. PICK j \in back : TRUE
      BY <2>7
    <3>2. j \in Jobs /\ job[j].retained
      BY <1>3, <1>5 DEF Core, Queued
    <3>3. Owns(job, a, j)
      <4>1. Fits(job[j]) /\ Marked(job[j], a.nextSeq)
        BY <1>3, <3>2 DEF Core, AllFit, Slotted
      <4> QED BY <3>2, <4>1 DEF Owns, Fits, Marked
    <3>4. kb[j].state /= "parked" /\ Owns(kb, rest, j)
      BY <1>9, <1>12, <3>2, <3>3
    <3> QED BY <1>13, <2>2, <2>5, <3>2, <3>4
  <2>8. CASE ~(room > 0) /\ back = {} /\ early = {}
    <3>1. ~(free > 0)
      <4>1. free \in Int
        BY <1>2
      <4> HIDE DEF free
      <4> QED BY <1>2, <2>8, <4>1 DEF Least
    <3>2. a.active /= 0
      BY <1>2, <1>3, <3>1
    <3>3. Holders(job, a) /= {}
      <4>1. a.active = Cardinality(Holders(job, a))
        BY <1>3 DEF Core, Slotted
      <4> QED BY <3>2, <4>1, FS_EmptySet
    <3>4. PICK j \in Jobs : Owns(job, a, j)
      BY <3>3 DEF Holders
    <3>5. job[j].state /= "parked"
      <4> SUFFICES ASSUME job[j].state = "parked" PROVE FALSE
        OBVIOUS
      <4>1. PICK p \in a.parked : p.id = j
        BY <1>3 DEF Core, Queued
      <4>2. p \in g.parked /\ job[p.id].seq < g.nextSeq
        BY <1>4, <3>4, <4>1 DEF SameBook, Owns
      <4>3. p \in early
        BY <4>2
      <4> HIDE DEF early
      <4> QED BY <2>8, <4>3
    <3>6. Owns(kb, rest, j) /\ kb[j].state /= "parked"
      BY <1>9, <1>12, <2>8, <3>4, <3>5
    <3> QED BY <1>13, <2>2, <2>5, <3>6
  <2> HIDE DEF early, room
  <2> QED BY <1>14, <2>6, <2>7, <2>8
<1>15. CASE back = {} /\ early /= {} /\ Promote(job, rest, {first.id})
  <2>1. rest.parked = g.parked
    BY <1>4, <1>7, <1>15
  <2>2. kb = job
    <3>1. kb \in [Jobs -> JobRecord] /\ \A j \in Jobs : kb[j] = job[j]
      BY <1>9, <1>15
    <3> QED BY <1>2, <3>1
  <2>3. \E p \in early : \A r \in early : r = p \/ Before(p, r)
    <3>1. PICK e \in g.parked : job[e.id].seq < g.nextSeq
      BY <1>15
    <3>2. PICK p \in rest.parked : \A r \in rest.parked : ~Before(r, p) /\ p.score <= r.score
      <4>1. rest.parked /= {}
        BY <2>1, <3>1
      <4> QED BY <1>8, <1>10, <4>1, FirstParked
    <3>3. \A r \in rest.parked : r.id \in Jobs /\ r.id \in Nat /\ r.score \in Nat /\ r.score = job[r.id].seq
      BY <1>7, <1>8, Sizes DEF GrpRecord
    <3>4. g.nextSeq \in Nat
      BY <1>3, <1>4 DEF SameBook
    <3>5. p \in early
      <4>1. p.score <= e.score /\ e.score = job[e.id].seq /\ p.score = job[p.id].seq
        BY <2>1, <3>1, <3>2, <3>3
      <4>2. job[p.id].seq < g.nextSeq
        BY <2>1, <3>1, <3>3, <3>4, <4>1
      <4> QED BY <2>1, <4>2
    <3>6. ASSUME NEW r \in early PROVE r = p \/ Before(p, r)
      <4>1. r \in rest.parked
        BY <2>1
      <4>2. ~Before(r, p) /\ p.score <= r.score
        BY <3>2, <4>1
      <4>3. r.id = p.id => r = p
        BY <1>8, <4>1 DEF Core, Queued
      <4> HIDE DEF early
      <4> QED BY <3>3, <4>1, <4>2, <4>3 DEF Before
    <3> QED BY <3>5, <3>6
  <2>4. first \in early
    <3> HIDE DEF early
    <3> QED BY <2>3
  <2> HIDE DEF first
  <2>5. first \in rest.parked /\ job[first.id].seq < g.nextSeq
    BY <2>1, <2>4
  <2> DEFINE j == first.id
  <2>6. j \in Jobs /\ job[j].state = "parked"
    <3>1. {p.id : p \in rest.parked} = {k \in Jobs : kb[k].state = "parked"}
      BY <1>8 DEF Core, Queued
    <3> QED BY <2>2, <2>5, <3>1
  <2>7. Owns(job, a, j)
    BY <1>4, <2>5, <2>6 DEF Owns, SameBook, Pending
  <2> HIDE DEF j
  <2>8. Owns(kb, rest, j) /\ {j} \in SUBSET Jobs /\ j \in {j} /\ \A i \in {j} : kb[i].state = "parked"
    BY <1>12, <2>2, <2>6, <2>7
  <2>9. Good(ToStream(kb, {j}), Unpark(rest, {j}))
    BY <1>13, <2>6, <2>8
  <2> QED BY <1>15, <2>2, <2>9 DEF Promote, Settle, j
<1> HIDE DEF early, room, first, ids
<1> QED BY <1>1, <1>14, <1>15

-----------------------------------------------------------------------------
(* The invariant *)

LEMMA InitGood ==
  ASSUME Init
  PROVE  IInv
<1>1. Options /\ \A j \in Jobs : job[j] = NewJob
  BY DEF Init, Options
<1>2. /\ grp.active = 0 /\ grp.nextSeq = 1 /\ grp.skips = {} /\ grp.parked = {} /\ grp.returning = {}
      /\ grp.resume = "none" /\ grp.open = FALSE /\ grp.count = 0 /\ grp.issued = 0
  BY DEF Init
<1>3. MaxSeq \in Nat /\ MaxCount \in Nat /\ MaxConcurrency \in Nat \ {0}
  BY <1>1, Sizes
<1>4. NewJob \in JobRecord
  BY DEF NewJob, JobRecord, States, Places
<1>5. Typed(job, grp)
  <2>1. job \in [Jobs -> JobRecord]
    BY <1>4 DEF Init
  <2>2. grp \in GrpRecord
    BY DEF Init, GrpRecord
  <2> QED BY <1>2, <1>3, <2>1, <2>2 DEF Typed
<1>6. AllFit(job)
  BY <1>1 DEF AllFit, Fits, NewJob, Pending, Held
<1>7. Sequenced(job, grp)
  <2>1. \A j \in Jobs : job[j].seq = 0 /\ job[j].state = "new"
    BY <1>1 DEF NewJob
  <2>2. grp.nextSeq..grp.issued = {}
    BY <1>2
  <2> QED BY <1>2, <2>1, <2>2 DEF Sequenced, Pending
<1>8. Slotted(job, grp)
  <2>1. Holders(job, grp) = {}
    BY <1>1 DEF Holders, Owns, NewJob, Pending
  <2>2. \A j \in Jobs : Marked(job[j], grp.nextSeq)
    BY <1>1 DEF Marked, NewJob
  <2> QED BY <1>2, <1>3, <2>1, <2>2, FS_EmptySet DEF Slotted
<1>9. Queued(job, grp) /\ Served(job, grp)
  BY <1>1, <1>2 DEF Queued, Served, NewJob
<1> QED BY <1>1, <1>5, <1>6, <1>7, <1>8, <1>9 DEF IInv, Good, Core, Options

(* One case for each operation of the key. *)
LEMMA StepGood ==
  ASSUME Options, Good(job, grp), Races = {}, Step
  PROVE  Good(job', grp')
<1>1. ASSUME NEW j \in Jobs, WorkerStep(j) \/ FetchNext(j) PROVE Good(job', grp')
  <2>1. CASE Claim(j)
    BY <2>1, ClaimGood
  <2>2. CASE MoveToActive(j)
    BY <2>2, MoveToActiveGood
  <2>3. CASE Start(j)
    BY <2>3, StartGood
  <2>4. CASE Complete(j)
    BY <2>4, CompleteGood
  <2>5. CASE Fail(j)
    BY <2>5, FailGood
  <2>6. CASE FetchNext(j)
    BY <2>6, FetchNextGood
  <2> QED BY <1>1, <2>1, <2>2, <2>3, <2>4, <2>5, <2>6 DEF WorkerStep
<1>2. ASSUME NEW j \in Jobs, Recovery(j) \/ Awaken(j) \/ Expire(j) PROVE Good(job', grp')
  <2>1. CASE Redispatch(j)
    BY <2>1, RedispatchGood
  <2>2. CASE GiveUp(j)
    BY <2>2, FailGood
  <2>3. CASE Signal(j)
    BY <2>3, RedispatchGood
  <2>4. CASE SuspendTimeout(j)
    BY <2>4, SuspendTimeoutGood
  <2>5. CASE Expire(j)
    BY <2>5, ExpireGood
  <2> QED BY <1>2, <2>1, <2>2, <2>3, <2>4, <2>5 DEF Recovery, Awaken
<1>3. ASSUME NEW j \in Jobs, Revoke(j) \/ Remove(j) \/ PromoteDelayed(j) PROVE Good(job', grp')
  <2>1. CASE Revoke(j)
    BY <2>1, RevokeGood
  <2>2. CASE Remove(j)
    BY <2>2, RemoveGood
  <2>3. CASE PromoteDelayed(j)
    BY <2>3, RedispatchGood
  <2> QED BY <1>3, <2>1, <2>2, <2>3
<1>4. ASSUME NEW j \in Jobs, NEW delayed \in BOOLEAN, AddJob(j, delayed) PROVE Good(job', grp')
  BY <1>4, AddJobGood
<1>5. ASSUME NEW delayed \in BOOLEAN, Drain(delayed) PROVE Good(job', grp')
  BY <1>5, DrainGood
<1>6. ASSUME Sweep \/ ResumeDue \/ WindowEnds \/ PauseGroup PROVE Good(job', grp')
  <2>1. CASE Sweep
    BY <2>1, SweepGood
  <2>2. CASE PauseGroup \/ ResumeDue \/ WindowEnds
    BY <2>2, GroupGood
  <2> QED BY <1>6, <2>1, <2>2
<1>7. ASSUME NEW j \in Jobs, NEW s \in {"delayed", "suspended"}, Yield(j, s) PROVE Good(job', grp')
  BY <1>7, YieldGood
<1>8. ASSUME NEW j \in Jobs, NEW front \in BOOLEAN, LimitRequeue(j, front) PROVE Good(job', grp')
  BY <1>8, LimitRequeueGood
<1>9. ASSUME NEW j \in Jobs, LimitFail(j) \/ Crash(j) \/ HandBack(j) \/ UndoClaim(j) \/ Retry(j)
      PROVE  Good(job', grp')
  <2>1. CASE LimitFail(j)
    BY <2>1, LimitFailGood
  <2>2. CASE Crash(j)
    BY <2>2, CrashGood
  <2>3. CASE HandBack(j)
    BY <2>3, HandBackGood
  <2>4. CASE UndoClaim(j)
    BY <2>4, UndoClaimGood
  <2>5. CASE Retry(j)
    BY <2>5, RetryGood
  <2> QED BY <1>9, <2>1, <2>2, <2>3, <2>4, <2>5
<1>10. CASE Disturb
  BY <1>6, <1>7, <1>8, <1>9, <1>10 DEF Disturb
<1> QED BY <1>1, <1>2, <1>3, <1>4, <1>5, <1>6, <1>10 DEF Step

(* The options of a key do not change, and the invariant is read with them. *)
LEMMA NextGood ==
  ASSUME IInv, Races = {}, [Next]_vars
  PROVE  IInv'
<1>1. Options /\ Good(job, grp)
  BY DEF IInv, Options
<1>2. ordering' = ordering
  BY DEF Next, vars
<1>3. Good(job', grp')
  <2>1. CASE Next
    BY <1>1, <2>1, StepGood DEF Next
  <2>2. CASE UNCHANGED vars
    BY <1>1, <2>2 DEF vars
  <2> QED BY <2>1, <2>2
<1>4. MaxSeq' = MaxSeq /\ MaxCount' = MaxCount /\ MaxConcurrency' = MaxConcurrency
  BY <1>2 DEF MaxSeq, MaxCount, MaxConcurrency
<1>5. Core(job, grp)'
  <2>1. Typed(job, grp)' /\ Slotted(job, grp)'
    BY <1>3, <1>4 DEF Good, Core, Typed, Slotted
  <2>2. AllFit(job)' /\ Sequenced(job, grp)' /\ Queued(job, grp)'
    BY <1>3 DEF Good, Core
  <2> QED BY <2>1, <2>2 DEF Core
<1>6. Served(job, grp)'
  BY <1>3, <1>4 DEF Good, Served, Woken
<1> QED BY <1>1, <1>2, <1>5, <1>6 DEF IInv, Good, Options

-----------------------------------------------------------------------------
(* What the invariant says of the key *)

LEMMA TypeHolds ==
  ASSUME IInv
  PROVE  TypeOK
<1>1. Options /\ Core(job, grp)
  BY DEF IInv, Good, Options
<1>2. /\ job \in [Jobs -> JobRecord] /\ grp \in GrpRecord /\ grp.issued <= MaxSeq /\ grp.count <= MaxCount
      /\ grp.issued \in Nat /\ grp.count \in Nat /\ grp.nextSeq \in Nat \ {0} /\ grp.active \in Nat
  BY <1>1, CoreFacts
<1>3. MaxSeq \in Nat /\ MaxCount \in Nat /\ MaxJobs \in Nat
  BY <1>1, Sizes
<1>4. grp.active \in 0..MaxJobs
  <2>1. grp.active = Cardinality(Holders(job, grp)) /\ Cardinality(Holders(job, grp)) <= MaxJobs
    BY <1>1, HoldersFinite DEF Core, Slotted
  <2> QED BY <1>2, <1>3, <2>1
<1>5. grp.nextSeq \in 1..(MaxSeq + 1) /\ grp.issued \in 0..MaxSeq /\ grp.count \in 0..MaxCount
  <2>1. grp.nextSeq <= grp.issued + 1
    BY <1>1 DEF Core, Sequenced
  <2> QED BY <1>2, <1>3, <2>1
<1>6. grp.skips \in SUBSET Seqs
  <2>1. grp.skips \subseteq 1..grp.issued
    BY <1>1 DEF Core, Sequenced
  <2> QED BY <1>2, <1>3, <2>1 DEF Seqs
<1>7. ASSUME NEW j \in Jobs
      PROVE  job[j] \in [state : States, seq : 0..MaxSeq, retained : BOOLEAN, revoked : BOOLEAN, entry : Places]
  <2>1. job[j] \in JobRecord /\ job[j].seq <= grp.issued
    BY <1>1, <1>2 DEF Core, Sequenced
  <2>2. job[j].seq \in Nat
    BY <2>1 DEF JobRecord
  <2>3. job[j].seq \in 0..MaxSeq
    BY <1>2, <1>3, <2>1, <2>2
  <2> QED BY <2>1, <2>3 DEF JobRecord
<1> QED BY <1>2, <1>4, <1>5, <1>6, <1>7 DEF TypeOK, GrpRecord

LEMMA TurnHolds ==
  ASSUME IInv
  PROVE  InTurn
<1>1. Options /\ Core(job, grp)
  BY DEF IInv, Good, Options
<1>2. MaxConcurrency \in Nat /\ grp.nextSeq \in Nat /\ \A j \in Jobs : job[j].seq \in Nat
  BY <1>1, CoreFacts, Sizes
<1>3. /\ IsFiniteSet(Holders(job, grp)) /\ Cardinality(Holders(job, grp)) \in Nat
      /\ Cardinality(Holders(job, grp)) <= MaxConcurrency
  BY <1>1, HoldersFinite DEF Core, Slotted
<1>4. ASSUME NEW j \in Jobs, job[j].state = "active" PROVE j \in Holders(job, grp)
  BY <1>1, <1>4 DEF Core, Slotted, Marked, Holders, Owns, Pending
<1>5. WithinLimit
  <2> DEFINE A == {j \in Jobs : job[j].state = "active"}
  <2>1. A \in SUBSET Holders(job, grp)
    BY <1>4
  <2> HIDE DEF A
  <2>2. IsFiniteSet(A) /\ Cardinality(A) <= Cardinality(Holders(job, grp))
    BY <1>3, <2>1, FS_Subset
  <2>3. Cardinality(A) \in Nat
    BY <2>2, FS_CardinalityType
  <2>4. Cardinality(A) <= MaxConcurrency
    BY <1>2, <1>3, <2>2, <2>3
  <2> QED BY <2>4 DEF WithinLimit, A
<1>6. StrictOrder
  <2> SUFFICES ASSUME MaxConcurrency = 1, NEW j \in Jobs, NEW k \in Jobs,
                      job[j].state = "active", job[k].state \in Pending
               PROVE  job[j].seq <= job[k].seq
    BY DEF StrictOrder
  <2>1. CASE Owns(job, grp, k)
    <3>1. j \in Holders(job, grp) /\ k \in Holders(job, grp)
      BY <1>4, <2>1 DEF Holders
    <3>2. CASE j = k
      BY <1>2, <3>2
    <3>3. CASE j /= k
      <4>1. {j} \in SUBSET Holders(job, grp) /\ {j} /= Holders(job, grp)
        BY <3>1, <3>3
      <4>2. Cardinality({j}) = 1
        BY FS_Singleton
      <4>3. 1 <= Cardinality(Holders(job, grp)) /\ Cardinality(Holders(job, grp)) /= 1
        BY <1>3, <4>1, <4>2, FS_Subset
      <4> QED BY <1>3, <4>3
    <3> QED BY <3>2, <3>3
  <2>2. CASE ~Owns(job, grp, k)
    <3>1. ~(job[k].seq < grp.nextSeq)
      BY <2>2 DEF Owns
    <3>2. job[j].seq < grp.nextSeq
      BY <1>4 DEF Holders, Owns
    <3> QED BY <1>2, <3>1, <3>2
  <2> QED BY <2>1, <2>2
<1> QED BY <1>5, <1>6 DEF InTurn

LEMMA BooksHold ==
  ASSUME IInv
  PROVE  Accounted
<1>1. Options /\ Core(job, grp) /\ Served(job, grp)
  BY DEF IInv, Good, Options
<1>2. SlotsCounted
  <2>1. {j \in Jobs : Holds(j)} = Holders(job, grp)
    BY DEF Holds, Holders, Owns
  <2> QED BY <1>1, <2>1 DEF SlotsCounted, Core, Slotted
<1>3. ParkedFits
  BY <1>1 DEF ParkedFits, Core, Queued
<1>4. NotStranded
  <2> SUFFICES ASSUME grp.parked /= {}, grp.resume = "none"
               PROVE  \E j \in Jobs : job[j].state \in Pending \ {"parked"}
    BY DEF NotStranded
  <2>1. Busy(job, grp) \/ OnTurn(job, grp)
    BY <1>1 DEF Served, Woken
  <2> QED BY <2>1 DEF Busy, OnTurn, Owns
<1> QED BY <1>2, <1>3, <1>4 DEF Accounted

-----------------------------------------------------------------------------
(* Theorems.  The windows of Races are ways out of a job that leave its slot  *)
(* counted, or give back one that it did not own.                             *)

(* The slots, the sequence, groupq and what wakes its jobs agree with the     *)
(* hashes of the jobs after every server-side function.                       *)
THEOREM Invariance ==
  ASSUME Races = {}
  PROVE  Spec => []IInv
<1>1. Init => IInv
  BY InitGood
<1>2. IInv /\ [Next]_vars => IInv'
  BY NextGood
<1> QED BY <1>1, <1>2, PTL DEF Spec

(* The fields of the group hash and of the jobs keep their types and bounds:  *)
(* active never exceeds the jobs, nextSeq is at most one past the last number *)
(* issued, and only numbers that were issued are skipped.                     *)
THEOREM TypeCorrect ==
  ASSUME Races = {}
  PROVE  Spec => []TypeOK
<1>1. IInv => TypeOK
  BY TypeHolds
<1> QED BY <1>1, Invariance, PTL

(* The gates of moveToActive and fetchNextForChain start no more jobs of a    *)
(* key than its concurrency allows, and with concurrency 1 none before every  *)
(* job ordered ahead of it has ended, whatever is retried, suspended, rate    *)
(* limited, lost in a crash or removed meanwhile.                             *)
THEOREM JobsInTurn ==
  ASSUME Races = {}
  PROVE  Spec => []InTurn
<1>1. IInv => InTurn
  BY TurnHolds
<1> QED BY <1>1, Invariance, PTL

(* The counter active is the number of jobs that own a slot, groupq holds the *)
(* parked jobs once each, and a parked job always has something left to wake  *)
(* it: no path that ends, parks or redispatches a job leaks or repays a slot  *)
(* or forgets to promote.                                                     *)
THEOREM BooksAgree ==
  ASSUME Races = {}
  PROVE  Spec => []Accounted
<1>1. IInv => Accounted
  BY BooksHold
<1> QED BY <1>1, Invariance, PTL

=============================================================================
