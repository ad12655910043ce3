------------------------- MODULE StreamQueueProofs -------------------------
(***************************************************************************)
(* Proofs about StreamQueue for every set of jobs and workers and every    *)
(* limit.  Types and the respect of revocations hold whatever befalls a    *)
(* job (last section); custody and what follows from it hold when no       *)
(* worker hangs and no claim is stolen before it is activated (jobs may be *)
(* revoked, removed and expire, workers crash, stop and restart at any     *)
(* point).                                                                 *)
(***************************************************************************)
EXTENDS StreamQueue, TLAPS

(* Sequences of entries: what appending, cutting and deleting leave behind.  *)
LEMMA AppendMembers ==
  ASSUME NEW S, NEW s \in Seq(S), NEW e \in S, Distinct(s), e \notin Members(s)
  PROVE  /\ Append(s, e) \in Seq(S)
         /\ Members(Append(s, e)) = Members(s) \cup {e}
         /\ Distinct(Append(s, e))
<1> DEFINE t == Append(s, e)
<1>1. t \in Seq(S) /\ Len(t) = Len(s) + 1 /\ Len(s) \in Nat
  OBVIOUS
<1>2. \A i \in 1..Len(s) : t[i] = s[i]
  OBVIOUS
<1>3. t[Len(s) + 1] = e
  OBVIOUS
<1> HIDE DEF t
<1>4. Members(t) = Members(s) \cup {e}
  <2>1. 1..Len(t) = (1..Len(s)) \cup {Len(s) + 1}
    BY <1>1
  <2> QED BY <2>1, <1>1, <1>2, <1>3 DEF Members
<1>5. Distinct(t)
  <2> SUFFICES ASSUME NEW i \in 1..Len(t), NEW k \in 1..Len(t), t[i] = t[k]
               PROVE  i = k
    BY DEF Distinct
  <2>1. CASE i \in 1..Len(s) /\ k \in 1..Len(s)
    BY <2>1, <1>2 DEF Distinct
  <2>2. CASE i = Len(s) + 1 /\ k \in 1..Len(s)
    BY <2>2, <1>2, <1>3 DEF Members
  <2>3. CASE i \in 1..Len(s) /\ k = Len(s) + 1
    BY <2>3, <1>2, <1>3 DEF Members
  <2> QED BY <1>1, <2>1, <2>2, <2>3
<1> QED BY <1>1, <1>4, <1>5 DEF t

LEMMA SuffixMembers ==
  ASSUME NEW S, NEW s \in Seq(S), NEW m \in 1..(Len(s) + 1), Distinct(s)
  PROVE  LET t == SubSeq(s, m, Len(s))
         IN  /\ t \in Seq(S) /\ Distinct(t)
             /\ \A x \in S : x \in Members(t) <=> \E i \in m..Len(s) : s[i] = x
<1> DEFINE t == SubSeq(s, m, Len(s))
<1>1. t \in Seq(S) /\ Len(t) = Len(s) + 1 - m /\ Len(s) \in Nat
  OBVIOUS
<1>2. \A i \in 1..Len(t) : t[i] = s[i + m - 1] /\ i + m - 1 \in 1..Len(s)
  BY <1>1
<1> HIDE DEF t
<1>3. \A i \in m..Len(s) : i - m + 1 \in 1..Len(t) /\ t[i - m + 1] = s[i]
  BY <1>1, <1>2
<1>4. Distinct(t)
  <2> SUFFICES ASSUME NEW i \in 1..Len(t), NEW k \in 1..Len(t), t[i] = t[k]
               PROVE  i = k
    BY DEF Distinct
  <2>1. s[i + m - 1] = s[k + m - 1] /\ i + m - 1 \in 1..Len(s) /\ k + m - 1 \in 1..Len(s)
    BY <1>2
  <2>2. i + m - 1 = k + m - 1
    BY <2>1 DEF Distinct
  <2> QED BY <1>1, <2>2
<1>5. \A x \in S : x \in Members(t) <=> \E i \in m..Len(s) : s[i] = x
  <2> SUFFICES ASSUME NEW x \in S
               PROVE  x \in Members(t) <=> \E i \in m..Len(s) : s[i] = x
    OBVIOUS
  <2>1. ASSUME NEW i \in 1..Len(t), t[i] = x PROVE \E k \in m..Len(s) : s[k] = x
    <3>1. i + m - 1 \in m..Len(s)
      BY <1>1, <1>2
    <3> QED BY <3>1, <1>2, <2>1
  <2>2. ASSUME NEW i \in m..Len(s), s[i] = x PROVE \E k \in 1..Len(t) : t[k] = x
    BY <1>3, <2>2
  <2> QED BY <2>1, <2>2 DEF Members
<1> QED BY <1>1, <1>4, <1>5 DEF t

LEMMA TailMembers ==
  ASSUME NEW S, NEW s \in Seq(S), s /= <<>>, Distinct(s)
  PROVE  /\ Head(s) \in Members(s) /\ Tail(s) \in Seq(S) /\ Distinct(Tail(s))
         /\ Members(Tail(s)) = Members(s) \ {Head(s)}
<1>1. /\ Len(s) \in Nat \ {0} /\ Head(s) = s[1] /\ Tail(s) \in Seq(S)
      /\ Len(Tail(s)) = Len(s) - 1
  OBVIOUS
<1>2. \A i \in 1..(Len(s) - 1) : Tail(s)[i] = s[i + 1]
  OBVIOUS
<1>3. Distinct(Tail(s))
  BY <1>1, <1>2 DEF Distinct
<1>4. \A i \in 2..Len(s) : Tail(s)[i - 1] = s[i] /\ i - 1 \in 1..Len(Tail(s))
  BY <1>1, <1>2
<1>5. Members(Tail(s)) \subseteq Members(s) \ {Head(s)}
  <2> SUFFICES ASSUME NEW i \in 1..Len(Tail(s))
               PROVE  Tail(s)[i] \in Members(s) \ {Head(s)}
    BY DEF Members
  <2>1. i + 1 \in 1..Len(s) /\ i + 1 /= 1 /\ Tail(s)[i] = s[i + 1]
    BY <1>1, <1>2
  <2> QED BY <2>1, <1>1 DEF Members, Distinct
<1>6. Members(s) \ {Head(s)} \subseteq Members(Tail(s))
  <2> SUFFICES ASSUME NEW i \in 1..Len(s), s[i] /= Head(s)
               PROVE  s[i] \in Members(Tail(s))
    BY DEF Members
  <2>1. i \in 2..Len(s)
    BY <1>1
  <2> QED BY <2>1, <1>4 DEF Members
<1>7. Head(s) \in Members(s)
  BY <1>1 DEF Members
<1> QED BY <1>1, <1>3, <1>5, <1>6, <1>7

LEMMA WithoutMembers ==
  ASSUME NEW S, NEW s \in Seq(S), NEW i \in 1..Len(s), Distinct(s)
  PROVE  /\ Without(s, i) \in Seq(S) /\ Distinct(Without(s, i))
         /\ Members(Without(s, i)) = Members(s) \ {s[i]}
<1> DEFINE t == Without(s, i)
<1>1. Len(s) \in Nat /\ Len(s) - 1 \in Nat
  OBVIOUS
<1>2. \A k \in 1..(Len(s) - 1) : (IF k < i THEN s[k] ELSE s[k + 1]) \in S
  BY <1>1
<1>3. t \in Seq(S) /\ Len(t) = Len(s) - 1
  BY <1>1, <1>2 DEF Without
<1>4. \A k \in 1..Len(t) : t[k] = IF k < i THEN s[k] ELSE s[k + 1]
  BY <1>1, <1>3 DEF Without
<1> HIDE DEF t
<1>5. Distinct(t)
  BY <1>1, <1>3, <1>4 DEF Distinct
<1>6. Members(t) \subseteq Members(s) \ {s[i]}
  <2> SUFFICES ASSUME NEW k \in 1..Len(t)
               PROVE  t[k] \in Members(s) \ {s[i]}
    BY DEF Members
  <2>1. \E m \in 1..Len(s) : m /= i /\ t[k] = s[m]
    <3>1. CASE k < i
      BY <3>1, <1>1, <1>3, <1>4
    <3>2. CASE ~(k < i)
      <4>1. k + 1 \in 1..Len(s) /\ k + 1 /= i /\ t[k] = s[k + 1]
        BY <3>2, <1>1, <1>3, <1>4
      <4> QED BY <4>1
    <3> QED BY <3>1, <3>2
  <2> QED BY <2>1 DEF Members, Distinct
<1>7. Members(s) \ {s[i]} \subseteq Members(t)
  <2> SUFFICES ASSUME NEW k \in 1..Len(s), k /= i
               PROVE  s[k] \in Members(t)
    BY DEF Members
  <2>1. CASE k < i
    BY <2>1, <1>1, <1>3, <1>4 DEF Members
  <2>2. CASE k > i
    <3>1. k - 1 \in 1..Len(t) /\ ~(k - 1 < i) /\ (k - 1) + 1 = k
      BY <2>2, <1>1, <1>3
    <3>2. t[k - 1] = s[k]
      BY <3>1, <1>4
    <3> QED BY <3>1, <3>2 DEF Members
  <2> QED BY <1>1, <2>1, <2>2
<1> QED BY <1>3, <1>5, <1>6, <1>7 DEF t

-----------------------------------------------------------------------------
(* The inductive invariant, job by job, and what leaves a job's part alone.  *)
JobInv(j) == Findable(j) /\ JobFits(j)
Inv == TypeOK /\ StreamWellFormed /\ hung = {} /\ \A j \in Jobs : JobInv(j)

(* Nothing that JobInv(i) reads changes in the step. *)
Same(i) ==
  /\ job'[i] = job[i]
  /\ Queued(i)' = Queued(i) /\ Pending(i)' = Pending(i)
  /\ Holders(i)' = Holders(i)
  /\ \A w \in Holders(i) : hand'[w] = hand[w] /\ pc'[w] = pc[w]
  /\ i \in scheduled' <=> i \in scheduled
  /\ i \in completed' <=> i \in completed
  /\ i \in failed' <=> i \in failed

(* The parts of a step that touches job j alone. *)
JobsKept(j) ==
  /\ job' \in [Jobs -> JobHash] /\ \A i \in Jobs \ {j} : job'[i] = job[i]
SetsKept(j) ==
  /\ scheduled' \subseteq Jobs /\ completed' \subseteq Jobs /\ failed' \subseteq Jobs
  /\ \A i \in Jobs \ {j} :
       /\ i \in scheduled' <=> i \in scheduled
       /\ i \in completed' <=> i \in completed
       /\ i \in failed' <=> i \in failed
StreamKept(j) ==
  /\ backlog' \in Seq(Entries) /\ pel' \subseteq Entries /\ StreamWellFormed'
  /\ \A i \in Jobs \ {j} : Queued(i)' = Queued(i) /\ Pending(i)' = Pending(i)
SlotsKept(j) ==
  /\ pc' \in [Workers -> PCs] /\ hand' \in [Workers -> Entries \cup {NoEntry}]
  /\ \A v \in Workers : pc'[v] = "idle" <=> hand'[v] = NoEntry
  /\ \A i \in Jobs \ {j} :
       /\ Holders(i)' = Holders(i)
       /\ \A v \in Holders(i) : hand'[v] = hand[v] /\ pc'[v] = pc[v]
ModeKept == hung' = {} /\ paused' \in BOOLEAN /\ stopping' \subseteq Workers

LEMMA SameKeeps ==
  ASSUME NEW i \in Jobs, JobInv(i), Same(i)
  PROVE  JobInv(i)'
<1>1. InStream(i)' <=> InStream(i)
  BY DEF Same, InStream
<1>2. Findable(i)'
  BY <1>1 DEF JobInv, Findable, Same
<1>3. EntriesFit(i)'
  BY DEF JobInv, JobFits, EntriesFit, Same
<1>4. \A w \in Holders(i)' : ClaimFits(i, hand[w], pc[w])'
  BY <1>1 DEF JobInv, JobFits, ClaimFits, Same
<1> QED BY <1>2, <1>3, <1>4 DEF JobInv, JobFits, Same

(* A step that touches one job keeps the invariant if it keeps that job's part. *)
LEMMA LocalStep ==
  ASSUME Inv, NEW j \in Jobs, JobsKept(j), SetsKept(j), StreamKept(j), SlotsKept(j),
         ModeKept, JobInv(j)'
  PROVE  Inv'
<1>1. TypeOK' /\ StreamWellFormed' /\ hung' = {}
  BY DEF JobsKept, SetsKept, StreamKept, SlotsKept, ModeKept, TypeOK
<1>2. ASSUME NEW i \in Jobs \ {j} PROVE Same(i)
  <2>1. job'[i] = job[i] /\ Queued(i)' = Queued(i) /\ Pending(i)' = Pending(i)
    BY DEF JobsKept, StreamKept
  <2>2. Holders(i)' = Holders(i) /\ \A w \in Holders(i) : hand'[w] = hand[w] /\ pc'[w] = pc[w]
    BY DEF SlotsKept
  <2>3. /\ i \in scheduled' <=> i \in scheduled
        /\ i \in completed' <=> i \in completed
        /\ i \in failed' <=> i \in failed
    BY DEF SetsKept
  <2> QED BY <2>1, <2>2, <2>3 DEF Same
<1>3. \A i \in Jobs : JobInv(i)'
  BY <1>2, SameKeeps DEF Inv
<1> QED BY <1>1, <1>3 DEF Inv

(* What a step that only moves a job to another state, or to another state   *)
(* and stall count, does to the hashes.                                      *)
LEMMA StateChange ==
  ASSUME NEW j \in Jobs, TypeOK, NEW s \in States, job' = [job EXCEPT ![j].state = s]
  PROVE  JobsKept(j) /\ job'[j].state = s /\ job'[j].revoked = job[j].revoked
<1> DEFINE r == [job[j] EXCEPT !.state = s]
<1>1. job \in [Jobs -> JobHash] /\ job[j] \in JobHash
  BY DEF TypeOK
<1>2. r \in JobHash /\ r.state = s /\ r.revoked = job[j].revoked
  BY <1>1 DEF JobHash
<1>3. job' = [job EXCEPT ![j] = r]
  BY <1>1
<1> HIDE DEF r
<1>4. job'[j] = r /\ JobsKept(j)
  BY <1>1, <1>2, <1>3 DEF JobsKept
<1> QED BY <1>2, <1>4

LEMMA StallChange ==
  ASSUME NEW j \in Jobs, TypeOK, NEW s \in States, NEW n \in 0..(MaxStalled + 1),
         job' = [job EXCEPT ![j].state = s, ![j].stalls = n]
  PROVE  JobsKept(j) /\ job'[j].state = s /\ job'[j].revoked = job[j].revoked
<1> DEFINE r == [job[j] EXCEPT !.state = s, !.stalls = n]
<1>1. job \in [Jobs -> JobHash] /\ job[j] \in JobHash
  BY DEF TypeOK
<1>2. r \in JobHash /\ r.state = s /\ r.revoked = job[j].revoked
  BY <1>1 DEF JobHash
<1>3. job' = [job EXCEPT ![j] = r]
  BY <1>1
<1> HIDE DEF r
<1>4. job'[j] = r /\ JobsKept(j)
  BY <1>1, <1>2, <1>3 DEF JobsKept
<1> QED BY <1>2, <1>4

\* The same of a write of the revoked field that leaves the state as it was.
LEMMA RevokedChange ==
  ASSUME NEW j \in Jobs, TypeOK,
         job' = [job EXCEPT ![j].revoked = TRUE, ![j].state = job[j].state]
  PROVE  JobsKept(j) /\ job'[j] = [job[j] EXCEPT !.revoked = TRUE]
<1> DEFINE r == [job[j] EXCEPT !.revoked = TRUE]
<1>1. job \in [Jobs -> JobHash] /\ job[j] \in JobHash
  BY DEF TypeOK
<1>2. r \in JobHash /\ r = [job[j] EXCEPT !.revoked = TRUE, !.state = job[j].state]
  BY <1>1 DEF JobHash
<1>3. job' = [job EXCEPT ![j] = [job[j] EXCEPT !.revoked = TRUE, !.state = job[j].state]]
  BY <1>1
<1>4. job' = [job EXCEPT ![j] = r]
  BY <1>2, <1>3
<1> HIDE DEF r
<1>5. job'[j] = r /\ JobsKept(j)
  BY <1>1, <1>2, <1>4 DEF JobsKept
<1> QED BY <1>5 DEF r

LEMMA EntryFacts ==
  /\ \A e \in Entries : JobOf(e) \in Jobs /\ e /= NoEntry
  /\ \A j \in Jobs : \A e : e \in {j} \X Copies <=> e \in Entries /\ JobOf(e) = j
BY EntryAssumption DEF Entries, JobOf

LEMMA HolderFacts ==
  ASSUME TypeOK, NEW w \in Workers
  PROVE  /\ \A j \in Jobs : w \in Holders(j) <=> pc[w] /= "idle" /\ JobOf(hand[w]) = j
         /\ pc[w] /= "idle" => hand[w] \in Entries /\ JobOf(hand[w]) \in Jobs
         /\ pc[w] = "idle" => hand[w] = NoEntry
BY EntryFacts DEF TypeOK, Holders

(* The only worker that holds the job of w's entry is w. *)
LEMMA SoleHolder ==
  ASSUME Inv, NEW w \in Workers, pc[w] /= "idle"
  PROVE  /\ JobOf(hand[w]) \in Jobs /\ hand[w] \in Entries
         /\ Holders(JobOf(hand[w])) = {w}
         /\ ClaimFits(JobOf(hand[w]), hand[w], pc[w])
<1>1. TypeOK /\ JobOf(hand[w]) \in Jobs /\ hand[w] \in Entries
  BY HolderFacts DEF Inv
<1>2. w \in Holders(JobOf(hand[w]))
  BY <1>1, HolderFacts
<1>3. JobFits(JobOf(hand[w]))
  BY <1>1 DEF Inv, JobInv
<1> QED BY <1>1, <1>2, <1>3 DEF JobFits, Holders

(* Releasing a slot touches only the job it held; moving on within processJob too. *)
LEMMA ReleaseHolders ==
  ASSUME Inv, NEW w \in Workers, pc[w] /= "idle", NEW j \in Jobs, j = JobOf(hand[w]), Release(w)
  PROVE  SlotsKept(j) /\ Holders(j)' = {}
<1>1. TypeOK /\ Holders(j) = {w}
  BY SoleHolder DEF Inv
<1>2. /\ pc' \in [Workers -> PCs] /\ hand' \in [Workers -> Entries \cup {NoEntry}]
      /\ \A v \in Workers : pc'[v] = "idle" <=> hand'[v] = NoEntry
      /\ \A v \in Workers \ {w} : hand'[v] = hand[v] /\ pc'[v] = pc[v]
      /\ hand'[w] = NoEntry
  BY <1>1 DEF TypeOK, Release, PCs
<1>3. \A i \in Jobs : NoEntry \notin {i} \X Copies
  BY EntryFacts
<1>4. \A i \in Jobs : w \in Holders(i) => i = j
  BY <1>1, HolderFacts
<1>5. Holders(j)' = {}
  BY <1>1, <1>2, <1>3 DEF Holders
<1>6. \A i \in Jobs \ {j} : Holders(i)' = Holders(i)
  BY <1>2, <1>3, <1>4 DEF Holders
<1>7. \A i \in Jobs \ {j} : \A v \in Holders(i) : hand'[v] = hand[v] /\ pc'[v] = pc[v]
  BY <1>2, <1>4 DEF Holders
<1> QED BY <1>2, <1>5, <1>6, <1>7 DEF SlotsKept

LEMMA GotoHolders ==
  ASSUME Inv, NEW w \in Workers, pc[w] /= "idle", NEW j \in Jobs, j = JobOf(hand[w]),
         NEW p \in PCs \ {"idle"}, Goto(w, p)
  PROVE  SlotsKept(j) /\ Holders(j)' = {w} /\ hand' = hand /\ pc'[w] = p
<1>1. TypeOK /\ Holders(j) = {w}
  BY SoleHolder DEF Inv
<1>2. /\ pc' \in [Workers -> PCs] /\ hand' = hand /\ pc'[w] = p
      /\ \A v \in Workers \ {w} : pc'[v] = pc[v]
  BY <1>1 DEF TypeOK, Goto
<1>3. /\ hand' \in [Workers -> Entries \cup {NoEntry}]
      /\ \A v \in Workers : pc'[v] = "idle" <=> hand'[v] = NoEntry
  BY <1>1, <1>2 DEF TypeOK
<1>4. \A i \in Jobs : w \in Holders(i) => i = j
  BY <1>1, HolderFacts
<1>5. \A i : Holders(i)' = Holders(i)
  BY <1>2 DEF Holders
<1>6. \A i \in Jobs \ {j} : \A v \in Holders(i) : hand'[v] = hand[v] /\ pc'[v] = pc[v]
  BY <1>2, <1>4 DEF Holders
<1> QED BY <1>1, <1>2, <1>3, <1>5, <1>6 DEF SlotsKept

LEMMA SlotsUnchanged ==
  ASSUME Inv, UNCHANGED slots, NEW j \in Jobs
  PROVE  SlotsKept(j) /\ Holders(j)' = Holders(j) /\ pc' = pc /\ hand' = hand
<1>1. pc' = pc /\ hand' = hand /\ \A i : Holders(i)' = Holders(i)
  BY DEF slots, Holders
<1> QED BY <1>1 DEF SlotsKept, Inv, TypeOK

LEMMA ModeUnchanged ==
  ASSUME Inv, UNCHANGED mode
  PROVE  ModeKept
BY DEF Inv, TypeOK, mode, ModeKept

LEMMA StreamUnchanged ==
  ASSUME Inv, UNCHANGED stream, NEW j \in Jobs
  PROVE  StreamKept(j) /\ Queued(j)' = Queued(j) /\ Pending(j)' = Pending(j)
<1>1. /\ backlog' = backlog /\ pel' = pel /\ Undelivered' = Undelivered
      /\ \A i : Queued(i)' = Queued(i) /\ Pending(i)' = Pending(i)
  BY DEF stream, Undelivered, Queued, Pending
<1> QED BY <1>1 DEF StreamKept, StreamWellFormed, Inv, TypeOK

(* Acknowledging the only entry of a job leaves it without one.              *)
LEMMA AckFits ==
  ASSUME Inv, NEW j \in Jobs, NEW e \in Entries, JobOf(e) = j, pel' = pel \ {e}, backlog' = backlog,
         e \in Pending(j) \/ ~InStream(j)
  PROVE  StreamKept(j) /\ Queued(j)' = {} /\ Pending(j)' = {} /\ Queued(j) = {}
<1>1. TypeOK /\ StreamWellFormed /\ EntriesFit(j)
  BY DEF Inv, JobInv, JobFits
<1>2. Undelivered' = Undelivered /\ \A i : Queued(i)' = Queued(i)
  BY DEF Undelivered, Queued
<1>3. Queued(j) = {} /\ Pending(j) \subseteq {e}
  BY <1>1 DEF EntriesFit, InStream, StreamWellFormed, Queued, Pending
<1>4. Pending(j)' = {} /\ \A i \in Jobs \ {j} : Pending(i)' = Pending(i)
  BY <1>3 DEF Pending
<1> QED BY <1>1, <1>2, <1>3, <1>4 DEF StreamKept, StreamWellFormed, TypeOK

(* xaddJob on a job without an entry (its last one may be acknowledged in    *)
(* the same call) leaves it with one, that nobody uses.                      *)
LEMMA EnqueueFits ==
  ASSUME Inv, NEW j \in Jobs, Enqueue(j), Queued(j) = {},
         NEW x, pel' = pel \ {x}, Pending(j) \subseteq {x}, x \in pel => JobOf(x) = j
  PROVE  /\ StreamKept(j) /\ Pending(j)' = {}
         /\ \E e : Queued(j)' = {e}
<1>1. TypeOK /\ StreamWellFormed
  BY DEF Inv
<1> DEFINE e == NewEntry(j)
<1>2. e \in {j} \X Copies /\ ~InUse(e) /\ backlog' = Append(backlog, e)
  BY DEF Enqueue, HasRoom, NewEntry
<1>3. e \in Entries /\ JobOf(e) = j /\ e \notin Undelivered \cup pel
  BY <1>2, EntryFacts DEF InUse
<1> HIDE DEF e
<1>4. backlog' \in Seq(Entries) /\ Distinct(backlog') /\ Undelivered' = Undelivered \cup {e}
  BY <1>1, <1>2, <1>3, AppendMembers DEF TypeOK, StreamWellFormed, Undelivered
<1>5. Queued(j)' = {e} /\ \A i \in Jobs \ {j} : Queued(i)' = Queued(i)
  BY <1>3, <1>4 DEF Queued
<1>6. Pending(j)' = {} /\ \A i \in Jobs \ {j} : Pending(i)' = Pending(i)
  BY DEF Pending
<1>7. pel' \subseteq Entries /\ StreamWellFormed'
  BY <1>1, <1>3, <1>4 DEF TypeOK, StreamWellFormed
<1> QED BY <1>4, <1>5, <1>6, <1>7 DEF StreamKept

(* The scan that drops a job's entry leaves the job without one. *)
LEMMA DropEntryFits ==
  ASSUME Inv, NEW j \in Jobs, DropEntry(j)
  PROVE  StreamKept(j) /\ Queued(j)' = {} /\ Pending(j)' = {}
<1>1. TypeOK /\ StreamWellFormed /\ EntriesFit(j)
  BY DEF Inv, JobInv, JobFits
<1>2. CASE \E e \in Pending(j) : pel' = pel \ {e} /\ UNCHANGED backlog
  <2>1. PICK e \in Pending(j) : pel' = pel \ {e} /\ UNCHANGED backlog
    BY <1>2
  <2>2. Undelivered' = Undelivered /\ \A i : Queued(i)' = Queued(i)
    BY <2>1 DEF Undelivered, Queued
  <2>3. Queued(j) = {} /\ Pending(j) = {e}
    BY <1>1, <2>1 DEF EntriesFit, Queued, Pending, StreamWellFormed
  <2>4. Pending(j)' = {} /\ \A i \in Jobs \ {j} : Pending(i)' = Pending(i)
    BY <2>1, <2>3 DEF Pending
  <2> QED BY <1>1, <2>1, <2>2, <2>3, <2>4 DEF StreamKept, StreamWellFormed, TypeOK
<1>3. CASE /\ Pending(j) = {}
           /\ \E i \in 1..Len(backlog) : JobOf(backlog[i]) = j /\ backlog' = Without(backlog, i)
           /\ UNCHANGED pel
  <2>1. PICK i \in 1..Len(backlog) : JobOf(backlog[i]) = j /\ backlog' = Without(backlog, i)
    BY <1>3
  <2>2. backlog' \in Seq(Entries) /\ Distinct(backlog') /\ Undelivered' = Undelivered \ {backlog[i]}
    BY <1>1, <2>1, WithoutMembers DEF TypeOK, StreamWellFormed, Undelivered
  <2>3. backlog[i] \in Queued(j)
    BY <2>1 DEF Queued, Undelivered, Members
  <2>4. Queued(j)' = {} /\ \A k \in Jobs \ {j} : Queued(k)' = Queued(k)
    BY <1>1, <2>1, <2>2, <2>3 DEF EntriesFit, Queued
  <2>5. \A k : Pending(k)' = Pending(k)
    BY <1>3 DEF Pending
  <2> QED BY <1>1, <1>3, <2>2, <2>4, <2>5 DEF StreamKept, StreamWellFormed, TypeOK
<1>4. CASE ~InStream(j) /\ UNCHANGED stream
  BY <1>1, <1>4 DEF InStream, stream, Queued, Pending, Undelivered, StreamKept, StreamWellFormed, TypeOK
<1> QED BY <1>2, <1>3, <1>4 DEF DropEntry

(* The shapes a job is left in by most steps: queued again with one unread   *)
(* entry, or at rest with none, and in either case held by nobody.           *)
LEMMA QueuedFits ==
  ASSUME NEW j \in Jobs, NEW e, Queued(j)' = {e}, Pending(j)' = {}, Holders(j)' = {},
         job'[j].state = "waiting", j \notin scheduled', j \notin completed',
         j \in failed' => job'[j].revoked
  PROVE  JobInv(j)'
BY DEF JobInv, Findable, JobFits, EntriesFit, InStream

LEMMA RestingFits ==
  ASSUME NEW j \in Jobs, Queued(j)' = {}, Pending(j)' = {}, Holders(j)' = {},
         job'[j].state \in {"delayed", "completed", "failed", "gone", "ghost"},
         j \in scheduled' <=> job'[j].state = "delayed",
         j \in completed' => job'[j].state = "completed",
         j \in failed' => job'[j].state \in {"failed", "gone"}
  PROVE  JobInv(j)'
BY DEF JobInv, Findable, JobFits, EntriesFit, InStream

(* A job that is not started, not queued and not removed is in nobody's hands. *)
LEMMA RestingFree ==
  ASSUME Inv, NEW j \in Jobs, job[j].state \in {"new", "delayed", "completed"}
  PROVE  Queued(j) = {} /\ Pending(j) = {} /\ Holders(j) = {}
<1>1. JobFits(j) /\ TypeOK
  BY DEF Inv, JobInv
<1>2. Queued(j) = {} /\ Pending(j) = {}
  BY <1>1 DEF JobFits, EntriesFit
<1>3. ASSUME NEW w \in Holders(j) PROVE FALSE
  <2>1. ClaimFits(j, hand[w], pc[w]) /\ w \in Workers
    BY <1>1 DEF JobFits, Holders
  <2>2. pc[w] \in PCs \ {"idle"}
    BY <1>1, <1>3, <2>1, HolderFacts DEF TypeOK
  <2> QED BY <2>1, <2>2 DEF ClaimFits, PCs, Started
<1> QED BY <1>2, <1>3

(* A failed job that was not revoked is in nobody's hands either.            *)
LEMMA FailedFree ==
  ASSUME Inv, NEW j \in Jobs, job[j].state = "failed", ~job[j].revoked
  PROVE  Queued(j) = {} /\ Pending(j) = {} /\ Holders(j) = {}
<1>1. JobFits(j) /\ TypeOK
  BY DEF Inv, JobInv
<1>2. Queued(j) = {} /\ Pending(j) = {}
  BY <1>1 DEF JobFits, EntriesFit
<1>3. ASSUME NEW w \in Holders(j) PROVE FALSE
  <2>1. ClaimFits(j, hand[w], pc[w]) /\ w \in Workers
    BY <1>1 DEF JobFits, Holders
  <2>2. pc[w] \in PCs \ {"idle"}
    BY <1>1, <1>3, <2>1, HolderFacts DEF TypeOK
  <2> QED BY <2>1, <2>2 DEF ClaimFits, PCs, Started
<1> QED BY <1>2, <1>3

-----------------------------------------------------------------------------
(* Every action keeps the invariant. *)

LEMMA InitInv == Init => Inv
<1> SUFFICES ASSUME Init PROVE Inv
  OBVIOUS
<1>1. Members(backlog) = {} /\ Distinct(backlog)
  BY DEF Init, Members, Distinct
<1>2. TypeOK
  <2>1. Hash("new") \in JobHash
    BY LimitAssumption DEF JobHash, Hash, States, NoState, NoHash
  <2>2. job \in [Jobs -> JobHash]
    BY <2>1 DEF Init
  <2>3. backlog \in Seq(Entries)
    BY DEF Init
  <2> QED BY <2>2, <2>3 DEF Init, TypeOK, PCs
<1>3. StreamWellFormed
  BY <1>1 DEF Init, StreamWellFormed, Undelivered
<1>4. ASSUME NEW j \in Jobs PROVE JobInv(j)
  <2>1. Queued(j) = {} /\ Pending(j) = {} /\ Holders(j) = {}
    BY <1>1, EntryFacts DEF Init, Queued, Pending, Holders, Undelivered
  <2> QED BY <2>1 DEF Init, JobInv, Findable, JobFits, EntriesFit, Hash
<1> QED BY <1>2, <1>3, <1>4 DEF Inv, Init

LEMMA AddJobInv ==
  ASSUME Inv, NEW j \in Jobs, NEW delayed \in BOOLEAN, AddJob(j, delayed)
  PROVE  Inv'
<1>1. TypeOK /\ JobFits(j) /\ ModeKept /\ pel' = pel
  BY ModeUnchanged DEF Inv, AddJob, JobInv
<1>2. Queued(j) = {} /\ Pending(j) = {} /\ Holders(j) = {}
  BY RestingFree DEF AddJob
<1>3. SlotsKept(j) /\ Holders(j)' = {}
  BY <1>2, SlotsUnchanged DEF AddJob
<1>4. /\ JobsKept(j) /\ job'[j].state = IF delayed THEN "delayed" ELSE "waiting"
      /\ SetsKept(j) /\ j \notin scheduled /\ j \notin completed' /\ j \notin failed'
  <2>1. Hash(IF delayed THEN "delayed" ELSE "waiting") \in JobHash
    BY LimitAssumption DEF JobHash, Hash, States
  <2>2. JobsKept(j) /\ job'[j].state = IF delayed THEN "delayed" ELSE "waiting"
    BY <1>1, <2>1 DEF AddJob, TypeOK, JobsKept, Hash
  <2>3. j \notin scheduled /\ j \notin completed' /\ j \notin failed'
    BY <1>1 DEF AddJob, JobFits
  <2>4. scheduled' = scheduled \/ scheduled' = scheduled \cup {j}
    BY DEF AddJob
  <2>5. SetsKept(j)
    BY <1>1, <2>4 DEF AddJob, TypeOK, SetsKept
  <2> QED BY <2>2, <2>3, <2>5
<1>5. CASE delayed
  <2>1. StreamKept(j) /\ Queued(j)' = {} /\ Pending(j)' = {}
    BY <1>1, <1>2, <1>5, StreamUnchanged DEF AddJob, stream
  <2>2. job'[j].state = "delayed" /\ j \in scheduled'
    BY <1>4, <1>5 DEF AddJob
  <2>3. JobInv(j)'
    BY <1>3, <1>4, <2>1, <2>2, RestingFits
  <2> QED BY <1>1, <1>3, <1>4, <2>1, <2>3, LocalStep
<1>6. CASE ~delayed
  <2>1. Enqueue(j) /\ job'[j].state = "waiting" /\ j \notin scheduled'
    BY <1>4, <1>6 DEF AddJob
  <2>2. StreamKept(j) /\ Pending(j)' = {} /\ \E e : Queued(j)' = {e}
    <3>1. NoEntry \notin pel /\ pel' = pel \ {NoEntry}
      BY <1>1, EntryFacts DEF TypeOK
    <3> QED BY <1>2, <2>1, <3>1, EnqueueFits
  <2>3. JobInv(j)'
    BY <1>3, <1>4, <2>1, <2>2, QueuedFits
  <2> QED BY <1>1, <1>3, <1>4, <2>2, <2>3, LocalStep
<1> QED BY <1>5, <1>6
LEMMA PromoteInv ==
  ASSUME Inv, NEW j \in Jobs, Promote(j)
  PROVE  Inv'
<1>1. TypeOK /\ JobFits(j) /\ ModeKept /\ pel' = pel
  BY ModeUnchanged DEF Inv, Promote, JobInv
<1>2. job[j].state = "delayed" /\ j \notin completed /\ j \notin failed
  BY <1>1 DEF Promote, JobFits
<1>3. Queued(j) = {} /\ Pending(j) = {} /\ Holders(j) = {}
  BY <1>2, RestingFree
<1>4. SlotsKept(j) /\ Holders(j)' = {}
  BY <1>3, SlotsUnchanged DEF Promote
<1>5. CASE job[j].late /\ ExpireJob(j) /\ UNCHANGED backlog
  <2>1. JobsKept(j) /\ job'[j].state = "failed" /\ failed' = failed \cup {j}
    BY <1>1, <1>2, <1>5 DEF ExpireJob, TypeOK, JobsKept, JobHash, States
  <2>2. SetsKept(j) /\ j \notin scheduled' /\ j \notin completed'
    BY <1>1, <1>2, <2>1 DEF Promote, TypeOK, SetsKept
  <2>3. StreamKept(j) /\ Queued(j)' = {} /\ Pending(j)' = {}
    BY <1>1, <1>3, <1>5, StreamUnchanged DEF stream
  <2>4. JobInv(j)'
    BY <1>4, <2>1, <2>2, <2>3, RestingFits
  <2> QED BY <1>1, <1>4, <2>1, <2>2, <2>3, <2>4, LocalStep
<1>6. CASE /\ ~job[j].late
           /\ job' = [job EXCEPT ![j].state = "waiting"]
           /\ Enqueue(j) /\ UNCHANGED failed
  <2>1. JobsKept(j) /\ job'[j].state = "waiting"
    BY <1>1, <1>6 DEF TypeOK, JobsKept, JobHash, States
  <2>2. SetsKept(j) /\ j \notin scheduled' /\ j \notin completed' /\ j \notin failed'
    BY <1>1, <1>2, <1>6 DEF Promote, TypeOK, SetsKept
  <2>3. StreamKept(j) /\ Pending(j)' = {} /\ \E e : Queued(j)' = {e}
    <3>1. NoEntry \notin pel /\ pel' = pel \ {NoEntry}
      BY <1>1, EntryFacts DEF TypeOK
    <3> QED BY <1>3, <1>6, <3>1, EnqueueFits
  <2>4. JobInv(j)'
    BY <1>4, <2>1, <2>2, <2>3, QueuedFits
  <2> QED BY <1>1, <1>4, <2>1, <2>2, <2>3, <2>4, LocalStep
<1> QED BY <1>5, <1>6 DEF Promote

LEMMA PromoteJobInv ==
  ASSUME Inv, NEW j \in Jobs, PromoteJob(j)
  PROVE  Inv'
<1>1. TypeOK /\ JobFits(j) /\ ModeKept /\ pel' = pel
  BY ModeUnchanged DEF Inv, PromoteJob, JobInv
<1>2. job[j].state = "delayed" /\ j \notin completed /\ j \notin failed
  BY <1>1 DEF PromoteJob, JobFits
<1>3. Queued(j) = {} /\ Pending(j) = {} /\ Holders(j) = {}
  BY <1>2, RestingFree
<1>4. SlotsKept(j) /\ Holders(j)' = {}
  BY <1>3, SlotsUnchanged DEF PromoteJob
<1>5. JobsKept(j) /\ job'[j].state = "waiting"
  BY <1>1 DEF PromoteJob, TypeOK, JobsKept, JobHash, States
<1>6. SetsKept(j) /\ j \notin scheduled' /\ j \notin completed' /\ j \notin failed'
  BY <1>1, <1>2 DEF PromoteJob, TypeOK, SetsKept
<1>7. StreamKept(j) /\ Pending(j)' = {} /\ \E e : Queued(j)' = {e}
  <2>1. NoEntry \notin pel /\ pel' = pel \ {NoEntry}
    BY <1>1, EntryFacts DEF TypeOK
  <2> QED BY <1>3, <2>1, EnqueueFits DEF PromoteJob
<1>8. JobInv(j)'
  BY <1>4, <1>5, <1>6, <1>7, QueuedFits
<1> QED BY <1>1, <1>4, <1>5, <1>6, <1>7, <1>8, LocalStep

(* A pending entry that a worker holds is held through that very entry.      *)
LEMMA PendingHolder ==
  ASSUME Inv, NEW j \in Jobs, NEW e \in Queued(j) \cup Pending(j), NEW w \in Holders(j)
  PROVE  /\ w \in Workers /\ hand[w] = e /\ e \in Pending(j)
         /\ pc[w] /= "idle" /\ ClaimFits(j, e, pc[w])
<1>1. TypeOK /\ JobFits(j) /\ w \in Workers
  BY DEF Inv, JobInv, Holders
<1>2. ClaimFits(j, hand[w], pc[w]) /\ InStream(j) /\ pc[w] /= "idle"
  BY <1>1, HolderFacts DEF JobFits, InStream
<1>3. hand[w] \in Pending(j)
  BY <1>2 DEF ClaimFits
<1> QED BY <1>1, <1>2, <1>3 DEF JobFits, EntriesFit, ClaimFits

LEMMA ReclaimInv ==
  ASSUME Inv, NEW e \in Entries, Reclaim(e)
  PROVE  Inv'
<1> DEFINE j == JobOf(e)
<1>1. j \in Jobs /\ e \in Pending(j)
  BY EntryFacts DEF Reclaim, Pending
<1>2. TypeOK /\ JobFits(j) /\ ModeKept
  BY <1>1, ModeUnchanged DEF Inv, Reclaim, JobInv
<1>3. job[j].state \in {"waiting", "active", "gone"} /\ j \notin scheduled /\ j \notin completed
  BY <1>1, <1>2 DEF JobFits, EntriesFit
<1>4. Holders(j) = {} \/ (job[j].state = "active" /\ job[j].fresh /\ ~job[j].late)
  <2>1. ASSUME NEW w \in Holders(j)
        PROVE  job[j].state = "active" /\ job[j].fresh /\ ~job[j].late
    <3>1. w \in Workers /\ hand[w] = e /\ ClaimFits(j, e, pc[w])
      BY <1>1, PendingHolder
    <3>2. pc[w] \in Started
      BY <3>1 DEF Reclaim, IdleEntry, Live, Inv
    <3> QED BY <1>1, <3>1, <3>2 DEF ClaimFits
  <2> QED BY <2>1
<1>5. pel' = pel \ {e} /\ scheduled' = scheduled /\ completed' = completed /\ UNCHANGED slots
  BY DEF Reclaim
<1>6. Holders(j) = {} => SlotsKept(j) /\ Holders(j)' = {}
  BY <1>1, <1>5, SlotsUnchanged
<1>7. UNCHANGED backlog => StreamKept(j) /\ Queued(j)' = {} /\ Pending(j)' = {}
  BY <1>1, <1>5, AckFits
<1>8. Queued(j) = {} /\ Pending(j) = {e}
  BY <1>1, <1>2 DEF JobFits, EntriesFit, Inv, StreamWellFormed, Queued, Pending
<1> DEFINE strikes == Bump(job[j].stalls, MaxStalled + 1)
<1>9. strikes \in 0..(MaxStalled + 1)
  BY <1>1, <1>2, LimitAssumption DEF Bump, TypeOK, JobHash
<1>10. CASE ~HasHash(j) /\ UNCHANGED <<job, backlog, failed>>
  <2>1. job[j].state = "gone" /\ Holders(j) = {}
    BY <1>3, <1>4, <1>10 DEF HasHash, NoHash
  <2>2. JobsKept(j) /\ SetsKept(j) /\ job'[j].state = "gone" /\ j \notin scheduled' /\ j \notin completed'
    BY <1>2, <1>3, <1>5, <1>10, <2>1 DEF JobsKept, SetsKept, TypeOK
  <2>3. JobInv(j)'
    BY <1>1, <1>6, <1>7, <1>10, <2>1, <2>2, RestingFits
  <2> QED BY <1>1, <1>2, <1>6, <1>7, <1>10, <2>1, <2>2, <2>3, LocalStep
<1>11. CASE HasHash(j) /\ job[j].late /\ ExpireJob(j) /\ UNCHANGED backlog
  <2>1. Holders(j) = {} /\ failed' = failed \cup {j}
    BY <1>3, <1>4, <1>11 DEF ExpireJob
  <2>2. JobsKept(j) /\ job'[j].state = "failed"
    <3>1. job' = [job EXCEPT ![j].state = "failed"] /\ "failed" \in States
      BY <1>11 DEF ExpireJob, States
    <3> QED BY <1>1, <1>2, <3>1, StateChange
  <2>3. SetsKept(j) /\ j \notin scheduled' /\ j \notin completed'
    BY <1>1, <1>2, <1>3, <1>5, <2>1 DEF SetsKept, TypeOK
  <2>4. JobInv(j)'
    BY <1>1, <1>6, <1>7, <1>11, <2>1, <2>2, <2>3, RestingFits
  <2> QED BY <1>1, <1>2, <1>6, <1>7, <1>11, <2>1, <2>2, <2>3, <2>4, LocalStep
<1>12. CASE /\ ~job[j].fresh
            /\ job' = [job EXCEPT ![j].state = "failed", ![j].stalls = strikes]
            /\ failed' = failed \cup {j} /\ UNCHANGED backlog
  <2>1. Holders(j) = {}
    BY <1>4, <1>12
  <2>2. JobsKept(j) /\ job'[j].state = "failed"
    <3>1. "failed" \in States
      BY DEF States
    <3> QED BY <1>1, <1>2, <1>9, <1>12, <3>1, StallChange
  <2>3. SetsKept(j) /\ j \notin scheduled' /\ j \notin completed'
    BY <1>1, <1>2, <1>3, <1>5, <1>12 DEF SetsKept, TypeOK
  <2>4. JobInv(j)'
    BY <1>1, <1>6, <1>7, <1>12, <2>1, <2>2, <2>3, RestingFits
  <2> QED BY <1>1, <1>2, <1>6, <1>7, <1>12, <2>1, <2>2, <2>3, <2>4, LocalStep
<1>13. CASE /\ ~job[j].fresh /\ HasHash(j)
            /\ job' = [job EXCEPT ![j].state = "waiting", ![j].stalls = strikes]
            /\ Enqueue(j) /\ UNCHANGED failed
  <2>1. Holders(j) = {}
    BY <1>4, <1>13
  <2>2. JobsKept(j) /\ job'[j].state = "waiting" /\ job'[j].revoked = job[j].revoked
    <3>1. "waiting" \in States
      BY DEF States
    <3> QED BY <1>1, <1>2, <1>9, <1>13, <3>1, StallChange
  <2>3. SetsKept(j) /\ j \notin scheduled' /\ j \notin completed'
    BY <1>1, <1>2, <1>3, <1>5, <1>13 DEF SetsKept, TypeOK
  <2>4. StreamKept(j) /\ Pending(j)' = {} /\ \E x : Queued(j)' = {x}
    BY <1>1, <1>5, <1>8, <1>13, EnqueueFits
  <2>5. j \in failed' => job'[j].revoked
    BY <1>2, <1>3, <1>13, <2>2 DEF JobFits, HasHash, NoHash
  <2>6. JobInv(j)'
    BY <1>1, <1>6, <2>1, <2>2, <2>3, <2>4, <2>5, QueuedFits
  <2> QED BY <1>1, <1>2, <1>6, <2>1, <2>2, <2>3, <2>4, <2>6, LocalStep
<1> QED BY <1>10, <1>11, <1>12, <1>13 DEF Reclaim
(* The worker that holds a job knows where its entry can be.                 *)
LEMMA HolderStream ==
  ASSUME Inv, NEW w \in Workers, pc[w] /= "idle", NEW j \in Jobs, j = JobOf(hand[w])
  PROVE  /\ Holders(j) = {w} /\ hand[w] \in Entries /\ ClaimFits(j, hand[w], pc[w])
         /\ Queued(j) = {} /\ Pending(j) \subseteq {hand[w]}
         /\ hand[w] \in Pending(j) <=> hand[w] \in pel
         /\ hand[w] \in Pending(j) \/ ~InStream(j)
<1>1. Holders(j) = {w} /\ hand[w] \in Entries /\ ClaimFits(j, hand[w], pc[w])
  BY SoleHolder
<1>2. EntriesFit(j) /\ StreamWellFormed
  BY DEF Inv, JobInv, JobFits
<1>3. hand[w] \in Pending(j) \/ ~InStream(j)
  BY <1>1 DEF ClaimFits
<1>4. Queued(j) = {} /\ Pending(j) \subseteq {hand[w]}
  BY <1>2, <1>3 DEF EntriesFit, InStream, Queued, Pending, StreamWellFormed
<1> QED BY <1>1, <1>3, <1>4 DEF Pending

(* A job that w keeps holding fits if its entry and its claim do.            *)
LEMMA HeldFits ==
  ASSUME NEW j \in Jobs, NEW w, Holders(j)' = {w}, Queued(j)' = {},
         \A e, f \in Pending(j)' : e = f,
         Pending(j)' /= {} => job'[j].state \in {"waiting", "active", "gone"},
         job'[j].state \in {"waiting", "active"} => Pending(j)' /= {},
         j \in scheduled' <=> job'[j].state = "delayed",
         j \in completed' => job'[j].state = "completed",
         j \in failed' => \/ job'[j].state \in {"failed", "gone"}
                          \/ job'[j].state = "waiting" /\ job'[j].revoked,
         ClaimFits(j, hand[w], pc[w])'
  PROVE  JobInv(j)'
BY DEF JobInv, Findable, JobFits, EntriesFit, InStream

LEMMA PollInv ==
  ASSUME Inv, NEW w \in Workers, Poll(w)
  PROVE  Inv'
<1>0. PICK e \in Entries : e = Head(backlog)
  <2>1. Head(backlog) \in Entries
    BY DEF Inv, TypeOK, Poll
  <2> QED BY <2>1
<1> DEFINE j == JobOf(e)
<1>1. TypeOK /\ StreamWellFormed /\ ModeKept /\ backlog /= <<>> /\ backlog' = Tail(backlog)
      /\ pel' = pel \cup {e} /\ job' = job /\ pc[w] = "idle" /\ UNCHANGED sets
      /\ pc' = [pc EXCEPT ![w] = "claimed"] /\ hand' = [hand EXCEPT ![w] = e]
  BY <1>0, ModeUnchanged DEF Inv, Poll
<1>2. /\ backlog' \in Seq(Entries) /\ Distinct(backlog')
      /\ e \in Undelivered /\ Undelivered' = Undelivered \ {e}
  BY <1>0, <1>1, TailMembers DEF TypeOK, StreamWellFormed, Undelivered
<1>3. e \in Entries /\ j \in Jobs /\ e \in Queued(j)
  <2>1. Undelivered \subseteq Entries
    BY <1>1 DEF Undelivered, Members, TypeOK
  <2> QED BY <1>2, <2>1, EntryFacts DEF Queued
<1>4. JobInv(j) /\ EntriesFit(j) /\ Queued(j) = {e} /\ Pending(j) = {}
  BY <1>1, <1>3 DEF Inv, JobInv, JobFits, EntriesFit, StreamWellFormed, Queued, Pending
<1>5. Holders(j) = {}
  BY <1>3, <1>4, PendingHolder
<1>6. /\ Queued(j)' = {} /\ Pending(j)' = {e}
      /\ \A i \in Jobs \ {j} : Queued(i)' = Queued(i) /\ Pending(i)' = Pending(i)
  BY <1>1, <1>2, <1>4 DEF Queued, Pending
<1>7. StreamKept(j)
  BY <1>1, <1>2, <1>3, <1>6 DEF StreamKept, StreamWellFormed, TypeOK
<1>8. SlotsKept(j) /\ Holders(j)' = {w} /\ hand'[w] = e /\ pc'[w] = "claimed"
  <2>1. /\ pc' \in [Workers -> PCs] /\ hand' \in [Workers -> Entries \cup {NoEntry}]
        /\ \A v \in Workers \ {w} : hand'[v] = hand[v] /\ pc'[v] = pc[v]
        /\ hand'[w] = e /\ pc'[w] = "claimed"
    BY <1>1, <1>3 DEF TypeOK, PCs
  <2>2. \A v \in Workers : pc'[v] = "idle" <=> hand'[v] = NoEntry
    BY <1>1, <1>3, <2>1, EntryFacts DEF TypeOK
  <2>3. \A i \in Jobs : w \notin Holders(i) /\ (e \in {i} \X Copies <=> i = j)
    BY <1>1, <1>3, HolderFacts, EntryFacts
  <2>4. \A i \in Jobs : Holders(i)' = IF i = j THEN Holders(i) \cup {w} ELSE Holders(i)
    BY <2>1, <2>3 DEF Holders
  <2>5. \A i \in Jobs : \A v \in Holders(i) : hand'[v] = hand[v] /\ pc'[v] = pc[v]
    BY <2>1, <2>3 DEF Holders
  <2> QED BY <1>3, <1>5, <2>1, <2>2, <2>4, <2>5 DEF SlotsKept
<1>9. JobsKept(j) /\ SetsKept(j)
  BY <1>1 DEF JobsKept, SetsKept, TypeOK, sets
<1>10. JobInv(j)'
  <2>1. job[j].state \in {"waiting", "gone"}
    BY <1>4 DEF EntriesFit
  <2>2. ClaimFits(j, hand[w], pc[w])'
    BY <1>1, <1>6, <1>8, <2>1 DEF ClaimFits, Started
  <2> QED BY <1>1, <1>3, <1>4, <1>6, <1>8, <2>1, <2>2, HeldFits DEF JobInv, JobFits, sets
<1> QED BY <1>1, <1>3, <1>7, <1>8, <1>9, <1>10, LocalStep

LEMMA StartInv ==
  ASSUME Inv, NEW w \in Workers, Start(w)
  PROVE  Inv'
<1>0. PICK j \in Jobs : j = JobOf(hand[w])
  BY HolderFacts DEF Inv, Start
<1>1. TypeOK /\ ModeKept /\ pc[w] = "active" /\ Goto(w, "running")
      /\ UNCHANGED stream /\ UNCHANGED sets /\ job' = job /\ JobInv(j)
  BY <1>0, ModeUnchanged DEF Inv, Start
<1>2. Holders(j) = {w} /\ ClaimFits(j, hand[w], pc[w])
  BY <1>0, <1>1, HolderStream
<1>3. SlotsKept(j) /\ Holders(j)' = {w} /\ hand' = hand /\ pc'[w] = "running"
  BY <1>0, <1>1, GotoHolders DEF PCs
<1>4. StreamKept(j) /\ Queued(j)' = Queued(j) /\ Pending(j)' = Pending(j)
  BY <1>1, StreamUnchanged
<1>5. JobsKept(j) /\ SetsKept(j) /\ scheduled' = scheduled /\ completed' = completed /\ failed' = failed
  BY <1>1 DEF JobsKept, SetsKept, TypeOK, sets
<1>6. Findable(j)' /\ EntriesFit(j)' /\ (InStream(j)' <=> InStream(j))
  BY <1>1, <1>4, <1>5 DEF JobInv, Findable, JobFits, EntriesFit, InStream
<1>7. ClaimFits(j, hand[w], pc[w])'
  BY <1>0, <1>1, <1>2, <1>3, <1>4, <1>5, <1>6 DEF ClaimFits, Started
<1>8. JobInv(j)'
  BY <1>1, <1>3, <1>5, <1>6, <1>7 DEF JobInv, JobFits
<1> QED BY <1>1, <1>3, <1>4, <1>5, <1>8, LocalStep

LEMMA HandBackInv ==
  ASSUME Inv, NEW w \in Workers, HandBack(w)
  PROVE  Inv'
<1>0. PICK j \in Jobs : j = JobOf(hand[w])
  BY HolderFacts DEF Inv, HandBack
<1>1. TypeOK /\ ModeKept /\ pc[w] \in {"paused", "claimed", "active"} /\ Release(w)
      /\ UNCHANGED sets /\ pel' = pel \ {hand[w]} /\ JobFits(j)
  <2>1. pc[w] \in {"paused", "claimed", "active"}
    BY DEF HandBack
  <2> QED BY <1>0, <2>1, ModeUnchanged DEF Inv, JobInv, HandBack
<1>2. /\ Queued(j) = {} /\ Pending(j) \subseteq {hand[w]} /\ ClaimFits(j, hand[w], pc[w])
      /\ hand[w] \in Entries /\ (hand[w] \in Pending(j) <=> hand[w] \in pel)
      /\ hand[w] \in Pending(j) \/ ~InStream(j)
  BY <1>0, <1>1, HolderStream
<1>3. SlotsKept(j) /\ Holders(j)' = {}
  BY <1>0, <1>1, ReleaseHolders
<1>4. SetsKept(j) /\ scheduled' = scheduled /\ completed' = completed /\ failed' = failed
  BY <1>1 DEF SetsKept, TypeOK, sets
<1>5. /\ job[j].state \in {"gone", "waiting", "failed", "active", "ghost"}
      /\ j \in failed => job[j].state = "gone" \/ job[j].revoked
  BY <1>1, <1>2 DEF ClaimFits, Started, JobFits
<1>6. CASE HasHash(j)
  <2>1. job' = [job EXCEPT ![j].state = "waiting"] /\ Enqueue(j)
    BY <1>0, <1>6 DEF HandBack
  <2>2. JobsKept(j) /\ job'[j].state = "waiting" /\ job'[j].revoked = job[j].revoked
    <3>1. "waiting" \in States
      BY DEF States
    <3> QED BY <1>1, <2>1, <3>1, StateChange
  <2>3. StreamKept(j) /\ Pending(j)' = {} /\ \E x : Queued(j)' = {x}
    BY <1>0, <1>1, <1>2, <2>1, EnqueueFits
  <2>4. j \notin scheduled' /\ j \notin completed' /\ (j \in failed' => job'[j].revoked)
    BY <1>1, <1>4, <1>5, <1>6, <2>2 DEF JobFits, HasHash, NoHash
  <2>5. JobInv(j)'
    BY <1>1, <1>3, <2>2, <2>3, <2>4, QueuedFits
  <2> QED BY <1>1, <1>3, <1>4, <2>2, <2>3, <2>5, LocalStep
<1>7. CASE ~HasHash(j)
  <2>1. job' = job /\ backlog' = backlog /\ job[j].state = "gone"
    BY <1>0, <1>5, <1>7 DEF HandBack, HasHash, NoHash
  <2>2. JobsKept(j)
    BY <1>1, <2>1 DEF JobsKept, TypeOK
  <2>3. StreamKept(j) /\ Queued(j)' = {} /\ Pending(j)' = {}
    BY <1>0, <1>1, <1>2, <2>1, AckFits
  <2>4. JobInv(j)'
    BY <1>1, <1>3, <1>4, <2>1, <2>3, RestingFits DEF JobFits
  <2> QED BY <1>1, <1>3, <1>4, <2>2, <2>3, <2>4, LocalStep
<1> QED BY <1>6, <1>7
LEMMA MoveToActiveInv ==
  ASSUME Inv, NEW w \in Workers, MoveToActive(w)
  PROVE  Inv'
<1>0. PICK j \in Jobs : j = JobOf(hand[w])
  BY HolderFacts DEF Inv, MoveToActive
<1>1. /\ TypeOK /\ ModeKept /\ pc[w] = "claimed" /\ JobInv(j) /\ JobFits(j)
      /\ scheduled' = scheduled /\ completed' = completed /\ backlog' = backlog
  BY <1>0, ModeUnchanged DEF Inv, JobInv, MoveToActive
<1>2. /\ Queued(j) = {} /\ Pending(j) \subseteq {hand[w]} /\ ClaimFits(j, hand[w], "claimed")
      /\ hand[w] \in Entries /\ (hand[w] \in Pending(j) <=> hand[w] \in pel)
      /\ hand[w] \in Pending(j) \/ ~InStream(j)
  BY <1>0, <1>1, HolderStream
<1>3. \/ job[j].state = "gone"
      \/ hand[w] \in Pending(j) /\ job[j].state = "waiting"
      \/ hand[w] \notin Pending(j) /\ job[j].state = "failed" /\ job[j].revoked
  BY <1>2 DEF ClaimFits
<1>4. ASSUME NEW p \in {"missing", "revoked", "paused"}, Goto(w, p), UNCHANGED <<job, pel, failed>>,
             p = "missing" => job[j].state = "gone",
             p /= "missing" => job[j].state = "waiting",
             p = "revoked" => job[j].revoked
      PROVE  Inv'
  <2>1. SlotsKept(j) /\ Holders(j)' = {w} /\ hand' = hand /\ pc'[w] = p
    BY <1>0, <1>1, <1>4, GotoHolders DEF PCs
  <2>2. StreamKept(j) /\ Queued(j)' = Queued(j) /\ Pending(j)' = Pending(j)
    BY <1>1, <1>4, StreamUnchanged DEF stream
  <2>3. JobsKept(j) /\ SetsKept(j)
    BY <1>1, <1>4 DEF JobsKept, SetsKept, TypeOK
  <2>4. Findable(j)' /\ EntriesFit(j)' /\ (InStream(j)' <=> InStream(j))
    BY <1>1, <1>4, <2>2 DEF JobInv, Findable, JobFits, EntriesFit, InStream
  <2>5. ClaimFits(j, hand[w], pc[w])'
    BY <1>2, <1>3, <1>4, <2>1, <2>2, <2>4 DEF ClaimFits, Started
  <2>6. JobInv(j)'
    BY <1>1, <1>4, <2>1, <2>4, <2>5 DEF JobInv, JobFits
  <2> QED BY <1>1, <2>1, <2>2, <2>3, <2>6, LocalStep
<1>5. ASSUME pel' = pel \ {hand[w]}, Release(w), job' \in [Jobs -> JobHash],
             \A i \in Jobs \ {j} : job'[i] = job[i], job'[j].state = "failed",
             failed' \in {failed, failed \cup {j}}, job[j].state \in {"waiting", "failed"}
      PROVE  Inv'
  <2>1. SlotsKept(j) /\ Holders(j)' = {}
    BY <1>0, <1>1, <1>5, ReleaseHolders
  <2>2. StreamKept(j) /\ Queued(j)' = {} /\ Pending(j)' = {}
    BY <1>0, <1>1, <1>2, <1>5, AckFits
  <2>3. JobsKept(j) /\ SetsKept(j) /\ j \notin scheduled' /\ j \notin completed'
    BY <1>1, <1>5 DEF JobsKept, SetsKept, TypeOK, JobFits
  <2>4. JobInv(j)'
    BY <1>5, <2>1, <2>2, <2>3, RestingFits
  <2> QED BY <1>1, <2>1, <2>2, <2>3, <2>4, LocalStep
<1>6. CASE ~HasHash(j) /\ Goto(w, "missing") /\ UNCHANGED <<job, pel, failed>>
  BY <1>3, <1>4, <1>6 DEF HasHash, NoHash
<1>7. CASE /\ HasHash(j) /\ ~(job[j].state \in Activatable)
           /\ pel' = pel \ {hand[w]} /\ Release(w) /\ UNCHANGED <<job, failed>>
  <2>1. job[j].state = "failed"
    BY <1>3, <1>7 DEF HasHash, NoHash, Activatable
  <2> QED BY <1>1, <1>5, <1>7, <2>1 DEF TypeOK
<1>8. CASE job[j].state \in Activatable /\ job[j].revoked /\ Goto(w, "revoked") /\ UNCHANGED <<job, pel, failed>>
  BY <1>3, <1>4, <1>8 DEF Activatable
<1>9. CASE job[j].state \in Activatable /\ Goto(w, "paused") /\ UNCHANGED <<job, pel, failed>>
  BY <1>3, <1>4, <1>9 DEF Activatable
<1>10. CASE job[j].state \in Activatable /\ ExpireJob(j) /\ pel' = pel \ {hand[w]} /\ Release(w)
  <2>1. job[j].state = "waiting"
    BY <1>3, <1>10 DEF Activatable
  <2>2. job' \in [Jobs -> JobHash] /\ (\A i \in Jobs \ {j} : job'[i] = job[i]) /\ job'[j].state = "failed"
    BY <1>1, <1>10 DEF ExpireJob, TypeOK, JobHash, States
  <2>3. failed' \in {failed, failed \cup {j}}
    BY <1>10 DEF ExpireJob
  <2> QED BY <1>5, <1>10, <2>1, <2>2, <2>3
<1>11. CASE /\ job[j].state \in Activatable /\ ~job[j].revoked /\ ~job[j].late
            /\ job' = [job EXCEPT ![j] = Activated(@)]
            /\ Goto(w, "active") /\ UNCHANGED <<pel, failed>>
  <2>1. job[j].state = "waiting" /\ hand[w] \in Pending(j) /\ j \notin failed /\ j \notin completed /\ j \notin scheduled
    BY <1>1, <1>3, <1>11 DEF Activatable, JobFits
  <2>2. SlotsKept(j) /\ Holders(j)' = {w} /\ hand' = hand /\ pc'[w] = "active"
    BY <1>0, <1>1, <1>11, GotoHolders DEF PCs
  <2>3. StreamKept(j) /\ Queued(j)' = {} /\ Pending(j)' = {hand[w]}
    BY <1>1, <1>2, <1>11, <2>1, StreamUnchanged DEF stream
  <2>4. /\ JobsKept(j) /\ SetsKept(j)
        /\ job'[j].state = "active" /\ job'[j].fresh /\ ~job'[j].late
        /\ j \notin failed' /\ j \notin completed' /\ j \notin scheduled'
    BY <1>1, <1>11, <2>1 DEF JobsKept, SetsKept, TypeOK, Activated, JobHash, States
  <2>5. ClaimFits(j, hand[w], pc[w])'
    BY <2>2, <2>3, <2>4 DEF ClaimFits, Started
  <2>6. JobInv(j)'
    BY <2>2, <2>3, <2>4, <2>5, HeldFits
  <2> QED BY <1>1, <2>2, <2>3, <2>4, <2>6, LocalStep
<1> QED BY <1>0, <1>6, <1>7, <1>8, <1>9, <1>10, <1>11 DEF MoveToActive

LEMMA HeartbeatInv ==
  ASSUME Inv, NEW w \in Workers, Heartbeat(w)
  PROVE  Inv'
<1>0. PICK j \in Jobs : j = JobOf(hand[w])
  BY HolderFacts DEF Inv, Heartbeat, Started
<1>1. /\ TypeOK /\ ModeKept /\ pc[w] \in Started /\ JobInv(j) /\ JobFits(j)
      /\ UNCHANGED stream /\ UNCHANGED sets /\ UNCHANGED slots
  BY <1>0, ModeUnchanged DEF Inv, JobInv, Heartbeat
<1>2. Holders(j) = {w} /\ ClaimFits(j, hand[w], pc[w])
  BY <1>0, <1>1, HolderStream DEF Started
<1>3. SlotsKept(j) /\ Holders(j)' = {w} /\ hand' = hand /\ pc' = pc
  BY <1>1, <1>2, SlotsUnchanged
<1>4. StreamKept(j) /\ Queued(j)' = Queued(j) /\ Pending(j)' = Pending(j)
  BY <1>1, StreamUnchanged
<1>5. job' = [job EXCEPT ![j] = IF HasHash(j) THEN [@ EXCEPT !.fresh = TRUE]
                                ELSE [Hash("ghost") EXCEPT !.fresh = TRUE]]
  BY <1>0 DEF Heartbeat
<1>6. /\ JobsKept(j) /\ job'[j].fresh /\ ~job'[j].late
      /\ job'[j].state = IF job[j].state = "gone" THEN "ghost" ELSE job[j].state
  <2>1. Hash("ghost") \in JobHash
    BY LimitAssumption DEF JobHash, Hash, States, NoState
  <2>2. HasHash(j) <=> job[j].state /= "gone"
    BY <1>1, <1>2 DEF ClaimFits, HasHash, NoHash
  <2> QED BY <1>1, <1>2, <1>5, <2>1, <2>2 DEF ClaimFits, JobsKept, TypeOK, JobHash, Hash
<1>7. SetsKept(j) /\ scheduled' = scheduled /\ completed' = completed /\ failed' = failed
  BY <1>1 DEF SetsKept, TypeOK, sets
<1>8. ClaimFits(j, hand[w], pc[w])'
  <2>1. InStream(j)' <=> InStream(j)
    BY <1>4 DEF InStream
  <2> QED BY <1>1, <1>2, <1>3, <1>4, <1>6, <1>7, <2>1 DEF ClaimFits, Started
<1>9. JobInv(j)'
  <2>1. job[j].state \in {"active", "gone", "ghost"} /\ j \notin failed /\ (job[j].state = "gone" => Pending(j) = {})
    BY <1>1, <1>2 DEF ClaimFits, InStream
  <2>2. Queued(j) = {}
    BY <1>0, <1>1, HolderStream DEF Started
  <2> QED BY <1>1, <1>3, <1>4, <1>6, <1>7, <1>8, <2>1, <2>2, HeldFits DEF JobInv, JobFits, EntriesFit, Findable
<1> QED BY <1>1, <1>3, <1>4, <1>6, <1>7, <1>9, LocalStep

LEMMA HeartbeatLapseInv ==
  ASSUME Inv, NEW j \in Jobs, HeartbeatLapse(j)
  PROVE  Inv'
<1>1. /\ TypeOK /\ ModeKept /\ JobInv(j) /\ JobFits(j)
      /\ UNCHANGED stream /\ UNCHANGED sets /\ UNCHANGED slots
  BY ModeUnchanged DEF Inv, JobInv, HeartbeatLapse
<1>2. /\ SlotsKept(j) /\ Holders(j)' = Holders(j) /\ hand' = hand /\ pc' = pc
      /\ StreamKept(j) /\ Queued(j)' = Queued(j) /\ Pending(j)' = Pending(j)
  BY <1>1, SlotsUnchanged, StreamUnchanged
<1>3. /\ JobsKept(j) /\ job'[j].state = job[j].state /\ job'[j].revoked = job[j].revoked
      /\ SetsKept(j) /\ scheduled' = scheduled /\ completed' = completed /\ failed' = failed
  BY <1>1 DEF HeartbeatLapse, JobsKept, SetsKept, TypeOK, JobHash, sets
<1>4. InStream(j)' <=> InStream(j)
  BY <1>2 DEF InStream
<1>5. ASSUME NEW w \in Holders(j) PROVE ClaimFits(j, hand[w], pc[w])'
  <2>1. ClaimFits(j, hand[w], pc[w]) /\ pc[w] \notin Started
    <3>1. w \in Workers /\ JobOf(hand[w]) = j /\ Live(w)
      BY <1>1, HolderFacts DEF Holders, Live, Inv
    <3> QED BY <1>1, <3>1 DEF JobFits, HeartbeatLapse, Runs
  <2> QED BY <1>2, <1>3, <1>4, <2>1 DEF ClaimFits, Started
<1>6. Findable(j)' /\ EntriesFit(j)'
  BY <1>1, <1>2, <1>3, <1>4 DEF JobInv, Findable, JobFits, EntriesFit
<1>7. JobInv(j)'
  BY <1>1, <1>2, <1>3, <1>5, <1>6 DEF JobInv, JobFits
<1> QED BY <1>1, <1>2, <1>3, <1>7, LocalStep
(* Every unread entry is its job's only one, and nobody holds the job.       *)
LEMMA UnreadEntry ==
  ASSUME Inv, NEW k \in 1..Len(backlog), NEW i, i = JobOf(backlog[k])
  PROVE  /\ i \in Jobs /\ backlog[k] \in Entries /\ backlog[k] \notin pel
         /\ Queued(i) = {backlog[k]} /\ Pending(i) = {} /\ Holders(i) = {}
         /\ job[i].state \in {"waiting", "gone"}
         /\ \A l \in 1..Len(backlog) : JobOf(backlog[l]) = i => l = k
<1>1. TypeOK /\ StreamWellFormed /\ backlog[k] \in Undelivered /\ backlog[k] \in Entries
  BY DEF Inv, TypeOK, Undelivered, Members
<1>2. i \in Jobs /\ backlog[k] \in Queued(i) /\ backlog[k] \notin pel
  BY <1>1, EntryFacts DEF Queued, StreamWellFormed
<1>3. EntriesFit(i)
  BY <1>2 DEF Inv, JobInv, JobFits
<1>4. Queued(i) = {backlog[k]} /\ Pending(i) = {}
  BY <1>2, <1>3 DEF EntriesFit, Pending
<1>5. Holders(i) = {}
  BY <1>2, <1>4, PendingHolder
<1>6. ASSUME NEW l \in 1..Len(backlog), JobOf(backlog[l]) = i PROVE l = k
  <2>1. backlog[l] \in Queued(i)
    BY <1>6 DEF Queued, Undelivered, Members
  <2> QED BY <1>1, <1>4, <2>1 DEF StreamWellFormed, Distinct
<1> QED BY <1>1, <1>2, <1>3, <1>4, <1>5, <1>6 DEF EntriesFit

(* Cutting the first m - 1 entries off takes them from their jobs, and no other. *)
LEMMA CutBacklog ==
  ASSUME Inv, NEW m \in 1..(Len(backlog) + 1), backlog' = SubSeq(backlog, m, Len(backlog))
  PROVE  /\ backlog' \in Seq(Entries) /\ Distinct(backlog') /\ Undelivered' \subseteq Undelivered
         /\ \A k \in 1..(m - 1) : backlog[k] \notin Undelivered'
         /\ \A i \in Jobs : IF \E k \in 1..(m - 1) : JobOf(backlog[k]) = i
                            THEN Queued(i)' = {} ELSE Queued(i)' = Queued(i)
<1>1. TypeOK /\ StreamWellFormed /\ backlog \in Seq(Entries) /\ Distinct(backlog)
  BY DEF Inv, TypeOK, StreamWellFormed
<1>2. /\ backlog' \in Seq(Entries) /\ Distinct(backlog')
      /\ \A x \in Entries : x \in Undelivered' <=> \E k \in m..Len(backlog) : backlog[k] = x
  BY <1>1, SuffixMembers DEF Undelivered
<1>3. Undelivered \subseteq Entries /\ Undelivered' \subseteq Entries
  BY <1>1, <1>2 DEF Undelivered, Members
<1>4. \A k \in 1..Len(backlog) : backlog[k] \in Undelivered
  BY DEF Undelivered, Members
<1>5. Undelivered' \subseteq Undelivered
  BY <1>2, <1>3, <1>4
<1>6. \A k \in 1..(m - 1) : backlog[k] \notin Undelivered'
  <2> SUFFICES ASSUME NEW k \in 1..(m - 1), backlog[k] \in Undelivered' PROVE FALSE
    OBVIOUS
  <2>1. PICK l \in m..Len(backlog) : backlog[l] = backlog[k]
    BY <1>2, <1>3
  <2> QED BY <1>1, <2>1 DEF Distinct
<1>7. ASSUME NEW i \in Jobs, NEW k \in 1..(m - 1), JobOf(backlog[k]) = i PROVE Queued(i)' = {}
  <2>1. k \in 1..Len(backlog)
    BY <1>1
  <2>2. Queued(i) = {backlog[k]}
    BY <1>7, <2>1, UnreadEntry
  <2> QED BY <1>5, <1>6, <2>2 DEF Queued
<1>8. ASSUME NEW i \in Jobs, \A k \in 1..(m - 1) : JobOf(backlog[k]) /= i PROVE Queued(i)' = Queued(i)
  <2>1. \A x \in Queued(i) : x \in Undelivered'
    <3> SUFFICES ASSUME NEW x \in Queued(i) PROVE x \in Undelivered'
      OBVIOUS
    <3>1. PICK k \in 1..Len(backlog) : backlog[k] = x
      BY DEF Queued, Undelivered, Members
    <3>2. k \in m..Len(backlog)
      BY <1>1, <1>8, <3>1 DEF Queued
    <3> QED BY <1>2, <1>3, <3>1, <3>2 DEF Queued
  <2> QED BY <1>5, <2>1 DEF Queued
<1> QED BY <1>2, <1>5, <1>6, <1>7, <1>8

(* A worker that trades its entry for an unread one.                         *)
SlotsTraded(w, j, i, e, p) ==
  /\ pc' \in [Workers -> PCs] /\ hand' \in [Workers -> Entries \cup {NoEntry}]
  /\ \A v \in Workers : pc'[v] = "idle" <=> hand'[v] = NoEntry
  /\ Holders(j)' = {} /\ Holders(i)' = {w} /\ hand'[w] = e /\ pc'[w] = p
  /\ \A k \in Jobs \ {i, j} :
       /\ Holders(k)' = Holders(k)
       /\ \A v \in Holders(k) : hand'[v] = hand[v] /\ pc'[v] = pc[v]

LEMMA TradeHolders ==
  ASSUME Inv, NEW w \in Workers, pc[w] /= "idle", NEW j \in Jobs, j = JobOf(hand[w]),
         NEW i \in Jobs \ {j}, NEW e \in Entries, JobOf(e) = i, Holders(i) = {},
         NEW p \in PCs \ {"idle"},
         pc' = [pc EXCEPT ![w] = p], hand' = [hand EXCEPT ![w] = e]
  PROVE  SlotsTraded(w, j, i, e, p)
<1>1. TypeOK /\ Holders(j) = {w}
  BY SoleHolder DEF Inv
<1>2. /\ pc' \in [Workers -> PCs] /\ hand' \in [Workers -> Entries \cup {NoEntry}]
      /\ \A v \in Workers \ {w} : hand'[v] = hand[v] /\ pc'[v] = pc[v]
      /\ hand'[w] = e /\ pc'[w] = p
  BY <1>1 DEF TypeOK, PCs
<1>3. \A v \in Workers : pc'[v] = "idle" <=> hand'[v] = NoEntry
  BY <1>1, <1>2, EntryFacts DEF TypeOK
<1>4. \A k \in Jobs : (e \in {k} \X Copies <=> k = i) /\ (w \in Holders(k) => k = j)
  BY <1>1, HolderFacts, EntryFacts
<1>5. Holders(j)' = {} /\ Holders(i)' = {w}
  BY <1>1, <1>2, <1>4 DEF Holders
<1>6. \A k \in Jobs \ {i, j} : Holders(k)' = Holders(k)
  BY <1>2, <1>4 DEF Holders
<1>7. \A k \in Jobs \ {i, j} : \A v \in Holders(k) : hand'[v] = hand[v] /\ pc'[v] = pc[v]
  BY <1>2, <1>4 DEF Holders
<1> QED BY <1>2, <1>3, <1>5, <1>6, <1>7 DEF SlotsTraded
(* What is left of the worker's own job when it completes or fails it, and   *)
(* fetches the next one in the same call.                                    *)
OwnDone(w, j, jb, fl) ==
  /\ jb \in [Jobs -> JobHash] /\ \A i \in Jobs \ {j} : jb[i] = job[i]
  /\ jb[j].state \in {"delayed", "completed", "failed", "gone", "ghost"}
  /\ fl \in {failed, failed \cup {j}} /\ (j \in fl => jb[j].state \in {"failed", "gone"})
  /\ scheduled' \in {scheduled, scheduled \cup {j}} /\ (j \in scheduled' <=> jb[j].state = "delayed")
  /\ completed' \in {completed, completed \cup {j}} /\ (j \in completed' => jb[j].state = "completed")

LEMMA ActivatedHash ==
  ASSUME NEW r \in JobHash
  PROVE  /\ Activated(r) \in JobHash /\ Activated(r).state = "active" /\ Activated(r).fresh
         /\ Activated(r).late = r.late
BY DEF Activated, JobHash, States

LEMMA FetchNextInv ==
  ASSUME Inv, NEW w \in Workers, pc[w] /= "idle", NEW j \in Jobs, j = JobOf(hand[w]), ModeKept,
         NEW jb, NEW fl, OwnDone(w, j, jb, fl), FetchNext(w, jb, pel \ {hand[w]}, fl)
  PROVE  Inv'
<1> DEFINE lapsed(n) == {i \in {JobOf(backlog[k]) : k \in 1..n} : jb[i].state \in Activatable}
           jb2(n) == [i \in Jobs |-> IF i \in lapsed(n) THEN [jb[i] EXCEPT !.state = "failed"] ELSE jb[i]]
           next(n) == backlog[n + 1]
<1>1. /\ TypeOK /\ StreamWellFormed /\ hand[w] \in Entries
      /\ Queued(j) = {} /\ Holders(j) = {w} /\ Pending(j) \subseteq {hand[w]}
  BY HolderStream DEF Inv
<1>2. PICK n \in 0..ChainAttempts :
        /\ n <= Len(backlog) /\ \A k \in 1..n : Skippable(jb, backlog[k])
        /\ failed' = fl \cup lapsed(n)
        /\ \/ /\ backlog' = SubSeq(backlog, n + 1, Len(backlog)) /\ pel' = pel \ {hand[w]}
              /\ job' = jb2(n) /\ Release(w)
           \/ /\ n < Len(backlog) /\ ~Skippable(jb2(n), next(n))
              /\ backlog' = SubSeq(backlog, n + 2, Len(backlog)) /\ pel' = (pel \ {hand[w]}) \cup {next(n)}
              /\ \/ ~HasState(jb2(n)[JobOf(next(n))]) /\ job' = jb2(n) /\ Release(w)
                 \/ /\ HasState(jb2(n)[JobOf(next(n))]) /\ jb2(n)[JobOf(next(n))].revoked /\ job' = jb2(n)
                    /\ pc' = [pc EXCEPT ![w] = "revoked"] /\ hand' = [hand EXCEPT ![w] = next(n)]
                 \/ /\ HasState(jb2(n)[JobOf(next(n))]) /\ ~jb2(n)[JobOf(next(n))].revoked
                    /\ job' = [jb2(n) EXCEPT ![JobOf(next(n))] = Activated(@)]
                    /\ pc' = [pc EXCEPT ![w] = "active"] /\ hand' = [hand EXCEPT ![w] = next(n)]
  BY DEF FetchNext
<1>3. ASSUME NEW k \in 1..Len(backlog)
      PROVE  /\ JobOf(backlog[k]) \in Jobs \ {j} /\ jb[JobOf(backlog[k])] = job[JobOf(backlog[k])]
             /\ Queued(JobOf(backlog[k])) = {backlog[k]}
             /\ Pending(JobOf(backlog[k])) = {} /\ Holders(JobOf(backlog[k])) = {}
             /\ job[JobOf(backlog[k])].state \in {"waiting", "gone"}
             /\ \A l \in 1..Len(backlog) : JobOf(backlog[l]) = JobOf(backlog[k]) => l = k
  BY <1>1, UnreadEntry DEF OwnDone
<1>4. n \in Nat /\ Len(backlog) \in Nat
  BY <1>1, <1>2 DEF TypeOK, ChainAttempts
<1>5. \A k \in 1..n : JobOf(backlog[k]) \in lapsed(n) /\ job[JobOf(backlog[k])].state = "waiting"
  <2> SUFFICES ASSUME NEW k \in 1..n
               PROVE  JobOf(backlog[k]) \in lapsed(n) /\ job[JobOf(backlog[k])].state = "waiting"
    OBVIOUS
  <2>1. k \in 1..Len(backlog) /\ Skippable(jb, backlog[k])
    BY <1>2, <1>4
  <2>2. job[JobOf(backlog[k])].state = "waiting" /\ jb[JobOf(backlog[k])].state = "waiting"
    BY <1>3, <2>1 DEF Skippable, HasState, NoState, NoHash
  <2> QED BY <2>2 DEF Activatable
<1>6. lapsed(n) \subseteq Jobs \ {j} /\ \A i \in lapsed(n) : \E k \in 1..n : JobOf(backlog[k]) = i
  BY <1>2, <1>3, <1>4
<1>7. jb2(n) \in [Jobs -> JobHash]
  BY <1>6 DEF OwnDone, JobHash, States
<1>8. \A i \in Jobs : jb2(n)[i] = IF i \in lapsed(n) THEN [jb[i] EXCEPT !.state = "failed"] ELSE jb[i]
  OBVIOUS
<1> HIDE DEF jb2, lapsed, next
(* Neither finished, skipped nor fetched: nothing about the job changes.     *)
<1>10. ASSUME NEW i \in Jobs \ {j}, i \notin lapsed(n), job'[i] = jb2(n)[i],
              Queued(i)' = Queued(i), Pending(i)' = Pending(i), Holders(i)' = Holders(i),
              \A v \in Holders(i) : hand'[v] = hand[v] /\ pc'[v] = pc[v]
       PROVE  JobInv(i)'
  <2>1. job'[i] = job[i]
    BY <1>8, <1>10 DEF OwnDone
  <2>2. (i \in scheduled' <=> i \in scheduled) /\ (i \in completed' <=> i \in completed)
    BY DEF OwnDone
  <2>3. i \in failed' <=> i \in failed
    BY <1>2, <1>10 DEF OwnDone
  <2>4. Same(i)
    BY <1>10, <2>1, <2>2, <2>3 DEF Same
  <2> QED BY <2>4, SameKeeps DEF Inv
(* A skipped job had expired: it is failed and at rest.                      *)
<1>11. ASSUME NEW i \in lapsed(n), job'[i] = jb2(n)[i], Queued(i)' = {}, Pending(i)' = {}, Holders(i)' = {}
       PROVE  JobInv(i)'
  <2>1. i \in Jobs \ {j} /\ job[i].state = "waiting"
    BY <1>5, <1>6
  <2>2. job'[i].state = "failed" /\ i \in failed'
    <3>1. jb[i] \in JobHash
      BY <2>1 DEF OwnDone
    <3>2. job'[i] = [jb[i] EXCEPT !.state = "failed"]
      BY <1>8, <1>11, <2>1
    <3>3. job'[i].state = "failed"
      BY <3>1, <3>2 DEF JobHash
    <3>4. i \in failed'
      BY <1>2, <1>11
    <3> QED BY <3>3, <3>4
  <2>3. i \notin scheduled' /\ i \notin completed'
    <3>1. JobFits(i)
      BY <2>1 DEF Inv, JobInv
    <3> QED BY <2>1, <3>1 DEF JobFits, OwnDone
  <2> QED BY <2>1, <2>2, <2>3, <1>11, RestingFits
(* The worker's own job is at rest.                                          *)
<1>12. ASSUME job'[j] = jb2(n)[j], Queued(j)' = {}, Pending(j)' = {}, Holders(j)' = {}
       PROVE  JobInv(j)'
  <2>1. job'[j] = jb[j] /\ (j \in failed' <=> j \in fl)
    BY <1>2, <1>6, <1>8, <1>12
  <2> QED BY <1>12, <2>1, RestingFits DEF OwnDone
<1>13. scheduled' \subseteq Jobs /\ completed' \subseteq Jobs /\ failed' \subseteq Jobs
  BY <1>1, <1>2, <1>6 DEF OwnDone, TypeOK
<1>14. CASE /\ backlog' = SubSeq(backlog, n + 1, Len(backlog)) /\ pel' = pel \ {hand[w]}
            /\ job' = jb2(n) /\ Release(w)
  <2>1. n + 1 \in 1..(Len(backlog) + 1) /\ (n + 1) - 1 = n
    BY <1>2, <1>4
  <2>2. /\ backlog' \in Seq(Entries) /\ Distinct(backlog') /\ Undelivered' \subseteq Undelivered
        /\ \A i \in Jobs : IF \E k \in 1..n : JobOf(backlog[k]) = i
                           THEN Queued(i)' = {} ELSE Queued(i)' = Queued(i)
    BY <1>14, <2>1, CutBacklog
  <2>3. SlotsKept(j) /\ Holders(j)' = {}
    BY <1>14, ReleaseHolders
  <2>4. Pending(j)' = {} /\ \A i \in Jobs \ {j} : Pending(i)' = Pending(i)
    BY <1>1, <1>14 DEF Pending
  <2>5. TypeOK' /\ StreamWellFormed' /\ hung' = {}
    BY <1>1, <1>7, <1>13, <1>14, <2>2, <2>3 DEF TypeOK, StreamWellFormed, SlotsKept, ModeKept
  <2>6. ASSUME NEW i \in Jobs PROVE JobInv(i)'
    <3>1. CASE i = j
      BY <1>1, <1>3, <1>12, <1>14, <2>2, <2>3, <2>4, <3>1
    <3>2. CASE i \in lapsed(n)
      <4>1. PICK k \in 1..n : JobOf(backlog[k]) = i
        BY <1>6, <3>2
      <4>2. k \in 1..Len(backlog)
        BY <1>2, <1>4
      <4>3. Pending(i) = {} /\ Holders(i) = {} /\ i \in Jobs \ {j}
        BY <1>3, <4>1, <4>2
      <4> QED BY <1>11, <1>14, <2>2, <2>3, <2>4, <3>2, <4>1, <4>3 DEF SlotsKept
    <3>3. CASE i \in Jobs \ {j} /\ i \notin lapsed(n)
      BY <1>5, <1>10, <1>14, <2>2, <2>3, <2>4, <3>3 DEF SlotsKept
    <3> QED BY <3>1, <3>2, <3>3
  <2> QED BY <2>5, <2>6 DEF Inv
<1>15. ASSUME n < Len(backlog), ~Skippable(jb2(n), next(n)),
              backlog' = SubSeq(backlog, n + 2, Len(backlog)),
              pel' = (pel \ {hand[w]}) \cup {next(n)}
       PROVE  \E e \in Entries, i \in Jobs \ {j} :
                /\ e = next(n) /\ i = JobOf(e) /\ i \notin lapsed(n)
                /\ jb2(n)[i] = job[i] /\ job[i].state \in {"waiting", "gone"}
                /\ Holders(i) = {} /\ Queued(i)' = {} /\ Pending(i)' = {e}
                /\ backlog' \in Seq(Entries) /\ Distinct(backlog')
                /\ pel' \subseteq Entries /\ StreamWellFormed'
                /\ Queued(j)' = {} /\ Pending(j)' = {}
                /\ \A k \in lapsed(n) : Queued(k)' = {} /\ Pending(k)' = {} /\ Holders(k) = {}
                /\ \A k \in Jobs \ {i, j} :
                     k \notin lapsed(n) => Queued(k)' = Queued(k) /\ Pending(k)' = Pending(k)
  <2>1. n + 1 \in 1..Len(backlog) /\ n + 2 \in 1..(Len(backlog) + 1) /\ (n + 2) - 1 = n + 1
    BY <1>2, <1>4, <1>15
  <2>0. PICK e \in Entries : e = next(n) /\ e \in Undelivered
    BY <1>1, <2>1 DEF next, Undelivered, Members, TypeOK
  <2>2. PICK i \in Jobs \ {j} : i = JobOf(e)
    BY <1>3, <2>0, <2>1 DEF next
  <2>3. /\ jb[i] = job[i] /\ Queued(i) = {e} /\ Pending(i) = {} /\ Holders(i) = {}
        /\ job[i].state \in {"waiting", "gone"} /\ \A l \in 1..n : JobOf(backlog[l]) /= i
    <3>1. \A l \in 1..n : l \in 1..Len(backlog) /\ l /= n + 1
      BY <1>2, <1>4
    <3> QED BY <1>3, <2>0, <2>1, <2>2, <3>1 DEF next
  <2>4. i \notin lapsed(n) /\ jb2(n)[i] = job[i]
    BY <1>6, <1>8, <2>3
  <2>5. /\ backlog' \in Seq(Entries) /\ Distinct(backlog') /\ Undelivered' \subseteq Undelivered
        /\ e \notin Undelivered'
        /\ \A k \in Jobs : IF \E l \in 1..(n + 1) : JobOf(backlog[l]) = k
                           THEN Queued(k)' = {} ELSE Queued(k)' = Queued(k)
    <3>1. n + 1 \in 1..((n + 2) - 1)
      BY <1>4
    <3> QED BY <1>15, <2>0, <2>1, <3>1, CutBacklog DEF next
  <2>7. pel' \subseteq Entries /\ StreamWellFormed'
    BY <1>1, <1>15, <2>0, <2>5 DEF StreamWellFormed, TypeOK
  <2>8. Pending(j)' = {} /\ Pending(i)' = {e} /\ \A k \in Jobs \ {i, j} : Pending(k)' = Pending(k)
    BY <1>1, <1>15, <2>0, <2>2, <2>3 DEF Pending
  <2>9. Queued(j)' = {} /\ Queued(i)' = {}
    <3>1. \A l \in 1..(n + 1) : l \in 1..Len(backlog)
      BY <1>2, <1>4, <2>1
    <3> QED BY <1>1, <2>0, <2>1, <2>2, <2>5, <3>1 DEF next
  <2>10. ASSUME NEW k \in lapsed(n) PROVE Queued(k)' = {} /\ Pending(k)' = {} /\ Holders(k) = {}
    <3>1. PICK l \in 1..n : JobOf(backlog[l]) = k
      BY <1>6, <2>10
    <3>2. l \in 1..Len(backlog) /\ l \in 1..(n + 1)
      BY <1>2, <1>4
    <3>3. Pending(k) = {} /\ Holders(k) = {} /\ k \in Jobs \ {i, j}
      BY <1>3, <2>4, <3>1, <3>2
    <3> QED BY <2>5, <2>8, <3>1, <3>2, <3>3
  <2>11. ASSUME NEW k \in Jobs \ {i, j}, k \notin lapsed(n)
         PROVE  Queued(k)' = Queued(k) /\ Pending(k)' = Pending(k)
    <3>1. \A l \in 1..(n + 1) : JobOf(backlog[l]) /= k
      <4>1. \A l \in 1..(n + 1) : l \in 1..n \/ l = n + 1
        BY <1>4
      <4> QED BY <1>5, <2>0, <2>2, <2>11, <4>1 DEF next
    <3> QED BY <2>5, <2>8, <3>1
  <2> QED BY <2>0, <2>2, <2>3, <2>4, <2>5, <2>7, <2>8, <2>9, <2>10, <2>11
<1>16. CASE /\ n < Len(backlog) /\ ~Skippable(jb2(n), next(n))
            /\ backlog' = SubSeq(backlog, n + 2, Len(backlog)) /\ pel' = (pel \ {hand[w]}) \cup {next(n)}
            /\ ~HasState(jb2(n)[JobOf(next(n))]) /\ job' = jb2(n) /\ Release(w)
  <2>1. PICK e \in Entries, i \in Jobs \ {j} :
         /\ e = next(n) /\ i = JobOf(e) /\ i \notin lapsed(n)
         /\ jb2(n)[i] = job[i] /\ job[i].state \in {"waiting", "gone"}
         /\ Holders(i) = {} /\ Queued(i)' = {} /\ Pending(i)' = {e}
         /\ backlog' \in Seq(Entries) /\ Distinct(backlog')
         /\ pel' \subseteq Entries /\ StreamWellFormed'
         /\ Queued(j)' = {} /\ Pending(j)' = {}
         /\ \A k \in lapsed(n) : Queued(k)' = {} /\ Pending(k)' = {} /\ Holders(k) = {}
         /\ \A k \in Jobs \ {i, j} :
              k \notin lapsed(n) => Queued(k)' = Queued(k) /\ Pending(k)' = Pending(k)
    BY <1>15, <1>16
  <2>2. /\ i \notin lapsed(n) /\ job'[i] = job[i] /\ job[i].state = "gone" /\ Holders(i) = {}
        /\ Queued(i)' = {} /\ Pending(i)' = {e}
    BY <1>16, <2>1 DEF HasState, NoState, NoHash
  <2>3. SlotsKept(j) /\ Holders(j)' = {}
    BY <1>16, ReleaseHolders
  <2>4. TypeOK' /\ StreamWellFormed' /\ hung' = {}
    BY <1>1, <1>7, <1>13, <2>1, <1>16, <2>3 DEF TypeOK, SlotsKept, ModeKept
  <2>5. JobInv(i)'
    <3>1. Holders(i)' = {}
      BY <2>1, <2>2, <2>3 DEF SlotsKept
    <3>2. i \notin scheduled' /\ i \notin completed'
      BY <2>1, <2>2 DEF OwnDone, Inv, JobInv, JobFits
    <3> QED BY <2>1, <2>2, <3>1, <3>2 DEF JobInv, Findable, JobFits, EntriesFit, InStream
  <2>6. ASSUME NEW k \in Jobs PROVE JobInv(k)'
    <3>1. CASE k = j
      BY <1>12, <2>1, <1>16, <2>3, <3>1
    <3>2. CASE k = i
      BY <2>5, <3>2
    <3>3. CASE k \in lapsed(n)
      <4>1. k \in Jobs \ {j} /\ Holders(k)' = {}
        BY <1>6, <2>1, <1>16, <2>3, <3>3 DEF SlotsKept
      <4> QED BY <1>11, <2>1, <1>16, <3>3, <4>1
    <3>4. CASE k \in Jobs \ {i, j} /\ k \notin lapsed(n)
      BY <1>10, <1>16, <2>1, <2>3, <3>4 DEF SlotsKept
    <3> QED BY <3>1, <3>2, <3>3, <3>4
  <2> QED BY <2>4, <2>6 DEF Inv
<1>17. CASE /\ n < Len(backlog) /\ ~Skippable(jb2(n), next(n))
            /\ backlog' = SubSeq(backlog, n + 2, Len(backlog)) /\ pel' = (pel \ {hand[w]}) \cup {next(n)}
            /\ HasState(jb2(n)[JobOf(next(n))])
            /\ \E p \in {"revoked", "active"} :
                 /\ pc' = [pc EXCEPT ![w] = p] /\ hand' = [hand EXCEPT ![w] = next(n)]
                 /\ IF p = "revoked"
                    THEN jb2(n)[JobOf(next(n))].revoked /\ job' = jb2(n)
                    ELSE /\ ~jb2(n)[JobOf(next(n))].revoked
                         /\ job' = [jb2(n) EXCEPT ![JobOf(next(n))] = Activated(@)]
  <2>1. PICK e \in Entries, i \in Jobs \ {j} :
         /\ e = next(n) /\ i = JobOf(e) /\ i \notin lapsed(n)
         /\ jb2(n)[i] = job[i] /\ job[i].state \in {"waiting", "gone"}
         /\ Holders(i) = {} /\ Queued(i)' = {} /\ Pending(i)' = {e}
         /\ backlog' \in Seq(Entries) /\ Distinct(backlog')
         /\ pel' \subseteq Entries /\ StreamWellFormed'
         /\ Queued(j)' = {} /\ Pending(j)' = {}
         /\ \A k \in lapsed(n) : Queued(k)' = {} /\ Pending(k)' = {} /\ Holders(k) = {}
         /\ \A k \in Jobs \ {i, j} :
              k \notin lapsed(n) => Queued(k)' = Queued(k) /\ Pending(k)' = Pending(k)
    BY <1>15, <1>17
  <2>2. PICK p \in {"revoked", "active"} :
          /\ pc' = [pc EXCEPT ![w] = p] /\ hand' = [hand EXCEPT ![w] = e]
          /\ IF p = "revoked" THEN jb2(n)[i].revoked /\ job' = jb2(n)
             ELSE ~jb2(n)[i].revoked /\ job' = [jb2(n) EXCEPT ![i] = Activated(@)]
    BY <1>17, <2>1
  <2>3. /\ i \notin lapsed(n) /\ jb2(n)[i] = job[i] /\ job[i].state = "waiting" /\ Holders(i) = {}
        /\ Queued(i)' = {} /\ Pending(i)' = {e}
    BY <1>17, <2>1 DEF HasState, NoState, NoHash
  <2>4. SlotsTraded(w, j, i, e, p)
    <3>1. p \in PCs \ {"idle"} /\ JobOf(e) = i /\ Holders(i) = {}
      BY <2>1 DEF PCs
    <3>2. pc' = [pc EXCEPT ![w] = p] /\ hand' = [hand EXCEPT ![w] = e]
      BY <2>2
    <3> QED BY <3>1, <3>2, TradeHolders
  <2>5. /\ job' \in [Jobs -> JobHash] /\ \A k \in Jobs \ {i} : job'[k] = jb2(n)[k]
        /\ p = "revoked" => job'[i] = job[i] /\ job[i].revoked
        /\ p = "active" => job'[i] = Activated(job[i]) /\ ~job[i].revoked
    <3>1. job[i] \in JobHash /\ Activated(job[i]) \in JobHash
      BY <1>1, <2>1, ActivatedHash DEF TypeOK
    <3>2. CASE p = "revoked"
      BY <1>7, <2>2, <2>3, <3>2
    <3>3. CASE p = "active"
      BY <1>7, <2>2, <2>3, <3>1, <3>3
    <3> QED BY <3>2, <3>3
  <2>6. TypeOK' /\ StreamWellFormed' /\ hung' = {}
    BY <1>1, <1>13, <2>1, <1>17, <2>4, <2>5 DEF TypeOK, ModeKept, SlotsTraded
  <2>7. JobInv(i)'
    <3>1. JobFits(i) /\ job[i] \in JobHash
      BY <1>1, <2>1 DEF Inv, JobInv, TypeOK
    <3>2. i \notin scheduled' /\ i \notin completed'
      BY <2>1, <2>3, <3>1 DEF OwnDone, JobFits
    <3>3. i \in failed' <=> i \in failed
      BY <1>2, <2>1, <2>3 DEF OwnDone
    <3>4. CASE p = "revoked"
      <4>1. job'[i].state = "waiting" /\ job'[i].revoked
        BY <2>3, <2>5, <3>4
      <4>2. ClaimFits(i, hand[w], pc[w])'
        BY <2>3, <2>4, <3>4, <4>1, SMTT(15) DEF ClaimFits, Started, SlotsTraded
      <4> QED BY <2>1, <2>3, <2>4, <3>2, <4>1, <4>2, HeldFits, ZenonT(60) DEF SlotsTraded
    <3>5. CASE p = "active"
      <4>1. ~job[i].late
        BY <1>17, <2>1, <2>3, <2>5, <3>5 DEF Skippable
      <4>2. job'[i].state = "active" /\ job'[i].fresh /\ ~job'[i].late
        BY <2>5, <3>1, <3>5, <4>1 DEF Activated, JobHash
      <4>3. i \notin failed'
        BY <2>3, <2>5, <3>1, <3>3, <3>5 DEF JobFits
      <4>4. ClaimFits(i, hand[w], pc[w])'
        BY <2>3, <2>4, <3>5, <4>2, <4>3, SMTT(15) DEF ClaimFits, Started, SlotsTraded
      <4> QED BY <2>1, <2>3, <2>4, <3>2, <4>2, <4>3, <4>4, HeldFits, ZenonT(60) DEF SlotsTraded
    <3> QED BY <3>4, <3>5
  <2>8. ASSUME NEW k \in Jobs PROVE JobInv(k)'
    <3>1. CASE k = j
      BY <1>12, <1>17, <2>1, <2>4, <2>5, <3>1 DEF SlotsTraded
    <3>2. CASE k = i
      BY <2>7, <3>2
    <3>3. CASE k \in lapsed(n)
      <4>1. k \in Jobs \ {i, j} /\ Holders(k)' = {} /\ job'[k] = jb2(n)[k]
        BY <1>6, <2>1, <1>17, <2>3, <2>4, <2>5, <3>3 DEF SlotsTraded
      <4> QED BY <1>11, <2>1, <1>17, <3>3, <4>1
    <3>4. CASE k \in Jobs \ {i, j} /\ k \notin lapsed(n)
      BY <1>10, <1>17, <2>1, <2>4, <2>5, <3>4 DEF SlotsTraded
    <3> QED BY <3>1, <3>2, <3>3, <3>4
  <2> QED BY <2>6, <2>8 DEF Inv
<1> QED BY <1>2, <1>14, <1>16, <1>17

LEMMA FinishWithInv ==
  ASSUME Inv, NEW w \in Workers, pc[w] /= "idle", NEW j \in Jobs, j = JobOf(hand[w]), ModeKept,
         NEW jb, NEW fl, NEW chain, OwnDone(w, j, jb, fl),
         FinishWith(w, chain, jb, pel \ {hand[w]}, fl)
  PROVE  Inv'
<1>1. CASE FetchNext(w, jb, pel \ {hand[w]}, fl)
  BY <1>1, FetchNextInv
<1>2. CASE /\ job' = jb /\ pel' = pel \ {hand[w]} /\ failed' = fl
           /\ backlog' = backlog /\ Release(w)
  <2>1. hand[w] \in Entries /\ (hand[w] \in Pending(j) \/ ~InStream(j)) /\ TypeOK
    BY HolderStream DEF Inv
  <2>2. SlotsKept(j) /\ Holders(j)' = {}
    BY <1>2, ReleaseHolders
  <2>3. StreamKept(j) /\ Queued(j)' = {} /\ Pending(j)' = {}
    BY <1>2, <2>1, AckFits
  <2>4. JobsKept(j) /\ SetsKept(j)
    BY <1>2, <2>1 DEF OwnDone, JobsKept, SetsKept, TypeOK
  <2>5. JobInv(j)'
    BY <1>2, <2>2, <2>3, RestingFits DEF OwnDone
  <2> QED BY <2>2, <2>3, <2>4, <2>5, LocalStep
<1> QED BY <1>1, <1>2 DEF FinishWith

(* What a worker that may finish a job can find: the job it owns, or a job   *)
(* that was removed or revoked in the meantime.                              *)
LEMMA FinisherFacts ==
  ASSUME Inv, NEW w \in Workers, NEW j \in Jobs, j = JobOf(hand[w]),
         pc[w] \in {"running", "missing", "revoked"}
  PROVE  /\ TypeOK /\ job[j] \in JobHash /\ JobFits(j) /\ pc[w] /= "idle"
         /\ pc[w] = "running" => job[j].state \in {"active", "gone", "ghost"} /\ j \notin failed
         /\ pc[w] = "missing" => job[j].state = "gone"
         /\ pc[w] = "revoked" => job[j].state \in {"waiting", "failed", "gone"}
<1>1. ClaimFits(j, hand[w], pc[w]) /\ JobFits(j) /\ TypeOK
  BY HolderStream DEF Inv, JobInv
<1> QED BY <1>1 DEF ClaimFits, Started, TypeOK

LEMMA CompleteJobInv ==
  ASSUME Inv, NEW w \in Workers, pc[w] \in {"running", "missing"},
         NEW keep \in BOOLEAN, NEW chain, CompleteJob(w, keep, chain)
  PROVE  Inv'
<1>0. PICK j \in Jobs : j = JobOf(hand[w])
  BY HolderFacts DEF Inv
<1>1. /\ TypeOK /\ job[j] \in JobHash /\ JobFits(j) /\ ModeKept
      /\ job[j].state \in {"active", "gone", "ghost"}
      /\ j \in failed => job[j].state = "gone"
  BY <1>0, FinisherFacts, ModeUnchanged DEF CompleteJob
<1> DEFINE Ended == IF keep THEN [job[j] EXCEPT !.state = "completed"] ELSE Hash("gone")
           jb == IF HasState(job[j]) THEN [job EXCEPT ![j] = Ended] ELSE job
<1>2. /\ FinishWith(w, chain, jb, pel \ {hand[w]}, failed)
      /\ completed' = IF HasState(job[j]) /\ keep THEN completed \cup {j} ELSE completed
      /\ scheduled' = scheduled
  BY <1>0 DEF CompleteJob
<1>3. Ended \in JobHash /\ Ended.state = IF keep THEN "completed" ELSE "gone"
  BY <1>1, LimitAssumption DEF JobHash, Hash, States, NoState, NoHash
<1>4. jb \in [Jobs -> JobHash] /\ \A i \in Jobs \ {j} : jb[i] = job[i]
  BY <1>1, <1>3 DEF TypeOK
<1>5. j \notin scheduled /\ j \notin completed
  BY <1>1 DEF JobFits
<1>6. CASE HasState(job[j])
  <2>1. jb[j] = Ended /\ job[j].state = "active" /\ j \notin failed
    BY <1>1, <1>6 DEF HasState, NoState, NoHash, TypeOK
  <2>2. OwnDone(w, j, jb, failed)
    BY <1>2, <1>3, <1>4, <1>5, <1>6, <2>1 DEF OwnDone
  <2> QED BY <1>0, <1>1, <1>2, <2>2, FinishWithInv
<1>7. CASE ~HasState(job[j])
  <2>1. jb = job /\ job[j].state \in {"gone", "ghost"}
    BY <1>1, <1>7 DEF HasState, NoState, NoHash
  <2>2. OwnDone(w, j, jb, failed)
    BY <1>1, <1>2, <1>4, <1>5, <1>7, <2>1 DEF OwnDone
  <2> QED BY <1>0, <1>1, <1>2, <2>2, FinishWithInv
<1> QED BY <1>6, <1>7

LEMMA SettleMissingInv ==
  ASSUME Inv, NEW w \in Workers, SettleMissing(w)
  PROVE  Inv'
<1>1. CASE CompleteJob(w, TRUE, FALSE)
  BY <1>1, CompleteJobInv DEF SettleMissing
<1>2. CASE Release(w) /\ UNCHANGED <<job, stream, sets, mode>>
  <2>0. PICK j \in Jobs : j = JobOf(hand[w])
    BY HolderFacts DEF Inv, SettleMissing
  <2>1. /\ TypeOK /\ ModeKept /\ JobInv(j) /\ pc[w] = "missing"
    BY <1>2, ModeUnchanged DEF Inv, SettleMissing
  <2>2. SlotsKept(j) /\ Holders(j)' = {}
    BY <1>2, <2>0, <2>1, ReleaseHolders
  <2>3. StreamKept(j) /\ Queued(j)' = Queued(j) /\ Pending(j)' = Pending(j)
    BY <1>2, StreamUnchanged
  <2>4. /\ JobsKept(j) /\ SetsKept(j) /\ job' = job
        /\ scheduled' = scheduled /\ completed' = completed /\ failed' = failed
    BY <1>2, <2>1 DEF JobsKept, SetsKept, TypeOK, sets
  <2>5. JobInv(j)'
    BY <2>1, <2>2, <2>3, <2>4 DEF JobInv, Findable, JobFits, EntriesFit, InStream
  <2> QED BY <2>1, <2>2, <2>3, <2>4, <2>5, LocalStep
<1> QED BY <1>1, <1>2 DEF SettleMissing

LEMMA FailJobInv ==
  ASSUME Inv, NEW w \in Workers, pc[w] \in {"running", "revoked"}, NEW cap \in Nat,
         pc[w] = "revoked" => cap = 0,
         NEW keep \in BOOLEAN, NEW chain, FailJob(w, cap, keep, chain)
  PROVE  Inv'
<1>0. PICK j \in Jobs : j = JobOf(hand[w])
  BY HolderFacts DEF Inv
<1>1. /\ TypeOK /\ job[j] \in JobHash /\ JobFits(j) /\ ModeKept
      /\ pc[w] = "running" => job[j].state \in {"active", "gone", "ghost"} /\ j \notin failed
      /\ pc[w] = "revoked" => job[j].state \in {"waiting", "failed", "gone"}
  BY <1>0, FinisherFacts, ModeUnchanged DEF FailJob
<1> DEFINE tries == Bump(job[j].attempts, MaxAttempts)
           retry == HasHash(j) /\ RetriesLeft(tries, cap)
           r == [job[j] EXCEPT !.attempts = tries, !.state = IF retry THEN "delayed" ELSE "failed"]
           jb == IF ~HasHash(j) THEN job
                 ELSE [job EXCEPT ![j] = IF retry \/ keep THEN r ELSE Hash("gone")]
           fl == IF HasHash(j) /\ ~retry /\ keep THEN failed \cup {j} ELSE failed
<1>2. /\ FinishWith(w, chain, jb, pel \ {hand[w]}, fl)
      /\ scheduled' = IF retry THEN scheduled \cup {j} ELSE scheduled
      /\ completed' = completed
  BY <1>0 DEF FailJob
<1>3. tries \in 0..MaxAttempts
  BY <1>1, LimitAssumption DEF Bump, JobHash
<1>4. r \in JobHash /\ r.state = (IF retry THEN "delayed" ELSE "failed") /\ Hash("gone") \in JobHash
  <2>1. Hash("gone") \in JobHash
    BY LimitAssumption DEF JobHash, Hash, States, NoState, NoHash
  <2>2. ASSUME NEW t \in 0..MaxAttempts, NEW s \in States
        PROVE  LET x == [job[j] EXCEPT !.attempts = t, !.state = s]
               IN  x \in JobHash /\ x.state = s
    BY <1>1 DEF JobHash
  <2>3. (IF retry THEN "delayed" ELSE "failed") \in States
    BY DEF States
  <2> HIDE DEF tries, retry
  <2> QED BY <1>3, <2>1, <2>2, <2>3
<1>5. j \notin scheduled /\ j \notin completed
  BY <1>1 DEF JobFits
<1>6. HasHash(j) <=> job[j].state /= "gone"
  BY <1>1 DEF HasHash, NoHash
<1> HIDE DEF r
<1>7. jb \in [Jobs -> JobHash] /\ (\A i \in Jobs \ {j} : jb[i] = job[i])
      /\ jb[j] = IF ~HasHash(j) THEN job[j] ELSE IF retry \/ keep THEN r ELSE Hash("gone")
  BY <1>1, <1>4 DEF TypeOK
<1>8. jb[j].state = IF ~HasHash(j) THEN "gone" ELSE IF retry THEN "delayed"
                    ELSE IF keep THEN "failed" ELSE "gone"
  BY <1>1, <1>4, <1>6, <1>7 DEF Hash
<1>9. retry => j \notin failed
  BY <1>1 DEF RetriesLeft
<1> HIDE DEF retry, jb
<1>10. OwnDone(w, j, jb, fl)
  <2>1. jb[j].state \in {"delayed", "completed", "failed", "gone", "ghost"}
    BY <1>8
  <2>2. fl \in {failed, failed \cup {j}} /\ (j \in fl => jb[j].state \in {"failed", "gone"})
    BY <1>8, <1>9
  <2>3. j \in scheduled' <=> jb[j].state = "delayed"
    BY <1>2, <1>5, <1>8 DEF retry
  <2>4. scheduled' \in {scheduled, scheduled \cup {j}}
    BY <1>2
  <2> QED BY <1>2, <1>5, <1>7, <2>1, <2>2, <2>3, <2>4 DEF OwnDone
<1> QED BY <1>0, <1>1, <1>2, <1>10, FinishWithInv

LEMMA CompleteInv ==
  ASSUME Inv, NEW w \in Workers, NEW keep \in BOOLEAN, NEW chain \in BOOLEAN, Complete(w, keep, chain)
  PROVE  Inv'
BY CompleteJobInv DEF Complete

LEMMA FailInv ==
  ASSUME Inv, NEW w \in Workers, NEW unrecoverable \in BOOLEAN, NEW keep \in BOOLEAN,
         NEW chain \in BOOLEAN, Fail(w, unrecoverable, keep, chain)
  PROVE  Inv'
<1>1. pc[w] = "running" /\ FailJob(w, IF unrecoverable THEN 0 ELSE MaxAttempts, keep, chain)
  BY DEF Fail
<1>2. (IF unrecoverable THEN 0 ELSE MaxAttempts) \in Nat
  BY LimitAssumption
<1> QED BY <1>1, <1>2, FailJobInv

LEMMA FailRevokedInv ==
  ASSUME Inv, NEW w \in Workers, FailRevoked(w)
  PROVE  Inv'
BY FailJobInv DEF FailRevoked

(* The worker puts its job back among the scheduled ones, or finds it removed. *)
LEMMA ParkInv ==
  ASSUME Inv, NEW w \in Workers, NEW j \in Jobs, j = JobOf(hand[w]), pc[w] = "running",
         pel' = pel \ {hand[w]}, backlog' = backlog, Release(w), UNCHANGED mode,
         completed' = completed, failed' = failed,
         IF HasHash(j)
         THEN job' = [job EXCEPT ![j].state = "delayed"] /\ scheduled' = scheduled \cup {j}
         ELSE UNCHANGED <<job, scheduled>>
  PROVE  Inv'
<1>1. /\ TypeOK /\ job[j] \in JobHash /\ JobFits(j) /\ ModeKept /\ pc[w] /= "idle"
      /\ job[j].state \in {"active", "gone", "ghost"} /\ j \notin failed
  BY FinisherFacts, ModeUnchanged
<1>2. SlotsKept(j) /\ Holders(j)' = {}
  BY <1>1, ReleaseHolders
<1>3. StreamKept(j) /\ Queued(j)' = {} /\ Pending(j)' = {}
  <2>1. hand[w] \in Entries /\ (hand[w] \in Pending(j) \/ ~InStream(j))
    BY <1>1, HolderStream
  <2> QED BY <2>1, AckFits
<1>4. /\ JobsKept(j) /\ SetsKept(j) /\ j \notin completed' /\ j \notin failed'
      /\ job'[j].state \in {"delayed", "gone", "ghost"}
      /\ j \in scheduled' <=> job'[j].state = "delayed"
  <2>1. j \notin completed /\ j \notin scheduled
    BY <1>1 DEF JobFits
  <2>2. CASE HasHash(j)
    <3>1. JobsKept(j) /\ job'[j].state = "delayed"
      <4>1. job' = [job EXCEPT ![j].state = "delayed"]
        BY <2>2
      <4>2. job'[j] = [job[j] EXCEPT !.state = "delayed"] /\ \A i \in Jobs \ {j} : job'[i] = job[i]
        BY <1>1, <4>1 DEF TypeOK
      <4>3. job'[j] \in JobHash /\ job'[j].state = "delayed"
        BY <1>1, <4>2 DEF JobHash, States
      <4> QED BY <1>1, <4>1, <4>2, <4>3 DEF JobsKept, TypeOK
    <3>2. SetsKept(j) /\ j \in scheduled' /\ j \notin completed' /\ j \notin failed'
      BY <1>1, <2>1, <2>2 DEF SetsKept, TypeOK
    <3> QED BY <3>1, <3>2
  <2>3. CASE ~HasHash(j)
    <3>1. job' = job /\ scheduled' = scheduled /\ job[j].state \in {"gone", "ghost"}
      BY <1>1, <2>3 DEF HasHash, NoHash
    <3>2. JobsKept(j) /\ SetsKept(j)
      BY <1>1, <3>1 DEF JobsKept, SetsKept, TypeOK
    <3> QED BY <1>1, <2>1, <3>1, <3>2
  <2> QED BY <2>2, <2>3
<1>5. JobInv(j)'
  BY <1>2, <1>3, <1>4, RestingFits
<1> QED BY <1>1, <1>2, <1>3, <1>4, <1>5, LocalStep

LEMMA RequeueLimitedInv ==
  ASSUME Inv, NEW w \in Workers, RequeueLimited(w)
  PROVE  Inv'
<1>0. PICK j \in Jobs : j = JobOf(hand[w])
  BY HolderFacts DEF Inv, RequeueLimited
<1> QED BY <1>0, ParkInv DEF RequeueLimited

LEMMA MoveActiveToDelayedInv ==
  ASSUME Inv, NEW w \in Workers, MoveActiveToDelayed(w)
  PROVE  Inv'
<1>0. PICK j \in Jobs : j = JobOf(hand[w])
  BY HolderFacts DEF Inv, MoveActiveToDelayed
<1>1. HasHash(j)
  BY <1>0 DEF MoveActiveToDelayed, HasHash, NoHash
<1> QED BY <1>0, <1>1, ParkInv DEF MoveActiveToDelayed

(* A job nobody holds is left at rest without an entry.                      *)
LEMMA RestStep ==
  ASSUME Inv, NEW j \in Jobs, Holders(j) = {}, UNCHANGED slots, UNCHANGED mode,
         JobsKept(j), SetsKept(j), StreamKept(j), Queued(j)' = {}, Pending(j)' = {},
         job'[j].state \in {"delayed", "completed", "failed", "gone", "ghost"},
         j \in scheduled' <=> job'[j].state = "delayed",
         j \in completed' => job'[j].state = "completed",
         j \in failed' => job'[j].state \in {"failed", "gone"}
  PROVE  Inv'
<1>1. SlotsKept(j) /\ Holders(j)' = {} /\ ModeKept
  BY SlotsUnchanged, ModeUnchanged
<1>2. JobInv(j)'
  BY <1>1, RestingFits
<1> QED BY <1>1, <1>2, LocalStep

LEMMA RevokeInv ==
  ASSUME Inv, NEW j \in Jobs, Revoke(j)
  PROVE  Inv'
<1>1. /\ TypeOK /\ JobInv(j) /\ JobFits(j) /\ ModeKept /\ UNCHANGED slots /\ completed' = completed
      /\ job[j].state \notin {"new", "gone"}
  BY ModeUnchanged DEF Inv, JobInv, Revoke, HasHash, NoHash
<1>2. SlotsKept(j) /\ Holders(j)' = Holders(j) /\ pc' = pc /\ hand' = hand
  BY <1>1, SlotsUnchanged
<1>3. CASE job[j].state \in {"waiting", "delayed"}
  <2>1. /\ JobsKept(j) /\ SetsKept(j) /\ job'[j].state = "failed" /\ job'[j].revoked
        /\ j \notin scheduled' /\ j \notin completed'
    BY <1>1, <1>3 DEF Revoke, JobsKept, SetsKept, TypeOK, JobHash, States, JobFits
  <2>2. StreamKept(j) /\ Queued(j)' = {} /\ Pending(j)' = {}
    <3>1. CASE job[j].state = "waiting"
      BY <3>1, DropEntryFits DEF Revoke
    <3>2. CASE job[j].state = "delayed"
      BY <3>2, RestingFree, StreamUnchanged DEF Revoke
    <3> QED BY <1>3, <3>1, <3>2
  <2>3. ASSUME NEW w \in Holders(j) PROVE ClaimFits(j, hand[w], pc[w])'
    <3>1. ClaimFits(j, hand[w], pc[w])
      BY <1>1 DEF JobFits
    <3>2. pc[w] \in {"claimed", "paused", "revoked"}
      <4>1. w \in Workers /\ pc[w] \in PCs \ {"idle"}
        BY <1>1, HolderFacts DEF TypeOK, Holders
      <4> QED BY <1>3, <3>1, <4>1 DEF ClaimFits, Started, PCs
    <3> QED BY <1>2, <2>1, <2>2, <3>2 DEF ClaimFits, Started, InStream
  <2>4. JobInv(j)'
    BY <1>1, <1>2, <2>1, <2>2, <2>3 DEF JobInv, Findable, JobFits, EntriesFit
  <2> QED BY <1>1, <1>2, <2>1, <2>2, <2>4, LocalStep
<1>4. CASE job[j].state \notin {"waiting", "delayed"}
  <2>1. /\ JobsKept(j) /\ SetsKept(j) /\ UNCHANGED stream
        /\ job'[j] = [job[j] EXCEPT !.revoked = TRUE]
        /\ scheduled' = scheduled /\ failed' = failed
    <3>1. job' = [job EXCEPT ![j].revoked = TRUE, ![j].state = job[j].state]
      BY <1>4 DEF Revoke
    <3>2. job'[j] = [job[j] EXCEPT !.revoked = TRUE] /\ JobsKept(j)
      BY <1>1, <3>1, RevokedChange
    <3> QED BY <1>1, <1>4, <3>2 DEF Revoke, SetsKept, TypeOK
  <2>2. /\ job'[j].state = job[j].state /\ job'[j].fresh = job[j].fresh
        /\ job'[j].late = job[j].late /\ job'[j].revoked
    BY <1>1, <2>1 DEF TypeOK, JobHash
  <2>3. StreamKept(j) /\ Queued(j)' = Queued(j) /\ Pending(j)' = Pending(j) /\ (InStream(j)' <=> InStream(j))
    BY <2>1, StreamUnchanged DEF InStream
  <2>4. ASSUME NEW w \in Holders(j) PROVE ClaimFits(j, hand[w], pc[w])'
    BY <1>1, <1>2, <2>1, <2>2, <2>3 DEF JobFits, ClaimFits, Started
  <2>5. JobInv(j)'
    BY <1>1, <1>2, <2>1, <2>2, <2>3, <2>4 DEF JobInv, Findable, JobFits, EntriesFit
  <2> QED BY <1>1, <1>2, <2>1, <2>3, <2>5, LocalStep
<1> QED BY <1>3, <1>4

LEMMA RemoveJobInv ==
  ASSUME Inv, NEW j \in Jobs, RemoveJob(j)
  PROVE  Inv'
<1>1. /\ TypeOK /\ JobFits(j) /\ ModeKept /\ UNCHANGED slots /\ job[j].state \notin {"new", "gone"}
  BY ModeUnchanged DEF Inv, JobInv, RemoveJob, HasHash, NoHash
<1>2. SlotsKept(j) /\ Holders(j)' = Holders(j) /\ pc' = pc /\ hand' = hand
  BY <1>1, SlotsUnchanged
<1>3. StreamKept(j) /\ Queued(j)' = {} /\ Pending(j)' = {}
  <2>1. CASE job[j].state \in {"waiting", "active"}
    BY <2>1, DropEntryFits DEF RemoveJob
  <2>2. CASE job[j].state \notin {"waiting", "active"}
    <3>1. Queued(j) = {} /\ Pending(j) = {}
      BY <1>1, <2>2 DEF JobFits, EntriesFit
    <3> QED BY <2>2, <3>1, StreamUnchanged DEF RemoveJob
  <2> QED BY <2>1, <2>2
<1>4. /\ JobsKept(j) /\ SetsKept(j) /\ job'[j].state = "gone" /\ ~job'[j].late
      /\ j \notin scheduled' /\ j \notin completed' /\ j \notin failed'
  <2>1. Hash("gone") \in JobHash
    BY LimitAssumption DEF JobHash, Hash, States, NoState, NoHash
  <2> QED BY <1>1, <2>1 DEF RemoveJob, JobsKept, SetsKept, TypeOK, Hash
<1>5. ASSUME NEW w \in Holders(j) PROVE ClaimFits(j, hand[w], pc[w])'
  BY <1>2, <1>3, <1>4 DEF ClaimFits, InStream
<1>6. JobInv(j)'
  BY <1>1, <1>2, <1>3, <1>4, <1>5 DEF JobInv, Findable, JobFits, EntriesFit
<1> QED BY <1>1, <1>2, <1>3, <1>4, <1>6, LocalStep

LEMMA RetryFailedInv ==
  ASSUME Inv, NEW j \in Jobs, "steal" \notin Races, job[j].state = "failed", RetryFailedJob(j)
  PROVE  Inv'
<1>1. TypeOK /\ JobFits(j) /\ UNCHANGED slots /\ UNCHANGED mode /\ UNCHANGED stream /\ ~job[j].revoked
  BY DEF Inv, JobInv, RetryFailedJob
<1>2. Queued(j) = {} /\ Pending(j) = {} /\ Holders(j) = {}
  BY <1>1, FailedFree
<1>3. StreamKept(j) /\ Queued(j)' = {} /\ Pending(j)' = {}
  BY <1>1, <1>2, StreamUnchanged
<1>4. JobsKept(j) /\ job'[j].state = "delayed"
  <2>1. job[j] \in JobHash
    BY <1>1 DEF TypeOK
  <2>2. job'[j] = [job[j] EXCEPT !.state = "delayed", !.attempts = 0, !.late = FALSE]
    BY <1>1 DEF RetryFailedJob, TypeOK
  <2>3. job'[j] \in JobHash /\ job'[j].state = "delayed"
    <3>1. 0 \in 0..MaxAttempts /\ "delayed" \in States
      BY LimitAssumption DEF States
    <3> QED BY <2>1, <2>2, <3>1 DEF JobHash
  <2> QED BY <1>1, <2>3 DEF RetryFailedJob, JobsKept, TypeOK
<1>5. SetsKept(j) /\ j \in scheduled' /\ j \notin completed' /\ j \notin failed'
  BY <1>1 DEF RetryFailedJob, SetsKept, TypeOK, JobFits
<1> QED BY <1>1, <1>2, <1>3, <1>4, <1>5, RestStep

LEMMA RetryInv ==
  ASSUME Inv, NEW j \in Jobs, "steal" \notin Races, RetryJob(j) \/ RetryJobs(j)
  PROVE  Inv'
<1>1. RetryFailedJob(j) /\ (job[j].state = "failed" \/ (j \in failed /\ HasHash(j)))
  BY DEF RetryJob, RetryJobs
<1>2. ~job[j].revoked /\ JobFits(j)
  BY <1>1 DEF RetryFailedJob, Inv, JobInv
<1>3. job[j].state = "failed"
  BY <1>1, <1>2 DEF JobFits, HasHash, NoHash
<1> QED BY <1>1, <1>3, RetryFailedInv

LEMMA ChangeDelayInv ==
  ASSUME Inv, NEW j \in Jobs, "steal" \notin Races, ChangeDelay(j)
  PROVE  Inv'
<1>1. /\ TypeOK /\ JobFits(j) /\ UNCHANGED slots /\ UNCHANGED mode
      /\ job[j].state = "waiting" /\ ~job[j].revoked /\ Pending(j) = {} /\ InStream(j)
  BY DEF Inv, JobInv, ChangeDelay
<1>2. Holders(j) = {}
  <2>1. ASSUME NEW w \in Holders(j) PROVE FALSE
    <3>1. PICK e \in Queued(j) \cup Pending(j) : TRUE
      BY <1>1 DEF InStream
    <3> QED BY <1>1, <2>1, <3>1, PendingHolder
  <2> QED BY <2>1
<1>3. StreamKept(j) /\ Queued(j)' = {} /\ Pending(j)' = {}
  BY DropEntryFits DEF ChangeDelay
<1>4. JobsKept(j) /\ job'[j].state = "delayed"
  BY <1>1 DEF ChangeDelay, JobsKept, TypeOK, JobHash, States
<1>5. SetsKept(j) /\ j \in scheduled' /\ j \notin completed' /\ j \notin failed'
  BY <1>1 DEF ChangeDelay, SetsKept, TypeOK, JobFits
<1> QED BY <1>1, <1>2, <1>3, <1>4, <1>5, RestStep

LEMMA CleanCompletedInv ==
  ASSUME Inv, NEW j \in Jobs, CleanCompleted(j)
  PROVE  Inv'
<1>1. /\ TypeOK /\ JobFits(j) /\ UNCHANGED slots /\ UNCHANGED mode /\ UNCHANGED stream
      /\ job[j].state = "completed"
  BY DEF Inv, JobInv, CleanCompleted, JobFits
<1>2. Queued(j) = {} /\ Pending(j) = {} /\ Holders(j) = {}
  BY <1>1, RestingFree
<1>3. StreamKept(j) /\ Queued(j)' = {} /\ Pending(j)' = {}
  BY <1>1, <1>2, StreamUnchanged
<1>4. JobsKept(j) /\ job'[j].state = "gone"
  <2>1. Hash("gone") \in JobHash
    BY LimitAssumption DEF JobHash, Hash, States, NoState, NoHash
  <2> QED BY <1>1, <2>1 DEF CleanCompleted, JobsKept, TypeOK, Hash
<1>5. SetsKept(j) /\ j \notin scheduled' /\ j \notin completed' /\ j \notin failed'
  BY <1>1 DEF CleanCompleted, SetsKept, TypeOK, JobFits
<1> QED BY <1>1, <1>2, <1>3, <1>4, <1>5, RestStep

LEMMA CleanFailedInv ==
  ASSUME Inv, NEW j \in Jobs, CleanFailed(j)
  PROVE  Inv'
<1>1. /\ TypeOK /\ JobInv(j) /\ JobFits(j) /\ ModeKept /\ UNCHANGED slots /\ UNCHANGED stream
      /\ j \in failed /\ job[j].state \in {"failed", "gone", "waiting"}
  BY ModeUnchanged DEF Inv, JobInv, CleanFailed, JobFits
<1>2. /\ SlotsKept(j) /\ Holders(j)' = Holders(j) /\ pc' = pc /\ hand' = hand
      /\ StreamKept(j) /\ Queued(j)' = Queued(j) /\ Pending(j)' = Pending(j)
  BY <1>1, SlotsUnchanged, StreamUnchanged
<1>3. JobsKept(j) /\ job'[j].state = "gone"
  <2>1. Hash("gone") \in JobHash
    BY LimitAssumption DEF JobHash, Hash, States, NoState, NoHash
  <2> QED BY <1>1, <2>1 DEF CleanFailed, JobsKept, TypeOK, Hash
<1>4. SetsKept(j) /\ j \notin scheduled' /\ j \notin completed' /\ j \notin failed'
  BY <1>1 DEF CleanFailed, SetsKept, TypeOK, JobFits
<1>5. ASSUME NEW w \in Holders(j) PROVE ClaimFits(j, hand[w], pc[w])'
  <2>1. ClaimFits(j, hand[w], pc[w]) /\ pc[w] \notin Started
    BY <1>1 DEF JobFits, ClaimFits
  <2>2. InStream(j)' <=> InStream(j)
    BY <1>2 DEF InStream
  <2> QED BY <1>2, <1>3, <2>1, <2>2 DEF ClaimFits
<1>6. JobInv(j)'
  BY <1>1, <1>2, <1>3, <1>4, <1>5 DEF JobInv, Findable, JobFits, EntriesFit
<1> QED BY <1>1, <1>2, <1>3, <1>4, <1>6, LocalStep

LEMMA DrainInv ==
  ASSUME Inv, NEW delayed \in BOOLEAN, Drain(delayed)
  PROVE  Inv'
<1> DEFINE dropped == {JobOf(e) : e \in Undelivered} \cup (IF delayed THEN scheduled ELSE {})
<1>1. /\ TypeOK /\ StreamWellFormed /\ ModeKept /\ UNCHANGED slots
      /\ pel' = pel /\ completed' = completed /\ failed' = failed
      /\ backlog' = <<>> /\ scheduled' = IF delayed THEN {} ELSE scheduled
      /\ job' = [j \in Jobs |-> IF j \in dropped THEN Hash("gone") ELSE job[j]]
  BY ModeUnchanged DEF Inv, Drain
<1>2. Hash("gone") \in JobHash /\ Hash("gone").state = "gone"
  BY LimitAssumption DEF JobHash, Hash, States, NoState, NoHash
<1>3. Undelivered' = {} /\ Distinct(backlog')
  BY <1>1 DEF Undelivered, Members, Distinct
<1>4. TypeOK' /\ StreamWellFormed' /\ hung' = {}
  <2>1. job' \in [Jobs -> JobHash] /\ backlog' \in Seq(Entries) /\ scheduled' \subseteq Jobs
    BY <1>1, <1>2 DEF TypeOK
  <2> QED BY <1>1, <1>3, <2>1 DEF TypeOK, StreamWellFormed, ModeKept, slots
<1>5. /\ \A i \in Jobs : Queued(i)' = {} /\ Pending(i)' = Pending(i) /\ Holders(i)' = Holders(i)
      /\ hand' = hand /\ pc' = pc
  BY <1>1, <1>3 DEF Queued, Pending, Holders, slots
<1>6. ASSUME NEW i \in Jobs PROVE JobInv(i)'
  <2>1. JobInv(i) /\ JobFits(i)
    BY DEF Inv, JobInv
  <2>2. i \in dropped <=> Queued(i) /= {} \/ (delayed /\ i \in scheduled)
    BY DEF Queued
  <2>3. CASE i \in dropped
    <3>1. Pending(i) = {} /\ Holders(i) = {} /\ job[i].state \in {"waiting", "gone", "delayed"}
      <4>1. CASE Queued(i) /= {}
        <5>1. PICK k \in 1..Len(backlog) : JobOf(backlog[k]) = i
          BY <4>1 DEF Queued, Undelivered, Members
        <5> QED BY <5>1, UnreadEntry
      <4>2. CASE i \in scheduled
        BY <2>1, <4>2, RestingFree DEF JobFits
      <4> QED BY <2>2, <2>3, <4>1, <4>2
    <3>2. job'[i].state = "gone"
      BY <1>1, <1>2, <2>3
    <3>3. i \notin scheduled' /\ i \notin completed'
      BY <1>1, <2>1, <2>2, <2>3, <3>1 DEF JobFits, EntriesFit
    <3> QED BY <1>5, <3>1, <3>2, <3>3, RestingFits
  <2>4. CASE i \notin dropped
    <3>1. job'[i] = job[i] /\ Queued(i) = {} /\ (i \in scheduled' <=> i \in scheduled)
      BY <1>1, <2>2, <2>4
    <3>2. Same(i)
      BY <1>1, <1>5, <3>1 DEF Same
    <3> QED BY <2>1, <3>2, SameKeeps
  <2> QED BY <2>3, <2>4
<1> QED BY <1>4, <1>6 DEF Inv

(* Steps that only pause, stop or restart something.                         *)
LEMMA ModeStep ==
  ASSUME Inv, UNCHANGED <<job, stream, sets, slots>>, ModeKept
  PROVE  Inv'
<1>1. TypeOK' /\ StreamWellFormed' /\ hung' = {}
  BY DEF Inv, TypeOK, StreamWellFormed, Undelivered, ModeKept, stream, sets, slots
<1>2. ASSUME NEW i \in Jobs PROVE Same(i)
  BY DEF Same, Queued, Pending, Holders, Undelivered, stream, sets, slots
<1> QED BY <1>1, <1>2, SameKeeps DEF Inv

LEMMA CrashInv ==
  ASSUME Inv, NEW w \in Workers, Crash(w)
  PROVE  Inv'
<1>0. PICK j \in Jobs : j = JobOf(hand[w])
  BY HolderFacts DEF Inv, Crash
<1>1. TypeOK /\ ModeKept /\ JobInv(j) /\ pc[w] /= "idle" /\ Release(w)
      /\ UNCHANGED <<job, stream, sets>>
  BY DEF Inv, TypeOK, Crash, ModeKept
<1>2. SlotsKept(j) /\ Holders(j)' = {}
  BY <1>0, <1>1, ReleaseHolders
<1>3. StreamKept(j) /\ Queued(j)' = Queued(j) /\ Pending(j)' = Pending(j)
  BY <1>1, StreamUnchanged
<1>4. /\ JobsKept(j) /\ SetsKept(j) /\ job' = job
      /\ scheduled' = scheduled /\ completed' = completed /\ failed' = failed
  BY <1>1 DEF JobsKept, SetsKept, TypeOK, sets
<1>5. JobInv(j)'
  BY <1>1, <1>2, <1>3, <1>4 DEF JobInv, Findable, JobFits, EntriesFit, InStream
<1> QED BY <1>1, <1>2, <1>3, <1>4, <1>5, LocalStep

LEMMA TtlPassesInv ==
  ASSUME Inv, NEW j \in Jobs, "late" \notin Races, TtlPasses(j)
  PROVE  Inv'
<1>1. /\ TypeOK /\ JobInv(j) /\ Holders(j) = {} /\ ModeKept
      /\ UNCHANGED stream /\ UNCHANGED sets /\ UNCHANGED slots
  BY ModeUnchanged DEF Inv, TtlPasses, MayBefall
<1>2. /\ SlotsKept(j) /\ Holders(j)' = {}
      /\ StreamKept(j) /\ Queued(j)' = Queued(j) /\ Pending(j)' = Pending(j)
  BY <1>1, SlotsUnchanged, StreamUnchanged
<1>3. /\ JobsKept(j) /\ job'[j].state = job[j].state /\ job'[j].revoked = job[j].revoked
      /\ SetsKept(j) /\ scheduled' = scheduled /\ completed' = completed /\ failed' = failed
  BY <1>1 DEF TtlPasses, JobsKept, SetsKept, TypeOK, JobHash, sets
<1>4. JobInv(j)'
  BY <1>1, <1>2, <1>3 DEF JobInv, Findable, JobFits, EntriesFit, InStream
<1> QED BY <1>1, <1>2, <1>3, <1>4, LocalStep

(* Revocation and removal may race with the worker; hangs, thefts and late   *)
(* expiry are excluded.                                                      *)
Orderly == Races \subseteq {"revoke", "remove"}

LEMMA StutterInv == ASSUME Inv, UNCHANGED vars PROVE Inv'
<1>1. UNCHANGED <<job, stream, sets, slots>> /\ UNCHANGED mode
  BY DEF vars
<1> QED BY <1>1, ModeStep, ModeUnchanged

LEMMA NextInv == ASSUME Orderly, Inv, [Next]_vars PROVE Inv'
<1>0. "steal" \notin Races /\ "late" \notin Races /\ "hang" \notin Races
  BY DEF Orderly
<1>1. ASSUME NEW w \in Workers, Work(w) PROVE Inv'
  <2>1. ASSUME Finish(w) PROVE Inv'
    BY <2>1, CompleteInv, SettleMissingInv, FailRevokedInv, FailInv DEF Finish
  <2> QED BY <1>1, <2>1, PollInv, MoveToActiveInv, StartInv, HandBackInv DEF Work
<1>2. ASSUME NEW w \in Workers, Yield(w) \/ Heartbeat(w) \/ Crash(w) PROVE Inv'
  BY <1>2, RequeueLimitedInv, MoveActiveToDelayedInv, HeartbeatInv, CrashInv DEF Yield
<1>3. ASSUME NEW w \in Workers, Hang(w) \/ Wake(w) \/ Stop(w) \/ Restart(w) PROVE Inv'
  <2>1. UNCHANGED <<job, stream, sets, slots>>
    BY <1>3 DEF Hang, Wake, Stop, Restart
  <2>2. ~Hang(w) /\ hung' = {}
    BY <1>0, <1>3 DEF Hang, Wake, Stop, Restart, Inv
  <2>3. ModeKept
    BY <1>3, <2>2 DEF ModeKept, Wake, Stop, Restart, Inv, TypeOK
  <2> QED BY <2>1, <2>3, ModeStep
<1>4. ASSUME NEW j \in Jobs, Queue(j) \/ Client(j) \/ Again(j) \/ TtlPasses(j) PROVE Inv'
  BY <1>0, <1>4, AddJobInv, RevokeInv, RemoveJobInv, PromoteJobInv, CleanCompletedInv,
     CleanFailedInv, RetryInv, ChangeDelayInv, TtlPassesInv DEF Queue, Client, Again
<1>5. ASSUME Server PROVE Inv'
  BY <1>5, PromoteInv, HeartbeatLapseInv, ReclaimInv DEF Server
<1>6. ASSUME NEW b \in BOOLEAN, Drain(b) \/ SetPaused(b) PROVE Inv'
  <2>1. CASE SetPaused(b)
    <3>1. UNCHANGED <<job, stream, sets, slots>> /\ ModeKept
      BY <2>1 DEF SetPaused, ModeKept, Inv, TypeOK
    <3> QED BY <3>1, ModeStep
  <2> QED BY <1>6, <2>1, DrainInv
<1> QED BY <1>1, <1>2, <1>3, <1>4, <1>5, <1>6, StutterInv DEF Next

-----------------------------------------------------------------------------
(* In an orderly queue the inductive invariant always holds.                 *)
THEOREM Invariance == ASSUME Orderly PROVE Spec => []Inv
<1>1. Init => Inv
  BY InitInv
<1>2. Inv /\ [Next]_vars => Inv'
  BY NextInv
<1> QED BY <1>1, <1>2, PTL DEF Spec

(* Whatever mix of crashes, stops, pauses, revocations, removals and retries *)
(* happens, a waiting job has a stream entry, a delayed one is scheduled, an *)
(* active one has a pending entry: no crash loses it.                        *)
THEOREM NoJobLost == ASSUME Orderly PROVE Spec => []NothingLost
<1>1. Inv => NothingLost
  BY DEF Inv, JobInv, NothingLost
<1> QED BY <1>1, Invariance, PTL

(* Entries, sets, state fields and the workers' hands always agree: one      *)
(* entry per job and one holder per entry.                                   *)
THEOREM CustodyHolds == ASSUME Orderly PROVE Spec => []Custody
<1>1. Inv => Custody
  BY DEF Inv, JobInv, Custody
<1> QED BY <1>1, Invariance, PTL

(* No job is ever run by two workers at once.                                *)
THEOREM NeverTwoRunners == ASSUME Orderly PROVE Spec => []OneRunner
<1>1. ASSUME Inv PROVE OneRunner
  <2> SUFFICES ASSUME NEW v \in Workers, NEW w \in Workers, NEW j \in Jobs, Runs(v, j), Runs(w, j)
               PROVE  v = w
    BY DEF OneRunner
  <2>1. v \in Holders(j) /\ w \in Holders(j)
    BY <1>1, HolderFacts DEF Inv, Runs, Started
  <2> QED BY <1>1, <2>1 DEF Inv, JobInv, JobFits
<1> QED BY <1>1, Invariance, PTL

(* The completed and the failed set never contradict each other.             *)
THEOREM OneOutcome == ASSUME Orderly PROVE Spec => []OutcomeUnique
<1>1. ASSUME Inv PROVE OutcomeUnique
  <2>1. \A j \in completed : j \in Jobs /\ job[j].state = "completed" /\ j \notin failed
    BY <1>1 DEF Inv, JobInv, JobFits, TypeOK
  <2> QED BY <2>1 DEF OutcomeUnique
<1> QED BY <1>1, Invariance, PTL

-----------------------------------------------------------------------------
(* A worker's step leaves the jobs alone that it does not hold and that have *)
(* no unread entry.                                                          *)
LEMMA FetchNextKeeps ==
  ASSUME TypeOK, NEW w \in Workers, NEW j \in Jobs, Queued(j) = {},
         NEW jb \in [Jobs -> JobHash], jb[j] = job[j], NEW pl, NEW fl, FetchNext(w, jb, pl, fl)
  PROVE  job'[j] = job[j]
<1> DEFINE lapsed(n) == {i \in {JobOf(backlog[k]) : k \in 1..n} : jb[i].state \in Activatable}
           jb2(n) == [i \in Jobs |-> IF i \in lapsed(n) THEN [jb[i] EXCEPT !.state = "failed"] ELSE jb[i]]
<1>1. PICK n \in 0..ChainAttempts :
        /\ n <= Len(backlog)
        /\ \/ job' = jb2(n)
           \/ n < Len(backlog) /\ job' = [jb2(n) EXCEPT ![JobOf(backlog[n + 1])] = Activated(@)]
  BY DEF FetchNext
<1>2. n \in Nat /\ Len(backlog) \in Nat
  BY <1>1 DEF TypeOK, ChainAttempts
<1>3. \A k \in 1..Len(backlog) : JobOf(backlog[k]) /= j
  BY DEF Queued, Undelivered, Members
<1>4. j \notin lapsed(n)
  BY <1>1, <1>2, <1>3
<1>5. jb2(n)[j] = job[j]
  BY <1>4
<1>6. n < Len(backlog) => JobOf(backlog[n + 1]) /= j
  BY <1>2, <1>3
<1> HIDE DEF jb2
<1>7. jb2(n) = [i \in Jobs |-> jb2(n)[i]]
  BY DEF jb2
<1> QED BY <1>1, <1>5, <1>6, <1>7

LEMMA OthersKept ==
  ASSUME Inv, NEW w \in Workers, NEW j \in Jobs, w \notin Holders(j), Queued(j) = {},
         Work(w) \/ Yield(w) \/ Heartbeat(w)
  PROVE  job'[j] = job[j]
<1>1. TypeOK
  BY DEF Inv
<1>2. pc[w] /= "idle" => JobOf(hand[w]) /= j
  BY <1>1, HolderFacts
<1>4. CASE Poll(w) \/ Start(w)
  BY <1>4 DEF Poll, Start
<1>5. CASE MoveToActive(w)
  BY <1>1, <1>2, <1>5 DEF MoveToActive, ExpireJob, TypeOK
<1>6. CASE HandBack(w) \/ Yield(w)
  BY <1>1, <1>2, <1>6 DEF HandBack, Yield, RequeueLimited, MoveActiveToDelayed, TypeOK
<1>7. CASE Heartbeat(w)
  BY <1>1, <1>2, <1>7 DEF Heartbeat, Started, TypeOK
<1>8. ASSUME NEW jb \in [Jobs -> JobHash], jb[j] = job[j], NEW chain, NEW pl, NEW fl,
             FinishWith(w, chain, jb, pl, fl)
      PROVE  job'[j] = job[j]
  BY <1>1, <1>8, FetchNextKeeps DEF FinishWith
<1>9. ASSUME NEW keep \in BOOLEAN, NEW chain, CompleteJob(w, keep, chain), pc[w] \in {"running", "missing"}
      PROVE  job'[j] = job[j]
  <2>0. PICK i \in Jobs : i = JobOf(hand[w]) /\ i /= j
    BY <1>1, <1>2, <1>9, HolderFacts
  <2> DEFINE Ended == IF keep THEN [job[i] EXCEPT !.state = "completed"] ELSE Hash("gone")
             jb == IF HasState(job[i]) THEN [job EXCEPT ![i] = Ended] ELSE job
  <2>1. FinishWith(w, chain, jb, pel \ {hand[w]}, failed)
    BY <1>9, <2>0 DEF CompleteJob
  <2>2. Ended \in JobHash
    BY <1>1, LimitAssumption, SMTT(15) DEF TypeOK, JobHash, Hash, States, NoState, NoHash
  <2>3. jb \in [Jobs -> JobHash] /\ jb[j] = job[j]
    BY <1>1, <2>0, <2>2 DEF TypeOK
  <2> QED BY <1>8, <2>1, <2>3
<1>10. ASSUME NEW cap \in Nat, NEW keep \in BOOLEAN, NEW chain, FailJob(w, cap, keep, chain),
              pc[w] \in {"running", "revoked"}
       PROVE  job'[j] = job[j]
  <2>0. PICK i \in Jobs : i = JobOf(hand[w]) /\ i /= j
    BY <1>1, <1>2, <1>10, HolderFacts
  <2> DEFINE tries == Bump(job[i].attempts, MaxAttempts)
             retry == HasHash(i) /\ RetriesLeft(tries, cap)
             r == [job[i] EXCEPT !.attempts = tries, !.state = IF retry THEN "delayed" ELSE "failed"]
             jb == IF ~HasHash(i) THEN job
                   ELSE [job EXCEPT ![i] = IF retry \/ keep THEN r ELSE Hash("gone")]
             fl == IF HasHash(i) /\ ~retry /\ keep THEN failed \cup {i} ELSE failed
  <2>1. FinishWith(w, chain, jb, pel \ {hand[w]}, fl)
    BY <1>10, <2>0 DEF FailJob
  <2>2. job[i] \in JobHash
    BY <1>1 DEF TypeOK
  <2>3. tries \in 0..MaxAttempts
    BY <2>2, LimitAssumption DEF Bump, JobHash
  <2>4. r \in JobHash /\ Hash("gone") \in JobHash
    <3>1. Hash("gone") \in JobHash
      BY LimitAssumption DEF JobHash, Hash, States, NoState, NoHash
    <3>2. ASSUME NEW t \in 0..MaxAttempts, NEW s \in States
          PROVE  [job[i] EXCEPT !.attempts = t, !.state = s] \in JobHash
      BY <2>2 DEF JobHash
    <3>3. (IF retry THEN "delayed" ELSE "failed") \in States
      BY DEF States
    <3> HIDE DEF tries, retry
    <3> QED BY <2>3, <3>1, <3>2, <3>3
  <2> HIDE DEF r, retry
  <2>5. jb \in [Jobs -> JobHash] /\ jb[j] = job[j]
    BY <1>1, <2>0, <2>4 DEF TypeOK
  <2> QED BY <1>8, <2>1, <2>5
<1>11. CASE Finish(w)
  <2>1. ASSUME NEW u \in BOOLEAN PROVE (IF u THEN 0 ELSE MaxAttempts) \in Nat
    BY LimitAssumption
  <2>2. CASE SettleMissing(w)
    BY <1>9, <2>2 DEF SettleMissing
  <2>3. CASE FailRevoked(w)
    BY <1>10, <2>3 DEF FailRevoked
  <2>4. CASE \E keep, chain \in BOOLEAN : Complete(w, keep, chain)
    BY <1>9, <2>4 DEF Complete
  <2>5. CASE \E u, keep, chain \in BOOLEAN : Fail(w, u, keep, chain)
    BY <1>10, <2>1, <2>5 DEF Fail
  <2> QED BY <1>11, <2>2, <2>3, <2>4, <2>5 DEF Finish
<1> QED BY <1>4, <1>5, <1>6, <1>7, <1>11 DEF Work

(* No late completion, retry, stall sweep, hand-back or promotion ever turns *)
(* a completed job into anything but a removed one.                          *)
THEOREM CompletedStays == ASSUME Orderly PROVE Spec => CompletedIsFinal
<1>1. ASSUME Inv, Next, NEW j \in Jobs, job[j].state = "completed"
      PROVE  job'[j].state \in {"completed", "gone"}
  <2>1. /\ TypeOK /\ Queued(j) = {} /\ Pending(j) = {} /\ Holders(j) = {}
        /\ j \notin scheduled /\ j \notin failed
    BY <1>1, RestingFree DEF Inv, JobInv, JobFits
  <2>2. Hash("gone").state = "gone"
    BY DEF Hash
  <2>3. ASSUME NEW w \in Workers, Work(w) \/ Yield(w) \/ Heartbeat(w) PROVE job'[j] = job[j]
    BY <1>1, <2>1, <2>3, OthersKept
  <2>4. ASSUME NEW w \in Workers, Crash(w) \/ Hang(w) \/ Wake(w) \/ Stop(w) \/ Restart(w)
        PROVE  job'[j] = job[j]
    BY <2>4 DEF Crash, Hang, Wake, Stop, Restart
  <2>5. ASSUME NEW i \in Jobs, Queue(i) \/ Client(i) \/ Again(i) \/ TtlPasses(i)
        PROVE  job'[j].state \in {"completed", "gone"}
    <3>1. CASE i = j
      <4>1. CASE Queue(i) \/ Again(i)
        BY <1>1, <2>1, <3>1, <4>1 DEF Queue, Again, AddJob, RetryJob, RetryJobs, ChangeDelay
      <4>2. CASE Revoke(i) \/ TtlPasses(i)
        BY <1>1, <2>1, <3>1, <4>2 DEF Revoke, TtlPasses, TypeOK, JobHash
      <4>3. CASE RemoveJob(i) \/ CleanCompleted(i) \/ CleanFailed(i) \/ PromoteJob(i)
        BY <1>1, <2>1, <2>2, <3>1, <4>3 DEF RemoveJob, CleanCompleted, CleanFailed, PromoteJob, TypeOK
      <4> QED BY <2>5, <4>1, <4>2, <4>3 DEF Client
    <3>2. CASE i /= j
      <4>1. job'[j] = job[j]
        <5>1. CASE Queue(i) \/ TtlPasses(i)
          BY <2>1, <3>2, <5>1 DEF Queue, AddJob, TtlPasses, TypeOK
        <5>2. CASE Again(i)
          BY <2>1, <3>2, <5>2 DEF Again, RetryJob, RetryJobs, RetryFailedJob, ChangeDelay, TypeOK
        <5>3. CASE Client(i)
          BY <2>1, <3>2, <5>3 DEF Client, Revoke, RemoveJob, PromoteJob, CleanCompleted, CleanFailed, TypeOK
        <5> QED BY <2>5, <5>1, <5>2, <5>3
      <4> QED BY <1>1, <4>1
    <3> QED BY <3>1, <3>2
  <2>6. ASSUME Server PROVE job'[j].state = "completed"
    <3>1. ASSUME NEW i \in Jobs, Promote(i) \/ HeartbeatLapse(i) PROVE job'[j].state = job[j].state
      <4>1. CASE Promote(i)
        BY <2>1, <4>1 DEF Promote, ExpireJob, TypeOK
      <4>2. CASE HeartbeatLapse(i)
        BY <2>1, <4>2 DEF HeartbeatLapse, TypeOK, JobHash
      <4> QED BY <3>1, <4>1, <4>2
    <3>2. ASSUME NEW e \in Entries, Reclaim(e) PROVE job'[j] = job[j]
      <4>1. PICK i \in Jobs : i = JobOf(e) /\ i /= j
        BY <2>1, <3>2, EntryFacts DEF Reclaim, Pending
      <4> QED BY <2>1, <3>2, <4>1 DEF Reclaim, ExpireJob, TypeOK
    <3> QED BY <1>1, <2>6, <3>1, <3>2 DEF Server
  <2>7. ASSUME NEW b \in BOOLEAN, Drain(b) \/ SetPaused(b) PROVE job'[j].state \in {"completed", "gone"}
    BY <1>1, <2>2, <2>7 DEF Drain, SetPaused
  <2> QED BY <1>1, <2>3, <2>4, <2>5, <2>6, <2>7 DEF Next
<1>2. Inv /\ [Next]_vars =>
        [\A j \in Jobs : job[j].state = "completed" => job'[j].state \in {"completed", "gone"}]_vars
  BY <1>1
<1> QED BY <1>2, Invariance, PTL DEF Spec, CompletedIsFinal

-----------------------------------------------------------------------------
(* Types and revocation, whatever befalls a job: hangs, stolen claims and    *)
(* late expiry included.  Outcome says what a step may write in the hash of  *)
(* job i: a run that was revoked is not recorded as completed.               *)
Outcome(i, r) ==
  r \in JobHash /\ (r.state = "completed" => job[i].state = "completed" \/ ~job[i].revoked)
HashesOK(jb)  == jb \in [Jobs -> JobHash] /\ \A i \in Jobs : Outcome(i, jb[i])
StreamOK      == backlog' \in Seq(Entries) /\ pel' \subseteq Entries
SetsOK        == scheduled' \subseteq Jobs /\ completed' \subseteq Jobs /\ failed' \subseteq Jobs
SlotsOK       == /\ pc' \in [Workers -> PCs] /\ hand' \in [Workers -> Entries \cup {NoEntry}]
                 /\ \A w \in Workers : pc'[w] = "idle" <=> hand'[w] = NoEntry
ModeOK        == paused' \in BOOLEAN /\ hung' \subseteq Workers /\ stopping' \subseteq Workers
StepOK        == HashesOK(job') /\ StreamOK /\ SetsOK /\ SlotsOK /\ ModeOK

LEMMA StayOK ==
  ASSUME TypeOK
  PROVE  /\ HashesOK(job)
         /\ UNCHANGED job => HashesOK(job')
         /\ UNCHANGED stream => StreamOK
         /\ UNCHANGED sets => SetsOK
         /\ UNCHANGED slots => SlotsOK
         /\ UNCHANGED mode => ModeOK
BY DEF TypeOK, HashesOK, Outcome, StreamOK, SetsOK, SlotsOK, ModeOK, stream, sets, slots, mode

LEMMA WriteOK ==
  ASSUME NEW jb, HashesOK(jb), NEW j \in Jobs, NEW r, Outcome(j, r)
  PROVE  HashesOK([jb EXCEPT ![j] = r])
BY DEF HashesOK, Outcome

LEMMA HashTyped == ASSUME NEW s \in States PROVE Hash(s) \in JobHash /\ Hash(s).state = s
BY LimitAssumption DEF Hash, JobHash

(* A step that touches one hash and does not complete its job. *)
LEMMA OneHash ==
  ASSUME TypeOK, NEW j \in Jobs, JobsKept(j), job'[j].state = "completed" => job[j].state = "completed"
  PROVE  HashesOK(job')
<1>1. job' \in [Jobs -> JobHash] /\ \A i \in Jobs \ {j} : job'[i] = job[i]
  BY DEF JobsKept
<1>2. ASSUME NEW i \in Jobs PROVE Outcome(i, job'[i])
  BY <1>1 DEF Outcome
<1> QED BY <1>1, <1>2 DEF HashesOK

LEMMA StateOK ==
  ASSUME TypeOK, NEW j \in Jobs, NEW s \in States \ {"completed"}, job' = [job EXCEPT ![j].state = s]
  PROVE  HashesOK(job')
<1>1. JobsKept(j) /\ job'[j].state = s
  BY StateChange
<1> QED BY <1>1, OneHash

LEMMA EnqueueOK ==
  ASSUME TypeOK, NEW j \in Jobs, Enqueue(j)
  PROVE  backlog' \in Seq(Entries)
<1>1. NewEntry(j) \in Entries
  BY EntryFacts DEF Enqueue, HasRoom, NewEntry
<1> QED BY <1>1 DEF TypeOK, Enqueue

LEMMA DropEntryOK ==
  ASSUME TypeOK, NEW j \in Jobs, DropEntry(j)
  PROVE  StreamOK
<1>1. ASSUME NEW i \in 1..Len(backlog) PROVE Without(backlog, i) \in Seq(Entries)
  <2>1. backlog \in Seq(Entries) /\ Len(backlog) \in Nat /\ Len(backlog) - 1 \in Nat
    BY DEF TypeOK
  <2>2. \A k \in 1..(Len(backlog) - 1) : (IF k < i THEN backlog[k] ELSE backlog[k + 1]) \in Entries
    BY <2>1
  <2> QED BY <2>1, <2>2 DEF Without
<1> QED BY <1>1 DEF DropEntry, stream, TypeOK, StreamOK

LEMMA SlotOK ==
  ASSUME TypeOK, NEW w \in Workers, NEW p \in PCs, NEW e \in Entries \cup {NoEntry},
         p = "idle" <=> e = NoEntry,
         pc' = [pc EXCEPT ![w] = p], hand' = [hand EXCEPT ![w] = e]
  PROVE  SlotsOK
BY DEF TypeOK, SlotsOK

LEMMA ReleaseOK == ASSUME TypeOK, NEW w \in Workers, Release(w) PROVE SlotsOK
<1>1. "idle" \in PCs
  BY DEF PCs
<1> QED BY <1>1, SlotOK DEF Release

LEMMA GotoOK ==
  ASSUME TypeOK, NEW w \in Workers, pc[w] /= "idle", NEW p \in PCs \ {"idle"}, Goto(w, p)
  PROVE  SlotsOK
BY DEF TypeOK, SlotsOK, Goto

LEMMA ClaimOK ==
  ASSUME TypeOK, NEW w \in Workers, NEW p \in PCs \ {"idle"}, NEW e \in Entries,
         pc' = [pc EXCEPT ![w] = p], hand' = [hand EXCEPT ![w] = e]
  PROVE  SlotsOK
BY SlotOK, EntryFacts

-----------------------------------------------------------------------------
LEMMA ServerOK ==
  ASSUME TypeOK, Server
  PROVE  StepOK
<1>0. "waiting" \in States \ {"completed"} /\ "failed" \in States \ {"completed"}
  BY DEF States
<1>1. ASSUME NEW j \in Jobs, Promote(j) PROVE StepOK
  <2>1. HashesOK(job')
    BY <1>0, <1>1, StateOK DEF Promote, ExpireJob
  <2>2. StreamOK
    BY <1>1, EnqueueOK DEF Promote, StreamOK, TypeOK
  <2>3. SetsOK
    BY <1>1 DEF Promote, ExpireJob, SetsOK, TypeOK
  <2> QED BY <1>1, <2>1, <2>2, <2>3, StayOK DEF Promote, StepOK
<1>2. ASSUME NEW j \in Jobs, HeartbeatLapse(j) PROVE StepOK
  <2>1. JobsKept(j) /\ job'[j].state = job[j].state
    BY <1>2 DEF HeartbeatLapse, TypeOK, JobsKept, JobHash
  <2> QED BY <1>2, <2>1, OneHash, StayOK DEF HeartbeatLapse, StepOK
<1>3. ASSUME NEW e \in Entries, Reclaim(e) PROVE StepOK
  <2>0. PICK j \in Jobs : j = JobOf(e)
    BY EntryFacts
  <2>1. Bump(job[j].stalls, MaxStalled + 1) \in 0..(MaxStalled + 1)
    BY LimitAssumption DEF Bump, TypeOK, JobHash
  <2>2. \/ UNCHANGED job
        \/ ExpireJob(j)
        \/ \E s \in {"failed", "waiting"}, n \in 0..(MaxStalled + 1) :
             job' = [job EXCEPT ![j].state = s, ![j].stalls = n]
    BY <1>3, <2>0, <2>1 DEF Reclaim
  <2>3. ASSUME NEW s \in {"failed", "waiting"}, NEW n \in 0..(MaxStalled + 1),
               job' = [job EXCEPT ![j].state = s, ![j].stalls = n]
        PROVE  HashesOK(job')
    BY <1>0, <2>3, StallChange, OneHash
  <2>4. HashesOK(job')
    BY <1>0, <2>2, <2>3, StateOK, StayOK DEF ExpireJob
  <2>5. StreamOK
    BY <1>3, <2>0, EnqueueOK DEF Reclaim, StreamOK, TypeOK
  <2>6. SetsOK
    BY <1>3, <2>0 DEF Reclaim, ExpireJob, SetsOK, TypeOK
  <2> QED BY <1>3, <2>4, <2>5, <2>6, StayOK DEF Reclaim, StepOK
<1> QED BY <1>1, <1>2, <1>3 DEF Server

LEMMA ClientOK ==
  ASSUME TypeOK, NEW j \in Jobs, Queue(j) \/ Client(j) \/ Again(j) \/ TtlPasses(j)
  PROVE  StepOK
<1>0. /\ job[j] \in JobHash /\ job \in [Jobs -> JobHash]
      /\ {"waiting", "delayed", "failed", "gone"} \subseteq States \ {"completed"}
  BY DEF TypeOK, States, NoState, NoHash
<1>1. ASSUME NEW s \in {"waiting", "delayed", "gone"}, job' = [job EXCEPT ![j] = Hash(s)]
      PROVE  HashesOK(job')
  <2>1. Outcome(j, Hash(s))
    BY <1>0, HashTyped DEF Outcome
  <2> QED BY <1>1, <2>1, WriteOK, StayOK
<1>2. ASSUME NEW delayed \in BOOLEAN, AddJob(j, delayed) PROVE StepOK
  <2>1. HashesOK(job') /\ StreamOK /\ SetsOK
    BY <1>1, <1>2, EnqueueOK DEF AddJob, StreamOK, SetsOK, TypeOK
  <2> QED BY <1>2, <2>1, StayOK DEF AddJob, StepOK
<1>3. CASE Revoke(j)
  <2>1. HashesOK(job')
    <3> DEFINE s == IF job[j].state \in {"waiting", "delayed"} THEN "failed" ELSE job[j].state
               r == [job[j] EXCEPT !.revoked = TRUE, !.state = s]
    <3>1. s \in States /\ (s = "completed" => job[j].state = "completed")
      BY <1>0 DEF JobHash
    <3>2. job' = [job EXCEPT ![j] = r]
      BY <1>0, <1>3 DEF Revoke
    <3> HIDE DEF s
    <3>3. r \in JobHash /\ r.state = s
      BY <1>0, <3>1 DEF JobHash
    <3> HIDE DEF r
    <3> QED BY <3>1, <3>2, <3>3, WriteOK, StayOK DEF Outcome
  <2>2. StreamOK
    BY <1>3, DropEntryOK, StayOK DEF Revoke
  <2>3. SetsOK
    BY <1>3 DEF Revoke, SetsOK, TypeOK
  <2> QED BY <1>3, <2>1, <2>2, <2>3, StayOK DEF Revoke, StepOK
<1>4. CASE RemoveJob(j) \/ CleanCompleted(j) \/ CleanFailed(j)
  <2>1. HashesOK(job')
    BY <1>1, <1>4 DEF RemoveJob, CleanCompleted, CleanFailed
  <2>2. StreamOK
    BY <1>4, DropEntryOK, StayOK DEF RemoveJob, CleanCompleted, CleanFailed
  <2>3. SetsOK
    BY <1>4 DEF RemoveJob, CleanCompleted, CleanFailed, SetsOK, TypeOK
  <2> QED BY <1>4, <2>1, <2>2, <2>3, StayOK DEF RemoveJob, CleanCompleted, CleanFailed, StepOK
<1>5. CASE PromoteJob(j) \/ ChangeDelay(j)
  <2>1. HashesOK(job')
    BY <1>0, <1>5, StateOK DEF PromoteJob, ChangeDelay
  <2>2. StreamOK
    BY <1>5, EnqueueOK, DropEntryOK DEF PromoteJob, ChangeDelay, StreamOK, TypeOK
  <2>3. SetsOK
    BY <1>5 DEF PromoteJob, ChangeDelay, SetsOK, TypeOK
  <2> QED BY <1>5, <2>1, <2>2, <2>3, StayOK DEF PromoteJob, ChangeDelay, StepOK
<1>6. CASE RetryJob(j) \/ RetryJobs(j)
  <2>1. RetryFailedJob(j)
    BY <1>6 DEF RetryJob, RetryJobs
  <2>2. HashesOK(job')
    <3> DEFINE r == [job[j] EXCEPT !.state = "delayed", !.attempts = 0, !.late = FALSE]
    <3>1. job' = [job EXCEPT ![j] = r]
      BY <1>0, <2>1 DEF RetryFailedJob
    <3>2. "delayed" \in States /\ 0 \in 0..MaxAttempts
      BY LimitAssumption DEF States
    <3>3. r \in JobHash /\ r.state = "delayed"
      BY <1>0, <3>2 DEF JobHash
    <3> HIDE DEF r
    <3> QED BY <3>1, <3>3, WriteOK, StayOK DEF Outcome
  <2>3. SetsOK
    BY <2>1 DEF RetryFailedJob, SetsOK, TypeOK
  <2> QED BY <2>1, <2>2, <2>3, StayOK DEF RetryFailedJob, StepOK
<1>7. CASE TtlPasses(j)
  <2>1. JobsKept(j) /\ job'[j].state = job[j].state
    BY <1>0, <1>7 DEF TtlPasses, JobsKept, JobHash
  <2> QED BY <1>7, <2>1, OneHash, StayOK DEF TtlPasses, StepOK
<1> QED BY <1>2, <1>3, <1>4, <1>5, <1>6, <1>7 DEF Queue, Client, Again

LEMMA RestOK ==
  ASSUME TypeOK,
         \/ \E b \in BOOLEAN : Drain(b) \/ SetPaused(b)
         \/ \E w \in Workers : Hang(w) \/ Wake(w) \/ Stop(w) \/ Restart(w) \/ Crash(w)
  PROVE  StepOK
<1>1. ASSUME NEW b \in BOOLEAN, Drain(b) PROVE StepOK
  <2>1. PICK dropped : job' = [j \in Jobs |-> IF j \in dropped THEN Hash("gone") ELSE job[j]]
    BY <1>1 DEF Drain
  <2>2. Hash("gone") \in JobHash /\ Hash("gone").state = "gone"
    BY HashTyped DEF States, NoState, NoHash
  <2>3. HashesOK(job')
    <3>1. ASSUME NEW j \in Jobs PROVE job'[j] \in JobHash /\ Outcome(j, job'[j])
      BY <2>1, <2>2, StayOK DEF HashesOK, Outcome
    <3> QED BY <2>1, <3>1 DEF HashesOK
  <2>4. StreamOK /\ SetsOK
    BY <1>1 DEF Drain, StreamOK, SetsOK, TypeOK
  <2> QED BY <1>1, <2>3, <2>4, StayOK DEF Drain, StepOK
<1>2. ASSUME NEW b \in BOOLEAN, SetPaused(b) PROVE StepOK
  BY <1>2, StayOK DEF SetPaused, StepOK, ModeOK, TypeOK
<1>3. ASSUME NEW w \in Workers, Hang(w) \/ Wake(w) \/ Stop(w) \/ Restart(w) PROVE StepOK
  <2>1. UNCHANGED <<job, stream, sets, slots>> /\ ModeOK
    BY <1>3 DEF Hang, Wake, Stop, Restart, ModeOK, TypeOK
  <2> QED BY <2>1, StayOK DEF StepOK
<1>4. ASSUME NEW w \in Workers, Crash(w) PROVE StepOK
  <2>1. ModeOK
    BY <1>4 DEF Crash, ModeOK, TypeOK
  <2> QED BY <1>4, <2>1, ReleaseOK, StayOK DEF Crash, StepOK
<1> QED BY <1>1, <1>2, <1>3, <1>4

LEMMA ClaimStepOK ==
  ASSUME TypeOK, NEW w \in Workers,
         Poll(w) \/ Start(w) \/ MoveToActive(w) \/ HandBack(w) \/ Heartbeat(w) \/ Yield(w)
  PROVE  StepOK
<1>0. /\ pc[w] /= "idle" => JobOf(hand[w]) \in Jobs /\ job[JobOf(hand[w])] \in JobHash
      /\ {"waiting", "delayed", "failed"} \subseteq States \ {"completed"}
      /\ {"missing", "revoked", "paused", "active", "running", "claimed"} \subseteq PCs \ {"idle"}
  BY HolderFacts DEF TypeOK, States, PCs
<1>1. CASE Poll(w)
  <2>1. Head(backlog) \in Entries /\ Tail(backlog) \in Seq(Entries)
    BY <1>1 DEF Poll, TypeOK
  <2>2. StreamOK /\ SlotsOK
    BY <1>0, <1>1, <2>1, ClaimOK DEF Poll, StreamOK, TypeOK
  <2> QED BY <1>1, <2>2, StayOK DEF Poll, StepOK
<1>2. CASE Start(w)
  BY <1>0, <1>2, GotoOK, StayOK DEF Start, StepOK
<1>3. ASSUME NEW j \in Jobs, j = JobOf(hand[w]), Activated(job[j]) \in JobHash, MoveToActive(w) PROVE StepOK
  <2>1. UNCHANGED job \/ ExpireJob(j) \/ job' = [job EXCEPT ![j] = Activated(@)]
    BY <1>3 DEF MoveToActive
  <2>2. HashesOK(job')
    <3>1. CASE job' = [job EXCEPT ![j] = Activated(@)]
      <4>1. Outcome(j, Activated(job[j]))
        BY <1>0, <1>3, ActivatedHash DEF Outcome, TypeOK
      <4>2. job' = [job EXCEPT ![j] = Activated(job[j])]
        BY <3>1
      <4> QED BY <4>1, <4>2, WriteOK, StayOK
    <3> QED BY <1>0, <2>1, <3>1, StateOK, StayOK DEF ExpireJob
  <2>3. StreamOK /\ SetsOK
    BY <1>3 DEF MoveToActive, ExpireJob, StreamOK, SetsOK, TypeOK
  <2>4. Release(w) \/ \E p \in PCs \ {"idle"} : Goto(w, p)
    BY <1>0, <1>3 DEF MoveToActive
  <2>5. SlotsOK
    BY <1>3, <2>4, ReleaseOK, GotoOK DEF MoveToActive
  <2> QED BY <1>3, <2>2, <2>3, <2>5, StayOK DEF MoveToActive, StepOK
<1>4. CASE HandBack(w)
  <2>1. HashesOK(job') /\ backlog' \in Seq(Entries)
    BY <1>0, <1>4, StateOK, EnqueueOK, StayOK DEF HandBack, TypeOK
  <2>2. StreamOK
    BY <1>4, <2>1 DEF HandBack, StreamOK, TypeOK
  <2> QED BY <1>4, <2>1, <2>2, ReleaseOK, StayOK DEF HandBack, StepOK
<1>5. CASE Heartbeat(w)
  <2>0. PICK j \in Jobs : j = JobOf(hand[w])
    BY <1>0, <1>5 DEF Heartbeat, Started
  <2> DEFINE r == IF HasHash(j) THEN [job[j] EXCEPT !.fresh = TRUE]
                  ELSE [Hash("ghost") EXCEPT !.fresh = TRUE]
  <2>1. job' = [job EXCEPT ![j] = r]
    BY <1>5, <2>0 DEF Heartbeat
  <2>2. Hash("ghost") \in JobHash /\ Hash("ghost").state = "ghost" /\ job[j] \in JobHash
    BY HashTyped DEF States, NoState, TypeOK
  <2>3. r \in JobHash /\ r.state \in {"ghost", job[j].state}
    BY <2>2 DEF JobHash
  <2> HIDE DEF r
  <2>4. HashesOK(job')
    BY <2>1, <2>3, WriteOK, StayOK DEF Outcome
  <2> QED BY <1>5, <2>4, StayOK DEF Heartbeat, StepOK
<1>6. CASE Yield(w)
  <2>0. PICK j \in Jobs : j = JobOf(hand[w])
    BY <1>0, <1>6 DEF Yield, RequeueLimited, MoveActiveToDelayed
  <2>1. UNCHANGED job \/ job' = [job EXCEPT ![j].state = "delayed"]
    BY <1>6, <2>0 DEF Yield, RequeueLimited, MoveActiveToDelayed
  <2>2. HashesOK(job')
    BY <1>0, <2>1, StateOK, StayOK
  <2>3. StreamOK /\ SetsOK
    BY <1>6, <2>0 DEF Yield, RequeueLimited, MoveActiveToDelayed, StreamOK, SetsOK, TypeOK
  <2> QED BY <1>6, <2>2, <2>3, ReleaseOK, StayOK DEF Yield, RequeueLimited, MoveActiveToDelayed, StepOK
<1>7. CASE MoveToActive(w)
  BY <1>0, <1>3, <1>7, ActivatedHash DEF MoveToActive
<1> QED BY <1>1, <1>2, <1>4, <1>5, <1>6, <1>7

(* Ending a job and fetching the next: the jobs skipped fail, the one taken   *)
(* is active, and nothing but the worker's own job is written otherwise.      *)
LEMMA FetchNextOK ==
  ASSUME TypeOK, NEW w \in Workers, NEW jb, HashesOK(jb), NEW pl, pl \subseteq Entries,
         NEW fl, fl \subseteq Jobs, FetchNext(w, jb, pl, fl)
  PROVE  HashesOK(job') /\ StreamOK /\ SlotsOK /\ failed' \subseteq Jobs
<1> DEFINE lapsed(n) == {k \in {JobOf(backlog[l]) : l \in 1..n} : jb[k].state \in Activatable}
           jb2(n) == [k \in Jobs |-> IF k \in lapsed(n) THEN [jb[k] EXCEPT !.state = "failed"] ELSE jb[k]]
           next(n) == backlog[n + 1]
<1>1. PICK n \in 0..ChainAttempts :
        /\ n <= Len(backlog) /\ failed' = fl \cup lapsed(n)
        /\ \/ /\ job' = jb2(n) /\ Release(w)
              /\ backlog' = SubSeq(backlog, n + 1, Len(backlog)) /\ pel' = pl
           \/ /\ n < Len(backlog) /\ backlog' = SubSeq(backlog, n + 2, Len(backlog))
              /\ pel' = pl \cup {next(n)}
              /\ \/ job' = jb2(n)
                 \/ job' = [jb2(n) EXCEPT ![JobOf(next(n))] = Activated(@)]
              /\ \/ Release(w)
                 \/ \E p \in {"revoked", "active"} :
                      pc' = [pc EXCEPT ![w] = p] /\ hand' = [hand EXCEPT ![w] = next(n)]
  BY DEF FetchNext
<1>2. n \in Nat /\ Len(backlog) \in Nat /\ backlog \in Seq(Entries)
  BY <1>1 DEF TypeOK, ChainAttempts
<1>3. \A l \in 1..Len(backlog) : backlog[l] \in Entries /\ JobOf(backlog[l]) \in Jobs
  BY <1>2, EntryFacts
<1>4. lapsed(n) \subseteq Jobs
  BY <1>1, <1>2, <1>3
<1>5. HashesOK(jb2(n))
  <2>1. ASSUME NEW k \in Jobs PROVE jb2(n)[k] \in JobHash /\ Outcome(k, jb2(n)[k])
    <3>1. jb[k] \in JobHash /\ Outcome(k, jb[k]) /\ "failed" \in States
      BY DEF HashesOK, States
    <3>2. [jb[k] EXCEPT !.state = "failed"] \in JobHash /\ [jb[k] EXCEPT !.state = "failed"].state = "failed"
      BY <3>1 DEF JobHash
    <3> QED BY <3>1, <3>2 DEF Outcome
  <2> QED BY <2>1 DEF HashesOK
<1> HIDE DEF lapsed, jb2
<1>6. n < Len(backlog) => next(n) \in Entries /\ JobOf(next(n)) \in Jobs
  BY <1>2, <1>3
<1>7. HashesOK(job')
  <2>1. CASE job' = jb2(n)
    BY <1>5, <2>1
  <2>2. CASE n < Len(backlog) /\ job' = [jb2(n) EXCEPT ![JobOf(next(n))] = Activated(@)]
    <3>1. PICK k \in Jobs : k = JobOf(next(n))
      BY <1>6, <2>2
    <3>2. Outcome(k, Activated(jb2(n)[k]))
      BY <1>5, ActivatedHash DEF HashesOK, Outcome
    <3>3. job' = [jb2(n) EXCEPT ![k] = Activated(jb2(n)[k])]
      BY <2>2, <3>1
    <3> QED BY <1>5, <3>2, <3>3, WriteOK
  <2> QED BY <1>1, <2>1, <2>2
<1>8. StreamOK
  <2>1. \A m \in {n + 1, n + 2} : SubSeq(backlog, m, Len(backlog)) \in Seq(Entries)
    BY <1>1, <1>2
  <2> QED BY <1>1, <1>6, <2>1 DEF StreamOK
<1>9. SlotsOK
  <2>1. {"revoked", "active"} \subseteq PCs \ {"idle"}
    BY DEF PCs
  <2> QED BY <1>1, <1>6, <2>1, ReleaseOK, ClaimOK
<1> QED BY <1>1, <1>4, <1>7, <1>8, <1>9

LEMMA FinishWithOK ==
  ASSUME TypeOK, NEW w \in Workers, NEW chain, NEW jb, HashesOK(jb),
         NEW x, NEW fl, fl \subseteq Jobs, FinishWith(w, chain, jb, pel \ {x}, fl)
  PROVE  HashesOK(job') /\ StreamOK /\ SlotsOK /\ failed' \subseteq Jobs
<1>1. pel \ {x} \subseteq Entries
  BY DEF TypeOK
<1>2. CASE FetchNext(w, jb, pel \ {x}, fl)
  BY <1>1, <1>2, FetchNextOK
<1>3. CASE /\ job' = jb /\ pel' = pel \ {x} /\ failed' = fl /\ UNCHANGED backlog /\ Release(w)
  BY <1>1, <1>3, ReleaseOK DEF StreamOK, TypeOK
<1> QED BY <1>2, <1>3 DEF FinishWith

LEMMA CompleteJobOK ==
  ASSUME TypeOK, NEW w \in Workers, pc[w] /= "idle", NEW keep \in BOOLEAN, NEW chain,
         CompleteJob(w, keep, chain)
  PROVE  StepOK
<1>0. PICK j \in Jobs : j = JobOf(hand[w])
  BY HolderFacts
<1> DEFINE Ended == IF keep THEN [job[j] EXCEPT !.state = "completed"] ELSE Hash("gone")
           jb == IF HasState(job[j]) THEN [job EXCEPT ![j] = Ended] ELSE job
<1>1. FinishWith(w, chain, jb, pel \ {hand[w]}, failed)
  BY <1>0 DEF CompleteJob
<1>2. Ended \in JobHash
  <2>1. Hash("gone") \in JobHash /\ job[j] \in JobHash
    BY HashTyped DEF TypeOK, States, NoState, NoHash
  <2> QED BY <2>1 DEF JobHash, States
<1>3. completed' \subseteq completed \cup {j} /\ UNCHANGED <<scheduled, mode>> /\ ~job[j].revoked
  BY <1>0 DEF CompleteJob, Completable
<1>4. HashesOK(jb)
  BY <1>2, <1>3, WriteOK, StayOK DEF Outcome
<1> HIDE DEF jb
<1>5. HashesOK(job') /\ StreamOK /\ SlotsOK /\ failed' \subseteq Jobs
  BY <1>1, <1>4, FinishWithOK DEF TypeOK
<1> QED BY <1>3, <1>5, StayOK DEF StepOK, SetsOK, TypeOK

LEMMA FailJobOK ==
  ASSUME TypeOK, NEW w \in Workers, pc[w] /= "idle", NEW cap \in Nat, NEW keep \in BOOLEAN, NEW chain,
         FailJob(w, cap, keep, chain)
  PROVE  StepOK
<1>0. PICK j \in Jobs : j = JobOf(hand[w])
  BY HolderFacts
<1> DEFINE tries == Bump(job[j].attempts, MaxAttempts)
           retry == HasHash(j) /\ RetriesLeft(tries, cap)
           r == [job[j] EXCEPT !.attempts = tries, !.state = IF retry THEN "delayed" ELSE "failed"]
           jb == IF ~HasHash(j) THEN job
                 ELSE [job EXCEPT ![j] = IF retry \/ keep THEN r ELSE Hash("gone")]
           fl == IF HasHash(j) /\ ~retry /\ keep THEN failed \cup {j} ELSE failed
<1>1. /\ FinishWith(w, chain, jb, pel \ {hand[w]}, fl)
      /\ scheduled' \subseteq scheduled \cup {j} /\ UNCHANGED <<completed, mode>>
  BY <1>0 DEF FailJob
<1>2. r \in JobHash /\ r.state \in {"delayed", "failed"}
  <2>1. job[j] \in JobHash /\ tries \in 0..MaxAttempts
    BY LimitAssumption DEF Bump, TypeOK, JobHash
  <2>2. ASSUME NEW s \in {"delayed", "failed"}
        PROVE  LET x == [job[j] EXCEPT !.attempts = tries, !.state = s]
               IN  x \in JobHash /\ x.state \in {"delayed", "failed"}
    BY <2>1 DEF JobHash, States
  <2> HIDE DEF tries, retry
  <2> QED BY <2>2
<1>3. Hash("gone") \in JobHash /\ Hash("gone").state = "gone"
  BY HashTyped DEF States, NoState, NoHash
<1> HIDE DEF r, retry
<1>4. HashesOK(jb)
  <2>1. Outcome(j, IF retry \/ keep THEN r ELSE Hash("gone"))
    BY <1>2, <1>3 DEF Outcome
  <2> QED BY <2>1, WriteOK, StayOK
<1>5. fl \subseteq Jobs
  BY DEF TypeOK
<1> HIDE DEF jb, fl
<1>6. HashesOK(job') /\ StreamOK /\ SlotsOK /\ failed' \subseteq Jobs
  BY <1>1, <1>4, <1>5, FinishWithOK
<1> QED BY <1>1, <1>6, StayOK DEF StepOK, SetsOK, TypeOK

LEMMA FinishOK == ASSUME TypeOK, NEW w \in Workers, Finish(w) PROVE StepOK
<1>1. CASE \E keep, chain \in BOOLEAN : Complete(w, keep, chain)
  BY <1>1, CompleteJobOK DEF Complete
<1>2. CASE SettleMissing(w)
  <2>1. CASE CompleteJob(w, TRUE, FALSE)
    BY <1>2, <2>1, CompleteJobOK DEF SettleMissing
  <2>2. CASE Release(w) /\ UNCHANGED <<job, stream, sets, mode>>
    BY <2>2, ReleaseOK, StayOK DEF StepOK
  <2> QED BY <1>2, <2>1, <2>2 DEF SettleMissing
<1>3. CASE FailRevoked(w)
  <2>1. pc[w] /= "idle" /\ FailJob(w, 0, TRUE, FALSE) /\ 0 \in Nat
    BY <1>3 DEF FailRevoked
  <2> QED BY <2>1, FailJobOK
<1>4. CASE \E u, keep, chain \in BOOLEAN : Fail(w, u, keep, chain)
  <2>1. PICK u, keep, chain \in BOOLEAN : Fail(w, u, keep, chain)
    BY <1>4
  <2>2. (IF u THEN 0 ELSE MaxAttempts) \in Nat
    BY LimitAssumption
  <2>3. pc[w] /= "idle" /\ FailJob(w, IF u THEN 0 ELSE MaxAttempts, keep, chain)
    BY <2>1 DEF Fail
  <2> QED BY <2>2, <2>3, FailJobOK
<1> QED BY <1>1, <1>2, <1>3, <1>4 DEF Finish

LEMMA NextOK == ASSUME TypeOK, [Next]_vars PROVE StepOK
<1>1. ASSUME NEW w \in Workers, Work(w) \/ Yield(w) \/ Heartbeat(w) PROVE StepOK
  BY <1>1, ClaimStepOK, FinishOK DEF Work
<1>2. CASE UNCHANGED vars
  BY <1>2, StayOK DEF vars, StepOK
<1> QED BY <1>1, <1>2, RestOK, ClientOK, ServerOK DEF Next

(* Every variable keeps its type, whatever befalls the jobs.                 *)
THEOREM TypeCorrect == Spec => []TypeOK
<1>1. Init => TypeOK
  BY InitInv DEF Inv
<1>2. ASSUME TypeOK, [Next]_vars PROVE TypeOK'
  BY <1>2, NextOK DEF StepOK, HashesOK, StreamOK, SetsOK, SlotsOK, ModeOK, TypeOK
<1> QED BY <1>1, <1>2, PTL DEF Spec

(* No run that was revoked before it finished is recorded as completed: not  *)
(* by its worker, by a second worker after a stall, or in a chained fetch.   *)
THEOREM RevokedIsRespected == Spec => RevokedNeverCompletes
<1>1. ASSUME TypeOK, [Next]_vars
      PROVE  [\A j \in Jobs : job[j].revoked /\ job[j].state /= "completed"
                               => job'[j].state /= "completed"]_vars
  BY <1>1, NextOK DEF StepOK, HashesOK, Outcome
<1> QED BY <1>1, TypeCorrect, PTL DEF Spec, RevokedNeverCompletes

-----------------------------------------------------------------------------
(***************************************************************************)
(* StreamQueue implements JobLease: every step of the queue is, for each   *)
(* job, a step of its lease or leaves the lease alone.  The proof goes job *)
(* by job through Allowed, which says in terms of the job's state field    *)
(* and of the workers that run it what a step may do to its lease.         *)
(***************************************************************************)

Owners(i) == {w \in Workers : Runs(w, i)}
Wanted    == {"waiting", "delayed"}
Removed   == {"gone", "ghost"}

(* What one step may do to the state s and the owners o of a job. *)
Change(s, t, o, p) ==
  \/ s = t /\ o = p
  \/ s = "new" /\ t \in Wanted /\ p = {}
  \/ s \in Wanted /\ t \in Wanted \cup {"failed"} /\ o = {} /\ p = {}
  \/ s \in Wanted /\ t = "active" /\ \E w \in Workers : p = {w}
  \/ s \in {"active"} \cup Removed /\ o /= {} /\ p = {}
     /\ t \in Wanted \cup {"failed", "completed", "gone", s}
  \/ s = "active" /\ t \in {"waiting", "failed"} /\ o = {} /\ p = {}
  \/ s = "failed" /\ t \in Wanted /\ p = {}
  \/ s /= "new" /\ t = "gone" /\ o = p
  \/ s \in Removed /\ t \in Removed /\ o = p
Allowed(i) == Change(job[i].state, job'[i].state, Owners(i), Owners(i)')

LeaseMove(i) == Lease!Becomes(i, Phase[i], Owner[i]) \/ Lease!Step(i)

PhaseOf(s) ==
  CASE s = "new" -> "absent"
    [] s \in Wanted -> "queued"
    [] s = "active" -> "running"
    [] s \in Removed -> "removed"
    [] OTHER -> s

LEMMA PhaseFacts ==
  ASSUME NEW i \in Jobs
  PROVE  /\ Phase[i] = PhaseOf(job[i].state) /\ Phase'[i] = PhaseOf(job'[i].state)
         /\ Owner[i] = Owners(i) /\ Owner'[i] = Owners(i)'
BY DEF Phase, PhaseOf, Owner, Owners, Wanted, Removed

(* An allowed change is a step of the lease. *)
LEMMA AllowedMoves ==
  ASSUME NEW i \in Jobs, job[i].state \in States, Allowed(i)
  PROVE  LeaseMove(i)
<1> DEFINE s == job[i].state
           t == job'[i].state
           o == Owners(i)
           p == Owners(i)'
<1>1. /\ Phase[i] = PhaseOf(s) /\ Phase'[i] = PhaseOf(t)
      /\ Owner[i] = o /\ Owner'[i] = p
  BY PhaseFacts
<1>2. Change(s, t, o, p)
  BY DEF Allowed
<1> HIDE DEF s, t, o, p
<1>3. CASE s = t /\ o = p
  BY <1>1, <1>3 DEF LeaseMove, Lease!Becomes
<1>4. CASE s = "new" /\ t \in Wanted /\ p = {}
  BY <1>1, <1>4 DEF LeaseMove, Lease!Becomes, Lease!Step, Lease!Submit, PhaseOf, Wanted, Removed
<1>5. CASE s \in Wanted /\ t \in Wanted \cup {"failed"} /\ o = {} /\ p = {}
  BY <1>1, <1>5 DEF LeaseMove, Lease!Becomes, Lease!Step, Lease!Cancel, PhaseOf, Wanted, Removed
<1>6. CASE s \in Wanted /\ t = "active" /\ \E w \in Workers : p = {w}
  BY <1>1, <1>6 DEF LeaseMove, Lease!Becomes, Lease!Step, Lease!Begin, PhaseOf, Wanted, Removed
<1>7. CASE /\ s \in {"active"} \cup Removed /\ o /= {} /\ p = {}
           /\ t \in Wanted \cup {"failed", "completed", "gone", s}
  <2>1. Lease!Leased(i)
    BY <1>1, <1>7 DEF Lease!Leased, PhaseOf, Wanted, Removed
  <2>2. CASE t = s
    BY <1>1, <1>7, <2>1, <2>2 DEF LeaseMove, Lease!Becomes, Lease!Step, Lease!Abandon
  <2>3. CASE t /= s
    <3>1. PhaseOf(t) \in {"completed", "failed", "queued", "removed"}
      BY <1>7, <2>3 DEF PhaseOf, Wanted, Removed
    <3> QED BY <1>1, <1>7, <2>1, <3>1 DEF LeaseMove, Lease!Becomes, Lease!Step, Lease!Finish
  <2> QED BY <2>2, <2>3
<1>8. CASE s = "active" /\ t \in {"waiting", "failed"} /\ o = {} /\ p = {}
  BY <1>1, <1>8 DEF LeaseMove, Lease!Becomes, Lease!Step, Lease!Recover, PhaseOf, Wanted, Removed
<1>9. CASE s = "failed" /\ t \in Wanted /\ p = {}
  BY <1>1, <1>9 DEF LeaseMove, Lease!Becomes, Lease!Step, Lease!Retry, PhaseOf, Wanted, Removed
<1>10. CASE s /= "new" /\ t = "gone" /\ o = p
  <2>1. s \in States /\ s /= "absent"
    BY DEF s, States, NoState, NoHash
  <2> QED BY <1>1, <1>10, <2>1 DEF LeaseMove, Lease!Becomes, Lease!Step, Lease!Remove, PhaseOf, Wanted, Removed
<1>11. CASE s \in Removed /\ t \in Removed /\ o = p
  BY <1>1, <1>11 DEF LeaseMove, Lease!Becomes, PhaseOf, Wanted, Removed
<1> QED BY <1>2, <1>3, <1>4, <1>5, <1>6, <1>7, <1>8, <1>9, <1>10, <1>11 DEF Change

-----------------------------------------------------------------------------
(* Who owns a job, before and after a step.                                  *)

LEMMA OwnerFacts ==
  ASSUME Inv, NEW i \in Jobs
  PROVE  /\ Owners(i) \subseteq Holders(i) /\ job[i].state \in States
         /\ Owners(i) /= {} => job[i].state \in {"active"} \cup Removed /\ ~job[i].late /\ i \notin failed
<1>1. TypeOK /\ JobFits(i) /\ job[i] \in JobHash
  BY DEF Inv, JobInv, TypeOK
<1>2. \A w \in Owners(i) : w \in Holders(i)
  BY <1>1, HolderFacts DEF Owners, Runs, Started
<1>3. \A w \in Owners(i) : ClaimFits(i, hand[w], pc[w]) /\ pc[w] \in Started
  BY <1>1, <1>2 DEF JobFits, Owners, Runs
<1> QED BY <1>1, <1>2, <1>3 DEF ClaimFits, JobHash, Removed

(* The owners only depend on the slots. *)
LEMMA OwnersSlots == ASSUME UNCHANGED slots, NEW i PROVE Owners(i)' = Owners(i)
BY DEF slots, Owners, Runs

(* A step of one slot changes at most that worker's part in it.              *)
LEMMA OwnersOthers ==
  ASSUME NEW w \in Workers, \A v \in Workers \ {w} : pc'[v] = pc[v] /\ hand'[v] = hand[v], NEW i
  PROVE  /\ Owners(i)' \ {w} = Owners(i) \ {w}
         /\ w \in Owners(i)  <=> pc[w] \in Started /\ JobOf(hand[w]) = i
         /\ w \in Owners(i)' <=> pc'[w] \in Started /\ JobOf(hand'[w]) = i
BY DEF Owners, Runs

(* A worker that lets go of its job leaves it without an owner, and no other. *)
LEMMA OwnersReleased ==
  ASSUME Inv, NEW w \in Workers, pc[w] /= "idle", NEW j \in Jobs, j = JobOf(hand[w]), Release(w)
  PROVE  /\ Owners(j)' = {} /\ Owners(j) = IF pc[w] \in Started THEN {w} ELSE {}
         /\ \A i \in Jobs \ {j} : Owners(i)' = Owners(i)
<1>1. TypeOK /\ Holders(j) = {w}
  BY SoleHolder DEF Inv
<1>2. /\ \A v \in Workers \ {w} : pc'[v] = pc[v] /\ hand'[v] = hand[v]
      /\ pc'[w] = "idle"
  BY <1>1 DEF TypeOK, Release
<1>3. Owners(j) \subseteq {w}
  BY <1>1, OwnerFacts
<1> QED BY <1>2, <1>3, OwnersOthers, SMTT(40) DEF Started

(* A worker that goes on with the same job. *)
LEMMA OwnersGoto ==
  ASSUME Inv, NEW w \in Workers, pc[w] /= "idle", NEW j \in Jobs, j = JobOf(hand[w]), NEW p, Goto(w, p)
  PROVE  /\ Owners(j) = IF pc[w] \in Started THEN {w} ELSE {}
         /\ Owners(j)' = IF p \in Started THEN {w} ELSE {}
         /\ \A i \in Jobs \ {j} : Owners(i)' = Owners(i)
<1>1. TypeOK /\ Holders(j) = {w}
  BY SoleHolder DEF Inv
<1>2. /\ \A v \in Workers \ {w} : pc'[v] = pc[v] /\ hand'[v] = hand[v]
      /\ pc'[w] = p /\ hand' = hand
  BY <1>1 DEF TypeOK, Goto
<1>3. Owners(j) \subseteq {w}
  BY <1>1, OwnerFacts
<1>4. ASSUME NEW i
      PROVE  /\ Owners(i)' \ {w} = Owners(i) \ {w}
             /\ w \in Owners(i)  <=> pc[w] \in Started /\ i = j
             /\ w \in Owners(i)' <=> p \in Started /\ i = j
  BY <1>2, OwnersOthers
<1>5. \A i \in Jobs \ {j} : Owners(i)' = Owners(i)
  BY <1>4
<1> QED BY <1>3, <1>4, <1>5

(* A step allows what it leaves alone. *)
LEMMA Kept ==
  ASSUME NEW i \in Jobs, job'[i].state = job[i].state, Owners(i)' = Owners(i)
  PROVE  Allowed(i)
BY DEF Allowed, Change

-----------------------------------------------------------------------------
(* Steps that leave the workers' slots alone.                                *)

LEMMA AddJobMoves ==
  ASSUME Inv, NEW j \in Jobs, NEW delayed \in BOOLEAN, AddJob(j, delayed), NEW i \in Jobs
  PROVE  Allowed(i)
<1>1. TypeOK /\ UNCHANGED slots /\ job[j].state = "new"
  BY DEF Inv, AddJob
<1>2. Owners(i)' = Owners(i)
  BY <1>1, OwnersSlots
<1>3. CASE i = j
  <2>1. Owners(j) = {}
    BY <1>1, OwnerFacts DEF Removed
  <2>2. job'[j].state \in Wanted
    BY <1>1 DEF AddJob, TypeOK, Hash, Wanted
  <2> QED BY <1>1, <1>2, <1>3, <2>1, <2>2 DEF Allowed, Change
<1>4. CASE i /= j
  BY <1>1, <1>2, <1>4, Kept DEF AddJob, TypeOK
<1> QED BY <1>3, <1>4

LEMMA ServerMoves ==
  ASSUME Inv, Server, NEW i \in Jobs
  PROVE  Allowed(i)
<1>1. TypeOK
  BY DEF Inv
<1>2. UNCHANGED slots
  BY DEF Server, Promote, HeartbeatLapse, Reclaim
<1>3. Owners(i)' = Owners(i)
  BY <1>2, OwnersSlots
<1>4. ASSUME NEW j \in Jobs, Promote(j) PROVE Allowed(i)
  <2>1. CASE i = j
    <3>1. job[j].state = "delayed"
      BY <1>4 DEF Promote, Inv, JobInv, JobFits
    <3>2. Owners(j) = {}
      BY <3>1, OwnerFacts DEF Removed
    <3>3. job'[j].state \in {"waiting", "failed"}
      BY <1>1, <1>4 DEF Promote, ExpireJob, TypeOK, JobHash
    <3> QED BY <1>3, <2>1, <3>1, <3>2, <3>3 DEF Allowed, Change, Wanted
  <2>2. CASE i /= j
    BY <1>1, <1>3, <1>4, <2>2, Kept DEF Promote, ExpireJob, TypeOK
  <2> QED BY <2>1, <2>2
<1>5. ASSUME NEW j \in Jobs, HeartbeatLapse(j) PROVE Allowed(i)
  <2>1. job'[i].state = job[i].state
    BY <1>1, <1>5 DEF HeartbeatLapse, TypeOK, JobHash
  <2> QED BY <1>3, <2>1, Kept
<1>6. ASSUME NEW e \in Entries, Reclaim(e) PROVE Allowed(i)
  <2>1. PICK j \in Jobs : j = JobOf(e)
    BY EntryFacts
  <2>2. CASE i /= j
    <3>1. job'[i] = job[i]
      BY <1>1, <1>6, <2>1, <2>2 DEF Reclaim, ExpireJob, TypeOK
    <3> QED BY <1>3, <3>1, Kept
  <2>3. CASE i = j
    <3>1. e \in Pending(j) /\ JobFits(j)
      BY <1>6, <2>1 DEF Reclaim, Pending, Inv, JobInv
    <3>2. job[j].state \in {"waiting", "active", "gone"}
      BY <3>1 DEF JobFits, EntriesFit
    <3>3. CASE job[j].state = "gone"
      BY <1>3, <1>6, <2>1, <2>3, <3>3, Kept DEF Reclaim, HasHash, NoHash
    <3>4. CASE job[j].state /= "gone"
      <4>1. job'[j].state \in {"waiting", "failed"} /\ (job[j].late \/ ~job[j].fresh)
        BY <1>1, <1>6, <2>1, <3>2, <3>4 DEF Reclaim, ExpireJob, HasHash, NoHash, TypeOK, JobHash
      <4>2. Owners(j) = {}
        <5> SUFFICES ASSUME NEW w \in Owners(j) PROVE FALSE
          OBVIOUS
        <5>1. w \in Holders(j) /\ pc[w] \in Started
          BY OwnerFacts DEF Owners, Runs
        <5>2. ClaimFits(j, e, pc[w])
          BY <3>1, <5>1, PendingHolder
        <5> QED BY <3>1, <4>1, <5>1, <5>2 DEF ClaimFits
      <4> QED BY <1>3, <2>3, <3>2, <3>4, <4>1, <4>2 DEF Allowed, Change, Wanted
    <3> QED BY <3>3, <3>4
  <2> QED BY <2>2, <2>3
<1> QED BY <1>4, <1>5, <1>6 DEF Server

LEMMA ClientMoves ==
  ASSUME Inv, NEW j \in Jobs, Client(j) \/ Again(j) \/ TtlPasses(j), NEW i \in Jobs
  PROVE  Allowed(i)
<1>1. TypeOK /\ JobFits(j) /\ job[j] \in JobHash /\ Hash("gone").state = "gone"
  BY DEF Inv, JobInv, TypeOK, Hash
<1>2. UNCHANGED slots
  BY DEF Client, Revoke, RemoveJob, PromoteJob, CleanCompleted, CleanFailed,
         Again, RetryJob, RetryJobs, RetryFailedJob, ChangeDelay, TtlPasses
<1>3. Owners(i)' = Owners(i)
  BY <1>2, OwnersSlots
<1>4. CASE i /= j
  <2>1. job'[i] = job[i]
    <3>1. CASE Client(j)
      BY <1>1, <1>4, <3>1 DEF Client, Revoke, RemoveJob, PromoteJob, CleanCompleted, CleanFailed, TypeOK
    <3>2. CASE Again(j) \/ TtlPasses(j)
      BY <1>1, <1>4, <3>2 DEF Again, RetryJob, RetryJobs, RetryFailedJob, ChangeDelay, TtlPasses, TypeOK
    <3> QED BY <3>1, <3>2
  <2> QED BY <1>3, <2>1, Kept
<1>5. CASE i = j
  <2>1. job[j].state \in Wanted \cup {"failed"} => Owners(j) = {}
    BY OwnerFacts DEF Wanted, Removed
  <2>2. CASE Revoke(j)
    <3>1. \/ job'[j].state = job[j].state
          \/ job[j].state \in Wanted /\ job'[j].state = "failed"
      BY <1>1, <2>2 DEF Revoke, TypeOK, JobHash, Wanted
    <3> QED BY <1>3, <1>5, <2>1, <3>1 DEF Allowed, Change
  <2>3. CASE RemoveJob(j) \/ CleanCompleted(j) \/ CleanFailed(j)
    <3>1. job'[j].state = "gone"
      BY <1>1, <2>3 DEF RemoveJob, CleanCompleted, CleanFailed, TypeOK
    <3>2. job[j].state /= "new"
      BY <1>1, <2>3 DEF RemoveJob, CleanCompleted, CleanFailed, JobFits, HasHash, NoHash
    <3> QED BY <1>3, <1>5, <3>1, <3>2 DEF Allowed, Change
  <2>4. CASE PromoteJob(j) \/ ChangeDelay(j) \/ RetryJob(j) \/ RetryJobs(j)
    <3>1. job'[j].state \in Wanted
      BY <1>1, <2>4 DEF PromoteJob, ChangeDelay, RetryJob, RetryJobs, RetryFailedJob, TypeOK, JobHash, Wanted
    <3>2. job[j].state \in Wanted \cup {"failed"}
      BY <1>1, <2>4 DEF PromoteJob, ChangeDelay, RetryJob, RetryJobs, JobFits, HasHash, NoHash, Wanted
    <3> QED BY <1>3, <1>5, <2>1, <3>1, <3>2 DEF Allowed, Change
  <2>5. CASE TtlPasses(j)
    <3>1. job'[j].state = job[j].state
      BY <1>1, <2>5 DEF TtlPasses, TypeOK, JobHash
    <3> QED BY <1>3, <1>5, <3>1, Kept
  <2> QED BY <2>2, <2>3, <2>4, <2>5 DEF Client, Again
<1> QED BY <1>4, <1>5

LEMMA DrainMoves ==
  ASSUME Inv, NEW b \in BOOLEAN, Drain(b), NEW i \in Jobs
  PROVE  Allowed(i)
<1>1. Owners(i)' = Owners(i)
  BY OwnersSlots DEF Drain
<1>2. CASE job'[i] = job[i]
  BY <1>1, <1>2, Kept
<1>3. CASE job'[i] /= job[i]
  <2>1. job'[i].state = "gone" /\ (Queued(i) /= {} \/ i \in scheduled)
    BY <1>3 DEF Drain, Hash, Queued
  <2>2. job[i].state /= "new"
    BY <2>1 DEF Inv, JobInv, JobFits, EntriesFit
  <2> QED BY <1>1, <2>1, <2>2 DEF Allowed, Change
<1> QED BY <1>2, <1>3

LEMMA QuietMoves ==
  ASSUME UNCHANGED <<job, slots>>, NEW i \in Jobs
  PROVE  Allowed(i)
BY OwnersSlots, Kept

-----------------------------------------------------------------------------
(* Steps of a worker.                                                        *)

LEMMA ClaimMoves ==
  ASSUME Inv, NEW w \in Workers, Poll(w) \/ Start(w) \/ Heartbeat(w) \/ Crash(w), NEW i \in Jobs
  PROVE  Allowed(i)
<1>1. TypeOK
  BY DEF Inv
<1>2. CASE Poll(w)
  <2>1. /\ \A v \in Workers \ {w} : pc'[v] = pc[v] /\ hand'[v] = hand[v]
        /\ pc[w] = "idle" /\ pc'[w] = "claimed" /\ job' = job
    BY <1>1, <1>2 DEF Poll, TypeOK
  <2>2. Owners(i)' = Owners(i)
    BY <2>1, OwnersOthers DEF Started
  <2> QED BY <2>1, <2>2, Kept
<1>3. CASE Start(w)
  <2>1. PICK j \in Jobs : j = JobOf(hand[w])
    BY <1>1, <1>3, HolderFacts DEF Start
  <2>2. pc[w] = "active" /\ Goto(w, "running") /\ job' = job
    BY <1>3 DEF Start
  <2>3. Owners(i)' = Owners(i)
    BY <2>1, <2>2, OwnersGoto DEF Started
  <2> QED BY <2>2, <2>3, Kept
<1>4. CASE Heartbeat(w)
  <2>1. PICK j \in Jobs : j = JobOf(hand[w]) /\ pc[w] /= "idle" /\ pc[w] \in Started
    BY <1>1, <1>4, HolderFacts DEF Heartbeat, Started
  <2>2. ClaimFits(j, hand[w], pc[w]) /\ job[j] \in JobHash
    BY <1>1, <2>1, SoleHolder DEF TypeOK
  <2>3. Owners(i)' = Owners(i)
    BY <1>4, OwnersSlots DEF Heartbeat
  <2>4. \/ job'[i].state = job[i].state
        \/ i = j /\ job[j].state = "gone" /\ job'[j].state = "ghost"
    BY <1>1, <1>4, <2>1, <2>2 DEF Heartbeat, ClaimFits, HasHash, NoHash, Hash, TypeOK, JobHash
  <2> QED BY <2>3, <2>4, Kept DEF Allowed, Change, Removed
<1>5. CASE Crash(w)
  <2>1. PICK j \in Jobs : j = JobOf(hand[w])
    BY <1>1, <1>5, HolderFacts DEF Crash
  <2>2. /\ Owners(j)' = {} /\ Owners(j) = (IF pc[w] \in Started THEN {w} ELSE {})
        /\ \A k \in Jobs \ {j} : Owners(k)' = Owners(k)
        /\ job' = job
    BY <1>5, <2>1, OwnersReleased DEF Crash
  <2>3. CASE i = j /\ Owners(j) /= {}
    <3>1. job[j].state \in {"active"} \cup Removed
      BY <2>3, OwnerFacts
    <3> QED BY <2>2, <2>3, <3>1 DEF Allowed, Change
  <2>4. CASE i /= j \/ Owners(j) = {}
    BY <2>2, <2>4, Kept
  <2> QED BY <2>3, <2>4
<1> QED BY <1>2, <1>3, <1>4, <1>5

LEMMA MoveToActiveMoves ==
  ASSUME Inv, NEW w \in Workers, MoveToActive(w), NEW i \in Jobs
  PROVE  Allowed(i)
<1>1. PICK j \in Jobs : j = JobOf(hand[w])
  BY HolderFacts DEF Inv, MoveToActive
<1>2. /\ TypeOK /\ pc[w] = "claimed" /\ job[j] \in JobHash
      /\ ClaimFits(j, hand[w], pc[w])
  BY <1>1, SoleHolder DEF Inv, TypeOK, MoveToActive
<1>3. CASE UNCHANGED job
  <2>1. \/ Release(w) \/ \E p \in {"missing", "revoked", "paused"} : Goto(w, p)
        \/ Goto(w, "active") /\ job' = [job EXCEPT ![j] = Activated(@)] /\ job[j].state \in Activatable
    BY <1>1, <1>3 DEF MoveToActive
  <2>2. CASE Release(w) \/ \E p \in {"missing", "revoked", "paused"} : Goto(w, p)
    <3>1. Owners(i)' = Owners(i)
      BY <1>1, <1>2, <2>2, OwnersReleased, OwnersGoto DEF Started
    <3> QED BY <1>3, <3>1, Kept
  <2>3. CASE job' = [job EXCEPT ![j] = Activated(@)] /\ job[j].state \in Activatable
    <3>1. job'[j].state = "active" /\ job[j].state /= "active"
      BY <1>2, <2>3, ActivatedHash DEF TypeOK, Activatable
    <3> QED BY <1>3, <3>1
  <2> QED BY <2>1, <2>2, <2>3
<1>4. CASE job' /= job
  <2>1. job[j].state = "waiting"
    BY <1>1, <1>2, <1>4 DEF MoveToActive, ClaimFits, Activatable
  <2>2. \/ Release(w) /\ ExpireJob(j)
        \/ Goto(w, "active") /\ job' = [job EXCEPT ![j] = Activated(@)]
    BY <1>1, <1>4 DEF MoveToActive
  <2>3. \A k \in Jobs \ {j} : job'[k] = job[k]
    BY <1>2, <2>2 DEF ExpireJob, TypeOK
  <2>4. CASE Release(w) /\ ExpireJob(j)
    <3>1. job'[j].state = "failed"
      BY <1>2, <2>4 DEF ExpireJob, TypeOK, JobHash
    <3>2. Owners(j)' = {} /\ Owners(j) = {} /\ \A k \in Jobs \ {j} : Owners(k)' = Owners(k)
      BY <1>1, <1>2, <2>4, OwnersReleased DEF Started
    <3> QED BY <2>1, <2>3, <3>1, <3>2, Kept DEF Allowed, Change, Wanted
  <2>5. CASE Goto(w, "active") /\ job' = [job EXCEPT ![j] = Activated(@)]
    <3>1. job'[j].state = "active"
      BY <1>2, <2>5, ActivatedHash DEF TypeOK
    <3>2. Owners(j)' = {w} /\ \A k \in Jobs \ {j} : Owners(k)' = Owners(k)
      BY <1>1, <1>2, <2>5, OwnersGoto DEF Started
    <3> QED BY <2>1, <2>3, <3>1, <3>2, Kept DEF Allowed, Change, Wanted
  <2> QED BY <2>2, <2>4, <2>5
<1> QED BY <1>3, <1>4

(* A worker that ends its work on a job, and does nothing else: HandBack,    *)
(* a rate limit, a delay, and a completion or failure without a chain.       *)
LEMMA EndMoves ==
  ASSUME Inv, NEW w \in Workers, pc[w] /= "idle", NEW j \in Jobs, j = JobOf(hand[w]), Release(w),
         \A i \in Jobs \ {j} : job'[i] = job[i],
         \/ job'[j].state = job[j].state
         \/ /\ job'[j].state \in Wanted \cup {"failed", "completed", "gone"}
            /\ pc[w] \in Started
         \/ job[j].state \in Wanted /\ job'[j].state \in Wanted \cup {"failed"} /\ pc[w] \notin Started
         \/ job[j].state = "failed" /\ job'[j].state \in Wanted \cup {"failed"} /\ pc[w] \notin Started,
         NEW i \in Jobs
  PROVE  Allowed(i)
<1>1. /\ Owners(j)' = {} /\ Owners(j) = (IF pc[w] \in Started THEN {w} ELSE {})
      /\ \A k \in Jobs \ {j} : Owners(k)' = Owners(k)
  BY OwnersReleased
<1>2. CASE i /= j
  BY <1>1, <1>2, Kept
<1>3. CASE i = j /\ pc[w] \in Started
  <2>1. Owners(j) /= {} /\ job[j].state \in {"active"} \cup Removed
    BY <1>1, <1>3, OwnerFacts
  <2>2. job'[j].state \in Wanted \cup {"failed", "completed", "gone", job[j].state}
    BY <1>3
  <2> QED BY <1>1, <1>3, <2>1, <2>2 DEF Allowed, Change
<1>4. CASE i = j /\ pc[w] \notin Started
  BY <1>1, <1>4, Kept DEF Allowed, Change
<1> QED BY <1>2, <1>3, <1>4

(* A worker that ends its job and fetches the next: the expired jobs it       *)
(* skips fail from the queue, and the one it activates becomes its own.       *)
LEMMA FetchNextMoves ==
  ASSUME Inv, NEW w \in Workers, pc[w] = "running", NEW j \in Jobs, j = JobOf(hand[w]),
         NEW jb \in [Jobs -> JobHash], \A k \in Jobs \ {j} : jb[k] = job[k],
         jb[j].state \in Wanted \cup {"failed", "completed", "gone", job[j].state},
         NEW pl, NEW fl, FetchNext(w, jb, pl, fl), NEW i \in Jobs
  PROVE  Allowed(i)
<1> DEFINE lapsed(n) == {k \in {JobOf(backlog[l]) : l \in 1..n} : jb[k].state \in Activatable}
           jb2(n) == [k \in Jobs |-> IF k \in lapsed(n) THEN [jb[k] EXCEPT !.state = "failed"] ELSE jb[k]]
           next(n) == backlog[n + 1]
<1>1. /\ TypeOK /\ Queued(j) = {} /\ Holders(j) = {w} /\ pc[w] /= "idle" /\ pc[w] \in Started
      /\ job[j].state \in {"active"} \cup Removed /\ Owners(j) = {w}
  <2>1. TypeOK /\ Queued(j) = {} /\ Holders(j) = {w} /\ pc[w] \in Started
    BY HolderStream DEF Inv, Started
  <2>2. w \in Owners(j)
    BY <2>1 DEF Owners, Runs
  <2>3. Owners(j) = {w}
    BY <2>1, <2>2, OwnerFacts
  <2> QED BY <2>1, <2>2, <2>3, OwnerFacts
<1>2. PICK n \in 0..ChainAttempts :
        /\ n <= Len(backlog)
        /\ \/ job' = jb2(n) /\ Release(w)
           \/ /\ n < Len(backlog) /\ ~Skippable(jb2(n), next(n))
              /\ job' = jb2(n)
              /\ pc' = [pc EXCEPT ![w] = "revoked"] /\ hand' = [hand EXCEPT ![w] = next(n)]
           \/ /\ n < Len(backlog) /\ ~Skippable(jb2(n), next(n))
              /\ HasState(jb2(n)[JobOf(next(n))])
              /\ job' = [jb2(n) EXCEPT ![JobOf(next(n))] = Activated(@)]
              /\ pc' = [pc EXCEPT ![w] = "active"] /\ hand' = [hand EXCEPT ![w] = next(n)]
  BY DEF FetchNext
<1>3. n \in Nat /\ Len(backlog) \in Nat
  BY <1>1, <1>2 DEF TypeOK, ChainAttempts
<1>4. ASSUME NEW k \in 1..Len(backlog)
      PROVE  /\ JobOf(backlog[k]) \in Jobs \ {j} /\ jb[JobOf(backlog[k])] = job[JobOf(backlog[k])]
             /\ Owners(JobOf(backlog[k])) = {}
             /\ job[JobOf(backlog[k])].state \in {"waiting", "gone"}
             /\ \A l \in 1..Len(backlog) : JobOf(backlog[l]) = JobOf(backlog[k]) => l = k
  <2>1. /\ JobOf(backlog[k]) \in Jobs /\ Queued(JobOf(backlog[k])) = {backlog[k]}
        /\ Holders(JobOf(backlog[k])) = {} /\ job[JobOf(backlog[k])].state \in {"waiting", "gone"}
        /\ \A l \in 1..Len(backlog) : JobOf(backlog[l]) = JobOf(backlog[k]) => l = k
    BY UnreadEntry
  <2>2. Owners(JobOf(backlog[k])) = {}
    BY <2>1, OwnerFacts
  <2> QED BY <1>1, <2>1, <2>2
<1>5. jb2(n) \in [Jobs -> JobHash]
  <2>1. ASSUME NEW k \in Jobs PROVE jb2(n)[k] \in JobHash
    <3>1. jb[k] \in JobHash /\ "failed" \in States
      BY DEF States
    <3> QED BY <3>1 DEF JobHash
  <2> QED BY <2>1
<1>6. ASSUME NEW k \in Jobs \ lapsed(n) PROVE jb2(n)[k] = jb[k]
  OBVIOUS
<1>7. ASSUME NEW k \in lapsed(n)
      PROVE  /\ k \in Jobs \ {j} /\ jb2(n)[k].state = "failed" /\ job[k].state = "waiting" /\ Owners(k) = {}
             /\ n < Len(backlog) => JobOf(next(n)) /= k
  <2>1. PICK l \in 1..n : k = JobOf(backlog[l])
    OBVIOUS
  <2>2. l \in 1..Len(backlog) /\ (n < Len(backlog) => n + 1 \in 1..Len(backlog) /\ n + 1 /= l)
    BY <1>2, <1>3, <2>1
  <2>3. /\ k \in Jobs \ {j} /\ jb[k] = job[k] /\ Owners(k) = {} /\ job[k].state \in {"waiting", "gone"}
        /\ n < Len(backlog) => JobOf(backlog[n + 1]) /= k
    BY <1>4, <2>1, <2>2
  <2>4. job[k].state = "waiting"
    BY <2>3 DEF Activatable
  <2>5. jb[k] \in JobHash /\ jb2(n)[k] = [jb[k] EXCEPT !.state = "failed"]
    BY <2>3
  <2>6. jb2(n)[k].state = "failed"
    BY <2>5 DEF JobHash
  <2> HIDE DEF jb2
  <2> QED BY <2>3, <2>4, <2>6
<1>8. j \notin lapsed(n)
  BY <1>7
<1> HIDE DEF jb2, lapsed
\* what becomes of the owners, and of the jobs the call does not activate
<1>9. ASSUME job'[i] = jb2(n)[i], i /= j => Owners(i)' = Owners(i), i = j => Owners(i)' = {}
      PROVE  Allowed(i)
  <2>1. CASE i \in lapsed(n)
    BY <1>7, <1>9, <2>1 DEF Allowed, Change, Wanted
  <2>2. CASE i = j
    BY <1>1, <1>6, <1>8, <1>9, <2>2 DEF Allowed, Change
  <2>3. CASE i /= j /\ i \notin lapsed(n)
    BY <1>6, <1>9, <2>3, Kept
  <2> QED BY <2>1, <2>2, <2>3
<1>10. CASE job' = jb2(n) /\ Release(w)
  BY <1>1, <1>9, <1>10, OwnersReleased
<1>11. ASSUME n < Len(backlog), NEW m, m = JobOf(next(n)), NEW p \in PCs,
              pc' = [pc EXCEPT ![w] = p], hand' = [hand EXCEPT ![w] = next(n)]
       PROVE  /\ m \in Jobs \ {j} /\ Owners(m) = {} /\ Owners(j)' = {}
              /\ Owners(m)' = (IF p \in Started THEN {w} ELSE {})
              /\ \A k \in Jobs \ {j, m} : Owners(k)' = Owners(k)
  <2>1. m \in Jobs \ {j} /\ Owners(m) = {}
    <3>1. n + 1 \in 1..Len(backlog)
      BY <1>3, <1>11
    <3>2. JobOf(backlog[n + 1]) \in Jobs \ {j} /\ Owners(JobOf(backlog[n + 1])) = {}
      BY <1>4, <3>1
    <3>3. m = JobOf(backlog[n + 1])
      BY <1>11
    <3> HIDE DEF next
    <3> QED BY <3>2, <3>3
  <2>2. /\ \A v \in Workers \ {w} : pc'[v] = pc[v] /\ hand'[v] = hand[v]
        /\ pc'[w] = p /\ JobOf(hand'[w]) = m
    BY <1>1, <1>11 DEF TypeOK
  <2>3. ASSUME NEW k
        PROVE  /\ Owners(k)' \ {w} = Owners(k) \ {w}
               /\ w \in Owners(k)  <=> k = j
               /\ w \in Owners(k)' <=> p \in Started /\ k = m
    BY <1>1, <2>2, OwnersOthers
  <2>4. Owners(j)' = {}
    BY <1>1, <2>1, <2>3
  <2>5. Owners(m)' = (IF p \in Started THEN {w} ELSE {})
    BY <2>1, <2>3
  <2>6. \A k \in Jobs \ {j, m} : Owners(k)' = Owners(k)
    BY <2>3
  <2> QED BY <2>1, <2>4, <2>5, <2>6
<1>12. CASE /\ n < Len(backlog) /\ job' = jb2(n)
            /\ pc' = [pc EXCEPT ![w] = "revoked"] /\ hand' = [hand EXCEPT ![w] = next(n)]
  <2>1. "revoked" \in PCs \ Started
    BY DEF PCs, Started
  <2>2. PICK k : k = JobOf(next(n))
    OBVIOUS
  <2>3. /\ k \in Jobs \ {j} /\ Owners(k) = {} /\ Owners(j)' = {} /\ Owners(k)' = {}
        /\ \A l \in Jobs \ {j, k} : Owners(l)' = Owners(l)
    BY <1>11, <1>12, <2>1, <2>2
  <2>4. Owners(j)' = {} /\ (i /= j => Owners(i)' = Owners(i))
    BY <2>3
  <2> QED BY <1>9, <1>12, <2>4
<1>13. CASE /\ n < Len(backlog) /\ ~Skippable(jb2(n), next(n)) /\ HasState(jb2(n)[JobOf(next(n))])
            /\ job' = [jb2(n) EXCEPT ![JobOf(next(n))] = Activated(@)]
            /\ pc' = [pc EXCEPT ![w] = "active"] /\ hand' = [hand EXCEPT ![w] = next(n)]
  <2>1. "active" \in PCs \cap Started
    BY DEF PCs, Started
  <2>2. PICK k : k = JobOf(next(n))
    OBVIOUS
  <2>3. /\ k \in Jobs \ {j} /\ Owners(k) = {} /\ Owners(k)' = {w} /\ Owners(j)' = {}
        /\ \A l \in Jobs \ {j, k} : Owners(l)' = Owners(l)
    BY <1>11, <1>13, <2>1, <2>2
  <2>4. CASE i /= k
    <3>1. job'[i] = jb2(n)[i]
      BY <1>5, <1>13, <2>2, <2>4
    <3> QED BY <1>9, <2>3, <2>4, <3>1
  <2>5. CASE i = k
    <3>1. i \notin lapsed(n)
      BY <1>7, <1>13, <2>2, <2>5
    <3>2. jb2(n)[i] = job[i]
      BY <1>6, <2>3, <2>5, <3>1
    <3>3. job[i].state = "waiting"
      BY <1>3, <1>4, <1>13, <2>2, <2>5, <3>2 DEF HasState, NoState, NoHash
    <3>4. job'[i].state = "active"
      BY <1>5, <1>13, <2>2, <2>5, ActivatedHash
    <3> QED BY <2>3, <2>5, <3>3, <3>4 DEF Allowed, Change, Wanted
  <2> QED BY <2>4, <2>5
<1> QED BY <1>2, <1>10, <1>12, <1>13

(* A worker that completes or fails its job, with or without fetching a next one. *)
LEMMA FinishMoves ==
  ASSUME Inv, NEW w \in Workers, pc[w] /= "idle", NEW j \in Jobs, j = JobOf(hand[w]),
         NEW jb \in [Jobs -> JobHash], \A k \in Jobs \ {j} : jb[k] = job[k],
         \/ jb[j].state = job[j].state
         \/ /\ jb[j].state \in Wanted \cup {"failed", "completed", "gone"}
            /\ pc[w] \in Started
         \/ job[j].state \in Wanted /\ jb[j].state \in Wanted \cup {"failed"} /\ pc[w] \notin Started,
         NEW chain, chain => pc[w] = "running", NEW pl, NEW fl, FinishWith(w, chain, jb, pl, fl),
         NEW i \in Jobs
  PROVE  Allowed(i)
<1>1. CASE FetchNext(w, jb, pl, fl) /\ chain
  <2>1. pc[w] = "running" /\ pc[w] \in Started
    BY <1>1 DEF Started
  <2>2. jb[j].state \in Wanted \cup {"failed", "completed", "gone", job[j].state}
    BY <2>1
  <2> QED BY <1>1, <2>1, <2>2, FetchNextMoves
<1>2. CASE job' = jb /\ Release(w)
  BY <1>2, EndMoves
<1> QED BY <1>1, <1>2 DEF FinishWith

LEMMA CompleteJobMoves ==
  ASSUME Inv, NEW w \in Workers, pc[w] \in {"running", "missing"}, NEW keep \in BOOLEAN,
         NEW chain, chain => pc[w] = "running", CompleteJob(w, keep, chain), NEW i \in Jobs
  PROVE  Allowed(i)
<1>0. PICK j \in Jobs : j = JobOf(hand[w])
  BY HolderFacts DEF Inv
<1>1. /\ TypeOK /\ job[j] \in JobHash /\ pc[w] /= "idle"
      /\ pc[w] = "missing" => job[j].state = "gone"
  BY <1>0, FinisherFacts
<1> DEFINE Ended == IF keep THEN [job[j] EXCEPT !.state = "completed"] ELSE Hash("gone")
           jb == IF HasState(job[j]) THEN [job EXCEPT ![j] = Ended] ELSE job
<1>2. FinishWith(w, chain, jb, pel \ {hand[w]}, failed)
  BY <1>0 DEF CompleteJob
<1>3. Ended \in JobHash /\ Ended.state \in {"completed", "gone"}
  BY <1>1, LimitAssumption DEF JobHash, Hash, States, NoState, NoHash
<1>4. jb \in [Jobs -> JobHash] /\ \A k \in Jobs \ {j} : jb[k] = job[k]
  BY <1>1, <1>3 DEF TypeOK
<1>5. \/ jb[j].state = job[j].state
      \/ jb[j].state \in Wanted \cup {"failed", "completed", "gone"} /\ pc[w] \in Started
  <2>1. CASE ~HasState(job[j])
    BY <2>1
  <2>2. CASE HasState(job[j])
    <3>1. pc[w] \in Started
      BY <1>1, <2>2 DEF HasState, NoState, NoHash, Started
    <3>2. jb[j] = Ended
      BY <1>1, <2>2 DEF TypeOK
    <3> QED BY <1>3, <3>1, <3>2
  <2> QED BY <2>1, <2>2
<1> HIDE DEF jb
<1> QED BY <1>0, <1>1, <1>2, <1>4, <1>5, FinishMoves

LEMMA FailJobMoves ==
  ASSUME Inv, NEW w \in Workers, pc[w] \in {"running", "revoked"}, NEW cap \in Nat,
         pc[w] = "revoked" => cap = 0, NEW keep \in BOOLEAN, pc[w] = "revoked" => keep,
         NEW chain, chain => pc[w] = "running", FailJob(w, cap, keep, chain), NEW i \in Jobs
  PROVE  Allowed(i)
<1>0. PICK j \in Jobs : j = JobOf(hand[w])
  BY HolderFacts DEF Inv
<1>1. /\ TypeOK /\ job[j] \in JobHash /\ pc[w] /= "idle"
      /\ pc[w] = "revoked" => job[j].state \in {"waiting", "failed", "gone"}
  BY <1>0, FinisherFacts
<1> DEFINE tries == Bump(job[j].attempts, MaxAttempts)
           retry == HasHash(j) /\ RetriesLeft(tries, cap)
           r == [job[j] EXCEPT !.attempts = tries, !.state = IF retry THEN "delayed" ELSE "failed"]
           jb == IF ~HasHash(j) THEN job
                 ELSE [job EXCEPT ![j] = IF retry \/ keep THEN r ELSE Hash("gone")]
           fl == IF HasHash(j) /\ ~retry /\ keep THEN failed \cup {j} ELSE failed
<1>2. FinishWith(w, chain, jb, pel \ {hand[w]}, fl)
  BY <1>0 DEF FailJob
<1>3. tries \in 0..MaxAttempts
  BY <1>1, LimitAssumption DEF Bump, JobHash
<1>4. r \in JobHash /\ r.state = (IF retry THEN "delayed" ELSE "failed")
      /\ Hash("gone") \in JobHash /\ Hash("gone").state = "gone"
  <2>1. Hash("gone") \in JobHash /\ Hash("gone").state = "gone"
    BY LimitAssumption DEF JobHash, Hash, States, NoState, NoHash
  <2>2. ASSUME NEW t \in 0..MaxAttempts, NEW s \in States
        PROVE  LET x == [job[j] EXCEPT !.attempts = t, !.state = s]
               IN  x \in JobHash /\ x.state = s
    BY <1>1 DEF JobHash
  <2>3. (IF retry THEN "delayed" ELSE "failed") \in States
    BY DEF States
  <2> HIDE DEF tries, retry
  <2> QED BY <1>3, <2>1, <2>2, <2>3
<1>5. pc[w] = "revoked" => ~retry /\ keep
  BY DEF RetriesLeft
<1> HIDE DEF r, retry
<1>6. jb \in [Jobs -> JobHash] /\ (\A k \in Jobs \ {j} : jb[k] = job[k])
      /\ jb[j] = IF ~HasHash(j) THEN job[j] ELSE IF retry \/ keep THEN r ELSE Hash("gone")
  BY <1>1, <1>4 DEF TypeOK
<1> HIDE DEF jb
<1>7. \/ jb[j].state = job[j].state
      \/ jb[j].state \in Wanted \cup {"failed", "completed", "gone"} /\ pc[w] \in Started
      \/ job[j].state \in Wanted /\ jb[j].state \in Wanted \cup {"failed"} /\ pc[w] \notin Started
  <2>1. CASE ~HasHash(j)
    BY <1>6, <2>1
  <2>2. CASE HasHash(j) /\ pc[w] = "running"
    BY <1>4, <1>6, <2>2 DEF Started, Wanted
  <2>3. CASE HasHash(j) /\ pc[w] = "revoked"
    <3>1. jb[j].state = "failed" /\ job[j].state \in {"waiting", "failed"}
      BY <1>1, <1>4, <1>5, <1>6, <2>3 DEF HasHash, NoHash
    <3> QED BY <2>3, <3>1 DEF Started, Wanted
  <2> QED BY <2>1, <2>2, <2>3
<1> QED BY <1>0, <1>1, <1>2, <1>6, <1>7, FinishMoves

(* A worker that settles its job, gives it back, or puts it off.              *)
LEMMA SettleMoves ==
  ASSUME Inv, NEW w \in Workers, Finish(w) \/ HandBack(w) \/ Yield(w), NEW i \in Jobs
  PROVE  Allowed(i)
<1>0. TypeOK
  BY DEF Inv
<1>1. CASE \E keep, chain \in BOOLEAN : Complete(w, keep, chain)
  BY <1>1, CompleteJobMoves DEF Complete
<1>2. CASE SettleMissing(w)
  <2>1. CASE CompleteJob(w, TRUE, FALSE)
    BY <1>2, <2>1, CompleteJobMoves DEF SettleMissing
  <2>2. CASE Release(w) /\ UNCHANGED job
    <3>1. PICK j \in Jobs : j = JobOf(hand[w]) /\ pc[w] /= "idle"
      BY <1>0, <1>2, HolderFacts DEF SettleMissing
    <3> QED BY <2>2, <3>1, EndMoves
  <2> QED BY <1>2, <2>1, <2>2 DEF SettleMissing
<1>3. CASE FailRevoked(w)
  <2>1. pc[w] = "revoked" /\ FailJob(w, 0, TRUE, FALSE) /\ 0 \in Nat
    BY <1>3 DEF FailRevoked
  <2> QED BY <2>1, FailJobMoves
<1>4. CASE \E u, keep, chain \in BOOLEAN : Fail(w, u, keep, chain)
  <2>1. PICK u, keep, chain \in BOOLEAN : Fail(w, u, keep, chain)
    BY <1>4
  <2>2. (IF u THEN 0 ELSE MaxAttempts) \in Nat
    BY LimitAssumption
  <2>3. pc[w] = "running" /\ FailJob(w, IF u THEN 0 ELSE MaxAttempts, keep, chain)
    BY <2>1 DEF Fail
  <2> QED BY <2>2, <2>3, FailJobMoves
<1>5. CASE HandBack(w) \/ Yield(w)
  <2>1. pc[w] \in {"running", "paused", "claimed", "active"} /\ Release(w)
    BY <1>5 DEF HandBack, Yield, RequeueLimited, MoveActiveToDelayed
  <2>2. PICK j \in Jobs : j = JobOf(hand[w]) /\ pc[w] /= "idle"
    BY <1>0, <2>1, HolderFacts
  <2>3. ClaimFits(j, hand[w], pc[w]) /\ job[j] \in JobHash
    BY <1>0, <2>2, SoleHolder DEF TypeOK
  <2>4. /\ \A k \in Jobs \ {j} : job'[k] = job[k]
        /\ job'[j].state = job[j].state \/ (HasHash(j) /\ job'[j].state \in Wanted)
    <3>1. \/ job' = job
          \/ HasHash(j) /\ \E s \in Wanted : job' = [job EXCEPT ![j].state = s]
      <4>1. CASE HandBack(w)
        BY <2>2, <4>1 DEF HandBack, Wanted
      <4>2. CASE RequeueLimited(w)
        BY <2>2, <4>2 DEF RequeueLimited, Wanted
      <4>3. CASE MoveActiveToDelayed(w)
        BY <2>2, <4>3 DEF MoveActiveToDelayed, Wanted, HasHash, NoHash
      <4> QED BY <1>5, <4>1, <4>2, <4>3 DEF Yield
    <3>2. ASSUME NEW s \in Wanted, job' = [job EXCEPT ![j].state = s]
          PROVE  job'[j].state \in Wanted /\ \A k \in Jobs \ {j} : job'[k] = job[k]
      BY <1>0, <2>3, <3>2 DEF TypeOK, JobHash
    <3> QED BY <3>1, <3>2
  <2>5. CASE pc[w] \in {"running", "active"}
    BY <2>1, <2>2, <2>4, <2>5, EndMoves DEF Started
  <2>6. CASE pc[w] \in {"paused", "claimed"}
    <3>1. pc[w] \notin Started /\ job[j].state \in {"gone", "waiting", "failed"}
      BY <2>3, <2>6 DEF ClaimFits, Started
    <3>2. HasHash(j) => job[j].state \in {"waiting", "failed"}
      BY <3>1 DEF HasHash, NoHash
    <3> QED BY <2>1, <2>2, <2>4, <3>1, <3>2, EndMoves DEF Wanted
  <2> QED BY <2>1, <2>5, <2>6
<1> QED BY <1>1, <1>2, <1>3, <1>4, <1>5 DEF Finish

-----------------------------------------------------------------------------
(* Every step of the queue is allowed for every job. *)
LEMMA NextMoves ==
  ASSUME Orderly, Inv, [Next]_vars, NEW i \in Jobs
  PROVE  Allowed(i)
<1>1. ASSUME NEW w \in Workers, Work(w) \/ Yield(w) \/ Heartbeat(w) \/ Crash(w) PROVE Allowed(i)
  BY <1>1, ClaimMoves, MoveToActiveMoves, SettleMoves DEF Work
<1>2. ASSUME NEW w \in Workers, Hang(w) \/ Wake(w) \/ Stop(w) \/ Restart(w) PROVE Allowed(i)
  BY <1>2, QuietMoves DEF Hang, Wake, Stop, Restart
<1>3. ASSUME NEW j \in Jobs, Queue(j) \/ Client(j) \/ Again(j) \/ TtlPasses(j) PROVE Allowed(i)
  BY <1>3, AddJobMoves, ClientMoves DEF Queue
<1>4. ASSUME NEW b \in BOOLEAN, Drain(b) \/ SetPaused(b) PROVE Allowed(i)
  BY <1>4, DrainMoves, QuietMoves DEF SetPaused
<1>5. CASE UNCHANGED vars
  BY <1>5, QuietMoves DEF vars
<1> QED BY <1>1, <1>2, <1>3, <1>4, <1>5, ServerMoves DEF Next

(* The queue keeps the contract of JobLease: each job is leased to one worker *)
(* at a time, only a leased job finishes and only its owner finishes it, an   *)
(* abandoned lease is taken back, and a completed job is not queued again.    *)
THEOREM LeaseImplemented == ASSUME Orderly PROVE Spec => ImplementsLease
<1>1. Init => Lease!Init
  BY DEF Init, Lease!Init, Phase, Owner, Runs, Hash, Started
<1>2. ASSUME Inv, [Next]_vars PROVE [Lease!Next]_(Lease!vars)
  <2>1. ASSUME NEW i \in Jobs
        PROVE  Lease!Becomes(i, Phase[i], Owner[i]) \/ Lease!Step(i)
    <3>1. job[i].state \in States
      BY <1>2, OwnerFacts
    <3> QED BY <1>2, <3>1, NextMoves, AllowedMoves DEF LeaseMove
  <2>2. ASSUME NEW i \in Jobs, NEW k \in Jobs, i /= k PROVE Owner'[i] \cap Owner'[k] = {}
    BY <2>2 DEF Owner, Runs
  <2> QED BY <2>1, <2>2 DEF Lease!Next
<1> QED BY <1>1, <1>2, Invariance, PTL DEF Spec, ImplementsLease, Lease!Spec
=============================================================================
