-------------------------- MODULE ListClaimsProofs --------------------------
(***************************************************************************)
(* Theorems about ListClaims, for every set of jobs, every set of workers  *)
(* and every profile: no list or stream job is lost between two calls, and *)
(* globalConcurrency holds, as does the counter it is read from.           *)
(*                                                                         *)
(* A function of glidemq.lua is an operator from the record before to the  *)
(* record after, and so the invariant is a predicate of a record d and of  *)
(* a set cs of claims: the lemmas about calls that are made of several     *)
(* functions follow it from one to the next.                               *)
(***************************************************************************)
EXTENDS ListClaims, FiniteSetTheorems, TLAPS

-----------------------------------------------------------------------------
(* Sequences without repetition: what appending, cutting and deleting leave. *)

Distinct(s) == \A i, k \in 1..Len(s) : s[i] = s[k] => i = k

LEMMA MembersOf ==
  ASSUME NEW S, NEW s \in Seq(S)
  PROVE  Members(s) \subseteq S /\ Len(s) \in Nat /\ \A x : x \in Members(s) <=> \E i \in 1..Len(s) : s[i] = x
BY DEF Members

LEMMA AppendMembers ==
  ASSUME NEW S, NEW s \in Seq(S), NEW e \in S
  PROVE  LET t == Append(s, e)
         IN  /\ t \in Seq(S) /\ Len(t) = Len(s) + 1
             /\ Members(t) = Members(s) \cup {e}
             /\ Distinct(s) /\ e \notin Members(s) => Distinct(t)
             /\ \A i \in 1..Len(s) : t[i] = s[i]
             /\ t[Len(s) + 1] = e
<1> DEFINE t == Append(s, e)
<1>1. t \in Seq(S) /\ Len(t) = Len(s) + 1 /\ Len(s) \in Nat
  OBVIOUS
<1>2. \A i \in 1..Len(s) : t[i] = s[i]
  OBVIOUS
<1>3. t[Len(s) + 1] = e
  OBVIOUS
<1> HIDE DEF t
<1>4. 1..Len(t) = (1..Len(s)) \cup {Len(s) + 1}
  BY <1>1
<1>5. Members(t) = Members(s) \cup {e}
  BY <1>1, <1>2, <1>3, <1>4 DEF Members
<1>6. ASSUME Distinct(s), e \notin Members(s) PROVE Distinct(t)
  <2> SUFFICES ASSUME NEW i \in 1..Len(t), NEW k \in 1..Len(t), t[i] = t[k]
               PROVE  i = k
    BY DEF Distinct
  <2>1. CASE i \in 1..Len(s) /\ k \in 1..Len(s)
    BY <1>6, <2>1, <1>2 DEF Distinct
  <2>2. CASE i = Len(s) + 1 /\ k \in 1..Len(s)
    BY <1>6, <2>2, <1>2, <1>3 DEF Members
  <2>3. CASE i \in 1..Len(s) /\ k = Len(s) + 1
    BY <1>6, <2>3, <1>2, <1>3 DEF Members
  <2> QED BY <1>4, <2>1, <2>2, <2>3
<1> QED BY <1>1, <1>2, <1>3, <1>5, <1>6 DEF t

LEMMA PrependMembers ==
  ASSUME NEW S, NEW s \in Seq(S), NEW e \in S
  PROVE  LET t == <<e>> \o s
         IN  /\ t \in Seq(S) /\ Members(t) = Members(s) \cup {e}
             /\ Distinct(s) /\ e \notin Members(s) => Distinct(t)
<1> DEFINE t == <<e>> \o s
<1>1. t \in Seq(S) /\ Len(t) = Len(s) + 1 /\ Len(s) \in Nat
  OBVIOUS
<1>2. t[1] = e
  OBVIOUS
<1>3. \A i \in 1..Len(s) : t[i + 1] = s[i]
  OBVIOUS
<1> HIDE DEF t
<1>4. \A k \in 1..Len(t) : k = 1 \/ (k - 1 \in 1..Len(s) /\ t[k] = s[k - 1])
  <2> SUFFICES ASSUME NEW k \in 1..Len(t), k /= 1 PROVE k - 1 \in 1..Len(s) /\ t[k] = s[k - 1]
    OBVIOUS
  <2>1. k - 1 \in 1..Len(s) /\ (k - 1) + 1 = k
    BY <1>1
  <2> QED BY <1>3, <2>1
<1>5. Members(t) = Members(s) \cup {e}
  <2>1. ASSUME NEW x \in Members(t) PROVE x \in Members(s) \cup {e}
    BY <1>2, <1>4 DEF Members
  <2>2. ASSUME NEW x \in Members(s) PROVE x \in Members(t)
    <3>1. PICK i \in 1..Len(s) : s[i] = x
      BY DEF Members
    <3>2. i + 1 \in 1..Len(t) /\ t[i + 1] = x
      BY <1>1, <1>3, <3>1
    <3> QED BY <3>2 DEF Members
  <2>3. e \in Members(t)
    <3>1. 1 \in 1..Len(t)
      BY <1>1
    <3> QED BY <1>2, <3>1 DEF Members
  <2> QED BY <2>1, <2>2, <2>3
<1>6. ASSUME Distinct(s), e \notin Members(s) PROVE Distinct(t)
  <2> SUFFICES ASSUME NEW i \in 1..Len(t), NEW k \in 1..Len(t), t[i] = t[k]
               PROVE  i = k
    BY DEF Distinct
  <2>1. \A l \in 1..Len(s) : s[l] /= e
    BY <1>6 DEF Members
  <2>2. CASE i = 1 \/ k = 1
    BY <1>2, <1>4, <2>1, <2>2
  <2>3. CASE i /= 1 /\ k /= 1
    <3>1. i - 1 \in 1..Len(s) /\ k - 1 \in 1..Len(s) /\ s[i - 1] = s[k - 1]
      BY <1>4, <2>3
    <3>2. i - 1 = k - 1
      BY <1>6, <3>1 DEF Distinct
    <3> QED BY <3>2
  <2> QED BY <2>2, <2>3
<1> QED BY <1>1, <1>5, <1>6 DEF t

(* What a pop of n members leaves. *)
LEMMA SuffixMembers ==
  ASSUME NEW S, NEW s \in Seq(S), NEW n \in 0..Len(s), Distinct(s)
  PROVE  LET t == SubSeq(s, n + 1, Len(s))
             p == Members(SubSeq(s, 1, n))
         IN  /\ t \in Seq(S) /\ Distinct(t) /\ Len(t) = Len(s) - n
             /\ p = {s[i] : i \in 1..n} /\ p \subseteq Members(s)
             /\ Members(t) = Members(s) \ p
             /\ n < Len(s) => t /= <<>> /\ Head(t) = s[n + 1]
<1> DEFINE t == SubSeq(s, n + 1, Len(s))
           q == SubSeq(s, 1, n)
           p == Members(q)
<1>1. Len(s) \in Nat /\ n \in Nat /\ n <= Len(s)
  OBVIOUS
<1>2. t \in Seq(S) /\ Len(t) = Len(s) - n
  BY <1>1
<1>3. \A i \in 1..Len(t) : t[i] = s[i + n] /\ i + n \in (n + 1)..Len(s)
  BY <1>1, <1>2
<1>4. q \in Seq(S) /\ Len(q) = n /\ \A i \in 1..n : q[i] = s[i]
  BY <1>1
<1> HIDE DEF t, q
<1>5. p = {s[i] : i \in 1..n} /\ p \subseteq Members(s)
  BY <1>1, <1>4 DEF Members
<1>6. Distinct(t)
  <2> SUFFICES ASSUME NEW i \in 1..Len(t), NEW k \in 1..Len(t), t[i] = t[k]
               PROVE  i = k
    BY DEF Distinct
  <2>1. s[i + n] = s[k + n] /\ i + n \in 1..Len(s) /\ k + n \in 1..Len(s)
    BY <1>1, <1>3
  <2>2. i + n = k + n
    BY <2>1 DEF Distinct
  <2> QED BY <1>1, <2>2
<1>7. Members(t) = Members(s) \ p
  <2>1. ASSUME NEW i \in 1..Len(t) PROVE t[i] \in Members(s) /\ t[i] \notin p
    <3>1. t[i] = s[i + n] /\ i + n \in 1..Len(s) /\ i + n > n
      BY <1>1, <1>3
    <3>2. \A l \in 1..n : s[l] /= s[i + n]
      <4>1. ASSUME NEW l \in 1..n PROVE l \in 1..Len(s) /\ l /= i + n
        BY <1>1, <3>1
      <4> QED BY <3>1, <4>1 DEF Distinct
    <3> QED BY <1>5, <3>1, <3>2 DEF Members
  <2>2. ASSUME NEW k \in 1..Len(s), s[k] \notin p PROVE s[k] \in Members(t)
    <3>1. ~(k <= n)
      BY <1>1, <1>5, <2>2
    <3>2. k - n \in 1..Len(t) /\ (k - n) + n = k
      BY <1>1, <1>2, <3>1
    <3> QED BY <1>3, <3>2 DEF Members
  <2> QED BY <2>1, <2>2 DEF Members
<1>8. n < Len(s) => t /= <<>> /\ Head(t) = s[n + 1]
  <2> SUFFICES ASSUME n < Len(s) PROVE t /= <<>> /\ Head(t) = s[n + 1]
    OBVIOUS
  <2>1. Len(t) \in Nat /\ Len(t) >= 1 /\ 1 \in 1..Len(t)
    BY <1>1, <1>2
  <2>2. t[1] = s[1 + n] /\ 1 + n = n + 1
    BY <1>1, <1>3, <2>1
  <2> QED BY <1>2, <2>1, <2>2
<1> QED BY <1>2, <1>5, <1>6, <1>7, <1>8 DEF t, q

LEMMA TailMembers ==
  ASSUME NEW S, NEW s \in Seq(S), s /= <<>>, Distinct(s)
  PROVE  /\ Head(s) \in Members(s) /\ Tail(s) \in Seq(S) /\ Distinct(Tail(s))
         /\ Members(Tail(s)) = Members(s) \ {Head(s)}
<1>1. /\ Len(s) \in Nat \ {0} /\ Head(s) = s[1] /\ Tail(s) \in Seq(S)
      /\ Len(Tail(s)) = Len(s) - 1
  OBVIOUS
<1>2. \A i \in 1..(Len(s) - 1) : Tail(s)[i] = s[i + 1]
  OBVIOUS
<1>3. Distinct(Tail(s))
  BY <1>1, <1>2 DEF Distinct
<1>4. \A i \in 2..Len(s) : Tail(s)[i - 1] = s[i] /\ i - 1 \in 1..Len(Tail(s))
  BY <1>1, <1>2
<1>5. Members(Tail(s)) \subseteq Members(s) \ {Head(s)}
  <2> SUFFICES ASSUME NEW i \in 1..Len(Tail(s))
               PROVE  Tail(s)[i] \in Members(s) \ {Head(s)}
    BY DEF Members
  <2>1. i + 1 \in 1..Len(s) /\ i + 1 /= 1 /\ Tail(s)[i] = s[i + 1] /\ 1 \in 1..Len(s)
    BY <1>1, <1>2
  <2> QED BY <2>1, <1>1 DEF Members, Distinct
<1>6. Members(s) \ {Head(s)} \subseteq Members(Tail(s))
  <2> SUFFICES ASSUME NEW i \in 1..Len(s), s[i] /= Head(s)
               PROVE  s[i] \in Members(Tail(s))
    BY DEF Members
  <2>1. i \in 2..Len(s)
    BY <1>1
  <2> QED BY <2>1, <1>4 DEF Members
<1>7. Head(s) \in Members(s)
  BY <1>1 DEF Members
<1> QED BY <1>1, <1>3, <1>5, <1>6, <1>7

(* The ranks of what is left when at most one index m is taken out. *)
LEMMA Rank ==
  ASSUME NEW n \in Nat, NEW m \in 1..(n + 1), NEW i \in 1..n, i /= m
  PROVE  Cardinality({l \in (1..n) \ {m} : l <= i}) = IF i < m THEN i ELSE i - 1
<1>1. IsFiniteSet(1..i) /\ Cardinality(1..i) = i
  <2>1. 1 \in Int /\ i \in Int /\ ~(1 > i) /\ i - 1 + 1 = i
    OBVIOUS
  <2> QED BY <2>1, FS_Interval
<1>2. {l \in (1..n) \ {m} : l <= i} = (1..i) \ {m}
  OBVIOUS
<1>3. m \in 1..i <=> ~(i < m)
  OBVIOUS
<1>4. Cardinality((1..i) \ {m}) = IF m \in 1..i THEN i - 1 ELSE i
  BY <1>1, FS_RemoveElement
<1> QED BY <1>2, <1>3, <1>4

(* What LREM 0 and XDEL leave. *)
LEMMA WithoutMembers ==
  ASSUME NEW S, NEW s \in Seq(S), NEW j, Distinct(s)
  PROVE  LET t == Without(s, j)
         IN  /\ t \in Seq(S) /\ Distinct(t)
             /\ Members(t) = Members(s) \ {j}
             /\ Len(t) = IF j \in Members(s) THEN Len(s) - 1 ELSE Len(s)
             /\ \A k \in 1..Len(t) : \E i \in 1..Len(s) : k <= i /\ t[k] = s[i]
<1> DEFINE rest == {i \in 1..Len(s) : s[i] /= j}
           t == Without(s, j)
<1>1. Len(s) \in Nat
  OBVIOUS
<1>2. PICK m \in 1..(Len(s) + 1) : /\ m \in 1..Len(s) => s[m] = j
                                   /\ rest = (1..Len(s)) \ {m}
  <2>1. CASE \E i \in 1..Len(s) : s[i] = j
    BY <1>1, <2>1 DEF Distinct
  <2>2. CASE ~\E i \in 1..Len(s) : s[i] = j
    <3>1. rest = (1..Len(s)) \ {Len(s) + 1} /\ Len(s) + 1 \notin 1..Len(s) /\ Len(s) + 1 \in 1..(Len(s) + 1)
      BY <1>1, <2>2
    <3> QED BY <3>1
  <2> QED BY <2>1, <2>2
<1> DEFINE size == IF m \in 1..Len(s) THEN Len(s) - 1 ELSE Len(s)
<1>3. Cardinality(rest) = size /\ size \in Nat
  <2>1. IsFiniteSet(1..Len(s)) /\ Cardinality(1..Len(s)) = Len(s)
    <3>1. 1 \in Int /\ Len(s) \in Int /\ (1 > Len(s) => Len(s) = 0) /\ Len(s) - 1 + 1 = Len(s)
      BY <1>1
    <3> QED BY <3>1, FS_Interval
  <2>2. Cardinality(rest) = size
    BY <1>1, <1>2, <2>1, FS_RemoveElement
  <2>3. size \in Nat
    BY <1>1
  <2> QED BY <2>2, <2>3
<1>4. ASSUME NEW k \in 1..size
      PROVE  (CHOOSE i \in rest : Cardinality({l \in rest : l <= i}) = k) = IF k < m THEN k ELSE k + 1
  <2> DEFINE rank(i) == Cardinality({l \in rest : l <= i})
             x == IF k < m THEN k ELSE k + 1
  <2>1. \A i \in rest : rank(i) = IF i < m THEN i ELSE i - 1
    BY <1>1, <1>2, Rank
  <2>2. \A i \in rest : i \in 1..Len(s) /\ i /= m
    BY <1>2
  <2>3. x \in rest
    BY <1>1, <1>2, <1>3
  <2> HIDE DEF rank, rest, size
  <2>4. rank(x) = k
    BY <1>1, <2>1, <2>3
  <2>5. \A i \in rest : rank(i) = k => i = x
    BY <1>1, <2>1, <2>2
  <2>6. (CHOOSE i \in rest : rank(i) = k) = x
    BY <2>3, <2>4, <2>5
  <2> QED BY <2>6 DEF rank
<1>5. t = [k \in 1..size |-> IF k < m THEN s[k] ELSE s[k + 1]]
  <2>1. t = [k \in 1..Cardinality(rest) |-> s[CHOOSE i \in rest : Cardinality({l \in rest : l <= i}) = k]]
    BY DEF Without
  <2> HIDE DEF rest, t, size
  <2>2. t = [k \in 1..size |-> s[CHOOSE i \in rest : Cardinality({l \in rest : l <= i}) = k]]
    BY <1>3, <2>1
  <2>3. \A k \in 1..size : s[CHOOSE i \in rest : Cardinality({l \in rest : l <= i}) = k] =
                             IF k < m THEN s[k] ELSE s[k + 1]
    <3> SUFFICES ASSUME NEW k \in 1..size
                 PROVE  s[CHOOSE i \in rest : Cardinality({l \in rest : l <= i}) = k] = IF k < m THEN s[k] ELSE s[k + 1]
      OBVIOUS
    <3>1. (CHOOSE i \in rest : Cardinality({l \in rest : l <= i}) = k) = IF k < m THEN k ELSE k + 1
      BY <1>4
    <3> DEFINE x == CHOOSE i \in rest : Cardinality({l \in rest : l <= i}) = k
    <3>2. x = IF k < m THEN k ELSE k + 1
      BY <3>1
    <3> HIDE DEF x
    <3>3. s[x] = IF k < m THEN s[k] ELSE s[k + 1]
      BY <3>2
    <3> QED BY <3>3 DEF x
  <2> QED BY <2>2, <2>3
<1> HIDE DEF t
<1>6. \A k \in 1..size : (IF k < m THEN s[k] ELSE s[k + 1]) \in S
  BY <1>1
<1>7. t \in Seq(S) /\ Len(t) = size
  BY <1>3, <1>5, <1>6
<1>8. \A k \in 1..Len(t) : t[k] = IF k < m THEN s[k] ELSE s[k + 1]
  BY <1>5, <1>7
<1>9. Distinct(t)
  BY <1>1, <1>7, <1>8 DEF Distinct
<1>10. \A k \in 1..Len(t) : \E i \in 1..Len(s) : k <= i /\ i /= m /\ t[k] = s[i]
  <2> SUFFICES ASSUME NEW k \in 1..Len(t) PROVE \E i \in 1..Len(s) : k <= i /\ i /= m /\ t[k] = s[i]
    OBVIOUS
  <2>1. CASE k < m
    BY <1>1, <1>7, <1>8, <2>1
  <2>2. CASE ~(k < m)
    <3>1. k + 1 \in 1..Len(s) /\ k <= k + 1 /\ k + 1 /= m /\ t[k] = s[k + 1]
      BY <1>1, <1>7, <1>8, <2>2
    <3> QED BY <3>1
  <2> QED BY <2>1, <2>2
<1>11. \A i \in 1..Len(s) : i /= m => s[i] /= j
  BY <1>2
<1>12. \A i \in 1..Len(s) : i /= m => \E k \in 1..Len(t) : t[k] = s[i]
  <2> SUFFICES ASSUME NEW i \in 1..Len(s), i /= m PROVE \E k \in 1..Len(t) : t[k] = s[i]
    OBVIOUS
  <2>1. CASE i < m
    <3>1. i \in 1..Len(t) /\ t[i] = s[i]
      BY <1>1, <1>7, <1>8, <2>1
    <3> QED BY <3>1
  <2>2. CASE ~(i < m)
    <3>1. i - 1 \in 1..Len(t) /\ (i - 1) + 1 = i /\ ~(i - 1 < m)
      BY <1>1, <1>7, <2>2
    <3>2. t[i - 1] = s[i]
      BY <1>8, <3>1
    <3> QED BY <3>1, <3>2
  <2> QED BY <2>1, <2>2
<1>13. Members(t) = Members(s) \ {j}
  <2>1. ASSUME NEW x \in Members(t) PROVE x \in Members(s) /\ x /= j
    BY <1>10, <1>11 DEF Members
  <2>2. ASSUME NEW x \in Members(s), x /= j PROVE x \in Members(t)
    <3>1. PICK i \in 1..Len(s) : s[i] = x
      BY DEF Members
    <3>2. i /= m
      BY <1>2, <2>2, <3>1
    <3>3. PICK k \in 1..Len(t) : t[k] = s[i]
      BY <1>12, <3>2
    <3> QED BY <3>1, <3>3 DEF Members
  <2> QED BY <2>1, <2>2
<1>14. j \in Members(s) <=> m \in 1..Len(s)
  BY <1>2, <1>11 DEF Members
<1> QED BY <1>7, <1>9, <1>10, <1>13, <1>14 DEF t

-----------------------------------------------------------------------------
(* The invariant.                                                            *)

Hash(p) == [state : States, lifo : BOOLEAN, pri : 0..1, listed : BOOLEAN, revoked : BOOLEAN,
            late : BOOLEAN, stalls : 0..p.stalls, tries : 0..p.retries]
Db(p)   == [job : [Jobs -> Hash(p)], priority : Seq(Jobs), lifo : Seq(Jobs), stream : Seq(Jobs), pel : Seq(Jobs),
            scheduled : SUBSET Jobs, count : Int, ids : SUBSET Jobs, paused : BOOLEAN]
ClaimRecords == [by : Workers, job : Jobs, list : BOOLEAN,
                 at : {"claimed", "release", "returning", "revoked", "aborting", "running"}]

Mine(cs, j) == {c \in cs : c.job = j}
Tidy(d)     == Distinct(d.priority) /\ Distinct(d.lifo) /\ Distinct(d.stream) /\ Distinct(d.pel)

(* What can be true of a job at once: its state st, whether it is marked as listed li, its  *)
(* places in the three lines and in the pending list (p, l, s, x) and the scheduled set sch, *)
(* and its claims cs.  It has one claim at most, and a job that waits in a line has none.    *)
Agree(st, li, p, l, s, x, sch, cs) ==
  /\ ~(p /\ l) /\ ~(p /\ s) /\ ~(l /\ s)
  /\ p \/ l \/ s => st = "waiting" /\ ~x /\ cs = {}
  /\ x => st \in {"waiting", "active"}
  /\ sch <=> st \in {"prioritized", "delayed"}
  /\ st \in {"new", "completed", "prioritized", "delayed"} => cs = {}
  /\ \A c \in cs : /\ st = "waiting" => c.at \in {"claimed", "returning", "revoked"}
                   /\ st = "active"  => c.at \in {"running", "aborting"}
                   /\ st = "failed"  => c.at \in {"claimed", "release", "returning", "revoked"}
                   /\ st \in {"waiting", "active"} => (c.list <=> ~x)
                   /\ c.at = "release" => c.list
  /\ st = "active" => (li <=> ~x)
  /\ \A c, e \in cs : c = e

JobFits(d, cs, j) ==
  Agree(d.job[j].state, d.job[j].listed, j \in Members(d.priority), j \in Members(d.lifo),
        j \in Members(d.stream), j \in Members(d.pel), j \in d.scheduled, Mine(cs, j))

Custody(p, d, cs) ==
  /\ p \in Profiles /\ d \in Db(p) /\ cs \subseteq ClaimRecords /\ Tidy(d)
  /\ \A j \in Jobs : JobFits(d, cs, j)

(* list-active counts every list job that a worker has popped or runs, and the id set that  *)
(* healing trusts knows those that are active.                                              *)
Counts(d, cs, j) == \/ d.job[j].state = "active" /\ d.job[j].listed
                    \/ \E c \in Mine(cs, j) : c.list /\ ~Begun(c)
Counted(d, cs)   == {j \in Jobs : Counts(d, cs, j)}
Covered(d, cs)   == Cardinality(Counted(d, cs)) <= d.count /\ Listed(d) \subseteq d.ids

(* An active stream job is among the oldest pending entries that the cap leaves room for.   *)
Capped(p, d) ==
  p.cap > 0 =>
    /\ d.count <= p.cap
    /\ \A k \in 1..Len(d.pel) : d.job[d.pel[k]].state = "active" => k + d.count <= p.cap

(* A waiting job is in a line, pending, or in a worker's hands. *)
Kept(d, cs) ==
  \A j \in Jobs : d.job[j].state = "waiting" =>
    \/ j \in Members(d.priority) \/ j \in Members(d.lifo) \/ j \in Members(d.stream) \/ j \in Members(d.pel)
    \/ Mine(cs, j) /= {}

-----------------------------------------------------------------------------
(* What a function changes of one job, and leaves of the others.             *)

SameJob(d, e, i) ==
  /\ e.job[i].state = d.job[i].state /\ e.job[i].listed = d.job[i].listed
  /\ i \in Members(e.priority) <=> i \in Members(d.priority)
  /\ i \in Members(e.lifo) <=> i \in Members(d.lifo)
  /\ i \in Members(e.stream) <=> i \in Members(d.stream)
  /\ i \in Members(e.pel) <=> i \in Members(d.pel)
  /\ i \in e.scheduled <=> i \in d.scheduled

(* Pending entries move up only, and none is new. *)
PelFrom(d, e) == \A k \in 1..Len(e.pel) : \E i \in 1..Len(d.pel) : k <= i /\ e.pel[k] = d.pel[i]

(* e comes from d by what one function does to job j, and activates nothing. *)
Effect(p, d, e, j) ==
  /\ e \in Db(p) /\ Tidy(e) /\ PelFrom(d, e)
  /\ \A i \in Jobs \ {j} : SameJob(d, e, i)
  /\ e.job[j].state = "active" => d.job[j].state = "active"

LEMMA EffectRefl ==
  ASSUME NEW p, NEW d \in Db(p), Tidy(d), NEW j PROVE Effect(p, d, d, j)
<1>1. Len(d.pel) \in Nat
  BY DEF Db
<1>2. PelFrom(d, d)
  BY <1>1 DEF PelFrom
<1> QED BY <1>2 DEF Effect, SameJob

LEMMA EffectTrans ==
  ASSUME NEW p, NEW d \in Db(p), NEW e \in Db(p), NEW f, NEW j, Effect(p, d, e, j), Effect(p, e, f, j)
  PROVE  Effect(p, d, f, j)
<1>1. f \in Db(p) /\ Tidy(f) /\ (f.job[j].state = "active" => d.job[j].state = "active")
  BY DEF Effect
<1>2. \A i \in Jobs \ {j} : SameJob(d, f, i)
  BY DEF Effect, SameJob
<1>3. PelFrom(d, f)
  <2> SUFFICES ASSUME NEW k \in 1..Len(f.pel) PROVE \E i \in 1..Len(d.pel) : k <= i /\ f.pel[k] = d.pel[i]
    BY DEF PelFrom
  <2>1. Len(d.pel) \in Nat /\ Len(e.pel) \in Nat /\ Len(f.pel) \in Nat
    BY <1>1 DEF Db
  <2>2. PICK l \in 1..Len(e.pel) : k <= l /\ f.pel[k] = e.pel[l]
    BY DEF Effect, PelFrom
  <2>3. PICK i \in 1..Len(d.pel) : l <= i /\ e.pel[l] = d.pel[i]
    BY DEF Effect, PelFrom
  <2> QED BY <2>1, <2>2, <2>3
<1> QED BY <1>1, <1>2, <1>3 DEF Effect

(* The hash alone. *)
LEMMA HashEffect ==
  ASSUME NEW p, NEW d \in Db(p), Tidy(d), NEW j \in Jobs, NEW r \in Hash(p),
         r.state = "active" => d.job[j].state = "active"
  PROVE  LET e == [d EXCEPT !.job[j] = r]
         IN  /\ Effect(p, d, e, j) /\ e.job[j] = r
             /\ e.priority = d.priority /\ e.lifo = d.lifo /\ e.stream = d.stream /\ e.pel = d.pel
             /\ e.scheduled = d.scheduled /\ e.count = d.count /\ e.ids = d.ids /\ e.paused = d.paused
<1> DEFINE e == [d EXCEPT !.job[j] = r]
<1>1. e \in Db(p) /\ e.job = [d.job EXCEPT ![j] = r]
  BY DEF Db
<1>2. /\ e.priority = d.priority /\ e.lifo = d.lifo /\ e.stream = d.stream /\ e.pel = d.pel
      /\ e.scheduled = d.scheduled /\ e.count = d.count /\ e.ids = d.ids /\ e.paused = d.paused
  BY DEF Db
<1> HIDE DEF e
<1>3. e.job[j] = r /\ \A i \in Jobs \ {j} : e.job[i] = d.job[i]
  BY <1>1 DEF Db
<1>4. PelFrom(d, e)
  <2>1. Len(d.pel) \in Nat
    BY DEF Db
  <2> QED BY <1>2, <2>1 DEF PelFrom
<1>5. Effect(p, d, e, j)
  BY <1>1, <1>2, <1>3, <1>4 DEF Effect, SameJob, Tidy
<1> QED BY <1>2, <1>3, <1>5 DEF e

(* A line in which only job j may have moved. *)
Near(s, t, j) == t \in Seq(Jobs) /\ Distinct(t) /\ Members(t) \ {j} = Members(s) \ {j}

LEMMA NearBy ==
  ASSUME NEW s \in Seq(Jobs), Distinct(s), NEW j \in Jobs
  PROVE  /\ Near(s, s, j)
         /\ Near(s, Without(s, j), j) /\ j \notin Members(Without(s, j))
         /\ j \notin Members(s) => /\ Near(s, Append(s, j), j) /\ j \in Members(Append(s, j))
                                   /\ Near(s, <<j>> \o s, j) /\ j \in Members(<<j>> \o s)
         /\ s /= <<>> /\ j = Head(s) => Near(s, Tail(s), j) /\ j \in Members(s) /\ j \notin Members(Tail(s))
<1>1. Near(s, s, j)
  BY DEF Near
<1>2. Near(s, Without(s, j), j) /\ j \notin Members(Without(s, j))
  BY WithoutMembers DEF Near
<1>3. ASSUME j \notin Members(s)
      PROVE  /\ Near(s, Append(s, j), j) /\ j \in Members(Append(s, j))
             /\ Near(s, <<j>> \o s, j) /\ j \in Members(<<j>> \o s)
  BY <1>3, AppendMembers, PrependMembers DEF Near
<1>4. ASSUME s /= <<>>, j = Head(s)
      PROVE  Near(s, Tail(s), j) /\ j \in Members(s) /\ j \notin Members(Tail(s))
  BY <1>4, TailMembers DEF Near
<1> QED BY <1>1, <1>2, <1>3, <1>4

LEMMA NearWithout ==
  ASSUME NEW s \in Seq(Jobs), Distinct(s), NEW j \in Jobs
  PROVE  /\ Near(s, s, j) /\ Near(s, Without(s, j), j) /\ j \notin Members(Without(s, j))
         /\ \A k \in 1..Len(Without(s, j)) : \E i \in 1..Len(s) : k <= i /\ Without(s, j)[k] = s[i]
<1>1. \A k \in 1..Len(Without(s, j)) : \E i \in 1..Len(s) : k <= i /\ Without(s, j)[k] = s[i]
  BY WithoutMembers
<1> QED BY <1>1, NearBy, ZenonT(20)

LEMMA NearEffect ==
  ASSUME NEW p, NEW d \in Db(p), NEW e \in Db(p), NEW j \in Jobs,
         Near(d.priority, e.priority, j), Near(d.lifo, e.lifo, j), Near(d.stream, e.stream, j), Near(d.pel, e.pel, j),
         PelFrom(d, e), e.scheduled \ {j} = d.scheduled \ {j},
         \A i \in Jobs \ {j} : e.job[i] = d.job[i],
         e.job[j].state = "active" => d.job[j].state = "active"
  PROVE  Effect(p, d, e, j)
BY DEF Effect, SameJob, Near, Tidy

LEMMA PelKept ==
  ASSUME NEW p, NEW d \in Db(p), NEW e, Tidy(d), NEW j \in Jobs, e.pel = d.pel \/ e.pel = Without(d.pel, j)
  PROVE  PelFrom(d, e)
<1>1. d.pel \in Seq(Jobs) /\ Distinct(d.pel) /\ Len(d.pel) \in Nat
  BY DEF Db, Tidy
<1>2. CASE e.pel = d.pel
  BY <1>1, <1>2 DEF PelFrom
<1>3. CASE e.pel = Without(d.pel, j)
  <2>1. \A k \in 1..Len(Without(d.pel, j)) : \E i \in 1..Len(d.pel) : k <= i /\ Without(d.pel, j)[k] = d.pel[i]
    BY <1>1, NearWithout
  <2> QED BY <1>3, <2>1 DEF PelFrom
<1> QED BY <1>2, <1>3

(* The fields of a record of the server. *)
LEMMA DbFacts ==
  ASSUME NEW p, NEW d \in Db(p), Tidy(d)
  PROVE  /\ d.job \in [Jobs -> Hash(p)] /\ d.priority \in Seq(Jobs) /\ d.lifo \in Seq(Jobs) /\ d.stream \in Seq(Jobs)
         /\ d.pel \in Seq(Jobs) /\ d.scheduled \subseteq Jobs /\ d.count \in Int /\ d.ids \subseteq Jobs
         /\ d.paused \in BOOLEAN
         /\ Distinct(d.priority) /\ Distinct(d.lifo) /\ Distinct(d.stream) /\ Distinct(d.pel)
BY DEF Db, Tidy

(* A job leaves every place but the hash: removeJob, revoke.  in: its entries go too. *)
Cleared(d, j, in) ==
  [d EXCEPT !.scheduled = @ \ {j}, !.lifo = Without(@, j), !.priority = Without(@, j),
            !.stream = IF in THEN Without(@, j) ELSE @,
            !.pel    = IF in THEN Without(@, j) ELSE @]

LEMMA ClearedEffect ==
  ASSUME NEW p, NEW d \in Db(p), Tidy(d), NEW j \in Jobs, NEW in \in BOOLEAN
  PROVE  LET e == Cleared(d, j, in)
         IN  /\ Effect(p, d, e, j) /\ e.job = d.job /\ e.count = d.count /\ e.ids = d.ids /\ e.paused = d.paused
             /\ j \notin Members(e.priority) /\ j \notin Members(e.lifo) /\ j \notin e.scheduled
             /\ j \in Members(e.stream) <=> j \in Members(d.stream) /\ ~in
             /\ j \in Members(e.pel) <=> j \in Members(d.pel) /\ ~in
<1> DEFINE e == Cleared(d, j, in)
<1>1. /\ e.job = d.job /\ e.count = d.count /\ e.ids = d.ids /\ e.paused = d.paused
      /\ e.scheduled = d.scheduled \ {j} /\ e.lifo = Without(d.lifo, j) /\ e.priority = Without(d.priority, j)
      /\ e.stream = IF in THEN Without(d.stream, j) ELSE d.stream
      /\ e.pel = IF in THEN Without(d.pel, j) ELSE d.pel
  BY DEF Db, Cleared
<1>0. /\ d.priority \in Seq(Jobs) /\ d.lifo \in Seq(Jobs) /\ d.stream \in Seq(Jobs) /\ d.pel \in Seq(Jobs)
      /\ Distinct(d.priority) /\ Distinct(d.lifo) /\ Distinct(d.stream) /\ Distinct(d.pel)
  BY DbFacts
<1> HIDE DEF e
<1>2. Near(d.priority, e.priority, j) /\ j \notin Members(e.priority)
  BY <1>0, <1>1, NearWithout
<1>3. Near(d.lifo, e.lifo, j) /\ j \notin Members(e.lifo)
  BY <1>0, <1>1, NearWithout
<1>4. Near(d.stream, e.stream, j) /\ (j \in Members(e.stream) <=> j \in Members(d.stream) /\ ~in)
  BY <1>0, <1>1, NearWithout
<1>5. Near(d.pel, e.pel, j) /\ (j \in Members(e.pel) <=> j \in Members(d.pel) /\ ~in)
  BY <1>0, <1>1, NearWithout
<1>6. e \in Db(p)
  <2>2. e = [d EXCEPT !.scheduled = e.scheduled, !.lifo = e.lifo, !.priority = e.priority,
                      !.stream = e.stream, !.pel = e.pel]
    BY <1>1 DEF Cleared, e
  <2>3. e.priority \in Seq(Jobs) /\ e.lifo \in Seq(Jobs) /\ e.stream \in Seq(Jobs) /\ e.pel \in Seq(Jobs)
    BY <1>2, <1>3, <1>4, <1>5 DEF Near
  <2>4. e.scheduled \in SUBSET Jobs
    BY <1>1 DEF Db
  <2> QED BY <2>2, <2>3, <2>4 DEF Db
<1>7. PelFrom(d, e)
  BY <1>1, PelKept
<1>8. Effect(p, d, e, j)
  BY <1>1, <1>2, <1>3, <1>4, <1>5, <1>6, <1>7, NearEffect
<1> QED BY <1>1, <1>2, <1>3, <1>4, <1>5, <1>8 DEF e

LEMMA DecrEffect ==
  ASSUME NEW p, NEW d \in Db(p), Tidy(d), NEW j \in Jobs
  PROVE  LET e == DecrListActive(d, j)
         IN  /\ Effect(p, d, e, j) /\ SameJob(d, e, j)
             /\ e.job = d.job /\ e.priority = d.priority /\ e.lifo = d.lifo /\ e.stream = d.stream /\ e.pel = d.pel
             /\ e.scheduled = d.scheduled /\ e.paused = d.paused
             /\ e.count = (IF d.count > 0 THEN d.count - 1 ELSE d.count) /\ e.ids = d.ids \ {j}
<1> DEFINE e == DecrListActive(d, j)
<1>1. /\ e \in Db(p)
      /\ e.job = d.job /\ e.priority = d.priority /\ e.lifo = d.lifo /\ e.stream = d.stream /\ e.pel = d.pel
      /\ e.scheduled = d.scheduled /\ e.paused = d.paused
      /\ e.count = (IF d.count > 0 THEN d.count - 1 ELSE d.count) /\ e.ids = d.ids \ {j}
  <2>1. e = [d EXCEPT !.count = IF d.count > 0 THEN d.count - 1 ELSE d.count, !.ids = d.ids \ {j}]
    BY DEF DecrListActive
  <2> DEFINE n == IF d.count > 0 THEN d.count - 1 ELSE d.count
             A == d.ids \ {j}
  <2>3. (IF d.count > 0 THEN d.count - 1 ELSE d.count) \in Int /\ d.ids \ {j} \in SUBSET Jobs
    BY DEF Db
  <2>4. n \in Int /\ A \in SUBSET Jobs /\ e = [d EXCEPT !.count = n, !.ids = A]
    BY <2>1, <2>3
  <2> HIDE DEF e, n, A
  <2>5. /\ e \in Db(p)
        /\ e.job = d.job /\ e.priority = d.priority /\ e.lifo = d.lifo /\ e.stream = d.stream
        /\ e.pel = d.pel /\ e.scheduled = d.scheduled /\ e.paused = d.paused
        /\ e.count = n /\ e.ids = A
    BY <2>4 DEF Db
  <2> QED BY <2>5 DEF n, A
<1> HIDE DEF e
<1>2. PelFrom(d, e)
  BY <1>1, PelKept
<1>3. Effect(p, d, e, j) /\ SameJob(d, e, j)
  BY <1>1, <1>2 DEF Effect, SameJob, Tidy
<1> QED BY <1>1, <1>3 DEF e

LEMMA AckEffect ==
  ASSUME NEW p, NEW d \in Db(p), Tidy(d), NEW j \in Jobs
  PROVE  LET e == Ack(d, j)
         IN  /\ Effect(p, d, e, j) /\ j \notin Members(e.pel)
             /\ e.job = d.job /\ e.priority = d.priority /\ e.lifo = d.lifo /\ e.stream = d.stream
             /\ e.scheduled = d.scheduled /\ e.paused = d.paused /\ e.count = d.count /\ e.ids = d.ids
<1> DEFINE e == Ack(d, j)
<1>1. e = [d EXCEPT !.pel = Without(d.pel, j)]
  BY DEF Ack, Db
<1>2. Near(d.pel, Without(d.pel, j), j) /\ j \notin Members(Without(d.pel, j)) /\ Without(d.pel, j) \in Seq(Jobs)
  BY DbFacts, NearBy DEF Near
<1>3. /\ e \in Db(p) /\ e.pel = Without(d.pel, j)
      /\ e.job = d.job /\ e.priority = d.priority /\ e.lifo = d.lifo /\ e.stream = d.stream
      /\ e.scheduled = d.scheduled /\ e.paused = d.paused /\ e.count = d.count /\ e.ids = d.ids
  BY <1>1, <1>2 DEF Db
<1> HIDE DEF e
<1>4. PelFrom(d, e)
  BY <1>3, PelKept
<1>5. Near(d.priority, e.priority, j) /\ Near(d.lifo, e.lifo, j) /\ Near(d.stream, e.stream, j)
  BY <1>3 DEF Near, Db, Tidy
<1>6. Effect(p, d, e, j)
  BY <1>2, <1>3, <1>4, <1>5, NearEffect
<1> QED BY <1>2, <1>3, <1>6 DEF e

InOneLine(e, j) ==
  \/ j \in Members(e.priority) /\ j \notin Members(e.lifo) /\ j \notin Members(e.stream)
  \/ j \notin Members(e.priority) /\ j \in Members(e.lifo) /\ j \notin Members(e.stream)
  \/ j \notin Members(e.priority) /\ j \notin Members(e.lifo) /\ j \in Members(e.stream)

InNoLine(e, j) == j \notin Members(e.priority) /\ j \notin Members(e.lifo) /\ j \notin Members(e.stream)

(* Where a job waits from now on. *)
LEMMA PlaceEffect ==
  ASSUME NEW p, NEW d \in Db(p), Tidy(d), NEW j \in Jobs, NEW next, InNoLine(d, j)
  PROVE  LET e == Place(d, j, next)
         IN  /\ Effect(p, d, e, j)
             /\ InOneLine(e, j)
             /\ e.job = d.job /\ e.pel = d.pel
             /\ e.scheduled = d.scheduled /\ e.paused = d.paused /\ e.count = d.count /\ e.ids = d.ids
<1> USE DEF InNoLine, InOneLine
<1> DEFINE e == Place(d, j, next)
<1>1. ASSUME NEW s \in Seq(Jobs), Near(d.priority, s, j), j \in Members(s), e = [d EXCEPT !.priority = s]
      PROVE  /\ Effect(p, d, e, j)
             /\ j \in Members(e.priority) /\ j \notin Members(e.lifo) /\ j \notin Members(e.stream)
             /\ e.job = d.job /\ e.pel = d.pel
             /\ e.scheduled = d.scheduled /\ e.paused = d.paused /\ e.count = d.count /\ e.ids = d.ids
  <2>1. /\ e \in Db(p) /\ e.job = d.job /\ e.priority = s /\ e.lifo = d.lifo /\ e.stream = d.stream /\ e.pel = d.pel
        /\ e.scheduled = d.scheduled /\ e.paused = d.paused /\ e.count = d.count /\ e.ids = d.ids
    BY <1>1 DEF Db
  <2> HIDE DEF e
  <2>2. /\ Near(d.priority, e.priority, j) /\ Near(d.lifo, e.lifo, j)
        /\ Near(d.stream, e.stream, j) /\ Near(d.pel, e.pel, j)
    BY <1>1, <2>1 DEF Near, Db, Tidy
  <2>3. Effect(p, d, e, j)
    BY <2>1, <2>2, PelKept, NearEffect
  <2> QED BY <1>1, <2>1, <2>3
<1>2. ASSUME NEW s \in Seq(Jobs), Near(d.lifo, s, j), j \in Members(s), e = [d EXCEPT !.lifo = s]
      PROVE  /\ Effect(p, d, e, j)
             /\ j \notin Members(e.priority) /\ j \in Members(e.lifo) /\ j \notin Members(e.stream)
             /\ e.job = d.job /\ e.pel = d.pel
             /\ e.scheduled = d.scheduled /\ e.paused = d.paused /\ e.count = d.count /\ e.ids = d.ids
  <2>1. /\ e \in Db(p) /\ e.job = d.job /\ e.priority = d.priority /\ e.lifo = s /\ e.stream = d.stream /\ e.pel = d.pel
        /\ e.scheduled = d.scheduled /\ e.paused = d.paused /\ e.count = d.count /\ e.ids = d.ids
    BY <1>2 DEF Db
  <2> HIDE DEF e
  <2>2. /\ Near(d.priority, e.priority, j) /\ Near(d.lifo, e.lifo, j)
        /\ Near(d.stream, e.stream, j) /\ Near(d.pel, e.pel, j)
    BY <1>2, <2>1 DEF Near, Db, Tidy
  <2>3. Effect(p, d, e, j)
    BY <2>1, <2>2, PelKept, NearEffect
  <2> QED BY <1>2, <2>1, <2>3
<1>3. ASSUME NEW s \in Seq(Jobs), Near(d.stream, s, j), j \in Members(s), e = [d EXCEPT !.stream = s]
      PROVE  /\ Effect(p, d, e, j)
             /\ j \notin Members(e.priority) /\ j \notin Members(e.lifo) /\ j \in Members(e.stream)
             /\ e.job = d.job /\ e.pel = d.pel
             /\ e.scheduled = d.scheduled /\ e.paused = d.paused /\ e.count = d.count /\ e.ids = d.ids
  <2>1. /\ e \in Db(p) /\ e.job = d.job /\ e.priority = d.priority /\ e.lifo = d.lifo /\ e.stream = s /\ e.pel = d.pel
        /\ e.scheduled = d.scheduled /\ e.paused = d.paused /\ e.count = d.count /\ e.ids = d.ids
    BY <1>3 DEF Db
  <2> HIDE DEF e
  <2>2. /\ Near(d.priority, e.priority, j) /\ Near(d.lifo, e.lifo, j)
        /\ Near(d.stream, e.stream, j) /\ Near(d.pel, e.pel, j)
    BY <1>3, <2>1 DEF Near, Db, Tidy
  <2>3. Effect(p, d, e, j)
    BY <2>1, <2>2, PelKept, NearEffect
  <2> QED BY <1>3, <2>1, <2>3
<1>4. \/ e = [d EXCEPT !.lifo = <<j>> \o d.lifo]
      \/ e = [d EXCEPT !.priority = <<j>> \o d.priority]
      \/ e = [d EXCEPT !.priority = Append(d.priority, j)]
      \/ e = [d EXCEPT !.stream = Append(d.stream, j)]
  BY DEF Place, Db
<1>5. /\ Near(d.lifo, <<j>> \o d.lifo, j) /\ j \in Members(<<j>> \o d.lifo)
      /\ Near(d.priority, <<j>> \o d.priority, j) /\ j \in Members(<<j>> \o d.priority)
      /\ Near(d.priority, Append(d.priority, j), j) /\ j \in Members(Append(d.priority, j))
      /\ Near(d.stream, Append(d.stream, j), j) /\ j \in Members(Append(d.stream, j))
  BY DbFacts, NearBy
<1> HIDE DEF e
<1>6. CASE e = [d EXCEPT !.lifo = <<j>> \o d.lifo]
  BY <1>2, <1>5, <1>6 DEF e, Near
<1>7. CASE e = [d EXCEPT !.priority = <<j>> \o d.priority]
  BY <1>1, <1>5, <1>7 DEF e, Near
<1>8. CASE e = [d EXCEPT !.priority = Append(d.priority, j)]
  BY <1>1, <1>5, <1>8 DEF e, Near
<1>9. CASE e = [d EXCEPT !.stream = Append(d.stream, j)]
  BY <1>3, <1>5, <1>9 DEF e, Near
<1> QED BY <1>4, <1>6, <1>7, <1>8, <1>9 DEF e

(* Placed names the outcome without saying where in its list the job is put. *)
LinedUp(d, j, e) == e = Place(d, j, TRUE) \/ e = Place(d, j, FALSE)

LEMMA Placed ==
  ASSUME NEW p, NEW d \in Db(p), Tidy(d), NEW j \in Jobs, InNoLine(d, j), NEW e, LinedUp(d, j, e)
  PROVE  /\ Effect(p, d, e, j) /\ InOneLine(e, j) /\ e.job = d.job /\ e.pel = d.pel
         /\ e.scheduled = d.scheduled /\ e.paused = d.paused /\ e.count = d.count /\ e.ids = d.ids
<1>1. ASSUME NEW next, e = Place(d, j, next)
      PROVE  /\ Effect(p, d, e, j) /\ InOneLine(e, j) /\ e.job = d.job /\ e.pel = d.pel
             /\ e.scheduled = d.scheduled /\ e.paused = d.paused /\ e.count = d.count /\ e.ids = d.ids
  BY <1>1, PlaceEffect
<1> QED BY <1>1 DEF LinedUp

-----------------------------------------------------------------------------
(* What every step keeps.  Custody is the ground; the counter also needs that healing does  *)
(* not look away from pops, and that waiting jobs are kept needs that no worker dies with a  *)
(* popped job and no chained call drops a revoked one.                                       *)

Heals == "heal" \in Races
Drops == "crash" \in Races \/ "revoke" \in Races

Onward(d, cs, e, es) ==
  /\ Custody(conf, e, es)
  /\ ~Heals /\ Covered(d, cs) => Covered(e, es)
  /\ Capped(conf, d) => Capped(conf, e)
  /\ ~Drops /\ Kept(d, cs) => Kept(e, es)

LEMMA OnwardTrans ==
  ASSUME NEW a, NEW as, NEW d, NEW cs, NEW e, NEW es, Onward(a, as, d, cs), Onward(d, cs, e, es)
  PROVE  Onward(a, as, e, es)
BY DEF Onward

LEMMA OnwardRefl ==
  ASSUME NEW d, NEW cs, Custody(conf, d, cs)
  PROVE  Onward(d, cs, d, cs)
BY DEF Onward

HasPlace(d, cs, j) ==
  \/ j \in Members(d.priority) \/ j \in Members(d.lifo) \/ j \in Members(d.stream) \/ j \in Members(d.pel)
  \/ Mine(cs, j) /= {}

(* How a step that activates nothing accounts for job j. *)
Tally(d, cs, e, es, j) ==
  \/ e.count = d.count /\ (Counts(e, es, j) => Counts(d, cs, j))
  \/ /\ e.count = d.count - 1 \/ e.count = (IF d.count > 0 THEN d.count - 1 ELSE d.count)
     /\ Counts(d, cs, j) /\ ~Counts(e, es, j)

LEMMA CountedFinite ==
  ASSUME NEW d, NEW cs
  PROVE  IsFiniteSet(Counted(d, cs)) /\ Cardinality(Counted(d, cs)) \in Nat
<1>1. IsFiniteSet(Counted(d, cs))
  BY JobsAssumption, FS_Subset DEF Counted
<1> QED BY <1>1, FS_CardinalityType

LEMMA ConfFacts ==
  ASSUME NEW d, NEW cs, Custody(conf, d, cs)
  PROVE  conf.cap \in Nat /\ conf.slots \in Nat \ {0} /\ conf.stalls \in Nat /\ conf.retries \in Nat
BY ProfilesAssumption DEF Custody

LEMMA SteadyJob ==
  ASSUME NEW d, NEW cs, NEW e, NEW es, NEW i, SameJob(d, e, i), Mine(es, i) = Mine(cs, i)
  PROVE  /\ JobFits(d, cs, i) => JobFits(e, es, i)
         /\ Counts(e, es, i) <=> Counts(d, cs, i)
         /\ HasPlace(e, es, i) <=> HasPlace(d, cs, i)
<1>1. JobFits(d, cs, i) => JobFits(e, es, i)
  BY DEF JobFits, SameJob, Agree
<1>2. Counts(e, es, i) <=> Counts(d, cs, i)
  BY DEF Counts, SameJob
<1>3. HasPlace(e, es, i) <=> HasPlace(d, cs, i)
  BY DEF HasPlace, SameJob
<1> QED BY <1>1, <1>2, <1>3

LEMMA Moved ==
  ASSUME NEW d, NEW cs, NEW e, NEW es, NEW j \in Jobs,
         Custody(conf, d, cs), Effect(conf, d, e, j), es \subseteq ClaimRecords,
         \A i \in Jobs \ {j} : Mine(es, i) = Mine(cs, i),
         JobFits(e, es, j),
         Tally(d, cs, e, es, j), e.ids \ {j} = d.ids \ {j},
         j \in Listed(e) => j \in Listed(d) /\ e.ids = d.ids,
         e.job[j].state = "waiting" => \/ HasPlace(e, es, j) \/ Drops
                                       \/ d.job[j].state = "waiting" /\ ~HasPlace(d, cs, j)
  PROVE  Onward(d, cs, e, es)
<1>1. \A i \in Jobs \ {j} : SameJob(d, e, i) /\ (JobFits(d, cs, i) => JobFits(e, es, i))
                            /\ (Counts(e, es, i) <=> Counts(d, cs, i)) /\ (HasPlace(e, es, i) <=> HasPlace(d, cs, i))
  BY SteadyJob DEF Effect
<1>2. d \in Db(conf) /\ e \in Db(conf) /\ d.count \in Int /\ e.count \in Int
  BY DEF Custody, Effect, Db
<1>3. Custody(conf, e, es)
  BY <1>1 DEF Custody, Effect
<1>4. ASSUME Covered(d, cs) PROVE Covered(e, es)
  <2> DEFINE A == Counted(d, cs)
             B == Counted(e, es)
  <2>1. B \ {j} = A \ {j} /\ (j \in A <=> Counts(d, cs, j)) /\ (j \in B <=> Counts(e, es, j))
    BY <1>1 DEF Counted
  <2>2. IsFiniteSet(A) /\ IsFiniteSet(B) /\ Cardinality(A) \in Nat /\ Cardinality(B) \in Nat /\ Cardinality(A) <= d.count
    BY <1>4, CountedFinite DEF Covered
  <2> HIDE DEF A, B
  <2>3. /\ Cardinality(A \ {j}) = IF j \in A THEN Cardinality(A) - 1 ELSE Cardinality(A)
        /\ Cardinality(B \ {j}) = IF j \in B THEN Cardinality(B) - 1 ELSE Cardinality(B)
    BY <2>2, FS_RemoveElement
  <2>4. j \in A => Cardinality(A) >= 1
    <3>1. ASSUME j \in A, Cardinality(A) = 0 PROVE FALSE
      BY <2>2, <3>1, FS_EmptySet
    <3> QED BY <2>2, <3>1
  <2>5. Cardinality(B) <= e.count
    <3>1. CASE e.count = d.count /\ (j \in B => j \in A)
      <4>1. Cardinality(B) <= Cardinality(A)
        <5>0. Cardinality(A \ {j}) = Cardinality(B \ {j})
          BY <2>1, Zenon
        <5>1. CASE j \in B
          <6>1. Cardinality(A \ {j}) = Cardinality(A) - 1 /\ Cardinality(B \ {j}) = Cardinality(B) - 1
            BY <2>3, <3>1, <5>1
          <6> DEFINE a == Cardinality(A)
                     b == Cardinality(B)
          <6>2. a \in Nat /\ b \in Nat /\ a - 1 = b - 1
            BY <5>0, <6>1, <2>2
          <6> HIDE DEF a, b
          <6>3. b <= a
            BY <6>2
          <6> QED BY <6>3 DEF a, b
        <5>2. CASE j \notin B
          BY <5>0, <2>2, <2>3, <5>2
        <5> QED BY <5>1, <5>2
      <4> QED BY <1>2, <2>2, <3>1, <4>1
    <3>2. CASE j \in A /\ j \notin B /\ (e.count = d.count - 1 \/ e.count = (IF d.count > 0 THEN d.count - 1 ELSE d.count))
      BY <1>2, <2>1, <2>2, <2>3, <2>4, <3>2
    <3> QED BY <2>1, <3>1, <3>2 DEF Tally
  <2>6. Listed(e) \subseteq e.ids
    <3>1. \A i \in Jobs \ {j} : i \in Listed(e) <=> i \in Listed(d)
      BY <1>1 DEF Listed, SameJob
    <3> QED BY <1>4, <3>1 DEF Covered, Listed
  <2> QED BY <2>5, <2>6 DEF Covered, B
<1>5. ASSUME Capped(conf, d) PROVE Capped(conf, e)
  <2> SUFFICES ASSUME conf.cap > 0
               PROVE  /\ e.count <= conf.cap
                      /\ \A k \in 1..Len(e.pel) : e.job[e.pel[k]].state = "active" => k + e.count <= conf.cap
    BY DEF Capped
  <2>1. e.count <= d.count /\ d.count <= conf.cap
    BY <1>2, <1>5 DEF Tally, Capped
  <2>2. ASSUME NEW k \in 1..Len(e.pel), e.job[e.pel[k]].state = "active" PROVE k + e.count <= conf.cap
    <3>1. PICK i \in 1..Len(d.pel) : k <= i /\ e.pel[k] = d.pel[i]
      BY DEF Effect, PelFrom
    <3>2. Len(d.pel) \in Nat /\ Len(e.pel) \in Nat /\ d.pel[i] \in Jobs
      BY <1>2 DEF Db
    <3>3. d.job[d.pel[i]].state = "active"
      BY <1>1, <2>2, <3>1, <3>2 DEF Effect, SameJob
    <3>4. i + d.count <= conf.cap
      BY <1>5, <3>3 DEF Capped
    <3>5. conf.cap \in Int
      BY ConfFacts
    <3> QED BY <1>2, <2>1, <3>1, <3>2, <3>4, <3>5
  <2>3. e.count <= conf.cap
    <3>1. conf.cap \in Int
      BY ConfFacts
    <3> QED BY <1>2, <2>1, <3>1
  <2> QED BY <2>2, <2>3
<1>6. ASSUME ~Drops, Kept(d, cs) PROVE Kept(e, es)
  <2>1. \A i \in Jobs : d.job[i].state = "waiting" => HasPlace(d, cs, i)
    BY <1>6 DEF Kept, HasPlace
  <2>2. \A i \in Jobs : e.job[i].state = "waiting" => HasPlace(e, es, i)
    BY <1>1, <1>6, <2>1 DEF SameJob
  <2> QED BY <2>2 DEF Kept, HasPlace
<1> QED BY <1>3, <1>4, <1>5, <1>6 DEF Onward

(* The claims of a job, when it has one at most. *)
LEMMA MineFacts ==
  ASSUME NEW d, NEW cs, Custody(conf, d, cs), NEW c \in cs
  PROVE  /\ c.job \in Jobs /\ Mine(cs, c.job) = {c} /\ Mine(cs \ {c}, c.job) = {}
         /\ cs \ {c} \subseteq ClaimRecords
         /\ \A i \in Jobs \ {c.job} : Mine(cs \ {c}, i) = Mine(cs, i)
         /\ \A x \in ClaimRecords : x.job = c.job =>
              /\ Mine((cs \ {c}) \cup {x}, c.job) = {x} /\ (cs \ {c}) \cup {x} \subseteq ClaimRecords
              /\ \A i \in Jobs \ {c.job} : Mine((cs \ {c}) \cup {x}, i) = Mine(cs, i)
<1>1. c \in ClaimRecords /\ c.job \in Jobs
  BY DEF Custody, ClaimRecords
<1>2. \A x \in Mine(cs, c.job) : x = c
  BY <1>1 DEF Custody, JobFits, Agree, Mine
<1> QED BY <1>1, <1>2 DEF Mine, Custody

LEMMA MineOne ==
  ASSUME NEW d, NEW cs, Custody(conf, d, cs), NEW c \in cs
  PROVE  c.job \in Jobs /\ Mine(cs, c.job) = {c}
<1>1. c \in ClaimRecords /\ c.job \in Jobs
  BY DEF Custody, ClaimRecords
<1>2. \A x \in Mine(cs, c.job) : x = c
  BY <1>1 DEF Custody, JobFits, Agree, Mine
<1> QED BY <1>1, <1>2 DEF Mine

LEMMA MineDrop ==
  ASSUME NEW d, NEW cs, Custody(conf, d, cs), NEW c \in cs
  PROVE  /\ cs \ {c} \subseteq ClaimRecords /\ Mine(cs \ {c}, c.job) = {}
         /\ \A i \in Jobs \ {c.job} : Mine(cs \ {c}, i) = Mine(cs, i)
<1>1. c \in ClaimRecords /\ c.job \in Jobs
  BY DEF Custody, ClaimRecords
<1>2. \A x \in Mine(cs, c.job) : x = c
  BY <1>1 DEF Custody, JobFits, Agree, Mine
<1> QED BY <1>1, <1>2 DEF Mine, Custody

LEMMA ClaimMoves ==
  ASSUME NEW c \in ClaimRecords, NEW at \in {"claimed", "release", "returning", "revoked", "aborting", "running"}
  PROVE  LET x == [c EXCEPT !.at = at]
         IN  x \in ClaimRecords /\ x.job = c.job /\ x.list = c.list /\ x.at = at /\ x.by = c.by
BY DEF ClaimRecords

(* A step that may take a job, start it, or only mark jobs: the count goes up by one at most. *)
LEMMA Taken ==
  ASSUME NEW d, NEW cs, NEW e, NEW es, NEW j \in Jobs,
         Custody(conf, d, cs), e \in Db(conf), Tidy(e), es \subseteq ClaimRecords,
         \A i \in Jobs \ {j} : SameJob(d, e, i) /\ Mine(es, i) = Mine(cs, i),
         JobFits(e, es, j),
         \/ e.count = d.count /\ (Counts(e, es, j) => Counts(d, cs, j))
         \/ e.count = d.count + 1,
         d.ids \subseteq e.ids, j \in Listed(e) => j \in e.ids,
         Capped(conf, d) => Capped(conf, e),
         HasPlace(e, es, j)
  PROVE  Onward(d, cs, e, es)
<1>1. \A i \in Jobs \ {j} : /\ JobFits(d, cs, i) => JobFits(e, es, i)
                            /\ Counts(e, es, i) <=> Counts(d, cs, i)
                            /\ HasPlace(e, es, i) <=> HasPlace(d, cs, i)
  BY SteadyJob
<1>2. Custody(conf, e, es)
  BY <1>1 DEF Custody
<1>3. d.count \in Int /\ e.count \in Int
  BY DEF Custody, Db
<1>4. ASSUME Covered(d, cs) PROVE Covered(e, es)
  <2> DEFINE A == Counted(d, cs)
             B == Counted(e, es)
  <2>1. B \subseteq A \cup {j} /\ ((Counts(e, es, j) => Counts(d, cs, j)) => B \subseteq A)
    BY <1>1 DEF Counted
  <2>2. IsFiniteSet(A) /\ IsFiniteSet(B) /\ Cardinality(A) \in Nat /\ Cardinality(B) \in Nat /\ Cardinality(A) <= d.count
    BY <1>4, CountedFinite DEF Covered
  <2>3. Listed(e) \subseteq e.ids
    <3>1. \A i \in Jobs \ {j} : i \in Listed(e) => i \in Listed(d)
      BY DEF Listed, SameJob
    <3>2. \A i \in Listed(e) : i \in Jobs
      BY DEF Listed
    <3> QED BY <1>4, <3>1, <3>2 DEF Covered
  <2> HIDE DEF A, B
  <2>4. IsFiniteSet(A \cup {j}) /\ Cardinality(A \cup {j}) <= Cardinality(A) + 1 /\ Cardinality(A \cup {j}) \in Nat
    <3>1. Cardinality(A \cup {j}) = (IF j \in A THEN Cardinality(A) ELSE Cardinality(A) + 1) /\ IsFiniteSet(A \cup {j})
      BY <2>2, FS_AddElement
    <3> QED BY <2>2, <3>1
  <2>5. Cardinality(B) <= Cardinality(A) + 1
    <3>1. Cardinality(B) <= Cardinality(A \cup {j})
      BY <2>1, <2>4, FS_Subset
    <3> QED BY <2>2, <2>4, <3>1
  <2>6. (Counts(e, es, j) => Counts(d, cs, j)) => Cardinality(B) <= Cardinality(A)
    BY <2>1, <2>2, FS_Subset
  <2>7. Cardinality(B) <= e.count
    BY <1>3, <2>2, <2>5, <2>6
  <2> QED BY <2>3, <2>7 DEF Covered, B
<1>5. ASSUME Kept(d, cs) PROVE Kept(e, es)
  <2>1. \A i \in Jobs : d.job[i].state = "waiting" => HasPlace(d, cs, i)
    BY <1>5 DEF Kept, HasPlace
  <2>2. \A i \in Jobs : e.job[i].state = "waiting" => HasPlace(e, es, i)
    BY <1>1, <2>1 DEF SameJob
  <2> QED BY <2>2 DEF Kept, HasPlace
<1> QED BY <1>2, <1>4, <1>5 DEF Onward

(* A step that changes no job's place, and neither counter nor claims. *)
LEMMA Flagged ==
  ASSUME NEW d, NEW cs, NEW e, Custody(conf, d, cs), e \in Db(conf), Tidy(e),
         \A i \in Jobs : SameJob(d, e, i), e.pel = d.pel, e.count = d.count, e.ids = d.ids
  PROVE  Onward(d, cs, e, cs)
<1>1. \A i \in Jobs : /\ JobFits(d, cs, i) => JobFits(e, cs, i)
                      /\ Counts(e, cs, i) <=> Counts(d, cs, i)
                      /\ HasPlace(e, cs, i) <=> HasPlace(d, cs, i)
  BY SteadyJob
<1>2. Custody(conf, e, cs)
  BY <1>1 DEF Custody
<1>3. Covered(d, cs) => Covered(e, cs)
  <2>1. Counted(e, cs) = Counted(d, cs)
    BY <1>1 DEF Counted
  <2>2. Listed(e) = Listed(d)
    BY DEF Listed, SameJob
  <2> QED BY <2>1, <2>2 DEF Covered
<1>4. Capped(conf, d) => Capped(conf, e)
  <2>1. \A k \in 1..Len(d.pel) : d.pel[k] \in Jobs
    BY DEF Custody, Db
  <2> QED BY <2>1 DEF Capped, SameJob
<1>5. Kept(d, cs) => Kept(e, cs)
  <2>1. \A i \in Jobs : (e.job[i].state = "waiting" <=> d.job[i].state = "waiting")
    BY DEF SameJob
  <2>2. Kept(d, cs) <=> \A i \in Jobs : d.job[i].state = "waiting" => HasPlace(d, cs, i)
    BY DEF Kept, HasPlace
  <2>3. Kept(e, cs) <=> \A i \in Jobs : e.job[i].state = "waiting" => HasPlace(e, cs, i)
    BY DEF Kept, HasPlace
  <2> QED BY <1>1, <2>1, <2>2, <2>3
<1> QED BY <1>2, <1>3, <1>4, <1>5 DEF Onward

LEMMA PlainEffect ==
  ASSUME NEW p, NEW d \in Db(p), Tidy(d), NEW e \in Db(p), NEW j \in Jobs,
         e.priority = d.priority, e.lifo = d.lifo, e.stream = d.stream, e.pel = d.pel,
         e.scheduled \ {j} = d.scheduled \ {j}, \A i \in Jobs \ {j} : e.job[i] = d.job[i],
         e.job[j].state = "active" => d.job[j].state = "active"
  PROVE  Effect(p, d, e, j)
<1>1. Near(d.priority, e.priority, j) /\ Near(d.lifo, e.lifo, j) /\ Near(d.stream, e.stream, j) /\ Near(d.pel, e.pel, j)
  BY DEF Near, Db, Tidy
<1> QED BY <1>1, PelKept, NearEffect

(* What custody says of one job, field by field. *)
LEMMA JobFacts ==
  ASSUME NEW d, NEW cs, Custody(conf, d, cs), NEW j \in Jobs
  PROVE  /\ d \in Db(conf) /\ Tidy(d) /\ d.job[j] \in Hash(conf) /\ JobFits(d, cs, j) /\ Mine(cs, j) \subseteq ClaimRecords
         /\ d.job[j].state \in States
BY DEF Custody, Db, Hash, Mine

(* The step that leaves a job waiting in a line. *)
LEMMA Waits ==
  ASSUME NEW d, NEW cs, NEW e, NEW es, NEW j \in Jobs,
         Custody(conf, d, cs), Effect(conf, d, e, j), es \subseteq ClaimRecords,
         \A i \in Jobs \ {j} : Mine(es, i) = Mine(cs, i), Mine(es, j) = {},
         e.job[j].state = "waiting", InOneLine(e, j), j \notin Members(e.pel), j \notin e.scheduled,
         \/ e.count = d.count
         \/ e.count = (IF d.count > 0 THEN d.count - 1 ELSE d.count) /\ Counts(d, cs, j),
         e.ids \ {j} = d.ids \ {j}
  PROVE  Onward(d, cs, e, es)
<1>1. JobFits(e, es, j)
  BY DEF JobFits, Agree, InOneLine
<1>2. ~Counts(e, es, j)
  BY DEF Counts
<1>3. Tally(d, cs, e, es, j)
  BY <1>2 DEF Tally
<1>4. HasPlace(e, es, j)
  BY DEF HasPlace, InOneLine
<1>5. j \notin Listed(e)
  BY DEF Listed
<1> QED BY <1>1, <1>3, <1>4, <1>5, Moved

(* The step that leaves a job with its hash, or in the scheduled set, and no more. *)
LEMMA Leaves ==
  ASSUME NEW d, NEW cs, NEW e, NEW es, NEW j \in Jobs,
         Custody(conf, d, cs), Effect(conf, d, e, j), es \subseteq ClaimRecords,
         \A i \in Jobs \ {j} : Mine(es, i) = Mine(cs, i), Mine(es, j) \subseteq Mine(cs, j),
         InNoLine(e, j), j \notin Members(e.pel),
         e.job[j].state \notin {"new", "waiting", "active"},
         j \in e.scheduled <=> e.job[j].state \in {"prioritized", "delayed"},
         \/ Mine(es, j) = {}
         \/ e.job[j].state = "gone"
         \/ /\ e.job[j].state = "failed"
            /\ \A c \in Mine(es, j) : c.at \in {"claimed", "release", "returning", "revoked"},
         \/ e.count = d.count
         \/ /\ e.count = d.count - 1 \/ e.count = (IF d.count > 0 THEN d.count - 1 ELSE d.count)
            /\ Counts(d, cs, j) /\ \A c \in Mine(es, j) : ~c.list \/ Begun(c),
         e.ids \ {j} = d.ids \ {j}
  PROVE  Onward(d, cs, e, es)
<1>1. JobFits(e, es, j)
  <2>1. JobFits(d, cs, j)
    BY JobFacts
  <2>2. \A c \in Mine(es, j) : (c.at = "release" => c.list) /\ \A b \in Mine(es, j) : b = c
    BY <2>1 DEF JobFits, Agree
  <2> QED BY <2>2 DEF JobFits, Agree, InNoLine
<1>2. Counts(e, es, j) => Counts(d, cs, j)
  BY DEF Counts
<1>3. Tally(d, cs, e, es, j)
  BY <1>2 DEF Tally, Counts
<1>4. j \notin Listed(e)
  BY DEF Listed
<1> QED BY <1>1, <1>3, <1>4, Moved

-----------------------------------------------------------------------------
(* Producers and clients                                                      *)

LEMMA AddJobOnward ==
  ASSUME Custody(conf, db, claims), NEW j \in Jobs, NEW kind \in Kinds, AddJob(j, kind)
  PROVE  Onward(db, claims, db', claims')
<1> DEFINE r == [db.job[j] EXCEPT !.lifo = (kind = "lifo"), !.pri = IF kind = "priority" THEN 1 ELSE 0,
                                  !.state = IF kind = "priority" THEN "prioritized" ELSE "waiting"]
           f == [db EXCEPT !.job[j] = r]
<1>1. db \in Db(conf) /\ Tidy(db) /\ db.job[j] \in Hash(conf) /\ JobFits(db, claims, j) /\ claims \subseteq ClaimRecords
  BY JobFacts DEF Custody
<1>2. /\ db.job[j].state = "new" /\ Mine(claims, j) = {}
      /\ InNoLine(db, j) /\ j \notin Members(db.pel) /\ j \notin db.scheduled
  BY <1>1 DEF AddJob, JobFits, Agree, InNoLine
<1>3. claims' = claims
  BY DEF AddJob
<1>4. r \in Hash(conf) /\ r.state = IF kind = "priority" THEN "prioritized" ELSE "waiting"
  <2>1. /\ (kind = "lifo") \in BOOLEAN /\ (IF kind = "priority" THEN 1 ELSE 0) \in 0..1
        /\ (IF kind = "priority" THEN "prioritized" ELSE "waiting") \in States
    BY DEF States
  <2> QED BY <1>1, <2>1 DEF Hash
<1> HIDE DEF r
<1>5. /\ Effect(conf, db, f, j) /\ f.job[j] = r
      /\ f.priority = db.priority /\ f.lifo = db.lifo /\ f.stream = db.stream /\ f.pel = db.pel
      /\ f.scheduled = db.scheduled /\ f.count = db.count /\ f.ids = db.ids
  BY <1>1, <1>4, HashEffect
<1>6. f \in Db(conf) /\ Tidy(f) /\ InNoLine(f, j)
  BY <1>2, <1>5 DEF Effect, InNoLine
<1>7. CASE kind = "priority"
  <2>1. db' = [f EXCEPT !.scheduled = @ \cup {j}]
    <3> DEFINE g == [db EXCEPT !.job[j].lifo = (kind = "lifo"), !.job[j].pri = IF kind = "priority" THEN 1 ELSE 0]
    <3>1. Becomes(g, j, "prioritized") = f
      BY <1>1, <1>7 DEF Becomes, Db, r
    <3>2. db' = [Becomes(g, j, "prioritized") EXCEPT !.scheduled = @ \cup {j}]
      BY <1>7 DEF AddJob
    <3> HIDE DEF f, g
    <3> QED BY <3>1, <3>2
  <2> HIDE DEF f
  <2>2. /\ db' \in Db(conf) /\ db'.job = f.job /\ db'.priority = f.priority /\ db'.lifo = f.lifo
        /\ db'.stream = f.stream /\ db'.pel = f.pel /\ db'.scheduled = f.scheduled \cup {j}
        /\ db'.count = f.count /\ db'.ids = f.ids
    BY <1>6, <2>1 DEF Db
  <2>3. Effect(conf, f, db', j)
    BY <1>6, <2>2, PlainEffect
  <2>4. Effect(conf, db, db', j)
    BY <1>1, <1>5, <1>6, <2>3, EffectTrans
  <2>5. /\ InNoLine(db', j) /\ j \notin Members(db'.pel) /\ j \in db'.scheduled
        /\ db'.job[j].state = "prioritized" /\ db'.count = db.count /\ db'.ids = db.ids
    BY <1>2, <1>4, <1>5, <1>7, <2>2 DEF InNoLine
  <2> QED BY <1>1, <1>2, <1>3, <2>4, <2>5, Leaves
<1>8. CASE kind /= "priority"
  <2>1. db' = Place(f, j, TRUE)
    <3> DEFINE g == [db EXCEPT !.job[j].lifo = (kind = "lifo"), !.job[j].pri = IF kind = "priority" THEN 1 ELSE 0]
    <3>1. Becomes(g, j, "waiting") = f
      <4> DEFINE a == (kind = "lifo")
                 b == IF kind = "priority" THEN 1 ELSE 0
      <4>1. f = [db EXCEPT !.job[j] = [db.job[j] EXCEPT !.lifo = a, !.pri = b, !.state = "waiting"]]
        BY <1>8 DEF r
      <4>2. g = [db EXCEPT !.job[j].lifo = a, !.job[j].pri = b]
        OBVIOUS
      <4> DEFINE q == [db.job[j] EXCEPT !.lifo = a, !.pri = b]
      <4> HIDE DEF a, b, f, g
      <4>3. [q EXCEPT !.state = "waiting"] = [db.job[j] EXCEPT !.lifo = a, !.pri = b, !.state = "waiting"]
        BY <1>1 DEF Hash
      <4>4. g = [db EXCEPT !.job[j] = q] /\ g.job[j] = q
        BY <1>1, <4>2 DEF Db
      <4> HIDE DEF q
      <4>5. Becomes(g, j, "waiting") = [db EXCEPT !.job[j] = [q EXCEPT !.state = "waiting"]]
        BY <1>1, <4>4 DEF Becomes, Db
      <4> QED BY <4>1, <4>3, <4>5
    <3>2. db' = Place(Becomes(g, j, "waiting"), j, TRUE)
      BY <1>8 DEF AddJob, Wait
    <3> HIDE DEF f, g
    <3> QED BY <3>1, <3>2
  <2> HIDE DEF f
  <2>2. /\ Effect(conf, f, db', j) /\ InOneLine(db', j) /\ db'.job = f.job /\ db'.pel = f.pel
        /\ db'.scheduled = f.scheduled /\ db'.count = f.count /\ db'.ids = f.ids
    <3>1. LinedUp(f, j, db')
      BY <2>1 DEF LinedUp
    <3>2. f \in Db(conf) /\ Tidy(f) /\ j \in Jobs /\ InNoLine(f, j)
      BY <1>1, <1>6
    <3> QED BY <3>1, <3>2, Placed
  <2>3. Effect(conf, db, db', j)
    BY <1>1, <1>5, <1>6, <2>2, EffectTrans
  <2>4. /\ j \notin Members(db'.pel) /\ j \notin db'.scheduled
        /\ db'.job[j].state = "waiting" /\ db'.count = db.count /\ db'.ids = db.ids
    BY <1>2, <1>4, <1>5, <1>8, <2>2
  <2> QED BY <1>1, <1>2, <1>3, <2>2, <2>3, <2>4, Waits
<1> QED BY <1>7, <1>8

(* A job leaves every place, and its hash says why: removeJob, and revoke before activation. *)
LEMMA ClearedOnward ==
  ASSUME NEW cs, Custody(conf, db, cs), NEW j \in Jobs, NEW d, NEW r \in Hash(conf), NEW in \in BOOLEAN, NEW e,
         \/ d = db
         \/ d = DecrListActive(db, j) /\ j \in Listed(db),
         e = [Cleared(d, j, in) EXCEPT !.job[j] = r],
         j \in Members(db.stream) \cup Members(db.pel) => in,
         \/ r.state = "gone"
         \/ r.state = "failed" /\ db.job[j].state \in {"waiting", "delayed", "prioritized"}
  PROVE  Onward(db, cs, e, cs)
<1> DEFINE f == Cleared(d, j, in)
<1>1. db \in Db(conf) /\ Tidy(db) /\ JobFits(db, cs, j) /\ cs \subseteq ClaimRecords
  BY JobFacts DEF Custody
<1>2. /\ Effect(conf, db, d, j) /\ d.stream = db.stream /\ d.pel = db.pel
      /\ \/ d.count = db.count
         \/ d.count = (IF db.count > 0 THEN db.count - 1 ELSE db.count) /\ j \in Listed(db)
      /\ d.ids \ {j} = db.ids \ {j}
  BY <1>1, DecrEffect, EffectRefl
<1>3. d \in Db(conf) /\ Tidy(d)
  BY <1>2 DEF Effect
<1>4. /\ Effect(conf, d, f, j) /\ f.count = d.count /\ f.ids = d.ids
      /\ j \notin Members(f.priority) /\ j \notin Members(f.lifo) /\ j \notin f.scheduled
      /\ j \notin Members(f.stream) /\ j \notin Members(f.pel)
  BY <1>2, <1>3, ClearedEffect
<1> HIDE DEF f
<1>5. f \in Db(conf) /\ Tidy(f)
  BY <1>4 DEF Effect
<1>6. /\ Effect(conf, f, e, j) /\ e.job[j] = r
      /\ e.priority = f.priority /\ e.lifo = f.lifo /\ e.stream = f.stream /\ e.pel = f.pel
      /\ e.scheduled = f.scheduled /\ e.count = f.count /\ e.ids = f.ids
  BY <1>5, HashEffect DEF f
<1>7. Effect(conf, db, e, j)
  BY <1>1, <1>2, <1>3, <1>4, <1>5, <1>6, EffectTrans
<1>8. InNoLine(e, j) /\ j \notin Members(e.pel) /\ j \notin e.scheduled /\ e.ids \ {j} = db.ids \ {j}
  BY <1>2, <1>4, <1>6 DEF InNoLine
<1>9. r.state = "failed" => \A c \in Mine(cs, j) : c.at \in {"claimed", "release", "returning", "revoked"}
  BY <1>1 DEF JobFits, Agree
<1>10. j \in Listed(db) => Counts(db, cs, j) /\ \A c \in Mine(cs, j) : ~c.list \/ Begun(c)
  BY <1>1 DEF JobFits, Agree, Listed, Counts, Begun
<1>11. \/ e.count = db.count
       \/ /\ e.count = (IF db.count > 0 THEN db.count - 1 ELSE db.count)
          /\ Counts(db, cs, j) /\ \A c \in Mine(cs, j) : ~c.list \/ Begun(c)
  BY <1>2, <1>4, <1>6, <1>10
<1> QED BY <1>1, <1>6, <1>7, <1>8, <1>9, <1>11, Leaves

LEMMA RemoveJobOnward ==
  ASSUME Custody(conf, db, claims), NEW j \in Jobs, RemoveJob(j)
  PROVE  Onward(db, claims, db', claims')
<1> DEFINE s  == db.job[j].state
           d  == IF j \in Listed(db) THEN DecrListActive(db, j) ELSE db
           inList   == j \in Members(db.lifo) \cup Members(db.priority)
           inStream == ~inList /\ (s = "waiting" \/ (s = "active" /\ j \notin Listed(db)))
           r  == [Fresh EXCEPT !.state = "gone"]
<1>1. db \in Db(conf) /\ Tidy(db) /\ JobFits(db, claims, j)
  BY JobFacts
<1>2. d \in Db(conf) /\ claims' = claims
  BY <1>1, DecrEffect DEF RemoveJob, Effect
<1>3. r \in Hash(conf) /\ r.state = "gone"
  <2>1. 0 \in 0..1 /\ 0 \in 0..conf.stalls /\ 0 \in 0..conf.retries
    BY ConfFacts
  <2> QED BY <2>1 DEF Hash, Fresh, States
<1>4. db' = [Cleared(d, j, inStream) EXCEPT !.job[j] = r]
  <2>1. db' = [d EXCEPT !.job[j] = r, !.scheduled = @ \ {j}, !.lifo = Without(@, j), !.priority = Without(@, j),
                        !.stream = IF inStream THEN Without(@, j) ELSE @,
                        !.pel    = IF inStream THEN Without(@, j) ELSE @]
    BY DEF RemoveJob
  <2> HIDE DEF d, r, inStream
  <2> QED BY <1>2, <2>1 DEF Cleared, Db
<1>5. j \in Members(db.stream) \cup Members(db.pel) => inStream
  BY <1>1 DEF JobFits, Agree, Listed
<1>6. inStream \in BOOLEAN
  OBVIOUS
<1>7. d = db \/ (d = DecrListActive(db, j) /\ j \in Listed(db))
  OBVIOUS
<1> HIDE DEF d, r, inStream
<1> QED BY <1>2, <1>3, <1>4, <1>5, <1>6, <1>7, ClearedOnward

LEMMA RevokeOnward ==
  ASSUME Custody(conf, db, claims), NEW j \in Jobs, Revoke(j)
  PROVE  Onward(db, claims, db', claims')
<1>1. db \in Db(conf) /\ Tidy(db) /\ JobFits(db, claims, j) /\ db.job[j] \in Hash(conf)
  BY JobFacts
<1>2. CASE db.job[j].state \in {"waiting", "delayed", "prioritized"}
  <2> DEFINE inList   == j \in Members(db.lifo) \cup Members(db.priority)
             inStream == db.job[j].state = "waiting" /\ ~inList
             r == [db.job[j] EXCEPT !.state = "failed", !.revoked = TRUE]
  <2>1. r \in Hash(conf) /\ r.state = "failed"
    BY <1>1 DEF Hash, States
  <2>2. db' = [Cleared(db, j, inStream) EXCEPT !.job[j] = r] /\ claims' = claims
    <3>1. db' = [Becomes(db, j, "failed") EXCEPT
                        !.job[j].revoked = TRUE,
                        !.scheduled = @ \ {j}, !.lifo = Without(@, j), !.priority = Without(@, j),
                        !.stream = IF inStream THEN Without(@, j) ELSE @,
                        !.pel    = IF inStream THEN Without(@, j) ELSE @] /\ claims' = claims
      BY <1>2 DEF Revoke
    <3> HIDE DEF inStream
    <3> DEFINE g == Becomes(db, j, "failed")
    <3>2. /\ g \in [job : [Jobs -> Hash(conf)], priority : Seq(Jobs), lifo : Seq(Jobs), stream : Seq(Jobs), pel : Seq(Jobs),
                    scheduled : SUBSET Jobs, count : Int, ids : SUBSET Jobs, paused : BOOLEAN]
          /\ g.job = [db.job EXCEPT ![j].state = "failed"]
          /\ g.priority = db.priority /\ g.lifo = db.lifo /\ g.stream = db.stream /\ g.pel = db.pel
          /\ g.scheduled = db.scheduled /\ g.count = db.count /\ g.ids = db.ids /\ g.paused = db.paused
      BY <1>1 DEF Becomes, Db, Hash, States
    <3>3. [g.job EXCEPT ![j].revoked = TRUE] = [db.job EXCEPT ![j] = r]
      BY <1>1, <3>2 DEF Db, Hash
    <3> HIDE DEF g, r
    <3> DEFINE J == [db.job EXCEPT ![j] = r]
    <3>4. db' = [g EXCEPT !.job = J, !.scheduled = @ \ {j}, !.lifo = Without(@, j), !.priority = Without(@, j),
                          !.stream = IF inStream THEN Without(@, j) ELSE @,
                          !.pel    = IF inStream THEN Without(@, j) ELSE @]
      BY <3>1, <3>2, <3>3 DEF g
    <3> HIDE DEF J
    <3>5. db' = [Cleared(db, j, inStream) EXCEPT !.job = J]
      BY <1>1, <3>2, <3>4 DEF Cleared, Db
    <3> QED BY <1>1, <3>1, <3>5 DEF Cleared, Db, J
  <2>3. j \in Members(db.stream) \cup Members(db.pel) => inStream
    BY <1>1, <1>2 DEF JobFits, Agree
  <2>4. inStream \in BOOLEAN
    OBVIOUS
  <2> HIDE DEF r, inStream
  <2> QED BY <1>2, <2>1, <2>2, <2>3, <2>4, ClearedOnward
<1>3. CASE db.job[j].state = "active"
  <2> DEFINE r == [db.job[j] EXCEPT !.revoked = TRUE]
  <2>1. db' = [db EXCEPT !.job[j] = r] /\ claims' = claims
    BY <1>1, <1>3 DEF Revoke, Db
  <2>2. r \in Hash(conf) /\ r.state = db.job[j].state /\ r.listed = db.job[j].listed
    BY <1>1 DEF Hash
  <2> HIDE DEF r
  <2>3. /\ Effect(conf, db, db', j) /\ db'.job[j] = r
        /\ db'.priority = db.priority /\ db'.lifo = db.lifo /\ db'.stream = db.stream /\ db'.pel = db.pel
        /\ db'.scheduled = db.scheduled /\ db'.count = db.count /\ db'.ids = db.ids
    BY <1>1, <1>3, <2>1, <2>2, HashEffect
  <2>4. \A i \in Jobs : SameJob(db, db', i)
    BY <2>2, <2>3 DEF Effect, SameJob
  <2> QED BY <2>1, <2>3, <2>4, Flagged DEF Effect
<1> QED BY <1>2, <1>3 DEF Revoke

LEMMA DetachedEffect ==
  ASSUME NEW p, NEW d \in Db(p), Tidy(d), NEW j \in Jobs, InOneLine(d, j), j \notin Members(d.pel)
  PROVE  LET e == Detached(d, j)
         IN  /\ Effect(p, d, e, j) /\ InNoLine(e, j) /\ j \notin Members(e.pel)
             /\ e.job = d.job /\ e.scheduled = d.scheduled /\ e.count = d.count /\ e.ids = d.ids /\ e.paused = d.paused
<1> DEFINE e == Detached(d, j)
<1>1. /\ d.priority \in Seq(Jobs) /\ d.lifo \in Seq(Jobs) /\ d.stream \in Seq(Jobs) /\ d.pel \in Seq(Jobs)
      /\ Distinct(d.priority) /\ Distinct(d.lifo) /\ Distinct(d.stream) /\ Distinct(d.pel)
  BY DbFacts
<1>2. /\ e.job = d.job /\ e.scheduled = d.scheduled /\ e.count = d.count /\ e.ids = d.ids /\ e.paused = d.paused
      /\ e.priority = d.priority \/ e.priority = Without(d.priority, j)
      /\ e.lifo = d.lifo \/ e.lifo = Without(d.lifo, j)
      /\ e.stream = d.stream \/ e.stream = Without(d.stream, j)
      /\ e.pel = d.pel \/ e.pel = Without(d.pel, j)
      /\ j \in Members(d.priority) => e.priority = Without(d.priority, j)
      /\ j \in Members(d.lifo) /\ j \notin Members(d.priority) => e.lifo = Without(d.lifo, j)
      /\ j \notin Members(d.lifo) /\ j \notin Members(d.priority) => e.stream = Without(d.stream, j)
      /\ e = [job |-> d.job, priority |-> e.priority, lifo |-> e.lifo, stream |-> e.stream, pel |-> e.pel,
              scheduled |-> d.scheduled, count |-> d.count, ids |-> d.ids, paused |-> d.paused]
  BY DEF Detached, Db
<1> HIDE DEF e
<1>3. /\ Near(d.priority, e.priority, j) /\ Near(d.lifo, e.lifo, j)
      /\ Near(d.stream, e.stream, j) /\ Near(d.pel, e.pel, j)
  BY <1>1, <1>2, NearWithout
<1>4. InNoLine(e, j) /\ j \notin Members(e.pel)
  BY <1>1, <1>2, NearWithout DEF InNoLine, InOneLine
<1>5. e \in Db(p)
  BY <1>2, <1>3 DEF Near, Db
<1>6. PelFrom(d, e)
  BY <1>2, PelKept
<1>7. Effect(p, d, e, j)
  BY <1>2, <1>3, <1>5, <1>6, NearEffect
<1> QED BY <1>2, <1>4, <1>7 DEF e

(* A hash changes in what custody does not look at. *)
LEMMA MarkedOnward ==
  ASSUME NEW d, NEW cs, Custody(conf, d, cs), NEW j \in Jobs, NEW r \in Hash(conf),
         r.state = d.job[j].state, r.listed = d.job[j].listed, NEW e, e = [d EXCEPT !.job[j] = r]
  PROVE  Onward(d, cs, e, cs)
<1>1. d \in Db(conf) /\ Tidy(d)
  BY JobFacts
<1>2. /\ Effect(conf, d, e, j) /\ e.job[j] = r
      /\ e.priority = d.priority /\ e.lifo = d.lifo /\ e.stream = d.stream /\ e.pel = d.pel
      /\ e.scheduled = d.scheduled /\ e.count = d.count /\ e.ids = d.ids
  BY <1>1, HashEffect
<1>3. \A i \in Jobs : SameJob(d, e, i)
  BY <1>2 DEF Effect, SameJob
<1> QED BY <1>2, <1>3, Flagged DEF Effect

LEMMA RaisedOnward ==
  ASSUME Custody(conf, db, claims), NEW j \in Jobs, j \notin Members(db.pel), Raised(j)
  PROVE  Onward(db, claims, db', claims)
<1>1. db \in Db(conf) /\ Tidy(db) /\ JobFits(db, claims, j) /\ db.job[j] \in Hash(conf) /\ claims \subseteq ClaimRecords
  BY JobFacts DEF Custody
<1>2. CASE /\ db.job[j].state = "waiting"
           /\ j \in Members(db.priority) \cup Members(db.lifo) \cup Members(db.stream) \cup Members(db.pel)
           /\ db' = [Detached(Becomes(db, j, "prioritized"), j) EXCEPT !.job[j].pri = 1, !.scheduled = @ \cup {j}]
  <2> DEFINE f == Becomes(db, j, "prioritized")
             r == [db.job[j] EXCEPT !.state = "prioritized"]
             g == Detached(f, j)
             q == [r EXCEPT !.pri = 1]
  <2>1. InOneLine(db, j) /\ Mine(claims, j) = {}
    BY <1>1, <1>2 DEF JobFits, Agree, InOneLine
  <2>2. r \in Hash(conf) /\ r.state = "prioritized"
    BY <1>1 DEF Hash, States
  <2>3. f = [db EXCEPT !.job[j] = r]
    BY <1>1 DEF Becomes, Db, Hash
  <2> HIDE DEF r, f
  <2>4. /\ Effect(conf, db, f, j) /\ f.job[j] = r
        /\ f.priority = db.priority /\ f.lifo = db.lifo /\ f.stream = db.stream /\ f.pel = db.pel
        /\ f.scheduled = db.scheduled /\ f.count = db.count /\ f.ids = db.ids
    BY <1>1, <2>2, <2>3, HashEffect
  <2>5. f \in Db(conf) /\ Tidy(f) /\ InOneLine(f, j) /\ j \notin Members(f.pel)
    BY <2>1, <2>4 DEF Effect, InOneLine
  <2>q. q \in Hash(conf) /\ q.state = "prioritized"
    BY <2>2 DEF Hash
  <2>6. /\ Effect(conf, f, g, j) /\ InNoLine(g, j) /\ j \notin Members(g.pel)
        /\ g.job = f.job /\ g.scheduled = f.scheduled /\ g.count = f.count /\ g.ids = f.ids
    BY <2>5, DetachedEffect
  <2>7. db' = [g EXCEPT !.job[j].pri = 1, !.scheduled = @ \cup {j}]
    BY <1>2 DEF g, f
  <2> HIDE DEF g
  <2>8. g \in Db(conf) /\ Tidy(g) /\ g.job[j] = r
    BY <2>4, <2>6 DEF Effect
  <2>9. /\ db' \in Db(conf) /\ db'.job = [g.job EXCEPT ![j] = q]
        /\ db'.priority = g.priority /\ db'.lifo = g.lifo /\ db'.stream = g.stream /\ db'.pel = g.pel
        /\ db'.scheduled = g.scheduled \cup {j} /\ db'.count = g.count /\ db'.ids = g.ids
    BY <2>q, <2>7, <2>8 DEF Db
  <2> HIDE DEF q
  <2>10. db'.job[j] = q /\ \A i \in Jobs \ {j} : db'.job[i] = g.job[i]
    BY <2>8, <2>9 DEF Db
  <2>11. Effect(conf, g, db', j)
    BY <2>q, <2>8, <2>9, <2>10, PlainEffect
  <2>12. Effect(conf, db, db', j)
    BY <1>1, <2>4, <2>5, <2>6, <2>8, <2>11, EffectTrans
  <2>13. InNoLine(db', j) /\ j \notin Members(db'.pel) /\ db'.count = db.count /\ db'.ids = db.ids /\ j \in db'.scheduled
    BY <2>4, <2>6, <2>9 DEF InNoLine
  <2> QED BY <1>1, <2>1, <2>q, <2>10, <2>12, <2>13, Leaves
<1>3. CASE db.job[j].state = "delayed" /\ db' = [db EXCEPT !.job[j].pri = 1]
  <2> DEFINE r == [db.job[j] EXCEPT !.pri = 1]
  <2>1. db' = [db EXCEPT !.job[j] = r]
    BY <1>1, <1>3 DEF Db
  <2>2. r \in Hash(conf) /\ r.state = db.job[j].state /\ r.listed = db.job[j].listed
    BY <1>1 DEF Hash
  <2> HIDE DEF r
  <2> QED BY <2>1, <2>2, MarkedOnward
<1> QED BY <1>2, <1>3 DEF Raised

LEMMA LoweredOnward ==
  ASSUME Custody(conf, db, claims), NEW j \in Jobs, j \notin Members(db.pel), Lowered(j)
  PROVE  Onward(db, claims, db', claims)
<1> DEFINE r == [db.job[j] EXCEPT !.pri = 0]
           f == [db EXCEPT !.job[j] = r]
<1>1. db \in Db(conf) /\ Tidy(db) /\ JobFits(db, claims, j) /\ db.job[j] \in Hash(conf) /\ claims \subseteq ClaimRecords
  BY JobFacts DEF Custody
<1>2. r \in Hash(conf) /\ r.state = db.job[j].state /\ r.listed = db.job[j].listed
  BY <1>1 DEF Hash
<1>3. [db EXCEPT !.job[j].pri = 0] = f
  BY <1>1 DEF Db
<1> HIDE DEF r
<1>4. CASE db' = [db EXCEPT !.job[j].pri = 0]
  BY <1>2, <1>3, <1>4, MarkedOnward
<1>5. CASE /\ db.job[j].state = "waiting" /\ j \in Members(db.priority)
           /\ db' = Place([[db EXCEPT !.job[j].pri = 0] EXCEPT !.priority = Without(@, j)], j, TRUE)
  <2> DEFINE g == [f EXCEPT !.priority = Without(@, j)]
  <2>1. /\ Effect(conf, db, f, j) /\ f.job[j] = r
        /\ f.priority = db.priority /\ f.lifo = db.lifo /\ f.stream = db.stream /\ f.pel = db.pel
        /\ f.scheduled = db.scheduled /\ f.count = db.count /\ f.ids = db.ids
    BY <1>1, <1>2, HashEffect
  <2>2. db' = Place(g, j, TRUE)
    BY <1>3, <1>5
  <2> HIDE DEF f
  <2>3. f \in Db(conf) /\ Tidy(f) /\ f.priority \in Seq(Jobs) /\ Distinct(f.priority)
    BY <2>1 DEF Effect, Db, Tidy
  <2>4. /\ Near(f.priority, Without(f.priority, j), j) /\ j \notin Members(Without(f.priority, j))
        /\ Without(f.priority, j) \in Seq(Jobs)
    BY <2>3, NearWithout DEF Near
  <2>5. /\ g \in Db(conf) /\ g.priority = Without(f.priority, j) /\ g.job = f.job /\ g.lifo = f.lifo
        /\ g.stream = f.stream /\ g.pel = f.pel /\ g.scheduled = f.scheduled /\ g.count = f.count /\ g.ids = f.ids
    BY <2>3, <2>4 DEF Db
  <2> HIDE DEF g
  <2>6. Effect(conf, f, g, j)
    <3>1. Near(f.lifo, g.lifo, j) /\ Near(f.stream, g.stream, j) /\ Near(f.pel, g.pel, j) /\ Near(f.priority, g.priority, j)
      BY <2>3, <2>4, <2>5 DEF Near, Db, Tidy
    <3> QED BY <2>3, <2>5, <3>1, PelKept, NearEffect
  <2>7. /\ Mine(claims, j) = {} /\ j \notin db.scheduled /\ j \notin Members(db.lifo) /\ j \notin Members(db.stream)
    BY <1>1, <1>5 DEF JobFits, Agree
  <2>8. g \in Db(conf) /\ Tidy(g) /\ InNoLine(g, j)
    BY <2>1, <2>4, <2>5, <2>6, <2>7 DEF Effect, InNoLine
  <2>9. /\ Effect(conf, g, db', j) /\ InOneLine(db', j) /\ db'.job = g.job /\ db'.pel = g.pel
        /\ db'.scheduled = g.scheduled /\ db'.count = g.count /\ db'.ids = g.ids
    <3>1. LinedUp(g, j, db')
      BY <2>2 DEF LinedUp
    <3> QED BY <2>8, <3>1, Placed
  <2>10. Effect(conf, db, db', j)
    BY <1>1, <2>1, <2>3, <2>6, <2>8, <2>9, EffectTrans
  <2>11. /\ j \notin Members(db'.pel) /\ j \notin db'.scheduled
         /\ db'.job[j].state = "waiting" /\ db'.count = db.count /\ db'.ids = db.ids
    BY <1>2, <1>5, <2>1, <2>5, <2>7, <2>9
  <2> QED BY <1>1, <2>7, <2>9, <2>10, <2>11, Waits
<1>6. CASE /\ db.job[j].state = "prioritized"
           /\ db' = [db EXCEPT !.job[j].pri = 0, !.job[j].state = "waiting",
                               !.scheduled = @ \ {j}, !.stream = Append(@, j)]
  <2> DEFINE q == [r EXCEPT !.state = "waiting"]
             J == [db.job EXCEPT ![j] = q]
  <2>1. q \in Hash(conf) /\ q.state = "waiting"
    BY <1>2 DEF Hash, States
  <2>2. db' = [db EXCEPT !.job = J, !.scheduled = @ \ {j}, !.stream = Append(@, j)]
    BY <1>1, <1>6 DEF Db, r
  <2>3. InNoLine(db, j) /\ Mine(claims, j) = {}
    BY <1>1, <1>6 DEF JobFits, Agree, InNoLine
  <2>4. /\ Near(db.stream, Append(db.stream, j), j) /\ j \in Members(Append(db.stream, j))
        /\ Append(db.stream, j) \in Seq(Jobs)
    <3>1. db.stream \in Seq(Jobs) /\ Distinct(db.stream) /\ j \notin Members(db.stream)
      BY <1>1, <2>3, DbFacts DEF InNoLine
    <3> QED BY <1>1, <3>1, NearBy DEF Near
  <2> HIDE DEF q
  <2>5. J \in [Jobs -> Hash(conf)] /\ J[j] = q /\ \A i \in Jobs \ {j} : J[i] = db.job[i]
    BY <1>1, <2>1 DEF Db
  <2> HIDE DEF J
  <2>6. /\ db' \in Db(conf) /\ db'.job = J /\ db'.priority = db.priority /\ db'.lifo = db.lifo
        /\ db'.stream = Append(db.stream, j) /\ db'.pel = db.pel /\ db'.scheduled = db.scheduled \ {j}
        /\ db'.count = db.count /\ db'.ids = db.ids
    BY <1>1, <2>2, <2>4, <2>5 DEF Db
  <2>7. Near(db.lifo, db'.lifo, j) /\ Near(db.stream, db'.stream, j) /\ Near(db.pel, db'.pel, j) /\ Near(db.priority, db'.priority, j)
    BY <1>1, <2>4, <2>6 DEF Near, Db, Tidy
  <2>8. PelFrom(db, db')
    BY <1>1, <2>6, PelKept
  <2>9. Effect(conf, db, db', j)
    BY <1>1, <2>1, <2>5, <2>6, <2>7, <2>8, NearEffect
  <2>10. InOneLine(db', j) /\ j \notin Members(db'.pel) /\ j \notin db'.scheduled /\ db'.job[j].state = "waiting"
    BY <2>1, <2>3, <2>4, <2>5, <2>6 DEF InOneLine, InNoLine
  <2> QED BY <1>1, <2>3, <2>6, <2>9, <2>10, Waits
<1> QED
  <2>1. CASE db.job[j].state = "waiting"
    <3> DEFINE d == [db EXCEPT !.job[j].pri = 0]
    <3>1. d.priority = db.priority
      BY <1>1 DEF Db
    <3>2. db' = IF j \in Members(d.priority) THEN Place([d EXCEPT !.priority = Without(@, j)], j, TRUE) ELSE d
      BY <2>1 DEF Lowered
    <3> QED BY <1>4, <1>5, <2>1, <3>1, <3>2
  <2>2. CASE db.job[j].state = "prioritized"
    BY <1>6, <2>2 DEF Lowered
  <2>3. CASE db.job[j].state = "delayed"
    BY <1>4, <2>3 DEF Lowered
  <2> QED BY <2>1, <2>2, <2>3 DEF Lowered

LEMMA ChangePriorityOnward ==
  ASSUME Custody(conf, db, claims), "steal" \notin Races, NEW j \in Jobs, ChangePriority(j)
  PROVE  Onward(db, claims, db', claims')
BY RaisedOnward, LoweredOnward DEF ChangePriority

LEMMA PausesOnward ==
  ASSUME Custody(conf, db, claims), Pause \/ Resume
  PROVE  Onward(db, claims, db', claims')
<1>1. db \in Db(conf) /\ Tidy(db)
  BY DEF Custody
<1>2. claims' = claims /\ \E b \in BOOLEAN : db' = [db EXCEPT !.paused = b]
  BY DEF Pause, Resume
<1>3. /\ db' \in Db(conf) /\ db'.job = db.job /\ db'.priority = db.priority /\ db'.lifo = db.lifo
      /\ db'.stream = db.stream /\ db'.pel = db.pel /\ db'.scheduled = db.scheduled
      /\ db'.count = db.count /\ db'.ids = db.ids
  BY <1>1, <1>2 DEF Db
<1>4. Tidy(db') /\ \A i \in Jobs : SameJob(db, db', i)
  BY <1>1, <1>3 DEF Tidy, SameJob
<1> QED BY <1>2, <1>3, <1>4, Flagged

LEMMA ExpireOnward ==
  ASSUME Custody(conf, db, claims), NEW j \in Jobs, Expire(j)
  PROVE  Onward(db, claims, db', claims')
<1> DEFINE r == [db.job[j] EXCEPT !.late = TRUE]
<1>1. db \in Db(conf) /\ db.job[j] \in Hash(conf)
  BY JobFacts
<1>2. r \in Hash(conf) /\ r.state = db.job[j].state /\ r.listed = db.job[j].listed
  BY <1>1 DEF Hash
<1>3. db' = [db EXCEPT !.job[j] = r] /\ claims' = claims
  BY <1>1 DEF Expire, Db
<1> HIDE DEF r
<1> QED BY <1>2, <1>3, MarkedOnward

-----------------------------------------------------------------------------
(* Workers: the ends of a claim                                               *)

LEMMA ClaimState ==
  ASSUME NEW d, NEW cs, Custody(conf, d, cs), NEW c \in cs
  PROVE  /\ c \in ClaimRecords /\ c.job \in Jobs /\ c.list \in BOOLEAN
         /\ d.job[c.job].state \in {"waiting", "active", "failed", "gone"}
         /\ d.job[c.job].state = "waiting" => c.at \in {"claimed", "returning", "revoked"}
         /\ d.job[c.job].state = "active"  => c.at \in {"running", "aborting"}
         /\ d.job[c.job].state = "failed"  => c.at \in {"claimed", "release", "returning", "revoked"}
         /\ c.at = "release" => c.list
         /\ InNoLine(d, c.job) /\ c.job \notin d.scheduled
         /\ c.list => c.job \notin Members(d.pel)
         /\ d.job[c.job].state \in {"waiting", "active"} /\ ~c.list => c.job \in Members(d.pel)
         /\ d.job[c.job].state = "active" => (d.job[c.job].listed <=> c.list)
         /\ Counts(d, cs, c.job) <=> c.list /\ (~Begun(c) \/ d.job[c.job].state = "active")
<1> DEFINE j == c.job
<1>1. c \in ClaimRecords /\ j \in Jobs /\ c.list \in BOOLEAN /\ c \in Mine(cs, j) /\ Mine(cs, j) = {c}
  BY MineFacts DEF Custody, ClaimRecords, Mine
<1>2. JobFits(d, cs, j) /\ d.job[j].state \in States
  BY <1>1, JobFacts
<1>3. /\ d.job[j].state \in {"waiting", "active", "failed", "gone"}
      /\ d.job[j].state = "waiting" => c.at \in {"claimed", "returning", "revoked"}
      /\ d.job[j].state = "active"  => c.at \in {"running", "aborting"}
      /\ d.job[j].state = "failed"  => c.at \in {"claimed", "release", "returning", "revoked"}
      /\ c.at = "release" => c.list
  BY <1>1, <1>2 DEF JobFits, Agree, States
<1>4. /\ InNoLine(d, j) /\ j \notin d.scheduled
      /\ c.list => j \notin Members(d.pel)
      /\ d.job[j].state \in {"waiting", "active"} /\ ~c.list => j \in Members(d.pel)
      /\ d.job[j].state = "active" => (d.job[j].listed <=> c.list)
  BY <1>1, <1>2, <1>3 DEF JobFits, Agree, InNoLine
<1>5. Counts(d, cs, j) <=> c.list /\ (~Begun(c) \/ d.job[j].state = "active")
  BY <1>1, <1>3, <1>4 DEF Counts, Begun
<1> HIDE DEF j
<1> QED BY <1>1, <1>3, <1>4, <1>5 DEF j

(* Settle gives the slot or the entry of the claim back. *)
LEMMA SettleEffect ==
  ASSUME NEW p, NEW d \in Db(p), Tidy(d), NEW j \in Jobs, NEW list \in BOOLEAN
  PROVE  LET e == Settle(d, j, list)
         IN  /\ Effect(p, d, e, j)
             /\ e.job = d.job /\ e.priority = d.priority /\ e.lifo = d.lifo /\ e.stream = d.stream
             /\ e.scheduled = d.scheduled /\ e.paused = d.paused /\ e.ids \ {j} = d.ids \ {j}
             /\ list => e.pel = d.pel /\ e.count = (IF d.count > 0 THEN d.count - 1 ELSE d.count)
             /\ ~list => j \notin Members(e.pel) /\ e.count = d.count
<1>1. CASE list
  BY <1>1, DecrEffect DEF Settle
<1>2. CASE ~list
  BY <1>2, AckEffect DEF Settle
<1> QED BY <1>1, <1>2

(* The hash of a claimed job says how it ended, and the claim is settled. *)
LEMMA SettleOnward ==
  ASSUME NEW d, NEW cs, Custody(conf, d, cs), NEW c \in cs, NEW f,
         f \in Db(conf), f.priority = d.priority, f.lifo = d.lifo, f.stream = d.stream, f.pel = d.pel,
         f.count = d.count, f.ids = d.ids, f.scheduled \ {c.job} = d.scheduled \ {c.job},
         \A i \in Jobs \ {c.job} : f.job[i] = d.job[i],
         f.job[c.job].state \in {"completed", "failed", "delayed"},
         c.job \in f.scheduled <=> f.job[c.job].state = "delayed",
         d.job[c.job].state = "active" \/ ~Begun(c)
  PROVE  Onward(d, cs, Settle(f, c.job, c.list), cs \ {c})
<1> DEFINE j == c.job
           e == Settle(f, j, c.list)
           es == cs \ {c}
<1>1. /\ j \in Jobs /\ c.list \in BOOLEAN /\ InNoLine(d, j) /\ (c.list => j \notin Members(d.pel))
      /\ Counts(d, cs, j) <=> c.list
  BY ClaimState
<1>2. d \in Db(conf) /\ Tidy(d) /\ es \subseteq ClaimRecords /\ Mine(es, j) = {}
      /\ \A i \in Jobs \ {j} : Mine(es, i) = Mine(cs, i)
  <2>1. d \in Db(conf) /\ Tidy(d)
    BY DEF Custody
  <2>2. es \subseteq ClaimRecords
    BY MineDrop
  <2>3. Mine(es, j) = {}
    BY MineDrop
  <2>4. \A i \in Jobs \ {j} : Mine(es, i) = Mine(cs, i)
    BY DEF Mine
  <2> QED BY <2>1, <2>2, <2>3, <2>4
<1> HIDE DEF es, j
<1>3. Effect(conf, d, f, j)
  BY <1>1, <1>2, PlainEffect DEF j
<1>4. f \in Db(conf) /\ Tidy(f)
  BY <1>3 DEF Effect
<1>5. /\ Effect(conf, f, e, j)
      /\ e.job = f.job /\ e.priority = f.priority /\ e.lifo = f.lifo /\ e.stream = f.stream
      /\ e.scheduled = f.scheduled /\ e.ids \ {j} = f.ids \ {j}
      /\ c.list => e.pel = f.pel /\ e.count = (IF f.count > 0 THEN f.count - 1 ELSE f.count)
      /\ ~c.list => j \notin Members(e.pel) /\ e.count = f.count
  BY <1>1, <1>4, SettleEffect
<1> HIDE DEF e
<1>6. Effect(conf, d, e, j)
  BY <1>2, <1>3, <1>4, <1>5, EffectTrans
<1>7. InNoLine(e, j) /\ j \notin Members(e.pel)
  BY <1>1, <1>5 DEF InNoLine
<1>8. \/ e.count = d.count
      \/ e.count = (IF d.count > 0 THEN d.count - 1 ELSE d.count) /\ Counts(d, cs, j)
  BY <1>1, <1>5
<1>9. /\ e.job[j].state \in {"completed", "failed", "delayed"}
      /\ j \in e.scheduled <=> e.job[j].state \in {"prioritized", "delayed"}
      /\ e.ids \ {j} = d.ids \ {j}
  BY <1>5 DEF j
<1>10. Onward(d, cs, e, es)
  BY <1>1, <1>2, <1>6, <1>7, <1>8, <1>9, Leaves
<1> QED BY <1>10 DEF e, es, j

(* The claim of a removed job: only the id or the entry goes. *)
Forgotten(d, j, list) == IF list THEN [d EXCEPT !.ids = @ \ {j}] ELSE Ack(d, j)

LEMMA ForgottenEffect ==
  ASSUME NEW p, NEW d \in Db(p), Tidy(d), NEW j \in Jobs, NEW list \in BOOLEAN
  PROVE  LET e == Forgotten(d, j, list)
         IN  /\ Effect(p, d, e, j)
             /\ e.job = d.job /\ e.priority = d.priority /\ e.lifo = d.lifo /\ e.stream = d.stream
             /\ e.scheduled = d.scheduled /\ e.paused = d.paused /\ e.ids \ {j} = d.ids \ {j}
             /\ list => e.pel = d.pel
             /\ ~list => j \notin Members(e.pel)
             /\ e.count = d.count
<1>1. CASE list
  <2> DEFINE e == [d EXCEPT !.ids = @ \ {j}]
  <2>1. /\ e \in Db(p) /\ e.job = d.job /\ e.priority = d.priority /\ e.lifo = d.lifo /\ e.stream = d.stream
        /\ e.scheduled = d.scheduled /\ e.paused = d.paused /\ e.ids = d.ids \ {j} /\ e.pel = d.pel /\ e.count = d.count
    BY DEF Db
  <2>2. Forgotten(d, j, list) = e
    BY <1>1 DEF Forgotten
  <2> HIDE DEF e
  <2>3. Effect(p, d, e, j)
    BY <2>1, PlainEffect
  <2> QED BY <1>1, <2>1, <2>2, <2>3
<1>2. CASE ~list
  BY <1>2, AckEffect DEF Forgotten
<1> QED BY <1>1, <1>2

LEMMA ForgottenOnward ==
  ASSUME NEW d, NEW cs, Custody(conf, d, cs), NEW c \in cs, d.job[c.job].state = "gone"
  PROVE  Onward(d, cs, Forgotten(d, c.job, c.list), cs \ {c})
<1> DEFINE j == c.job
           e == Forgotten(d, j, c.list)
           es == cs \ {c}
<1>1. j \in Jobs /\ c.list \in BOOLEAN /\ InNoLine(d, j) /\ (c.list => j \notin Members(d.pel)) /\ j \notin d.scheduled
  BY ClaimState
<1>2. d \in Db(conf) /\ Tidy(d) /\ es \subseteq ClaimRecords /\ Mine(es, j) = {}
      /\ \A i \in Jobs \ {j} : Mine(es, i) = Mine(cs, i)
  <2>1. d \in Db(conf) /\ Tidy(d)
    BY DEF Custody
  <2>2. es \subseteq ClaimRecords
    BY MineDrop
  <2>3. Mine(es, j) = {}
    BY MineDrop
  <2>4. \A i \in Jobs \ {j} : Mine(es, i) = Mine(cs, i)
    BY DEF Mine
  <2> QED BY <2>1, <2>2, <2>3, <2>4
<1>3. d.job[j].state = "gone"
  OBVIOUS
<1> HIDE DEF es, j
<1>4. /\ Effect(conf, d, e, j)
      /\ e.job = d.job /\ e.priority = d.priority /\ e.lifo = d.lifo /\ e.stream = d.stream
      /\ e.scheduled = d.scheduled /\ e.ids \ {j} = d.ids \ {j} /\ e.count = d.count
      /\ c.list => e.pel = d.pel
      /\ ~c.list => j \notin Members(e.pel)
  BY <1>1, <1>2, ForgottenEffect
<1> HIDE DEF e
<1>5. InNoLine(e, j) /\ j \notin Members(e.pel) /\ j \notin e.scheduled /\ e.job[j].state = "gone"
  BY <1>1, <1>3, <1>4 DEF InNoLine
<1>6. Onward(d, cs, e, es)
  BY <1>1, <1>2, <1>4, <1>5, Leaves
<1> QED BY <1>6 DEF e, es, j

LEMMA BecomesFacts ==
  ASSUME NEW p, NEW d \in Db(p), NEW j \in Jobs, NEW s \in States
  PROVE  LET f == Becomes(d, j, s)
         IN  /\ f \in Db(p) /\ f.job[j].state = s /\ \A i \in Jobs \ {j} : f.job[i] = d.job[i]
             /\ f.priority = d.priority /\ f.lifo = d.lifo /\ f.stream = d.stream /\ f.pel = d.pel
             /\ f.scheduled = d.scheduled /\ f.count = d.count /\ f.ids = d.ids /\ f.paused = d.paused
<1> DEFINE f == Becomes(d, j, s)
           r == [d.job[j] EXCEPT !.state = s]
<1>1. d.job[j] \in Hash(p)
  BY DEF Db
<1>2. r \in Hash(p) /\ r.state = s
  BY <1>1 DEF Hash
<1>3. f = [d EXCEPT !.job[j] = r]
  BY <1>1 DEF Becomes, Db, Hash
<1> HIDE DEF f, r
<1>4. /\ f \in Db(p) /\ f.job = [d.job EXCEPT ![j] = r]
      /\ f.priority = d.priority /\ f.lifo = d.lifo /\ f.stream = d.stream /\ f.pel = d.pel
      /\ f.scheduled = d.scheduled /\ f.count = d.count /\ f.ids = d.ids /\ f.paused = d.paused
  BY <1>2, <1>3 DEF Db
<1>5. f.job[j] = r /\ \A i \in Jobs \ {j} : f.job[i] = d.job[i]
  BY <1>4 DEF Db
<1> QED BY <1>2, <1>4, <1>5 DEF f

LEMMA FailOnward ==
  ASSUME NEW d, NEW cs, Custody(conf, d, cs), NEW c \in cs, Begun(c) \/ c.at = "revoked"
  PROVE  Onward(d, cs, Fail(d, c.job, c.list), cs \ {c})
<1> DEFINE j == c.job
           f == Becomes(d, j, "failed")
<1>1. /\ j \in Jobs /\ c.list \in BOOLEAN /\ d.job[j].state \in {"waiting", "active", "failed", "gone"}
      /\ d.job[j].state \in {"active", "gone"} \/ ~Begun(c)
      /\ j \notin d.scheduled
  BY ClaimState DEF Begun
<1>2. CASE d.job[j].state = "gone"
  <2>1. Fail(d, j, c.list) = Forgotten(d, j, c.list)
    BY <1>2 DEF Fail, Exists, NoHash, Forgotten
  <2> QED BY <1>2, <2>1, ForgottenOnward
<1>3. CASE d.job[j].state /= "gone"
  <2>1. Fail(d, j, c.list) = Settle(f, j, c.list)
    BY <1>1, <1>3 DEF Fail, Exists, NoHash
  <2>2. /\ f \in Db(conf) /\ f.job[j].state = "failed" /\ \A i \in Jobs \ {j} : f.job[i] = d.job[i]
        /\ f.priority = d.priority /\ f.lifo = d.lifo /\ f.stream = d.stream /\ f.pel = d.pel
        /\ f.scheduled = d.scheduled /\ f.count = d.count /\ f.ids = d.ids
    <3>1. d \in Db(conf) /\ "failed" \in States /\ "completed" \in States
      BY DEF Custody, States
    <3> QED BY <1>1, <3>1, BecomesFacts
  <2> HIDE DEF f
  <2>3. Onward(d, cs, Settle(f, j, c.list), cs \ {c})
    BY <1>1, <1>3, <2>2, SettleOnward
  <2> QED BY <2>1, <2>3
<1> QED BY <1>2, <1>3

LEMMA CompleteOnward ==
  ASSUME NEW d, NEW cs, Custody(conf, d, cs), NEW c \in cs, Begun(c)
  PROVE  Onward(d, cs, Complete(d, c.job, c.list), cs \ {c})
<1> DEFINE j == c.job
           f == Becomes(d, j, "completed")
<1>1. /\ j \in Jobs /\ c.list \in BOOLEAN /\ d.job[j].state \in {"active", "gone"} /\ j \notin d.scheduled
  BY ClaimState DEF Begun
<1>2. CASE d.job[j].state = "gone"
  <2>1. Complete(d, j, c.list) = Forgotten(d, j, c.list)
    BY <1>2 DEF Complete, Exists, NoHash, Forgotten
  <2> QED BY <1>2, <2>1, ForgottenOnward
<1>3. CASE d.job[j].state = "active"
  <2>1. Complete(d, j, c.list) = Settle(f, j, c.list)
    BY <1>3 DEF Complete, Exists, NoHash
  <2>2. /\ f \in Db(conf) /\ f.job[j].state = "completed" /\ \A i \in Jobs \ {j} : f.job[i] = d.job[i]
        /\ f.priority = d.priority /\ f.lifo = d.lifo /\ f.stream = d.stream /\ f.pel = d.pel
        /\ f.scheduled = d.scheduled /\ f.count = d.count /\ f.ids = d.ids
    <3>1. d \in Db(conf) /\ "failed" \in States /\ "completed" \in States
      BY DEF Custody, States
    <3> QED BY <1>1, <3>1, BecomesFacts
  <2> HIDE DEF f
  <2>3. Onward(d, cs, Settle(f, j, c.list), cs \ {c})
    BY <1>1, <1>3, <2>2, SettleOnward
  <2> QED BY <2>1, <2>3
<1> QED BY <1>1, <1>2, <1>3

(* A failed job is put off for another try. *)
Retried(d, j) == [d EXCEPT !.job[j].state = "delayed", !.job[j].tries = @ + 1, !.scheduled = @ \cup {j}]

LEMMA RetriedFacts ==
  ASSUME NEW d, NEW cs, Custody(conf, d, cs), NEW j \in Jobs, d.job[j].tries < conf.retries
  PROVE  LET f == Retried(d, j)
         IN  /\ f \in Db(conf) /\ f.job[j].state = "delayed" /\ \A i \in Jobs \ {j} : f.job[i] = d.job[i]
             /\ f.scheduled \ {j} = d.scheduled \ {j} /\ j \in f.scheduled
             /\ f.priority = d.priority /\ f.lifo = d.lifo /\ f.stream = d.stream /\ f.pel = d.pel
             /\ f.count = d.count /\ f.ids = d.ids
<1> DEFINE f == Retried(d, j)
           r == [d.job[j] EXCEPT !.state = "delayed", !.tries = @ + 1]
           J == [d.job EXCEPT ![j] = r]
<1>1. d \in Db(conf) /\ d.job[j] \in Hash(conf)
  BY JobFacts
<1>2. r \in Hash(conf) /\ r.state = "delayed"
  <2>1. d.job[j].tries + 1 \in 0..conf.retries
    BY <1>1, ConfFacts DEF Hash
  <2>2. "delayed" \in States
    BY DEF States
  <2> QED BY <1>1, <2>1, <2>2 DEF Hash
<1>3. f = [d EXCEPT !.job = J, !.scheduled = @ \cup {j}]
  BY <1>1 DEF Retried, Db, Hash
<1> HIDE DEF r
<1>4. J \in [Jobs -> Hash(conf)] /\ J[j] = r /\ \A i \in Jobs \ {j} : J[i] = d.job[i]
  BY <1>1, <1>2 DEF Db
<1> HIDE DEF J, f
<1>5. /\ f \in Db(conf) /\ f.job = J /\ f.scheduled = d.scheduled \cup {j}
      /\ f.priority = d.priority /\ f.lifo = d.lifo /\ f.stream = d.stream /\ f.pel = d.pel
      /\ f.count = d.count /\ f.ids = d.ids
  BY <1>1, <1>3, <1>4 DEF Db
<1>6. /\ f.job[j].state = "delayed" /\ \A i \in Jobs \ {j} : f.job[i] = d.job[i]
      /\ f.scheduled \ {j} = d.scheduled \ {j} /\ j \in f.scheduled
  BY <1>2, <1>4, <1>5
<1> QED BY <1>5, <1>6 DEF f

LEMMA RetryOnward ==
  ASSUME NEW d, NEW cs, Custody(conf, d, cs), NEW c \in cs, Begun(c), d.job[c.job].tries < conf.retries
  PROVE  Onward(d, cs, Retry(d, c.job, c.list), cs \ {c})
<1> DEFINE j == c.job
           f == Retried(d, j)
<1>1. /\ j \in Jobs /\ c.list \in BOOLEAN /\ d.job[j].state \in {"active", "gone"} /\ j \notin d.scheduled
  BY ClaimState DEF Begun
<1>2. CASE d.job[j].state = "gone"
  <2>1. Retry(d, j, c.list) = Fail(d, j, c.list)
    BY <1>2 DEF Retry, Exists, NoHash
  <2> QED BY <2>1, FailOnward
<1>3. CASE d.job[j].state = "active"
  <2>1. Retry(d, j, c.list) = Settle(f, j, c.list)
    BY <1>3 DEF Retry, Retried, Exists, NoHash
  <2> HIDE DEF j
  <2>2. /\ f \in Db(conf) /\ f.job[j].state = "delayed" /\ \A i \in Jobs \ {j} : f.job[i] = d.job[i]
        /\ f.scheduled \ {j} = d.scheduled \ {j} /\ j \in f.scheduled
        /\ f.priority = d.priority /\ f.lifo = d.lifo /\ f.stream = d.stream /\ f.pel = d.pel
        /\ f.count = d.count /\ f.ids = d.ids
    BY <1>1, RetriedFacts DEF j
  <2> HIDE DEF f
  <2>3. Onward(d, cs, Settle(f, j, c.list), cs \ {c})
    BY <1>3, <2>2, SettleOnward DEF j
  <2> QED BY <2>1, <2>3 DEF j
<1> QED BY <1>1, <1>2, <1>3

LEMMA FailRevokedOnward ==
  ASSUME Custody(conf, db, claims), NEW c \in claims, FailRevoked(c)
  PROVE  Onward(db, claims, db', claims')
<1>1. Begun(c) \/ c.at = "revoked"
  BY DEF FailRevoked, Begun
<1>2. db' = Fail(db, c.job, c.list) /\ claims' = claims \ {c}
  BY DEF FailRevoked, Drop
<1> QED BY <1>1, <1>2, FailOnward

LEMMA ReleaseOnward ==
  ASSUME Custody(conf, db, claims), NEW c \in claims, ReleaseListActiveSlot(c)
  PROVE  Onward(db, claims, db', claims')
<1> DEFINE j == c.job
           es == claims \ {c}
<1>1. /\ j \in Jobs /\ c.list /\ ~Begun(c) /\ c.at = "release"
      /\ db.job[j].state \in {"failed", "gone"} /\ Counts(db, claims, j)
      /\ InNoLine(db, j) /\ j \notin db.scheduled /\ j \notin Members(db.pel)
  BY ClaimState DEF ReleaseListActiveSlot, Begun
<1>2. db \in Db(conf) /\ Tidy(db)
  BY DEF Custody
<1>3. es \subseteq ClaimRecords /\ Mine(es, j) = {}
  BY MineDrop
<1>4. \A i \in Jobs \ {j} : Mine(es, i) = Mine(claims, i)
  BY DEF Mine
<1>5. claims' = es /\ db' = [db EXCEPT !.count = db.count - 1]
  BY DEF ReleaseListActiveSlot, Drop
<1> HIDE DEF j, es
<1>6. /\ db' \in Db(conf) /\ db'.job = db.job /\ db'.priority = db.priority /\ db'.lifo = db.lifo
      /\ db'.stream = db.stream /\ db'.pel = db.pel /\ db'.scheduled = db.scheduled
      /\ db'.count = db.count - 1 /\ db'.ids = db.ids
  <2>1. db.count - 1 \in Int
    BY <1>2 DEF Db
  <2> QED BY <1>2, <1>5, <2>1 DEF Db
<1>7. Effect(conf, db, db', j)
  BY <1>1, <1>2, <1>6, PlainEffect
<1>8. InNoLine(db', j)
  BY <1>1, <1>6 DEF InNoLine
<1> QED BY <1>1, <1>3, <1>4, <1>5, <1>6, <1>7, <1>8, Leaves

LEMMA AppendEffect ==
  ASSUME NEW p, NEW d \in Db(p), Tidy(d), NEW j \in Jobs, InNoLine(d, j)
  PROVE  LET e == [d EXCEPT !.stream = Append(@, j)]
         IN  /\ Effect(p, d, e, j) /\ InOneLine(e, j) /\ e.job = d.job /\ e.pel = d.pel
             /\ e.scheduled = d.scheduled /\ e.paused = d.paused /\ e.count = d.count /\ e.ids = d.ids
<1> DEFINE e == [d EXCEPT !.stream = Append(@, j)]
<1>1. /\ Near(d.stream, Append(d.stream, j), j) /\ j \in Members(Append(d.stream, j))
      /\ Append(d.stream, j) \in Seq(Jobs)
  BY NearBy, DbFacts DEF InNoLine, Near
<1>2. /\ e \in Db(p) /\ e.job = d.job /\ e.priority = d.priority /\ e.lifo = d.lifo
      /\ e.stream = Append(d.stream, j) /\ e.pel = d.pel /\ e.scheduled = d.scheduled
      /\ e.count = d.count /\ e.ids = d.ids /\ e.paused = d.paused
  BY <1>1 DEF Db
<1> HIDE DEF e
<1>3. Near(d.lifo, e.lifo, j) /\ Near(d.stream, e.stream, j) /\ Near(d.pel, e.pel, j) /\ Near(d.priority, e.priority, j)
  BY <1>1, <1>2 DEF Near, Db, Tidy
<1>4. Effect(p, d, e, j)
  BY <1>2, <1>3, PelKept, NearEffect
<1>5. InOneLine(e, j)
  BY <1>1, <1>2 DEF InOneLine, InNoLine
<1> QED BY <1>2, <1>4, <1>5 DEF e

LEMMA DeferOnward ==
  ASSUME NEW d, NEW cs, Custody(conf, d, cs), NEW c \in cs, c.at \in {"claimed", "returning"}
  PROVE  Onward(d, cs, DeferActive(d, c), cs \ {c})
<1> DEFINE j == c.job
           es == cs \ {c}
           e == Settle(d, j, c.list)
           g == Becomes(e, j, "waiting")
<1>1. /\ j \in Jobs /\ c.list \in BOOLEAN /\ ~Begun(c)
      /\ d.job[j].state \in {"waiting", "failed", "gone"} /\ (Counts(d, cs, j) <=> c.list)
      /\ InNoLine(d, j) /\ j \notin d.scheduled /\ (c.list => j \notin Members(d.pel))
  BY ClaimState DEF Begun
<1>2. d \in Db(conf) /\ Tidy(d)
  BY DEF Custody
<1>3. es \subseteq ClaimRecords /\ Mine(es, j) = {}
  BY MineDrop
<1>4. \A i \in Jobs \ {j} : Mine(es, i) = Mine(cs, i)
  BY DEF Mine
<1>5. /\ ~Exists(d, j) => DeferActive(d, c) = e
      /\ Exists(d, j) /\ c.list => DeferActive(d, c) = Place(g, j, TRUE)
      /\ Exists(d, j) /\ ~c.list => DeferActive(d, c) = [g EXCEPT !.stream = Append(@, j)]
  BY DEF DeferActive, Wait
<1>6. ~Exists(d, j) <=> d.job[j].state = "gone"
  BY <1>1 DEF Exists, NoHash
<1> HIDE DEF j, es
<1>7. /\ Effect(conf, d, e, j)
      /\ e.job = d.job /\ e.priority = d.priority /\ e.lifo = d.lifo /\ e.stream = d.stream
      /\ e.scheduled = d.scheduled /\ e.ids \ {j} = d.ids \ {j}
      /\ c.list => e.pel = d.pel /\ e.count = (IF d.count > 0 THEN d.count - 1 ELSE d.count)
      /\ ~c.list => j \notin Members(e.pel) /\ e.count = d.count
  BY <1>1, <1>2, SettleEffect
<1> HIDE DEF e
<1>8. e \in Db(conf) /\ Tidy(e) /\ j \notin Members(e.pel) /\ InNoLine(e, j)
  BY <1>1, <1>7 DEF Effect, InNoLine
<1>9. \/ e.count = d.count
      \/ e.count = (IF d.count > 0 THEN d.count - 1 ELSE d.count) /\ Counts(d, cs, j)
  BY <1>1, <1>7
<1>10. CASE ~Exists(d, j)
  <2>1. e.job[j].state = "gone" /\ j \notin e.scheduled
    BY <1>1, <1>6, <1>7, <1>10
  <2>2. Onward(d, cs, e, es)
    BY <1>1, <1>3, <1>4, <1>7, <1>8, <1>9, <2>1, Leaves
  <2> QED BY <1>5, <1>10, <2>2 DEF es
<1>11. CASE Exists(d, j)
  <2>1. "waiting" \in States
    BY DEF States
  <2>2. /\ g \in Db(conf) /\ g.job[j].state = "waiting" /\ \A i \in Jobs \ {j} : g.job[i] = e.job[i]
        /\ g.priority = e.priority /\ g.lifo = e.lifo /\ g.stream = e.stream /\ g.pel = e.pel
        /\ g.scheduled = e.scheduled /\ g.count = e.count /\ g.ids = e.ids
    BY <1>1, <1>8, <2>1, BecomesFacts
  <2> HIDE DEF g
  <2>3. Effect(conf, e, g, j)
    BY <1>1, <1>8, <2>2, PlainEffect
  <2>4. g \in Db(conf) /\ Tidy(g) /\ InNoLine(g, j)
    BY <1>8, <2>2, <2>3 DEF Effect, InNoLine
  <2> DEFINE h == DeferActive(d, c)
  <2>5. /\ Effect(conf, g, h, j) /\ InOneLine(h, j) /\ h.job = g.job /\ h.pel = g.pel
        /\ h.scheduled = g.scheduled /\ h.count = g.count /\ h.ids = g.ids
    <3>1. CASE c.list
      <4>1. j \in Jobs /\ LinedUp(g, j, h)
        BY <1>1, <1>5, <1>11, <3>1 DEF LinedUp
      <4> HIDE DEF h
      <4> QED BY <4>1, <2>4, Placed
    <3>2. CASE ~c.list
      <4>1. j \in Jobs /\ h = [g EXCEPT !.stream = Append(@, j)]
        BY <1>1, <1>5, <1>11, <3>2
      <4> HIDE DEF h
      <4> QED BY <4>1, <2>4, AppendEffect
    <3> QED BY <3>1, <3>2
  <2> HIDE DEF h
  <2>6. Effect(conf, d, h, j)
    BY <1>2, <1>7, <1>8, <2>3, <2>4, <2>5, EffectTrans
  <2>7. h.job[j].state = "waiting" /\ j \notin Members(h.pel) /\ j \notin h.scheduled /\ h.ids \ {j} = d.ids \ {j}
        /\ h.count = e.count
    BY <1>1, <1>7, <1>8, <2>2, <2>5
  <2>8. Onward(d, cs, h, es)
    BY <1>1, <1>3, <1>4, <1>9, <2>5, <2>6, <2>7, Waits
  <2> QED BY <2>8 DEF h, es
<1> QED BY <1>10, <1>11

LEMMA ReturnOnward ==
  ASSUME Custody(conf, db, claims), NEW c \in claims, Return(c) \/ HandBack(c)
  PROVE  Onward(db, claims, db', claims')
<1>1. c.at \in {"claimed", "returning"} /\ db' = DeferActive(db, c) /\ claims' = claims \ {c}
  BY DEF Return, HandBack, Drop
<1> QED BY <1>1, DeferOnward

(* A worker goes on with a claim, and tells the server nothing. *)
LEMMA StepOnward ==
  ASSUME NEW d, NEW cs, Custody(conf, d, cs), NEW c \in cs,
         NEW at \in {"release", "returning", "revoked", "aborting"},
         d.job[c.job].state = "waiting" => at \in {"returning", "revoked"},
         d.job[c.job].state = "active"  => at = "aborting",
         d.job[c.job].state = "failed"  => at \in {"release", "returning", "revoked"},
         at = "release" => c.list, at = "aborting" <=> Begun(c)
  PROVE  Onward(d, cs, d, (cs \ {c}) \cup {[c EXCEPT !.at = at]})
<1> DEFINE j == c.job
           x == [c EXCEPT !.at = at]
           es == (cs \ {c}) \cup {x}
<1>1. c \in ClaimRecords /\ x \in ClaimRecords /\ x.job = j /\ x.list = c.list /\ x.at = at
  <2>1. c \in ClaimRecords
    BY ClaimState
  <2>2. at \in {"claimed", "release", "returning", "revoked", "aborting", "running"}
    OBVIOUS
  <2> QED BY <2>1, <2>2, ClaimMoves
<1>2. j \in Jobs /\ JobFits(d, cs, j) /\ d \in Db(conf) /\ Tidy(d) /\ Mine(cs, j) = {c}
  <2>1. j \in Jobs /\ Mine(cs, j) = {c}
    BY MineOne
  <2> HIDE DEF j
  <2> QED BY <2>1, JobFacts
<1>3. es \subseteq ClaimRecords /\ Mine(es, j) = {x} /\ \A i \in Jobs \ {j} : Mine(es, i) = Mine(cs, i)
  <2>1. cs \subseteq ClaimRecords /\ Mine(cs, j) = {c}
    BY <1>2 DEF Custody
  <2> HIDE DEF j, x
  <2>2. c.job = j
    BY DEF j
  <2> QED BY <1>1, <2>1, <2>2 DEF Mine
<1>4. d.job[j].state \in {"waiting", "active", "failed", "gone"}
  BY ClaimState
<1>5. /\ d.job[j].state = "waiting" => at \in {"returning", "revoked"}
      /\ d.job[j].state = "active"  => at = "aborting"
      /\ d.job[j].state = "failed"  => at \in {"release", "returning", "revoked"}
      /\ at = "release" => c.list
  OBVIOUS
<1>6. Begun(x) <=> Begun(c)
  BY <1>1 DEF Begun
<1> HIDE DEF x, es, j
<1>7. JobFits(d, es, j)
  BY <1>1, <1>2, <1>3, <1>4, <1>5 DEF JobFits, Agree
<1>8. Counts(d, es, j) <=> Counts(d, cs, j)
  BY <1>1, <1>2, <1>3, <1>6 DEF Counts
<1>9. HasPlace(d, es, j)
  BY <1>3 DEF HasPlace
<1>10. Effect(conf, d, d, j)
  BY <1>2, EffectRefl
<1>11. Tally(d, cs, d, es, j)
  BY <1>8 DEF Tally
<1>12. Onward(d, cs, d, es)
  BY <1>2, <1>3, <1>7, <1>9, <1>10, <1>11, Moved
<1> QED BY <1>12 DEF es, x

(* A claim is refused because its job has ended, now or before. *)
LEMMA DropOnward ==
  ASSUME NEW d, NEW cs, Custody(conf, d, cs), NEW c \in cs, c.at = "claimed", NEW f,
         Effect(conf, d, f, c.job), f.job[c.job].state \in {"gone", "failed"},
         f.priority = d.priority, f.lifo = d.lifo, f.stream = d.stream, f.pel = d.pel,
         f.scheduled = d.scheduled, f.count = d.count, f.ids = d.ids
  PROVE  /\ Onward(d, cs, Forgotten(f, c.job, c.list), cs \ {c})
         /\ Onward(d, cs, Forgotten(f, c.job, c.list), cs)
<1> DEFINE j == c.job
           e == Forgotten(f, j, c.list)
           es == cs \ {c}
<1>1. j \in Jobs /\ c.list \in BOOLEAN /\ InNoLine(d, j) /\ (c.list => j \notin Members(d.pel)) /\ j \notin d.scheduled
  BY ClaimState
<1>2. d \in Db(conf) /\ Tidy(d) /\ cs \subseteq ClaimRecords
  BY DEF Custody
<1>3. es \subseteq ClaimRecords /\ Mine(es, j) = {}
  BY MineDrop
<1>4. \A i \in Jobs \ {j} : Mine(es, i) = Mine(cs, i)
  BY DEF Mine
<1>5. f.job[j].state \in {"gone", "failed"} /\ Effect(conf, d, f, j)
  OBVIOUS
<1>6. Mine(cs, j) = {c}
  BY MineOne
<1> HIDE DEF es, j
<1>7. f \in Db(conf) /\ Tidy(f)
  BY <1>5 DEF Effect
<1>8. /\ Effect(conf, f, e, j)
      /\ e.job = f.job /\ e.priority = f.priority /\ e.lifo = f.lifo /\ e.stream = f.stream
      /\ e.scheduled = f.scheduled /\ e.ids \ {j} = f.ids \ {j} /\ e.count = f.count
      /\ c.list => e.pel = f.pel
      /\ ~c.list => j \notin Members(e.pel)
  BY <1>1, <1>7, ForgottenEffect
<1> HIDE DEF e
<1>9. Effect(conf, d, e, j)
  BY <1>2, <1>5, <1>7, <1>8, EffectTrans
<1>10. /\ InNoLine(e, j) /\ j \notin Members(e.pel) /\ j \notin e.scheduled /\ e.job[j].state \in {"gone", "failed"}
       /\ e.count = d.count /\ e.ids \ {j} = d.ids \ {j}
  BY <1>1, <1>5, <1>8 DEF InNoLine
<1>11. Onward(d, cs, e, es)
  BY <1>1, <1>2, <1>3, <1>4, <1>9, <1>10, Leaves
<1>12. Onward(d, cs, e, cs)
  BY <1>1, <1>2, <1>6, <1>9, <1>10, Leaves
<1> QED BY <1>11, <1>12 DEF e, es, j

LEMMA RefuseOnward ==
  ASSUME Custody(conf, db, claims), NEW c \in claims, c.at = "claimed", Refuse(c)
  PROVE  Onward(db, claims, db', claims')
<1> DEFINE j == c.job
           d == IF Outcome(db, c) = "expired" THEN Becomes(db, j, "failed") ELSE db
           e == Forgotten(d, j, c.list)
<1>1. /\ j \in Jobs /\ ~Begun(c) /\ c.list \in BOOLEAN /\ db.job[j].state \in {"waiting", "failed", "gone"}
  BY ClaimState DEF Begun
<1>2. Outcome(db, c) /= "expired" => db.job[j].state \in {"failed", "gone"}
  BY <1>1 DEF Refuse, Outcome, Exists, NoHash, Activatable
<1>3. db' = e
  BY DEF Refuse, Forgotten
<1>4. claims' = IF c.list THEN (claims \ {c}) \cup {[c EXCEPT !.at = "release"]} ELSE claims \ {c}
  BY DEF Refuse, Step, Drop
<1>5. db \in Db(conf) /\ Tidy(db)
  BY <1>1, JobFacts DEF Custody
<1>6. /\ Effect(conf, db, d, j) /\ d.job[j].state \in {"gone", "failed"}
      /\ d.priority = db.priority /\ d.lifo = db.lifo /\ d.stream = db.stream /\ d.pel = db.pel
      /\ d.scheduled = db.scheduled /\ d.count = db.count /\ d.ids = db.ids
  <2>1. CASE Outcome(db, c) /= "expired"
    BY <1>1, <1>2, <1>5, <2>1, EffectRefl
  <2>2. CASE Outcome(db, c) = "expired"
    <3>1. "failed" \in States /\ d = Becomes(db, j, "failed")
      BY <2>2 DEF States
    <3> HIDE DEF d, j
    <3>2. /\ d \in Db(conf) /\ d.job[j].state = "failed" /\ \A i \in Jobs \ {j} : d.job[i] = db.job[i]
          /\ d.priority = db.priority /\ d.lifo = db.lifo /\ d.stream = db.stream /\ d.pel = db.pel
          /\ d.scheduled = db.scheduled /\ d.count = db.count /\ d.ids = db.ids
      BY <1>1, <1>5, <3>1, BecomesFacts
    <3>3. Effect(conf, db, d, j)
      BY <1>1, <1>5, <3>2, PlainEffect
    <3> QED BY <3>2, <3>3
  <2> QED BY <2>1, <2>2
<1> HIDE DEF d
<1>7. Onward(db, claims, e, claims \ {c}) /\ Onward(db, claims, e, claims)
  BY <1>6, DropOnward
<1>8. CASE ~c.list
  BY <1>3, <1>4, <1>7, <1>8
<1>9. CASE c.list
  <2>1. Custody(conf, e, claims)
    BY <1>7 DEF Onward
  <2>2. e.job[j].state \in {"gone", "failed"}
    <3>1. d \in Db(conf) /\ Tidy(d)
      BY <1>6 DEF Effect
    <3>2. e.job = d.job
      BY <1>1, <3>1, ForgottenEffect
    <3> QED BY <1>6, <3>2
  <2> HIDE DEF e
  <2>3. Onward(e, claims, e, (claims \ {c}) \cup {[c EXCEPT !.at = "release"]})
    BY <1>1, <1>9, <2>1, <2>2, StepOnward
  <2> QED BY <1>3, <1>4, <1>7, <1>9, <2>3, OnwardTrans
<1> QED BY <1>1, <1>8, <1>9

-----------------------------------------------------------------------------
(* Workers: taking and starting jobs                                          *)

(* A claim's job becomes active. *)
Begins(d, c) == Started(d, c.job, c.list)

OthersSame(d, e, j) == \A i \in Jobs \ {j} : e.job[i] = d.job[i]

LEMMA StartedFacts ==
  ASSUME NEW p, NEW d \in Db(p), Tidy(d), NEW c \in ClaimRecords
  PROVE  LET f == Begins(d, c)
         IN  /\ f \in Db(p) /\ Tidy(f) /\ f.job[c.job].state = "active" /\ (f.job[c.job].listed <=> c.list)
             /\ OthersSame(d, f, c.job)
             /\ f.priority = d.priority /\ f.lifo = d.lifo /\ f.stream = d.stream /\ f.pel = d.pel
             /\ f.scheduled = d.scheduled /\ f.count = d.count /\ f.paused = d.paused
             /\ c.list => f.ids = d.ids \cup {c.job}
             /\ ~c.list => f.ids = d.ids
<1> DEFINE f == Begins(d, c)
           j == c.job
           r == [d.job[j] EXCEPT !.state = "active", !.listed = c.list]
           J == [d.job EXCEPT ![j] = r]
           A == IF c.list THEN d.ids \cup {j} ELSE d.ids
<1>1. j \in Jobs /\ c.list \in BOOLEAN
  BY DEF ClaimRecords
<1>2. d.job[j] \in Hash(p) /\ A \in SUBSET Jobs
  BY <1>1 DEF Db
<1>3. r \in Hash(p) /\ r.state = "active" /\ (r.listed <=> c.list)
  BY <1>1, <1>2 DEF Hash, States
<1>4. f = [d EXCEPT !.job = J, !.ids = A]
  BY <1>1, <1>2 DEF Begins, Started, Db, Hash
<1> HIDE DEF f, r, j
<1>5. J \in [Jobs -> Hash(p)] /\ J[j] = r /\ \A i \in Jobs \ {j} : J[i] = d.job[i]
  BY <1>1, <1>3 DEF Db
<1> HIDE DEF J, A
<1>6. /\ f \in Db(p) /\ f.job = J /\ f.ids = A
      /\ f.priority = d.priority /\ f.lifo = d.lifo /\ f.stream = d.stream /\ f.pel = d.pel
      /\ f.scheduled = d.scheduled /\ f.count = d.count /\ f.paused = d.paused
  BY <1>2, <1>4, <1>5 DEF Db
<1>7. Tidy(f)
  BY <1>6 DEF Tidy
<1> QED BY <1>3, <1>5, <1>6, <1>7 DEF A, f, j, OthersSame

LEMMA StartOnward ==
  ASSUME NEW d, NEW cs, Custody(conf, d, cs), NEW c \in cs, c.at = "claimed", Outcome(d, c) = "running"
  PROVE  Onward(d, cs, Started(d, c.job, c.list), (cs \ {c}) \cup {[c EXCEPT !.at = "running"]})
<1> DEFINE j == c.job
           x == [c EXCEPT !.at = "running"]
           es == (cs \ {c}) \cup {x}
           e == Started(d, j, c.list)
<1>1. c \in ClaimRecords
  BY ClaimState
<1>2. x \in ClaimRecords /\ x.job = j /\ x.list = c.list /\ x.at = "running"
  BY <1>1, ClaimMoves
<1>3. j \in Jobs /\ JobFits(d, cs, j) /\ d \in Db(conf) /\ Tidy(d) /\ Mine(cs, j) = {c}
  BY ClaimState, JobFacts, MineOne
<1>4. es \subseteq ClaimRecords /\ Mine(es, j) = {x} /\ \A i \in Jobs \ {j} : Mine(es, i) = Mine(cs, i)
  <2>1. cs \subseteq ClaimRecords /\ Mine(cs, j) = {c}
    BY <1>3 DEF Custody
  <2> HIDE DEF j, x
  <2>2. c.job = j
    BY DEF j
  <2> QED BY <1>2, <2>1, <2>2 DEF Mine
<1>5. /\ d.job[j].state = "waiting" /\ c.list \in BOOLEAN /\ ~Begun(c)
      /\ InNoLine(d, j) /\ j \notin d.scheduled /\ (c.list <=> j \notin Members(d.pel))
      /\ Counts(d, cs, j) <=> c.list
  <2>1. Activatable(d, j)
    BY DEF Outcome
  <2> QED BY <2>1, ClaimState DEF Activatable, Begun
<1>6. ~Outranked(d, c)
  BY DEF Outcome
<1> HIDE DEF x, es, j
<1>7. /\ e \in Db(conf) /\ Tidy(e) /\ e.job[j].state = "active" /\ (e.job[j].listed <=> c.list)
      /\ \A i \in Jobs \ {j} : e.job[i] = d.job[i]
      /\ e.priority = d.priority /\ e.lifo = d.lifo /\ e.stream = d.stream /\ e.pel = d.pel
      /\ e.scheduled = d.scheduled /\ e.count = d.count /\ e.paused = d.paused
      /\ e.ids = IF c.list THEN d.ids \cup {j} ELSE d.ids
  <2>1. d \in Db(conf) /\ Tidy(d) /\ c \in ClaimRecords /\ e = Begins(d, c) /\ c.job = j
    BY <1>1, <1>3 DEF j, Begins
  <2> HIDE DEF e
  <2>2. OthersSame(d, e, j)
    BY <2>1, StartedFacts
  <2>3. /\ e \in Db(conf) /\ Tidy(e) /\ e.job[j].state = "active" /\ (e.job[j].listed <=> c.list)
        /\ e.priority = d.priority /\ e.lifo = d.lifo /\ e.stream = d.stream /\ e.pel = d.pel
        /\ e.scheduled = d.scheduled /\ e.count = d.count /\ e.paused = d.paused
    BY <2>1, StartedFacts
  <2>4. (c.list => e.ids = d.ids \cup {j}) /\ (~c.list => e.ids = d.ids)
    BY <2>1, StartedFacts
  <2> QED BY <2>2, <2>3, <2>4 DEF OthersSame
<1> HIDE DEF e
<1>8. \A i \in Jobs \ {j} : SameJob(d, e, i) /\ Mine(es, i) = Mine(cs, i)
  BY <1>4, <1>7 DEF SameJob
<1>9. JobFits(e, es, j)
  BY <1>2, <1>4, <1>5, <1>7 DEF JobFits, Agree, InNoLine
<1>10. Counts(e, es, j) => Counts(d, cs, j)
  BY <1>2, <1>4, <1>5, <1>7 DEF Counts, Begun
<1>11. j \in Listed(e) => j \in e.ids
  BY <1>7 DEF Listed
<1>12. Capped(conf, d) => Capped(conf, e)
  <2> SUFFICES ASSUME Capped(conf, d), conf.cap > 0, NEW k \in 1..Len(d.pel), e.job[d.pel[k]].state = "active"
               PROVE  k + d.count <= conf.cap
    BY <1>7 DEF Capped
  <2>1. d.pel[k] \in Jobs /\ Distinct(d.pel) /\ Len(d.pel) \in Nat /\ d.count \in Int
    BY <1>3 DEF Db, Tidy
  <2>2. CASE d.pel[k] /= j
    BY <1>7, <2>1, <2>2 DEF Capped
  <2>3. CASE d.pel[k] = j
    <3>1. ~c.list
      BY <1>5, <2>3 DEF Members
    <3>2. PICK i \in 1..Len(d.pel) : d.pel[i] = j /\ i <= conf.cap - d.count
      BY <1>6, <3>1 DEF Outranked, j
    <3>3. i = k
      BY <2>1, <2>3, <3>2 DEF Distinct
    <3>4. conf.cap \in Nat
      BY ConfFacts
    <3> QED BY <2>1, <3>2, <3>3, <3>4
  <2> QED BY <2>2, <2>3
<1>13. HasPlace(e, es, j)
  BY <1>4 DEF HasPlace
<1>14. d.ids \subseteq e.ids
  BY <1>7
<1>15. Onward(d, cs, e, es)
  BY <1>3, <1>4, <1>7, <1>8, <1>9, <1>10, <1>11, <1>12, <1>13, <1>14, Taken
<1> QED BY <1>15 DEF e, es, x, j

LEMMA ActivateOnward ==
  ASSUME Custody(conf, db, claims), NEW c \in claims, Activate(c)
  PROVE  Onward(db, claims, db', claims')
<1>1. c.at = "claimed"
  BY DEF Activate
<1>2. CASE Refuse(c)
  BY <1>1, <1>2, RefuseOnward
<1>3. CASE Outcome(db, c) \in {"revoked", "returning"} /\ Step(c, Outcome(db, c)) /\ UNCHANGED db
  <2> DEFINE at == Outcome(db, c)
  <2>1. at \in {"revoked", "returning"} /\ db' = db /\ claims' = (claims \ {c}) \cup {[c EXCEPT !.at = at]}
    BY <1>3 DEF Step
  <2>2. db.job[c.job].state = "waiting" /\ ~Begun(c)
    <3>1. Activatable(db, c.job)
      BY <1>3 DEF Outcome
    <3> QED BY <1>1, <3>1, ClaimState DEF Activatable, Begun
  <2> HIDE DEF at
  <2>3. at \in {"release", "returning", "revoked", "aborting"} /\ at /= "release" /\ at /= "aborting"
    BY <2>1
  <2>4. Onward(db, claims, db, (claims \ {c}) \cup {[c EXCEPT !.at = at]})
    BY <2>1, <2>2, <2>3, StepOnward
  <2> QED BY <2>1, <2>4
<1>4. CASE Outcome(db, c) = "running" /\ db' = Started(db, c.job, c.list) /\ Step(c, "running")
  BY <1>1, <1>4, StartOnward DEF Step
<1> QED BY <1>2, <1>3, <1>4 DEF Activate

(* The first job of a line: nobody has it. *)
LEMMA HeadFacts ==
  ASSUME NEW d, NEW cs, Custody(conf, d, cs), NEW j \in Jobs,
         j \in Members(d.priority) \/ j \in Members(d.lifo) \/ j \in Members(d.stream)
  PROVE  /\ d.job[j].state = "waiting" /\ Mine(cs, j) = {} /\ j \notin Members(d.pel) /\ j \notin d.scheduled
         /\ InOneLine(d, j) /\ ~Counts(d, cs, j)
<1>1. JobFits(d, cs, j)
  BY JobFacts
<1> QED BY <1>1 DEF JobFits, Agree, InOneLine, Counts

Pended(d) == [d EXCEPT !.stream = Tail(@), !.pel = Append(@, Head(d.stream))]

LEMMA PendedFacts ==
  ASSUME NEW d, NEW cs, Custody(conf, d, cs), d.stream /= <<>>
  PROVE  LET j == Head(d.stream)
             e == Pended(d)
         IN  /\ j \in Jobs /\ j \in Members(d.stream)
             /\ e \in Db(conf) /\ Tidy(e) /\ e.job = d.job /\ e.priority = d.priority /\ e.lifo = d.lifo
             /\ e.scheduled = d.scheduled /\ e.count = d.count /\ e.ids = d.ids /\ e.paused = d.paused
             /\ j \notin Members(e.stream) /\ j \in Members(e.pel)
             /\ \A i \in Jobs \ {j} : SameJob(d, e, i)
             /\ Len(e.pel) = Len(d.pel) + 1 /\ e.pel[Len(d.pel) + 1] = j
             /\ \A k \in 1..Len(d.pel) : e.pel[k] = d.pel[k]
<1> DEFINE j == Head(d.stream)
           e == Pended(d)
<1>1. d \in Db(conf) /\ Tidy(d)
  BY DEF Custody
<1>2. d.stream \in Seq(Jobs) /\ d.pel \in Seq(Jobs) /\ Distinct(d.stream) /\ Distinct(d.pel)
  BY <1>1 DEF Db, Tidy
<1>3. /\ j \in Members(d.stream) /\ Tail(d.stream) \in Seq(Jobs) /\ Distinct(Tail(d.stream))
      /\ Members(Tail(d.stream)) = Members(d.stream) \ {j}
  BY <1>2, TailMembers
<1>4. j \in Jobs
  BY <1>2, <1>3, MembersOf
<1>5. j \notin Members(d.pel)
  BY <1>3, <1>4, HeadFacts
<1>6. e = [d EXCEPT !.stream = Tail(d.stream), !.pel = Append(d.pel, j)]
  BY DEF Pended
<1> DEFINE t == Append(d.pel, j)
           u == Tail(d.stream)
<1> HIDE DEF j
<1>7. /\ t \in Seq(Jobs) /\ Len(t) = Len(d.pel) + 1 /\ Members(t) = Members(d.pel) \cup {j} /\ Distinct(t)
      /\ \A i \in 1..Len(d.pel) : t[i] = d.pel[i]
      /\ t[Len(d.pel) + 1] = j
  BY <1>2, <1>4, <1>5, AppendMembers
<1>8. u \in Seq(Jobs) /\ Distinct(u) /\ Members(u) = Members(d.stream) \ {j}
  BY <1>3
<1>9. e = [d EXCEPT !.stream = u, !.pel = t]
  BY <1>6
<1> HIDE DEF e, t, u
<1>10. /\ e \in Db(conf) /\ e.job = d.job /\ e.priority = d.priority /\ e.lifo = d.lifo
       /\ e.scheduled = d.scheduled /\ e.count = d.count /\ e.ids = d.ids /\ e.paused = d.paused
       /\ e.stream = u /\ e.pel = t
  BY <1>1, <1>7, <1>8, <1>9 DEF Db
<1>11. Tidy(e)
  BY <1>1, <1>7, <1>8, <1>10 DEF Tidy
<1>12. j \notin Members(e.stream) /\ j \in Members(e.pel) /\ \A i \in Jobs \ {j} : SameJob(d, e, i)
  BY <1>7, <1>8, <1>10 DEF SameJob
<1> QED BY <1>3, <1>4, <1>7, <1>10, <1>11, <1>12 DEF e, j

LEMMA PendOnward ==
  ASSUME NEW d, NEW cs, Custody(conf, d, cs), d.stream /= <<>>, NEW w \in Workers, NEW at \in {"claimed", "revoked"}
  PROVE  Onward(d, cs, Pended(d), cs \cup {Claim(w, Head(d.stream), FALSE, at)})
<1> DEFINE j == Head(d.stream)
           x == Claim(w, j, FALSE, at)
           es == cs \cup {x}
           e == Pended(d)
<1>1. /\ j \in Jobs /\ j \in Members(d.stream)
      /\ e \in Db(conf) /\ Tidy(e) /\ e.job = d.job /\ e.priority = d.priority /\ e.lifo = d.lifo
      /\ e.scheduled = d.scheduled /\ e.count = d.count /\ e.ids = d.ids
      /\ j \notin Members(e.stream) /\ j \in Members(e.pel)
      /\ \A i \in Jobs \ {j} : SameJob(d, e, i)
      /\ Len(e.pel) = Len(d.pel) + 1 /\ e.pel[Len(d.pel) + 1] = j
      /\ \A k \in 1..Len(d.pel) : e.pel[k] = d.pel[k]
  BY PendedFacts
<1> HIDE DEF e, j
<1>2. /\ d.job[j].state = "waiting" /\ Mine(cs, j) = {} /\ j \notin d.scheduled
      /\ InOneLine(d, j) /\ ~Counts(d, cs, j)
  BY <1>1, HeadFacts
<1>3. /\ x \in ClaimRecords /\ x.job = j /\ ~x.list /\ x.at = at
      /\ es \subseteq ClaimRecords /\ Mine(es, j) = {x}
      /\ \A i \in Jobs \ {j} : Mine(es, i) = Mine(cs, i)
  <2>1. j \in Jobs /\ x \in ClaimRecords /\ x.job = j /\ ~x.list /\ x.at = at
    <3>1. j \in Jobs
      BY <1>1
    <3> QED BY <3>1 DEF Claim, ClaimRecords
  <2>2. Mine(cs, j) = {}
    BY <1>2
  <2>3. cs \subseteq ClaimRecords
    BY DEF Custody
  <2> HIDE DEF x
  <2>4. /\ es \subseteq ClaimRecords /\ Mine(es, j) = {x}
        /\ \A i \in Jobs \ {j} : Mine(es, i) = Mine(cs, i)
    BY <2>1, <2>2, <2>3 DEF Mine
  <2> QED BY <2>1, <2>4
<1> HIDE DEF x, es
<1>4. JobFits(e, es, j)
  BY <1>1, <1>2, <1>3 DEF JobFits, Agree, InOneLine
<1>5. ~Counts(e, es, j) /\ j \notin Listed(e) /\ HasPlace(e, es, j)
  BY <1>1, <1>2, <1>3 DEF Counts, Listed, HasPlace
<1>6. Capped(conf, d) => Capped(conf, e)
  <2>1. Len(d.pel) \in Nat
    BY DEF Custody, Db
  <2>2. \A k \in 1..Len(e.pel) : e.job[e.pel[k]].state = "active" => k \in 1..Len(d.pel) /\ e.pel[k] = d.pel[k]
    BY <1>1, <1>2, <2>1
  <2> QED BY <1>1, <2>2 DEF Capped
<1>7. Onward(d, cs, e, es)
  BY <1>1, <1>3, <1>4, <1>5, <1>6, Taken
<1> QED BY <1>7 DEF e, es, x, j

LEMMA ReadOnward ==
  ASSUME Custody(conf, db, claims), NEW w \in Workers, Read(w)
  PROVE  Onward(db, claims, db', claims')
<1>1. /\ db.stream /= <<>> /\ db' = Pended(db)
      /\ claims' = claims \cup {Claim(w, Head(db.stream), FALSE, "claimed")}
  BY DEF Read, Pended
<1> QED BY <1>1, PendOnward

(* A chained call starts the oldest stream job. *)
LEMMA StreamStartOnward ==
  ASSUME NEW d, NEW cs, Custody(conf, d, cs), d.stream /= <<>>, ~Full(d), NEW w \in Workers
  PROVE  LET j == Head(d.stream)
         IN  Onward(d, cs, Started(Pended(d), j, FALSE), cs \cup {Claim(w, j, FALSE, "running")})
<1> DEFINE j == Head(d.stream)
           x == Claim(w, j, FALSE, "running")
           es == cs \cup {x}
           f == Pended(d)
           e == Started(f, x.job, x.list)
<1>1. /\ j \in Jobs /\ j \in Members(d.stream)
      /\ f \in Db(conf) /\ Tidy(f) /\ f.job = d.job /\ f.priority = d.priority /\ f.lifo = d.lifo
      /\ f.scheduled = d.scheduled /\ f.count = d.count /\ f.ids = d.ids
      /\ j \notin Members(f.stream) /\ j \in Members(f.pel)
      /\ \A i \in Jobs \ {j} : SameJob(d, f, i)
      /\ Len(f.pel) = Len(d.pel) + 1 /\ f.pel[Len(d.pel) + 1] = j
      /\ \A k \in 1..Len(d.pel) : f.pel[k] = d.pel[k]
  BY PendedFacts
<1> HIDE DEF f, j
<1>2. /\ d.job[j].state = "waiting" /\ Mine(cs, j) = {} /\ j \notin d.scheduled
      /\ InOneLine(d, j) /\ ~Counts(d, cs, j)
  BY <1>1, HeadFacts
<1>3. /\ x \in ClaimRecords /\ x.job = j /\ x.list = FALSE /\ x.at = "running"
      /\ es \subseteq ClaimRecords /\ Mine(es, j) = {x}
      /\ \A i \in Jobs \ {j} : Mine(es, i) = Mine(cs, i)
  <2>1. j \in Jobs /\ x \in ClaimRecords /\ x.job = j /\ x.list = FALSE /\ x.at = "running"
    <3>1. j \in Jobs
      BY <1>1
    <3> QED BY <3>1 DEF Claim, ClaimRecords
  <2>2. Mine(cs, j) = {}
    BY <1>2
  <2>3. cs \subseteq ClaimRecords
    BY DEF Custody
  <2> HIDE DEF x
  <2>4. /\ es \subseteq ClaimRecords /\ Mine(es, j) = {x}
        /\ \A i \in Jobs \ {j} : Mine(es, i) = Mine(cs, i)
    BY <2>1, <2>2, <2>3 DEF Mine
  <2> QED BY <2>1, <2>4
<1> HIDE DEF x
<1>4. /\ e \in Db(conf) /\ Tidy(e) /\ e.job[j].state = "active" /\ ~e.job[j].listed
      /\ \A i \in Jobs \ {j} : e.job[i] = f.job[i]
      /\ e.priority = f.priority /\ e.lifo = f.lifo /\ e.stream = f.stream /\ e.pel = f.pel
      /\ e.scheduled = f.scheduled /\ e.count = f.count /\ e.ids = f.ids
  <2>1. f \in Db(conf) /\ Tidy(f) /\ e = Begins(f, x) /\ x \in ClaimRecords
    BY <1>1, <1>3 DEF Begins
  <2> HIDE DEF e
  <2>2. /\ e \in Db(conf) /\ Tidy(e) /\ e.job[x.job].state = "active" /\ (e.job[x.job].listed <=> x.list)
        /\ \A i \in Jobs \ {x.job} : e.job[i] = f.job[i]
        /\ e.priority = f.priority /\ e.lifo = f.lifo /\ e.stream = f.stream /\ e.pel = f.pel
        /\ e.scheduled = f.scheduled /\ e.count = f.count /\ e.ids = IF x.list THEN f.ids \cup {x.job} ELSE f.ids
    <3>1. OthersSame(f, e, x.job)
      BY <2>1, StartedFacts
    <3>2. /\ e \in Db(conf) /\ Tidy(e) /\ e.job[x.job].state = "active" /\ (e.job[x.job].listed <=> x.list)
          /\ e.priority = f.priority /\ e.lifo = f.lifo /\ e.stream = f.stream /\ e.pel = f.pel
          /\ e.scheduled = f.scheduled /\ e.count = f.count
      BY <2>1, StartedFacts
    <3>3. (x.list => e.ids = f.ids \cup {x.job}) /\ (~x.list => e.ids = f.ids)
      BY <2>1, StartedFacts
    <3> QED BY <3>1, <3>2, <3>3 DEF OthersSame
  <2>3. x.job = j /\ ~x.list
    BY <1>3
  <2> QED BY <2>2, <2>3
<1>e. e = Started(f, j, FALSE)
  BY <1>3
<1> HIDE DEF e, es
<1>5. \A i \in Jobs \ {j} : SameJob(d, e, i)
  BY <1>1, <1>4 DEF SameJob
<1>6. JobFits(e, es, j)
  BY <1>1, <1>2, <1>3, <1>4 DEF JobFits, Agree, InOneLine
<1>7. ~Counts(e, es, j) /\ j \notin Listed(e) /\ HasPlace(e, es, j)
  BY <1>1, <1>2, <1>3, <1>4 DEF Counts, Listed, HasPlace
<1>8. ASSUME Capped(conf, d) PROVE Capped(conf, e)
  <2> SUFFICES ASSUME conf.cap > 0, NEW k \in 1..Len(e.pel), e.job[e.pel[k]].state = "active"
               PROVE  k + d.count <= conf.cap
    BY <1>1, <1>4, <1>8 DEF Capped
  <2>1. Len(d.pel) \in Nat /\ d.count \in Int /\ conf.cap \in Nat
    <3>1. conf.cap \in Nat
      BY ConfFacts
    <3> QED BY <3>1 DEF Custody, Db
  <2>2. CASE k \in 1..Len(d.pel)
    <3>1. e.pel[k] = d.pel[k] /\ d.pel[k] \in Jobs
      BY <1>1, <1>4, <2>2 DEF Custody, Db
    <3>2. CASE d.pel[k] /= j
      BY <1>1, <1>4, <1>8, <2>2, <3>1, <3>2 DEF Capped
    <3>3. CASE d.pel[k] = j
      BY <1>1, <2>2, <3>3, HeadFacts DEF Members
    <3> QED BY <3>2, <3>3
  <2>3. CASE k = Len(d.pel) + 1
    BY <2>1, <2>3 DEF Full, Room
  <2> QED BY <1>1, <1>4, <2>1, <2>2, <2>3
<1>9. e.count = d.count /\ e.ids = d.ids
  BY <1>1, <1>4
<1>10. Onward(d, cs, e, es)
  BY <1>1, <1>3, <1>4, <1>5, <1>6, <1>7, <1>8, <1>9, Taken
<1>11. Onward(d, cs, Started(f, j, FALSE), es)
  BY <1>10, <1>e
<1> QED BY <1>11 DEF f, es, x, j

Lines == {"priority", "lifo", "stream"}

(* A line is cut. *)
Cut(d, line, t) == [d EXCEPT ![line] = t]

LEMMA LineFacts ==
  ASSUME NEW p, NEW d \in Db(p), Tidy(d), NEW line \in Lines, NEW t \in Seq(Jobs), Distinct(t)
  PROVE  LET e == Cut(d, line, t)
         IN  /\ e \in Db(p) /\ Tidy(e) /\ e[line] = t
             /\ e.priority = IF line = "priority" THEN t ELSE d.priority
             /\ e.lifo     = IF line = "lifo" THEN t ELSE d.lifo
             /\ e.stream   = IF line = "stream" THEN t ELSE d.stream
             /\ e.job = d.job /\ e.pel = d.pel /\ e.scheduled = d.scheduled /\ e.count = d.count
             /\ e.ids = d.ids /\ e.paused = d.paused
<1> DEFINE e == Cut(d, line, t)
<1>1. CASE line = "priority"
  <2>1. e = [d EXCEPT !.priority = t]
    BY <1>1 DEF Cut
  <2> HIDE DEF e
  <2>2. /\ e \in Db(p) /\ e.priority = t /\ e.lifo = d.lifo /\ e.stream = d.stream
        /\ e.job = d.job /\ e.pel = d.pel /\ e.scheduled = d.scheduled /\ e.count = d.count
        /\ e.ids = d.ids /\ e.paused = d.paused
    BY <2>1 DEF Db
  <2>3. Tidy(e)
    BY <2>2 DEF Tidy
  <2> QED BY <1>1, <2>2, <2>3 DEF e
<1>2. CASE line = "lifo"
  <2>1. e = [d EXCEPT !.lifo = t]
    BY <1>2 DEF Cut
  <2> HIDE DEF e
  <2>2. /\ e \in Db(p) /\ e.priority = d.priority /\ e.lifo = t /\ e.stream = d.stream
        /\ e.job = d.job /\ e.pel = d.pel /\ e.scheduled = d.scheduled /\ e.count = d.count
        /\ e.ids = d.ids /\ e.paused = d.paused
    BY <2>1 DEF Db
  <2>3. Tidy(e)
    BY <2>2 DEF Tidy
  <2> QED BY <1>2, <2>2, <2>3 DEF e
<1>3. CASE line = "stream"
  <2>1. e = [d EXCEPT !.stream = t]
    BY <1>3 DEF Cut
  <2> HIDE DEF e
  <2>2. /\ e \in Db(p) /\ e.priority = d.priority /\ e.lifo = d.lifo /\ e.stream = t
        /\ e.job = d.job /\ e.pel = d.pel /\ e.scheduled = d.scheduled /\ e.count = d.count
        /\ e.ids = d.ids /\ e.paused = d.paused
    BY <2>1 DEF Db
  <2>3. Tidy(e)
    BY <2>2 DEF Tidy
  <2> QED BY <1>3, <2>2, <2>3 DEF e
<1> QED BY <1>1, <1>2, <1>3 DEF Lines

(* The jobs P are taken from a line. *)
Loose(d, cs, e, i) ==
  /\ i \in Jobs /\ InNoLine(e, i) /\ i \notin Members(e.pel) /\ i \notin e.scheduled
  /\ e.job[i].state = "waiting" /\ Mine(cs, i) = {} /\ ~Counts(d, cs, i)

LEMMA CutFacts ==
  ASSUME NEW d, NEW cs, Custody(conf, d, cs), NEW line \in Lines, NEW t \in Seq(Jobs), Distinct(t),
         NEW P, P \subseteq Members(d[line]), Members(t) = Members(d[line]) \ P
  PROVE  LET e == Cut(d, line, t)
         IN  /\ e \in Db(conf) /\ Tidy(e) /\ e[line] = t
             /\ e.job = d.job /\ e.pel = d.pel /\ e.scheduled = d.scheduled /\ e.count = d.count
             /\ e.ids = d.ids /\ e.paused = d.paused
             /\ line = "stream" => e.priority = d.priority /\ e.lifo = d.lifo
             /\ line /= "stream" => e.stream = d.stream
             /\ \A i \in Jobs \ P : SameJob(d, e, i)
             /\ \A i \in P : Loose(d, cs, e, i)
<1> DEFINE e == Cut(d, line, t)
<1>1. d \in Db(conf) /\ Tidy(d)
  BY DEF Custody
<1>2. /\ e \in Db(conf) /\ Tidy(e) /\ e[line] = t
      /\ e.priority = IF line = "priority" THEN t ELSE d.priority
      /\ e.lifo     = IF line = "lifo" THEN t ELSE d.lifo
      /\ e.stream   = IF line = "stream" THEN t ELSE d.stream
      /\ e.job = d.job /\ e.pel = d.pel /\ e.scheduled = d.scheduled /\ e.count = d.count
      /\ e.ids = d.ids /\ e.paused = d.paused
  BY <1>1, LineFacts
<1> HIDE DEF e
<1>3. /\ d["priority"] = d.priority /\ d["lifo"] = d.lifo /\ d["stream"] = d.stream
      /\ d.priority \in Seq(Jobs) /\ d.lifo \in Seq(Jobs) /\ d.stream \in Seq(Jobs)
  BY <1>1, DbFacts
<1>4. line \in {"priority", "lifo", "stream"}
  BY DEF Lines
<1>5. \A i \in Jobs \ P : SameJob(d, e, i)
  <2>1. CASE line = "priority"
    BY <1>2, <1>3, <2>1 DEF SameJob
  <2>2. CASE line = "lifo"
    BY <1>2, <1>3, <2>2 DEF SameJob
  <2>3. CASE line = "stream"
    BY <1>2, <1>3, <2>3 DEF SameJob
  <2> QED BY <1>4, <2>1, <2>2, <2>3
<1>6. ASSUME NEW i \in P PROVE Loose(d, cs, e, i)
  <2>1. d[line] \in Seq(Jobs) /\ i \in Members(d[line]) /\ i \notin Members(t)
    BY <1>3, <1>4
  <2>2. i \in Jobs
    BY <2>1, MembersOf
  <2>3. i \in Members(d.priority) \/ i \in Members(d.lifo) \/ i \in Members(d.stream)
    BY <1>3, <1>4, <2>1
  <2>4. /\ d.job[i].state = "waiting" /\ Mine(cs, i) = {} /\ i \notin Members(d.pel) /\ i \notin d.scheduled
        /\ InOneLine(d, i) /\ ~Counts(d, cs, i)
    BY <2>2, <2>3, HeadFacts
  <2>5. InNoLine(e, i)
    <3>1. CASE line = "priority"
      BY <1>2, <1>3, <2>1, <2>4, <3>1 DEF InNoLine, InOneLine
    <3>2. CASE line = "lifo"
      BY <1>2, <1>3, <2>1, <2>4, <3>2 DEF InNoLine, InOneLine
    <3>3. CASE line = "stream"
      BY <1>2, <1>3, <2>1, <2>4, <3>3 DEF InNoLine, InOneLine
    <3> QED BY <1>4, <3>1, <3>2, <3>3
  <2> QED BY <1>2, <2>2, <2>4, <2>5 DEF Loose
<1>7. /\ line = "stream" => e.priority = d.priority /\ e.lifo = d.lifo
      /\ line /= "stream" => e.stream = d.stream
  BY <1>2, <1>4
<1> QED BY <1>2, <1>5, <1>6, <1>7 DEF e

LEMMA IncrFacts ==
  ASSUME NEW p, NEW d \in Db(p), Tidy(d), NEW js \in SUBSET Jobs
  PROVE  LET e == IncrListActive(d, js)
         IN  /\ e \in Db(p) /\ Tidy(e) /\ e.count = d.count + Cardinality(js) /\ e.ids = d.ids \cup js
             /\ Cardinality(js) \in Nat
             /\ e.job = d.job /\ e.priority = d.priority /\ e.lifo = d.lifo /\ e.stream = d.stream /\ e.pel = d.pel
             /\ e.scheduled = d.scheduled /\ e.paused = d.paused
<1> DEFINE e == IncrListActive(d, js)
           n == d.count + Cardinality(js)
           A == d.ids \cup js
<1>1. Cardinality(js) \in Nat
  BY JobsAssumption, FS_Subset, FS_CardinalityType
<1>2. n \in Int /\ A \in SUBSET Jobs
  BY <1>1 DEF Db
<1>3. e = [d EXCEPT !.count = n, !.ids = A]
  BY DEF IncrListActive
<1> HIDE DEF e, n, A
<1>4. /\ e \in Db(p) /\ e.count = n /\ e.ids = A
      /\ e.job = d.job /\ e.priority = d.priority /\ e.lifo = d.lifo /\ e.stream = d.stream /\ e.pel = d.pel
      /\ e.scheduled = d.scheduled /\ e.paused = d.paused
  BY <1>2, <1>3 DEF Db
<1>5. Tidy(e)
  BY <1>4 DEF Tidy
<1> QED BY <1>1, <1>4, <1>5 DEF e, n, A

(* A chained call starts the first job of a list. *)
LEMMA ListStartOnward ==
  ASSUME NEW d, NEW cs, Custody(conf, d, cs), NEW line \in {"priority", "lifo"}, d[line] /= <<>>, ~Full(d), NEW w \in Workers
  PROVE  LET j == Head(d[line])
         IN  Onward(d, cs, IncrListActive(Started([d EXCEPT ![line] = Tail(@)], j, TRUE), {j}),
                    cs \cup {Claim(w, j, TRUE, "running")})
<1> DEFINE s == d[line]
           j == Head(s)
           t == Tail(s)
           x == Claim(w, j, TRUE, "running")
           es == cs \cup {x}
           f == Cut(d, line, t)
           g == Begins(f, x)
           e == IncrListActive(g, {j})
<1>1. d \in Db(conf) /\ Tidy(d) /\ line \in Lines
  BY DEF Custody, Lines
<1>2. s \in Seq(Jobs) /\ Distinct(s) /\ s /= <<>>
  <2>1. d["priority"] = d.priority /\ d["lifo"] = d.lifo
    BY <1>1 DEF Db
  <2> QED BY <1>1, <2>1, DbFacts
<1>3. f = [d EXCEPT ![line] = Tail(@)]
  BY DEF Cut
<1> HIDE DEF s
<1>4. j \in Members(s) /\ t \in Seq(Jobs) /\ Distinct(t) /\ Members(t) = Members(s) \ {j}
  BY <1>2, TailMembers
<1> HIDE DEF j, t, f
<1>5. /\ f \in Db(conf) /\ Tidy(f)
      /\ f.job = d.job /\ f.pel = d.pel /\ f.scheduled = d.scheduled /\ f.count = d.count /\ f.ids = d.ids
      /\ \A i \in Jobs \ {j} : SameJob(d, f, i)
      /\ j \in Jobs /\ InNoLine(f, j) /\ j \notin Members(f.pel) /\ j \notin f.scheduled
      /\ f.job[j].state = "waiting" /\ Mine(cs, j) = {} /\ ~Counts(d, cs, j)
  <2> DEFINE P == {j}
  <2>1. P \subseteq Members(d[line]) /\ Members(t) = Members(d[line]) \ P /\ j \in P
    BY <1>4 DEF s
  <2>2. t \in Seq(Jobs) /\ Distinct(t) /\ f = Cut(d, line, t)
    BY <1>4 DEF f
  <2> HIDE DEF P
  <2>3. \A i \in Jobs \ P : SameJob(d, f, i)
    BY <1>1, <2>1, <2>2, CutFacts
  <2>4. /\ f \in Db(conf) /\ Tidy(f)
        /\ f.job = d.job /\ f.pel = d.pel /\ f.scheduled = d.scheduled /\ f.count = d.count /\ f.ids = d.ids
    BY <1>1, <2>1, <2>2, CutFacts
  <2>5. \A i \in P : Loose(d, cs, f, i)
    BY <1>1, <2>1, <2>2, CutFacts
  <2>6. Loose(d, cs, f, j)
    BY <2>1, <2>5
  <2> QED BY <2>3, <2>4, <2>6 DEF P, Loose
<1>6. /\ x \in ClaimRecords /\ x.job = j /\ x.list = TRUE /\ x.at = "running"
      /\ es \subseteq ClaimRecords /\ Mine(es, j) = {x}
      /\ \A i \in Jobs \ {j} : Mine(es, i) = Mine(cs, i)
  <2>1. j \in Jobs /\ x \in ClaimRecords /\ x.job = j /\ x.list = TRUE /\ x.at = "running"
    <3>1. j \in Jobs
      BY <1>5
    <3> QED BY <3>1 DEF Claim, ClaimRecords
  <2>2. Mine(cs, j) = {}
    BY <1>5
  <2>3. cs \subseteq ClaimRecords
    BY DEF Custody
  <2> HIDE DEF x
  <2>4. /\ es \subseteq ClaimRecords /\ Mine(es, j) = {x}
        /\ \A i \in Jobs \ {j} : Mine(es, i) = Mine(cs, i)
    BY <2>1, <2>2, <2>3 DEF Mine
  <2> QED BY <2>1, <2>4
<1> HIDE DEF x
<1>7. /\ g \in Db(conf) /\ Tidy(g) /\ g.job[j].state = "active" /\ g.job[j].listed
      /\ \A i \in Jobs \ {j} : g.job[i] = f.job[i]
      /\ g.priority = f.priority /\ g.lifo = f.lifo /\ g.stream = f.stream /\ g.pel = f.pel
      /\ g.scheduled = f.scheduled /\ g.count = f.count /\ g.ids = f.ids \cup {j}
  <2>1. f \in Db(conf) /\ Tidy(f) /\ x \in ClaimRecords /\ g = Begins(f, x)
    BY <1>5, <1>6
  <2> HIDE DEF g
  <2>2. OthersSame(f, g, x.job)
    BY <2>1, StartedFacts
  <2>3. g \in Db(conf) /\ Tidy(g) /\ g.job[x.job].state = "active" /\ (g.job[x.job].listed <=> x.list)
    BY <2>1, StartedFacts
  <2>4. /\ g.priority = f.priority /\ g.lifo = f.lifo /\ g.stream = f.stream /\ g.pel = f.pel
        /\ g.scheduled = f.scheduled /\ g.count = f.count
    BY <2>1, StartedFacts
  <2>5. x.list => g.ids = f.ids \cup {x.job}
    BY <2>1, StartedFacts
  <2>6. x.job = j /\ x.list
    BY <1>6
  <2> QED BY <2>2, <2>3, <2>4, <2>5, <2>6 DEF OthersSame
<1>g. g = Started(f, j, TRUE)
  BY <1>6 DEF Begins
<1> HIDE DEF g, es
<1>8. /\ e \in Db(conf) /\ Tidy(e) /\ e.count = g.count + 1 /\ e.ids = g.ids \cup {j}
      /\ e.job = g.job /\ e.priority = g.priority /\ e.lifo = g.lifo /\ e.stream = g.stream /\ e.pel = g.pel
      /\ e.scheduled = g.scheduled
  <2>1. {j} \in SUBSET Jobs /\ Cardinality({j}) = 1
    BY <1>5, FS_Singleton
  <2> QED BY <1>7, <2>1, IncrFacts
<1> HIDE DEF e
<1>9. \A i \in Jobs \ {j} : SameJob(d, e, i)
  BY <1>5, <1>7, <1>8 DEF SameJob
<1>10. JobFits(e, es, j)
  BY <1>5, <1>6, <1>7, <1>8 DEF JobFits, Agree, InNoLine
<1>11. HasPlace(e, es, j) /\ e.count = d.count + 1 /\ d.ids \subseteq e.ids /\ j \in e.ids
  BY <1>5, <1>6, <1>7, <1>8 DEF HasPlace
<1>12. ASSUME Capped(conf, d) PROVE Capped(conf, e)
  <2>1. Len(d.pel) \in Nat /\ d.count \in Int /\ conf.cap \in Nat
    <3>1. conf.cap \in Nat
      BY ConfFacts
    <3> QED BY <1>1, <3>1 DEF Db
  <2>2. conf.cap > 0 => Len(d.pel) + d.count + 1 <= conf.cap
    BY <2>1 DEF Full, Room
  <2>3. e.pel = d.pel
    BY <1>5, <1>7, <1>8
  <2> QED BY <1>11, <2>1, <2>2, <2>3 DEF Capped
<1>13. Onward(d, cs, e, es)
  BY <1>5, <1>6, <1>8, <1>9, <1>10, <1>11, <1>12, Taken
<1>14. Onward(d, cs, IncrListActive(Started(f, j, TRUE), {j}), es)
  BY <1>13, <1>g DEF e
<1> QED BY <1>3, <1>14 DEF es, x, j, s

(* A worker's claims are finitely many: no job has two. *)
LEMMA ClaimsFinite ==
  ASSUME NEW d, NEW cs, Custody(conf, d, cs)
  PROVE  IsFiniteSet(cs)
<1> DEFINE f == [c \in cs |-> c.job]
<1>1. f \in [cs -> Jobs]
  BY DEF Custody, ClaimRecords
<1>2. ASSUME NEW a \in cs, NEW b \in cs, f[a] = f[b] PROVE a = b
  <2>1. a.job = b.job /\ a.job \in Jobs
    BY <1>1, <1>2
  <2>2. Mine(cs, a.job) = {a} /\ b \in Mine(cs, a.job)
    BY <2>1, MineOne DEF Mine
  <2> QED BY <2>2
<1>3. f \in Injection(cs, Jobs)
  BY <1>1, <1>2 DEF Injection, IsInjective
<1> QED BY <1>3, JobsAssumption, FS_Injection

LEMMA PoppedFacts ==
  ASSUME Custody(conf, db, claims), NEW w \in Workers, NEW line \in {"priority", "lifo"}
  PROVE  LET n == Popped(w, line)
         IN  n > 0 => n \in 1..Len(db[line]) /\ (conf.cap > 0 => n <= Room(db))
<1>1. IsFiniteSet(HeldBy(w))
  BY ClaimsFinite, FS_Subset DEF HeldBy
<1>2. Free(w) \in Int
  BY <1>1, FS_CardinalityType, ConfFacts DEF Free
<1>3. Len(db[line]) \in Nat /\ Room(db) \in Int
  <2>1. db["priority"] \in Seq(Jobs) /\ db["lifo"] \in Seq(Jobs) /\ Len(db.pel) \in Nat /\ db.count \in Int
    BY DEF Custody, Db
  <2>2. conf.cap \in Nat
    BY ConfFacts
  <2>3. Len(db["priority"]) \in Nat /\ Len(db["lifo"]) \in Nat
    BY <2>1
  <2> QED BY <2>1, <2>2, <2>3 DEF Room
<1> QED BY <1>2, <1>3 DEF Popped, Lesser

(* The first n of a line are n jobs at most. *)
LEMMA PrefixSize ==
  ASSUME NEW S, NEW s \in Seq(S), NEW n \in 0..Len(s)
  PROVE  LET js == {s[i] : i \in 1..n}
         IN  IsFiniteSet(js) /\ Cardinality(js) <= n /\ Cardinality(js) \in Nat
<1> DEFINE js == {s[i] : i \in 1..n}
           f == [i \in 1..n |-> s[i]]
<1>1. f \in Surjection(1..n, js)
  BY DEF Surjection
<1>2. n \in Nat
  OBVIOUS
<1>3. IsFiniteSet(1..n) /\ Cardinality(1..n) = n
  <2>1. 1 \in Int /\ n \in Int /\ (1 > n => n = 0) /\ n - 1 + 1 = n
    BY <1>2
  <2> QED BY <2>1, FS_Interval
<1> HIDE DEF js, f
<1>4. IsFiniteSet(js) /\ Cardinality(js) <= Cardinality(1..n)
  BY <1>1, <1>3, FS_Surjection
<1>5. Cardinality(js) \in Nat
  BY <1>4, FS_CardinalityType
<1> QED BY <1>3, <1>4, <1>5 DEF js

Reserved(w, j) == Claim(w, j, TRUE, "claimed")
ReservedClaims(w, js) == {Reserved(w, j) : j \in js}

LEMMA ReservedFacts ==
  ASSUME NEW cs, cs \subseteq ClaimRecords, NEW w \in Workers, NEW js \in SUBSET Jobs
  PROVE  LET es == cs \cup ReservedClaims(w, js)
         IN  /\ es \subseteq ClaimRecords
             /\ \A i \in Jobs \ js : Mine(es, i) = Mine(cs, i)
             /\ \A i \in js : Mine(cs, i) = {} => Mine(es, i) = {Reserved(w, i)}
<1>1. ASSUME NEW j \in Jobs
      PROVE  LET x == Reserved(w, j)
             IN  x \in ClaimRecords /\ x.job = j /\ x.list = TRUE /\ x.at = "claimed"
  BY DEF Reserved, Claim, ClaimRecords
<1>2. ReservedClaims(w, js) \subseteq ClaimRecords
  BY <1>1 DEF ReservedClaims
<1>3. \A x \in ReservedClaims(w, js) : x.job \in js /\ x = Reserved(w, x.job)
  BY <1>1 DEF ReservedClaims
<1>4. \A j \in js : Reserved(w, j) \in ReservedClaims(w, js)
  BY DEF ReservedClaims
<1>5. ASSUME NEW i \in Jobs \ js PROVE Mine(cs \cup ReservedClaims(w, js), i) = Mine(cs, i)
  BY <1>3 DEF Mine
<1>6. ASSUME NEW i \in js, Mine(cs, i) = {}
      PROVE  Mine(cs \cup ReservedClaims(w, js), i) = {Reserved(w, i)}
  <2>1. \A x \in cs : x.job /= i
    BY <1>6 DEF Mine
  <2>2. \A x \in Mine(cs \cup ReservedClaims(w, js), i) : x = Reserved(w, i)
    BY <1>3, <2>1 DEF Mine
  <2>3. Reserved(w, i) \in Mine(cs \cup ReservedClaims(w, js), i)
    BY <1>1, <1>4 DEF Mine
  <2> QED BY <2>2, <2>3
<1> QED BY <1>2, <1>5, <1>6

LEMMA ReserveOnward ==
  ASSUME Custody(conf, db, claims), NEW w \in Workers, NEW line \in {"priority", "lifo"}, Reserve(w, line)
  PROVE  Onward(db, claims, db', claims')
<1> DEFINE s == db[line]
           n == Popped(w, line)
           js == Members(SubSeq(s, 1, n))
           t == SubSeq(s, n + 1, Len(s))
           f == Cut(db, line, t)
<1>1. db \in Db(conf) /\ Tidy(db) /\ line \in Lines /\ claims \subseteq ClaimRecords
  BY DEF Custody, Lines
<1>2. s \in Seq(Jobs) /\ Distinct(s)
  <2>1. db["priority"] = db.priority /\ db["lifo"] = db.lifo
    BY <1>1 DEF Db
  <2> QED BY <1>1, <2>1, DbFacts
<1>3. n \in 1..Len(s) /\ (conf.cap > 0 => n <= Room(db))
  BY PoppedFacts DEF Reserve
<1>4. /\ db' = IncrListActive([db EXCEPT ![line] = SubSeq(@, n + 1, Len(@))], js)
      /\ claims' = claims \cup ReservedClaims(w, js)
  BY DEF Reserve, ReservedClaims, Reserved
<1>5. db' = IncrListActive(f, js)
  BY <1>4 DEF Cut
<1> DEFINE e == db'
           es == claims'
<1> HIDE DEF n, s
<1>6. n \in 0..Len(s)
  BY <1>2, <1>3
<1>7. /\ t \in Seq(Jobs) /\ Distinct(t)
      /\ js = {s[i] : i \in 1..n} /\ js \subseteq Members(s) /\ Members(t) = Members(s) \ js
  BY <1>2, <1>6, SuffixMembers
<1>8. js \in SUBSET Jobs
  BY <1>2, <1>7, MembersOf
<1>9. IsFiniteSet(js) /\ Cardinality(js) <= n /\ Cardinality(js) \in Nat
  <2> DEFINE K == {s[i] : i \in 1..n}
  <2>1. IsFiniteSet(K) /\ Cardinality(K) <= n /\ Cardinality(K) \in Nat
    BY <1>2, <1>6, PrefixSize
  <2>2. js = K
    BY <1>7
  <2> HIDE DEF K, js
  <2> QED BY <2>1, <2>2
<1> HIDE DEF js, t, f
<1>10. /\ f \in Db(conf) /\ Tidy(f)
       /\ f.job = db.job /\ f.pel = db.pel /\ f.scheduled = db.scheduled /\ f.count = db.count /\ f.ids = db.ids
  BY <1>1, <1>7, CutFacts DEF s, f
<1>11. \A i \in Jobs \ js : SameJob(db, f, i)
  BY <1>1, <1>7, CutFacts DEF s, f
<1>12. \A i \in js : Loose(db, claims, f, i)
  BY <1>1, <1>7, CutFacts DEF s, f
<1>13. /\ e \in Db(conf) /\ Tidy(e) /\ e.count = f.count + Cardinality(js) /\ e.ids = f.ids \cup js
       /\ e.job = f.job /\ e.priority = f.priority /\ e.lifo = f.lifo /\ e.stream = f.stream /\ e.pel = f.pel
       /\ e.scheduled = f.scheduled
  BY <1>5, <1>8, <1>10, IncrFacts
<1>14. /\ es \subseteq ClaimRecords
       /\ \A i \in Jobs \ js : Mine(es, i) = Mine(claims, i)
       /\ \A i \in js : Mine(claims, i) = {} => Mine(es, i) = {Reserved(w, i)}
  <2> DEFINE as == claims \cup ReservedClaims(w, js)
  <2>1. /\ as \subseteq ClaimRecords
        /\ \A i \in Jobs \ js : Mine(as, i) = Mine(claims, i)
        /\ \A i \in js : Mine(claims, i) = {} => Mine(as, i) = {Reserved(w, i)}
    BY <1>1, <1>8, ReservedFacts
  <2>2. es = as
    BY <1>4
  <2> HIDE DEF as, es
  <2> QED BY <2>1, <2>2
<1> HIDE DEF e, es
<1>15. \A i \in Jobs \ js : SameJob(db, e, i)
  BY <1>11, <1>13 DEF SameJob
<1>16. ASSUME NEW i \in js
       PROVE  JobFits(e, es, i) /\ HasPlace(e, es, i)
  <2>1. Loose(db, claims, f, i)
    BY <1>12
  <2>2. Mine(es, i) = {Reserved(w, i)}
    BY <1>14, <2>1 DEF Loose
  <2> DEFINE x == Reserved(w, i)
  <2>3. x.job = i /\ x.list = TRUE /\ x.at = "claimed" /\ Mine(es, i) = {x}
    BY <2>2 DEF Claim, Reserved
  <2> HIDE DEF x
  <2> QED BY <1>13, <2>1, <2>3 DEF JobFits, Agree, InNoLine, Loose, HasPlace
<1>17. \A i \in Jobs \ js : /\ JobFits(db, claims, i) => JobFits(e, es, i)
                            /\ Counts(e, es, i) <=> Counts(db, claims, i)
                            /\ HasPlace(e, es, i) <=> HasPlace(db, claims, i)
  BY <1>14, <1>15, SteadyJob
<1>18. Custody(conf, e, es)
  <2>1. conf \in Profiles /\ \A i \in Jobs : JobFits(db, claims, i)
    BY DEF Custody
  <2>2. \A i \in Jobs : JobFits(e, es, i)
    BY <1>16, <1>17, <2>1
  <2> QED BY <1>13, <1>14, <2>1, <2>2 DEF Custody
<1>19. db.count \in Int /\ Len(db.pel) \in Nat /\ conf.cap \in Nat
  <2>1. conf.cap \in Nat
    BY ConfFacts
  <2> QED BY <1>1, <2>1 DEF Db
<1>20. ASSUME Covered(db, claims) PROVE Covered(e, es)
  <2> DEFINE A == Counted(db, claims)
             B == Counted(e, es)
  <2>1. B \subseteq A \cup js
    BY <1>17 DEF Counted
  <2>2. IsFiniteSet(A) /\ Cardinality(A) \in Nat /\ Cardinality(A) <= db.count
    BY <1>20, CountedFinite DEF Covered
  <2>3. IsFiniteSet(B) /\ Cardinality(B) \in Nat
    BY CountedFinite
  <2>4. Listed(e) \subseteq e.ids
    <3>1. Listed(e) = Listed(db)
      BY <1>10, <1>13 DEF Listed
    <3> QED BY <1>10, <1>13, <1>20, <3>1 DEF Covered
  <2> HIDE DEF A, B
  <2>5. /\ IsFiniteSet(A \cup js)
        /\ Cardinality(A \cup js) = Cardinality(A) + Cardinality(js) - Cardinality(A \cap js)
    BY <1>9, <2>2, FS_Union
  <2>6. Cardinality(A \cap js) \in Nat
    BY <2>2, FS_Subset, FS_CardinalityType
  <2>7. Cardinality(B) <= Cardinality(A \cup js)
    BY <2>1, <2>5, FS_Subset
  <2>8. Cardinality(B) <= e.count
    BY <1>9, <1>10, <1>13, <1>19, <2>2, <2>3, <2>5, <2>6, <2>7
  <2> QED BY <2>4, <2>8 DEF Covered, B
<1>21. ASSUME Capped(conf, db) PROVE Capped(conf, e)
  <2>1. conf.cap > 0 => Len(db.pel) + db.count + Cardinality(js) <= conf.cap
    <3>1. n \in Nat /\ (conf.cap > 0 => n <= conf.cap - Len(db.pel) - db.count)
      BY <1>2, <1>3 DEF Room
    <3> QED BY <1>9, <1>19, <3>1
  <2>2. e.pel = db.pel /\ e.count = db.count + Cardinality(js)
    BY <1>10, <1>13
  <2> QED BY <1>9, <1>19, <2>1, <2>2 DEF Capped
<1>22. ASSUME Kept(db, claims) PROVE Kept(e, es)
  <2>1. \A i \in Jobs : db.job[i].state = "waiting" => HasPlace(db, claims, i)
    BY <1>22 DEF Kept, HasPlace
  <2>2. \A i \in Jobs : e.job[i].state = "waiting" => HasPlace(e, es, i)
    BY <1>10, <1>13, <1>16, <1>17, <2>1
  <2> QED BY <2>2 DEF Kept, HasPlace
<1>23. Onward(db, claims, e, es)
  BY <1>18, <1>20, <1>21, <1>22 DEF Onward
<1> QED BY <1>23 DEF e, es

-----------------------------------------------------------------------------
(* Chained calls                                                              *)

LEMMA PassedFacts ==
  ASSUME NEW s \in Seq(Jobs), NEW S
  PROVE  LET n == Passed(s, S)
         IN  /\ n \in 0..Len(s) /\ n \in 0..Tries(s)
             /\ n < Tries(s) => n < Len(s) /\ s[n + 1] \in S
             /\ \A i \in 1..n : s[i] \notin S
<1> DEFINE T == Tries(s)
           Stops(n) == (n < T => s[n + 1] \in S) /\ \A i \in 1..n : s[i] \notin S
<1>1. Len(s) \in Nat /\ T \in 0..3 /\ T <= Len(s)
  <2> DEFINE l == Len(s)
  <2>1. l \in Nat /\ T = IF 3 < l THEN 3 ELSE l
    BY DEF Tries, Lesser
  <2> HIDE DEF l, T
  <2>2. T \in 0..3 /\ T <= l
    BY <2>1
  <2> QED BY <2>1, <2>2 DEF l
<1>2. \E n \in 0..T : Stops(n)
  <2> HIDE DEF T
  <2>1. CASE T = 0
    <3>1. 0 \in 0..T /\ Stops(0)
      BY <2>1
    <3> QED BY <3>1
  <2>2. CASE T > 0 /\ s[1] \in S
    <3>1. 0 \in 0..T /\ Stops(0)
      BY <1>1, <2>2
    <3> QED BY <3>1
  <2>3. CASE T = 1 /\ s[1] \notin S
    <3>1. 1 \in 0..T /\ Stops(1)
      BY <2>3
    <3> QED BY <3>1
  <2>4. CASE T > 1 /\ s[1] \notin S /\ s[2] \in S
    <3>1. 1 \in 0..T /\ Stops(1)
      BY <1>1, <2>4
    <3> QED BY <3>1
  <2>5. CASE T = 2 /\ s[1] \notin S /\ s[2] \notin S
    <3>1. 2 \in 0..T /\ Stops(2)
      BY <2>5
    <3> QED BY <3>1
  <2>6. CASE T > 2 /\ s[1] \notin S /\ s[2] \notin S /\ s[3] \in S
    <3>1. 2 \in 0..T /\ Stops(2)
      BY <1>1, <2>6
    <3> QED BY <3>1
  <2>7. CASE T = 3 /\ s[1] \notin S /\ s[2] \notin S /\ s[3] \notin S
    <3>1. 3 \in 0..T /\ Stops(3)
      BY <2>7
    <3> QED BY <3>1
  <2>8. T = 0 \/ T = 1 \/ T = 2 \/ T = 3
    BY <1>1
  <2> QED BY <2>1, <2>2, <2>3, <2>4, <2>5, <2>6, <2>7, <2>8
<1>3. Passed(s, S) = CHOOSE n \in 0..T : Stops(n)
  BY DEF Passed
<1> HIDE DEF Stops, T
<1>4. Passed(s, S) \in 0..T /\ Stops(Passed(s, S))
  BY <1>2, <1>3
<1> QED BY <1>1, <1>4 DEF Stops, T

(* No revoked job waits in a list. *)
Unrevoked(d) == \A j \in Members(d.priority) \cup Members(d.lifo) : ~d.job[j].revoked

LEMMA ExpiredFacts ==
  ASSUME NEW p, NEW d \in Db(p), Tidy(d), NEW js
  PROVE  LET e == Expired(d, js)
         IN  /\ e \in Db(p) /\ Tidy(e)
             /\ \A i \in Jobs \ js : e.job[i] = d.job[i]
             /\ \A i \in Jobs \cap js : d.job[i].state = "waiting" =>
                   IF d.job[i].revoked THEN e.job[i].state = "waiting" ELSE e.job[i].state = "failed"
             /\ e.priority = d.priority /\ e.lifo = d.lifo /\ e.stream = d.stream /\ e.pel = d.pel
             /\ e.scheduled = d.scheduled /\ e.count = d.count /\ e.ids = d.ids /\ e.paused = d.paused
<1> DEFINE e == Expired(d, js)
           J == [j \in Jobs |->
                  IF j \in js /\ Activatable(d, j) /\ ~d.job[j].revoked THEN [d.job[j] EXCEPT !.state = "failed"]
                                                                        ELSE d.job[j]]
<1>1. \A j \in Jobs : d.job[j] \in Hash(p)
  BY DEF Db
<1>2. ASSUME NEW j \in Jobs
      PROVE  [d.job[j] EXCEPT !.state = "failed"] \in Hash(p) /\ [d.job[j] EXCEPT !.state = "failed"].state = "failed"
  BY <1>1 DEF Hash, States
<1>3. J \in [Jobs -> Hash(p)]
  BY <1>1, <1>2
<1>4. e = [d EXCEPT !.job = J]
  BY DEF Expired
<1>5. \A i \in Jobs \ js : J[i] = d.job[i]
  OBVIOUS
<1>6. \A i \in Jobs \cap js : d.job[i].state = "waiting" =>
        IF d.job[i].revoked THEN J[i].state = "waiting" ELSE J[i].state = "failed"
  BY <1>2 DEF Activatable
<1> HIDE DEF e, J
<1>7. /\ e \in Db(p) /\ e.job = J
      /\ e.priority = d.priority /\ e.lifo = d.lifo /\ e.stream = d.stream /\ e.pel = d.pel
      /\ e.scheduled = d.scheduled /\ e.count = d.count /\ e.ids = d.ids /\ e.paused = d.paused
  BY <1>3, <1>4 DEF Db
<1>8. Tidy(e)
  BY <1>7 DEF Tidy
<1> QED BY <1>5, <1>6, <1>7, <1>8 DEF e

(* What a phase of a chained call passes over. *)
Firsts(s, n) == {s[i] : i \in 1..n}

(* A job that was passed over. *)
PassedOver(d, cs, e, i) ==
  /\ i \in Jobs /\ InNoLine(e, i) /\ i \notin Members(e.pel) /\ i \notin e.scheduled
  /\ IF d.job[i].revoked THEN e.job[i].state = "waiting" ELSE e.job[i].state = "failed"
  /\ Mine(cs, i) = {} /\ ~Counts(d, cs, i) /\ d.job[i].state = "waiting"

LEMMA SkippedFacts ==
  ASSUME NEW d, NEW cs, Custody(conf, d, cs), NEW line \in Lines, NEW n \in 0..Len(d[line])
  PROVE  LET e  == Skipped(d, line, n)
             js == Firsts(d[line], n)
             t  == SubSeq(d[line], n + 1, Len(d[line]))
         IN  /\ e \in Db(conf) /\ Tidy(e) /\ e[line] = t
             /\ n < Len(d[line]) => t /= <<>> /\ Head(t) = d[line][n + 1] /\ d[line][n + 1] \in Jobs \ js
             /\ e.pel = d.pel /\ e.scheduled = d.scheduled /\ e.count = d.count /\ e.ids = d.ids /\ e.paused = d.paused
             /\ \A i \in Jobs \ js : SameJob(d, e, i) /\ e.job[i] = d.job[i]
             /\ \A i \in js : PassedOver(d, cs, e, i)
             /\ js \subseteq Members(d[line])
             /\ line = "stream" => e.priority = d.priority /\ e.lifo = d.lifo
             /\ line /= "stream" => e.stream = d.stream
<1> DEFINE s  == d[line]
           js == Members(SubSeq(s, 1, n))
           t  == SubSeq(s, n + 1, Len(s))
           g  == Expired(d, js)
           f  == Cut(d, line, t)
           e  == Skipped(d, line, n)
<1>1. d \in Db(conf) /\ Tidy(d)
  BY DEF Custody
<1>2. s \in Seq(Jobs) /\ Distinct(s) /\ Len(s) \in Nat
  <2>1. d["priority"] = d.priority /\ d["lifo"] = d.lifo /\ d["stream"] = d.stream
    BY <1>1 DEF Db
  <2>2. s \in Seq(Jobs) /\ Distinct(s)
    BY <1>1, <2>1, DbFacts DEF Lines
  <2> HIDE DEF s
  <2> QED BY <2>2
<1>3. n \in 0..Len(s)
  OBVIOUS
<1>4. g[line] = s /\ e = Cut(g, line, t)
  <2>1. g[line] = d[line]
    <3>1. g = [d EXCEPT !.job = g.job]
      BY <1>1 DEF Expired, Db
    <3> HIDE DEF g
    <3>2. g["priority"] = d["priority"] /\ g["lifo"] = d["lifo"] /\ g["stream"] = d["stream"]
      BY <1>1, <3>1 DEF Db
    <3> QED BY <3>2 DEF Lines
  <2>2. e = [g EXCEPT ![line] = SubSeq(@, n + 1, Len(@))]
    BY DEF Skipped
  <2> HIDE DEF g, e
  <2> QED BY <2>1, <2>2 DEF Cut
<1> HIDE DEF s
<1>5. /\ t \in Seq(Jobs) /\ Distinct(t)
      /\ js = {s[i] : i \in 1..n} /\ js \subseteq Members(s) /\ Members(t) = Members(s) \ js
      /\ n < Len(s) => t /= <<>> /\ Head(t) = s[n + 1]
  BY <1>2, <1>3, SuffixMembers
<1>6. n < Len(s) => s[n + 1] \in Jobs \ js
  <2> SUFFICES ASSUME n < Len(s) PROVE s[n + 1] \in Jobs \ js
    OBVIOUS
  <2>1. n + 1 \in 1..Len(s) /\ n \in Nat
    BY <1>2, <1>3
  <2>2. \A i \in 1..n : i \in 1..Len(s) /\ i /= n + 1
    BY <1>2, <1>3
  <2>3. \A i \in 1..n : s[i] /= s[n + 1]
    BY <1>2, <2>1, <2>2 DEF Distinct
  <2>4. s[n + 1] \in Jobs
    BY <1>2, <2>1
  <2> QED BY <1>5, <2>3, <2>4
<1> HIDE DEF js, t
<1>7. /\ g \in Db(conf) /\ Tidy(g)
      /\ \A i \in Jobs \ js : g.job[i] = d.job[i]
      /\ \A i \in Jobs \cap js : d.job[i].state = "waiting" =>
            IF d.job[i].revoked THEN g.job[i].state = "waiting" ELSE g.job[i].state = "failed"
      /\ g.priority = d.priority /\ g.lifo = d.lifo /\ g.stream = d.stream /\ g.pel = d.pel
      /\ g.scheduled = d.scheduled /\ g.count = d.count /\ g.ids = d.ids /\ g.paused = d.paused
  BY <1>1, ExpiredFacts
<1> HIDE DEF g, f, e
<1>8. /\ e \in Db(conf) /\ Tidy(e) /\ e[line] = t
      /\ e.priority = IF line = "priority" THEN t ELSE d.priority
      /\ e.lifo     = IF line = "lifo" THEN t ELSE d.lifo
      /\ e.stream   = IF line = "stream" THEN t ELSE d.stream
      /\ e.job = g.job /\ e.pel = d.pel /\ e.scheduled = d.scheduled /\ e.count = d.count
      /\ e.ids = d.ids /\ e.paused = d.paused
  <2> DEFINE h == Cut(g, line, t)
  <2>1. /\ h \in Db(conf) /\ Tidy(h) /\ h[line] = t
        /\ h.priority = IF line = "priority" THEN t ELSE g.priority
        /\ h.lifo     = IF line = "lifo" THEN t ELSE g.lifo
        /\ h.stream   = IF line = "stream" THEN t ELSE g.stream
        /\ h.job = g.job /\ h.pel = g.pel /\ h.scheduled = g.scheduled /\ h.count = g.count
        /\ h.ids = g.ids /\ h.paused = g.paused
    BY <1>5, <1>7, LineFacts
  <2>2. e = h
    BY <1>4
  <2> HIDE DEF h
  <2> QED BY <1>7, <2>1, <2>2
<1>9. /\ f.priority = IF line = "priority" THEN t ELSE d.priority
      /\ f.lifo     = IF line = "lifo" THEN t ELSE d.lifo
      /\ f.stream   = IF line = "stream" THEN t ELSE d.stream
      /\ f.job = d.job /\ f.pel = d.pel /\ f.scheduled = d.scheduled
  <2> DEFINE h == Cut(d, line, t)
  <2>1. /\ h.priority = IF line = "priority" THEN t ELSE d.priority
        /\ h.lifo     = IF line = "lifo" THEN t ELSE d.lifo
        /\ h.stream   = IF line = "stream" THEN t ELSE d.stream
        /\ h.job = d.job /\ h.pel = d.pel /\ h.scheduled = d.scheduled
    <3>1. d \in Db(conf) /\ Tidy(d) /\ t \in Seq(Jobs) /\ Distinct(t)
      BY <1>1, <1>5
    <3>2. /\ h.priority = IF line = "priority" THEN t ELSE d.priority
          /\ h.lifo     = IF line = "lifo" THEN t ELSE d.lifo
      BY <3>1, LineFacts
    <3>3. h.stream   = IF line = "stream" THEN t ELSE d.stream
      BY <3>1, LineFacts
    <3>4. h.job = d.job /\ h.pel = d.pel /\ h.scheduled = d.scheduled
      BY <3>1, LineFacts
    <3> QED BY <3>2, <3>3, <3>4
  <2>2. f = h
    BY DEF f
  <2> HIDE DEF h
  <2> QED BY <2>1, <2>2
<1>10. \A i \in Jobs \ js : SameJob(d, f, i)
  BY <1>5, CutFacts DEF f, s
<1>11. \A i \in js : Loose(d, cs, f, i)
  BY <1>5, CutFacts DEF f, s
<1>12. e.priority = f.priority /\ e.lifo = f.lifo /\ e.stream = f.stream /\ e.pel = f.pel /\ e.scheduled = f.scheduled
  BY <1>8, <1>9
<1>13. \A i \in Jobs \ js : SameJob(d, e, i) /\ e.job[i] = d.job[i]
  BY <1>7, <1>8, <1>9, <1>10, <1>12 DEF SameJob
<1>14. ASSUME NEW i \in js PROVE PassedOver(d, cs, e, i)
  <2>1. Loose(d, cs, f, i)
    BY <1>11
  <2>2. i \in Jobs \cap js /\ d.job[i].state = "waiting"
    BY <1>9, <2>1 DEF Loose
  <2>3. IF d.job[i].revoked THEN e.job[i].state = "waiting" ELSE e.job[i].state = "failed"
    BY <1>7, <1>8, <2>2
  <2>4. /\ InNoLine(e, i) /\ i \notin Members(e.pel) /\ i \notin e.scheduled /\ Mine(cs, i) = {} /\ ~Counts(d, cs, i)
    BY <1>12, <2>1 DEF Loose, InNoLine
  <2> QED BY <2>2, <2>3, <2>4 DEF PassedOver
<1>15. /\ line = "stream" => e.priority = d.priority /\ e.lifo = d.lifo
       /\ line /= "stream" => e.stream = d.stream
  BY <1>8
<1>16. /\ n < Len(s) => t /= <<>> /\ Head(t) = s[n + 1] /\ s[n + 1] \in Jobs \ js
       /\ js \subseteq Members(s)
  BY <1>5, <1>6
<1>17. js = Firsts(s, n)
  BY <1>5 DEF Firsts
<1> QED BY <1>8, <1>13, <1>14, <1>15, <1>16, <1>17 DEF e, t, s

LEMMA SkippedOnward ==
  ASSUME NEW d, NEW cs, Custody(conf, d, cs), NEW line \in Lines, NEW n \in 0..Len(d[line]),
         Drops \/ \A i \in Firsts(d[line], n) : ~d.job[i].revoked
  PROVE  LET e == Skipped(d, line, n)
         IN  /\ Onward(d, cs, e, cs) /\ (Full(e) <=> Full(d))
             /\ Unrevoked(d) => Unrevoked(e)
<1> DEFINE e  == Skipped(d, line, n)
           js == Firsts(d[line], n)
<1>1. /\ e \in Db(conf) /\ Tidy(e)
      /\ e.pel = d.pel /\ e.scheduled = d.scheduled /\ e.count = d.count /\ e.ids = d.ids /\ e.paused = d.paused
  BY SkippedFacts
<1>2. \A i \in Jobs \ js : SameJob(d, e, i) /\ e.job[i] = d.job[i]
  BY SkippedFacts
<1>3. \A i \in js : PassedOver(d, cs, e, i)
  BY SkippedFacts
<1>4. Drops \/ \A i \in js : ~d.job[i].revoked
  OBVIOUS
<1> HIDE DEF e, js
<1>5. \A i \in Jobs \ js : /\ JobFits(d, cs, i) => JobFits(e, cs, i)
                           /\ Counts(e, cs, i) <=> Counts(d, cs, i)
                           /\ HasPlace(e, cs, i) <=> HasPlace(d, cs, i)
  BY <1>2, SteadyJob
<1>6. \A i \in js : /\ i \in Jobs /\ JobFits(e, cs, i) /\ ~Counts(e, cs, i)
                    /\ e.job[i].state \in {"waiting", "failed"} /\ d.job[i].state = "waiting"
                    /\ d.job[i].revoked \/ e.job[i].state = "failed"
  BY <1>3 DEF PassedOver, JobFits, Agree, InNoLine, Counts
<1>7. d.count \in Int /\ d \in Db(conf) /\ conf \in Profiles /\ cs \subseteq ClaimRecords /\ \A i \in Jobs : JobFits(d, cs, i)
  BY DEF Custody, Db
<1>8. Custody(conf, e, cs)
  <2>1. \A i \in Jobs : JobFits(e, cs, i)
    BY <1>5, <1>6, <1>7
  <2> QED BY <1>1, <1>7, <2>1 DEF Custody
<1>9. ASSUME Covered(d, cs) PROVE Covered(e, cs)
  <2>1. Counted(e, cs) \subseteq Counted(d, cs)
    BY <1>5, <1>6 DEF Counted
  <2>2. Cardinality(Counted(e, cs)) <= Cardinality(Counted(d, cs))
    BY <2>1, CountedFinite, FS_Subset
  <2>3. Cardinality(Counted(e, cs)) \in Nat /\ Cardinality(Counted(d, cs)) \in Nat
    BY CountedFinite
  <2>4. Listed(e) \subseteq Listed(d)
    BY <1>2, <1>6 DEF Listed
  <2> QED BY <1>1, <1>7, <1>9, <2>2, <2>3, <2>4 DEF Covered
<1>10. ASSUME Capped(conf, d) PROVE Capped(conf, e)
  <2>1. \A i \in Jobs : e.job[i].state = "active" => d.job[i].state = "active"
    BY <1>2, <1>6
  <2>2. \A k \in 1..Len(d.pel) : d.pel[k] \in Jobs
    BY <1>7 DEF Db
  <2> QED BY <1>1, <1>10, <2>1, <2>2 DEF Capped
<1>11. ASSUME ~Drops, Kept(d, cs) PROVE Kept(e, cs)
  <2>1. \A i \in Jobs : d.job[i].state = "waiting" => HasPlace(d, cs, i)
    BY <1>11 DEF Kept, HasPlace
  <2>2. \A i \in Jobs : e.job[i].state = "waiting" => HasPlace(e, cs, i)
    BY <1>2, <1>4, <1>5, <1>6, <1>11, <2>1
  <2> QED BY <2>2 DEF Kept, HasPlace
<1>12. Onward(d, cs, e, cs)
  BY <1>8, <1>9, <1>10, <1>11 DEF Onward
<1>13. Full(e) <=> Full(d)
  BY <1>1 DEF Full, Room
<1>14. ASSUME Unrevoked(d) PROVE Unrevoked(e)
  <2> SUFFICES ASSUME NEW i \in Members(e.priority) \cup Members(e.lifo) PROVE ~e.job[i].revoked
    BY DEF Unrevoked
  <2>1. i \in Jobs
    BY <1>1, MembersOf DEF Db
  <2>2. i \notin js
    BY <1>3 DEF PassedOver, InNoLine
  <2>3. e.job[i] = d.job[i] /\ i \in Members(d.priority) \cup Members(d.lifo)
    BY <1>2, <2>1, <2>2 DEF SameJob
  <2> QED BY <1>14, <2>3 DEF Unrevoked
<1> QED BY <1>12, <1>13, <1>14 DEF e

(* A phase over a list: what it passes over, and the job it starts. *)
LEMMA FromListOnward ==
  ASSUME NEW d, NEW cs, Custody(conf, d, cs), ~Full(d), Drops \/ Unrevoked(d),
         NEW line \in {"priority", "lifo"}, NEW w \in Workers
  PROVE  LET r == FromList(d, w, line)
         IN  /\ Onward(d, cs, r.db, cs \cup r.got)
             /\ r.got = {} => ~Full(r.db) /\ (Drops \/ Unrevoked(r.db))
<1> DEFINE s == d[line]
           n == Passed(s, Fits(d))
           e == Skipped(d, line, n)
           j == Head(e[line])
           g == IncrListActive(Started([e EXCEPT ![line] = Tail(@)], j, TRUE), {j})
           x == Claim(w, j, TRUE, "running")
<1>1. d \in Db(conf) /\ Tidy(d) /\ line \in Lines
  BY DEF Custody, Lines
<1>2. s \in Seq(Jobs) /\ Members(s) \subseteq Members(d.priority) \cup Members(d.lifo)
  <2>1. d["priority"] = d.priority /\ d["lifo"] = d.lifo
    BY <1>1 DEF Db
  <2>2. s \in Seq(Jobs)
    BY <1>1, <2>1, DbFacts DEF Lines
  <2>3. Members(s) \subseteq Members(d.priority) \cup Members(d.lifo)
    BY <2>1
  <2> QED BY <2>2, <2>3
<1>3. FromList(d, w, line) = IF n < Tries(s) THEN [db |-> g, got |-> {x}] ELSE [db |-> e, got |-> {}]
  BY DEF FromList
<1>4. n \in 0..Len(s) /\ (n < Tries(s) => n < Len(s))
  <2> HIDE DEF s
  <2> QED BY <1>2, PassedFacts
<1>5. Drops \/ \A i \in Firsts(s, n) : ~d.job[i].revoked
  <2>1. Firsts(s, n) \subseteq Members(s)
    <3>1. n \in 0..Len(s) /\ Len(s) \in Nat
      BY <1>2, <1>4
    <3> HIDE DEF n, s
    <3>2. \A i \in 1..n : i \in 1..Len(s)
      BY <3>1
    <3> QED BY <3>2 DEF Firsts, Members
  <2> QED BY <1>2, <2>1 DEF Unrevoked
<1> HIDE DEF n
<1>6. Onward(d, cs, e, cs) /\ (Full(e) <=> Full(d)) /\ (Unrevoked(d) => Unrevoked(e))
  BY <1>1, <1>4, <1>5, SkippedOnward
<1>7. n < Tries(s) => e[line] /= <<>>
  BY <1>1, <1>4, SkippedFacts
<1> HIDE DEF e
<1>8. Custody(conf, e, cs)
  BY <1>6 DEF Onward
<1>9. CASE n < Tries(s)
  <2>1. Onward(e, cs, g, cs \cup {x})
    BY <1>6, <1>7, <1>8, <1>9, ListStartOnward
  <2> HIDE DEF g, x
  <2>2. Onward(d, cs, g, cs \cup {x})
    BY <1>6, <2>1, OnwardTrans
  <2>3. FromList(d, w, line).db = g /\ FromList(d, w, line).got = {x}
    BY <1>3, <1>9
  <2> QED BY <2>2, <2>3
<1>10. CASE ~(n < Tries(s))
  <2>1. FromList(d, w, line).db = e /\ FromList(d, w, line).got = {}
    <3> HIDE DEF g, x
    <3> QED BY <1>3, <1>10
  <2>2. cs \cup {} = cs
    OBVIOUS
  <2> QED BY <1>6, <2>1, <2>2
<1> QED BY <1>9, <1>10

LEMMA FromStreamOnward ==
  ASSUME NEW d, NEW cs, Custody(conf, d, cs), ~Full(d), NEW w \in Workers
  PROVE  LET r == FromStream(d, w)
         IN  Onward(d, cs, r.db, cs \cup r.got)
<1> DEFINE ends == Fits(d) \cup {j \in Jobs : ~Exists(d, j) \/ d.job[j].revoked}
           s == d.stream
           n == Passed(s, ends)
           e == Skipped(d, "stream", n)
           j == Head(e.stream)
           f == [e EXCEPT !.stream = Tail(@), !.pel = Append(@, j)]
<1>1. d \in Db(conf) /\ Tidy(d) /\ "stream" \in Lines /\ s \in Seq(Jobs) /\ s = d["stream"]
  BY DEF Custody, Lines, Db
<1>2. n \in 0..Len(s) /\ n \in 0..Tries(s) /\ (n < Tries(s) => n < Len(s)) /\ \A i \in 1..n : s[i] \notin ends
  <2> HIDE DEF s, ends
  <2> QED BY <1>1, PassedFacts
<1>3. \A i \in Firsts(s, n) : ~d.job[i].revoked
  <2> SUFFICES ASSUME NEW i \in 1..n PROVE ~d.job[s[i]].revoked
    BY DEF Firsts
  <2>1. s[i] \notin ends /\ s[i] \in Jobs
    <3>1. i \in 1..Len(s) /\ Len(s) \in Nat
      <4>1. Len(s) \in Nat
        BY <1>1
      <4> HIDE DEF n, s
      <4> QED BY <1>2, <4>1
    <3> QED BY <1>1, <1>2, <3>1
  <2> QED BY <2>1
<1>4. FromStream(d, w) =
        IF n = Tries(s) THEN [db |-> e, got |-> {}]
        ELSE IF ~Exists(d, j) THEN [db |-> f, got |-> {}]
        ELSE IF d.job[j].revoked THEN [db |-> f, got |-> {Claim(w, j, FALSE, "revoked")}]
        ELSE [db |-> Started(f, j, FALSE), got |-> {Claim(w, j, FALSE, "running")}]
  BY DEF FromStream
<1> HIDE DEF n, ends
<1>5. Onward(d, cs, e, cs) /\ (Full(e) <=> Full(d))
  BY <1>1, <1>2, <1>3, SkippedOnward
<1>6. n < Len(s) => e.stream /= <<>> /\ j = s[n + 1]
  <2>1. n \in 0..Len(d["stream"])
    BY <1>1, <1>2
  <2>2. e["stream"] = SubSeq(s, n + 1, Len(s)) /\ e \in Db(conf)
    BY <1>1, <2>1, SkippedFacts
  <2>3. n < Len(s) => SubSeq(s, n + 1, Len(s)) /= <<>> /\ Head(SubSeq(s, n + 1, Len(s))) = s[n + 1]
    BY <1>1, <2>1, SkippedFacts
  <2> HIDE DEF e, s
  <2>4. e.stream = e["stream"]
    BY <2>2 DEF Db
  <2> QED BY <2>2, <2>3, <2>4
<1> HIDE DEF e
<1>7. Custody(conf, e, cs)
  BY <1>5 DEF Onward
<1>8. CASE n = Tries(s)
  <2>1. FromStream(d, w).db = e /\ FromStream(d, w).got = {}
    <3> HIDE DEF f
    <3> QED BY <1>4, <1>8
  <2>2. cs \cup {} = cs
    OBVIOUS
  <2> QED BY <1>5, <2>1, <2>2
<1>9. CASE n /= Tries(s)
  <2>1. n < Tries(s) /\ n < Len(s)
    <3>1. Len(s) \in Nat
      BY <1>1
    <3>2. Tries(s) \in Nat
      BY <3>1 DEF Tries, Lesser
    <3> QED BY <1>2, <1>9, <3>2
  <2>2. e.stream /= <<>> /\ j = s[n + 1]
    BY <1>6, <2>1
  <2>3. j \in Members(d.stream) /\ j \in Jobs
    <3>1. n + 1 \in 1..Len(s)
      <4>1. Len(s) \in Nat
        BY <1>1
      <4> QED BY <1>2, <2>1, <4>1
    <3> QED BY <1>1, <2>2, <3>1 DEF Members
  <2>4. Exists(d, j)
    BY <2>3, HeadFacts DEF Exists, NoHash
  <2>5. f = Pended(e)
    BY DEF Pended
  <2>6. CASE d.job[j].revoked
    <3>1. FromStream(d, w).db = f /\ FromStream(d, w).got = {Claim(w, j, FALSE, "revoked")}
      <4> HIDE DEF f, j
      <4> QED BY <1>4, <1>9, <2>4, <2>6
    <3>2. Onward(e, cs, Pended(e), cs \cup {Claim(w, j, FALSE, "revoked")})
      BY <1>7, <2>2, PendOnward
    <3> HIDE DEF f, j
    <3> QED BY <1>5, <2>5, <3>1, <3>2, OnwardTrans
  <2>7. CASE ~d.job[j].revoked
    <3> DEFINE h == Started(Pended(e), j, FALSE)
               x == Claim(w, j, FALSE, "running")
               r == FromStream(d, w)
    <3>1. r.db = h /\ r.got = {x}
      <4>1. r = [db |-> Started(f, j, FALSE), got |-> {Claim(w, j, FALSE, "running")}]
        <5> HIDE DEF f, j
        <5> QED BY <1>4, <1>9, <2>4, <2>7
      <4>2. r = [db |-> h, got |-> {x}]
        BY <2>5, <4>1
      <4> HIDE DEF h, x, r
      <4> QED BY <4>2
    <3>2. Onward(e, cs, h, cs \cup {x})
      BY <1>5, <1>7, <2>2, StreamStartOnward
    <3> HIDE DEF h, x, r
    <3>3. Onward(d, cs, h, cs \cup {x})
      BY <1>5, <3>2, OnwardTrans
    <3>4. Onward(d, cs, r.db, cs \cup r.got)
      BY <3>1, <3>3
    <3> QED BY <3>4 DEF r
  <2> QED BY <2>6, <2>7
<1> QED BY <1>8, <1>9

LEMMA NextJobOnward ==
  ASSUME NEW d, NEW cs, Custody(conf, d, cs), Drops \/ Unrevoked(d), NEW w \in Workers
  PROVE  LET r == NextJob(d, w)
         IN  Onward(d, cs, r.db, cs \cup r.got)
<1> DEFINE p == FromList(d, w, "priority")
           l == FromList(p.db, w, "lifo")
           q == FromStream(l.db, w)
           r == NextJob(d, w)
<1>0. cs \cup {} = cs
  OBVIOUS
<1>1. CASE d.paused \/ Full(d)
  <2>1. r.db = d /\ r.got = {}
    BY <1>1 DEF NextJob
  <2> HIDE DEF r
  <2> QED BY <1>0, <2>1, OnwardRefl DEF r
<1>2. CASE ~(d.paused \/ Full(d))
  <2>0. r = IF p.got /= {} THEN p ELSE IF l.got /= {} THEN l ELSE q
    BY <1>2 DEF NextJob
  <2>1. Onward(d, cs, p.db, cs \cup p.got) /\ (p.got = {} => ~Full(p.db) /\ (Drops \/ Unrevoked(p.db)))
    BY <1>2, FromListOnward
  <2> HIDE DEF p, r
  <2>2. CASE p.got /= {}
    BY <2>0, <2>1, <2>2 DEF r
  <2>3. CASE p.got = {}
    <3>1. Onward(d, cs, p.db, cs) /\ ~Full(p.db) /\ (Drops \/ Unrevoked(p.db))
      BY <1>0, <2>1, <2>3
    <3>2. Custody(conf, p.db, cs)
      BY <3>1 DEF Onward
    <3>3. Onward(p.db, cs, l.db, cs \cup l.got) /\ (l.got = {} => ~Full(l.db) /\ (Drops \/ Unrevoked(l.db)))
      BY <3>1, <3>2, FromListOnward
    <3> HIDE DEF l
    <3>4. CASE l.got /= {}
      <4>1. r = l
        BY <2>0, <2>3, <3>4
      <4> QED BY <3>1, <3>3, <4>1, OnwardTrans DEF r
    <3>5. CASE l.got = {}
      <4>1. Onward(p.db, cs, l.db, cs) /\ ~Full(l.db)
        BY <1>0, <3>3, <3>5
      <4>2. Custody(conf, l.db, cs)
        BY <4>1 DEF Onward
      <4>3. Onward(l.db, cs, q.db, cs \cup q.got)
        BY <4>1, <4>2, FromStreamOnward
      <4>4. Onward(d, cs, l.db, cs)
        BY <3>1, <4>1, OnwardTrans
      <4> HIDE DEF q
      <4>5. Onward(d, cs, q.db, cs \cup q.got)
        BY <4>3, <4>4, OnwardTrans
      <4>6. r = q
        BY <2>0, <2>3, <3>5
      <4> QED BY <4>5, <4>6 DEF r
    <3> QED BY <3>4, <3>5
  <2> QED BY <2>2, <2>3
<1> QED BY <1>1, <1>2

-----------------------------------------------------------------------------
(* The end of a processor, and the job it fetches next                         *)

(* e has the lists of d, and all the hashes but that of j. *)
ListsSame(d, e, j) == e.priority = d.priority /\ e.lifo = d.lifo /\ OthersSame(d, e, j)

LEMMA SettleKeeps ==
  ASSUME NEW p, NEW d, NEW f \in Db(p), Tidy(f), NEW j \in Jobs, NEW list \in BOOLEAN, ListsSame(d, f, j)
  PROVE  ListsSame(d, Settle(f, j, list), j)
<1> DEFINE e == Settle(f, j, list)
<1>1. e.job = f.job /\ e.priority = f.priority /\ e.lifo = f.lifo
  BY SettleEffect
<1> HIDE DEF e
<1>2. ListsSame(d, e, j)
  BY <1>1 DEF ListsSame, OthersSame
<1> QED BY <1>2 DEF e

LEMMA UnrevokedKept ==
  ASSUME NEW d, NEW cs, Custody(conf, d, cs), NEW c \in cs, NEW e, ListsSame(d, e, c.job), Unrevoked(d)
  PROVE  Unrevoked(e)
<1>1. c.job \notin Members(d.priority) /\ c.job \notin Members(d.lifo)
  BY ClaimState DEF InNoLine
<1>2. d.priority \in Seq(Jobs) /\ d.lifo \in Seq(Jobs)
  BY DbFacts DEF Custody
<1>3. \A i \in Members(d.priority) \cup Members(d.lifo) : i \in Jobs \ {c.job}
  BY <1>1, <1>2, MembersOf
<1> QED BY <1>3 DEF ListsSame, OthersSame, Unrevoked

LEMMA ForgottenKeeps ==
  ASSUME NEW d, NEW cs, Custody(conf, d, cs), NEW c \in cs
  PROVE  ListsSame(d, Forgotten(d, c.job, c.list), c.job)
<1> DEFINE j == c.job
           e == Forgotten(d, j, c.list)
<1>1. j \in Jobs /\ c.list \in BOOLEAN /\ d \in Db(conf) /\ Tidy(d)
  BY ClaimState DEF Custody
<1>2. e.job = d.job /\ e.priority = d.priority /\ e.lifo = d.lifo
  BY <1>1, ForgottenEffect
<1> HIDE DEF e
<1>3. ListsSame(d, e, j)
  BY <1>2 DEF ListsSame, OthersSame
<1> QED BY <1>3 DEF e

LEMMA BecomesKeeps ==
  ASSUME NEW d, NEW cs, Custody(conf, d, cs), NEW c \in cs, NEW s \in States
  PROVE  ListsSame(d, Settle(Becomes(d, c.job, s), c.job, c.list), c.job)
<1> DEFINE j == c.job
           f == Becomes(d, j, s)
<1>1. j \in Jobs /\ c.list \in BOOLEAN /\ d \in Db(conf) /\ Tidy(d)
  BY ClaimState DEF Custody
<1>2. /\ f \in Db(conf) /\ \A i \in Jobs \ {j} : f.job[i] = d.job[i]
      /\ f.priority = d.priority /\ f.lifo = d.lifo /\ f.stream = d.stream /\ f.pel = d.pel
  BY <1>1, BecomesFacts
<1> HIDE DEF f
<1>3. ListsSame(d, f, j) /\ Tidy(f)
  BY <1>1, <1>2 DEF ListsSame, OthersSame, Tidy
<1>4. ListsSame(d, Settle(f, j, c.list), j)
  BY <1>1, <1>2, <1>3, SettleKeeps
<1> QED BY <1>4 DEF f

LEMMA RetriedKeeps ==
  ASSUME NEW d, NEW cs, Custody(conf, d, cs), NEW c \in cs, d.job[c.job].tries < conf.retries
  PROVE  ListsSame(d, Settle(Retried(d, c.job), c.job, c.list), c.job)
<1> DEFINE j == c.job
           f == Retried(d, j)
<1>1. j \in Jobs /\ c.list \in BOOLEAN /\ d \in Db(conf) /\ Tidy(d)
  BY ClaimState DEF Custody
<1>2. /\ f \in Db(conf) /\ \A i \in Jobs \ {j} : f.job[i] = d.job[i]
      /\ f.priority = d.priority /\ f.lifo = d.lifo /\ f.stream = d.stream /\ f.pel = d.pel
  BY <1>1, RetriedFacts
<1> HIDE DEF f
<1>3. ListsSame(d, f, j) /\ Tidy(f)
  BY <1>1, <1>2 DEF ListsSame, OthersSame, Tidy
<1>4. ListsSame(d, Settle(f, j, c.list), j)
  BY <1>1, <1>2, <1>3, SettleKeeps
<1> QED BY <1>4 DEF f

(* How the processor of c ended. *)
Ending(d, c, e) ==
  \/ e = Complete(d, c.job, c.list)
  \/ e = Fail(d, c.job, c.list)
  \/ e = Retry(d, c.job, c.list) /\ d.job[c.job].tries < conf.retries

LEMMA EndingOnward ==
  ASSUME NEW d, NEW cs, Custody(conf, d, cs), NEW c \in cs, Begun(c), NEW e, Ending(d, c, e)
  PROVE  Onward(d, cs, e, cs \ {c}) /\ (Unrevoked(d) => Unrevoked(e))
<1>1. Onward(d, cs, e, cs \ {c})
  BY CompleteOnward, FailOnward, RetryOnward DEF Ending
<1>2. ListsSame(d, e, c.job)
  <2>1. \/ e = Forgotten(d, c.job, c.list)
        \/ e = Settle(Becomes(d, c.job, "completed"), c.job, c.list)
        \/ e = Settle(Becomes(d, c.job, "failed"), c.job, c.list)
        \/ e = Settle(Retried(d, c.job), c.job, c.list) /\ d.job[c.job].tries < conf.retries
    BY DEF Ending, Complete, Fail, Retry, Retried, Forgotten
  <2>2. "completed" \in States /\ "failed" \in States
    BY DEF States
  <2> QED BY <2>1, <2>2, ForgottenKeeps, BecomesKeeps, RetriedKeeps
<1>3. Unrevoked(d) => Unrevoked(e)
  BY <1>2, UnrevokedKept
<1> QED BY <1>1, <1>3

LEMMA FinishOnward ==
  ASSUME Custody(conf, db, claims), NEW c \in claims, Begun(c), NEW chain \in BOOLEAN, NEW e, Ending(db, c, e),
         Finish(c, e, chain)
  PROVE  Onward(db, claims, db', claims')
<1> DEFINE cs == claims \ {c}
           r  == NextJob(e, c.by)
<1>1. Onward(db, claims, e, cs) /\ (Unrevoked(db) => Unrevoked(e))
  BY EndingOnward
<1>2. CASE ~chain
  <2>1. db' = e /\ claims' = cs \cup {}
    BY <1>2 DEF Finish
  <2> QED BY <1>1, <2>1
<1>3. CASE chain
  <2>1. (RevokedWaits => "revoke" \in Races) /\ db' = r.db /\ claims' = cs \cup r.got
    BY <1>3 DEF Finish
  <2> HIDE DEF cs, r
  <2>2. Drops \/ Unrevoked(e)
    BY <1>1, <2>1 DEF Drops, Unrevoked, RevokedWaits
  <2>3. c.by \in Workers
    BY DEF Custody, ClaimRecords
  <2>4. Custody(conf, e, cs)
    BY <1>1 DEF Onward
  <2>5. Onward(e, cs, r.db, cs \cup r.got)
    BY <2>2, <2>3, <2>4, NextJobOnward DEF r
  <2> QED BY <1>1, <2>1, <2>5, OnwardTrans
<1> QED BY <1>2, <1>3

LEMMA EndJobOnward ==
  ASSUME Custody(conf, db, claims), NEW c \in claims, NEW chain \in BOOLEAN, EndJob(c, chain)
  PROVE  Onward(db, claims, db', claims')
<1>1. Begun(c) /\ c.at = "running"
  BY DEF EndJob, Begun
<1>2. CASE Step(c, "aborting") /\ UNCHANGED db
  <2>1. db' = db /\ claims' = (claims \ {c}) \cup {[c EXCEPT !.at = "aborting"]}
    BY <1>2 DEF Step
  <2>2. db.job[c.job].state \in {"active", "gone"}
    BY <1>1, ClaimState
  <2> QED BY <1>1, <2>1, <2>2, StepOnward
<1>3. CASE Finish(c, Complete(db, c.job, c.list), chain)
  BY <1>1, <1>3, FinishOnward DEF Ending
<1>4. CASE Finish(c, Fail(db, c.job, c.list), chain)
  BY <1>1, <1>4, FinishOnward DEF Ending
<1>5. CASE db.job[c.job].tries < conf.retries /\ Finish(c, Retry(db, c.job, c.list), chain)
  BY <1>1, <1>5, FinishOnward DEF Ending
<1> QED BY <1>2, <1>3, <1>4, <1>5 DEF EndJob

-----------------------------------------------------------------------------
(* The scheduler                                                              *)

LEMMA PromoteOnward ==
  ASSUME Custody(conf, db, claims), NEW j \in Jobs, Promote(j)
  PROVE  Onward(db, claims, db', claims')
<1> DEFINE d == [db EXCEPT !.scheduled = @ \ {j}]
           s == IF db.job[j].late THEN "failed" ELSE "waiting"
           f == Becomes(d, j, s)
<1>1. db \in Db(conf) /\ Tidy(db) /\ JobFits(db, claims, j) /\ claims \subseteq ClaimRecords
  BY JobFacts DEF Custody
<1>2. Mine(claims, j) = {} /\ InNoLine(db, j) /\ j \notin Members(db.pel) /\ db.job[j].state /= "active"
  BY <1>1 DEF Promote, JobFits, Agree, InNoLine
<1>3. claims' = claims
  BY DEF Promote
<1>4. /\ d \in Db(conf) /\ d.job = db.job /\ d.scheduled = db.scheduled \ {j}
      /\ d.priority = db.priority /\ d.lifo = db.lifo /\ d.stream = db.stream /\ d.pel = db.pel
      /\ d.count = db.count /\ d.ids = db.ids
  BY <1>1 DEF Db
<1>5. db' = IF db.job[j].late THEN f ELSE Place(f, j, FALSE)
  BY <1>4 DEF Promote, Wait
<1> HIDE DEF d
<1>6. Effect(conf, db, d, j)
  BY <1>1, <1>4, PlainEffect
<1>7. d \in Db(conf) /\ Tidy(d) /\ s \in States /\ s /= "active"
  BY <1>6 DEF Effect, States
<1>8. /\ f \in Db(conf) /\ f.job[j].state = s /\ \A i \in Jobs \ {j} : f.job[i] = d.job[i]
      /\ f.priority = d.priority /\ f.lifo = d.lifo /\ f.stream = d.stream /\ f.pel = d.pel
      /\ f.scheduled = d.scheduled /\ f.count = d.count /\ f.ids = d.ids
  <2> HIDE DEF s
  <2> QED BY <1>7, BecomesFacts
<1> HIDE DEF f
<1>9. Effect(conf, d, f, j)
  <2> HIDE DEF s
  <2> QED BY <1>7, <1>8, PlainEffect
<1>10. Effect(conf, db, f, j) /\ Tidy(f) /\ InNoLine(f, j)
  <2>1. Effect(conf, db, f, j)
    BY <1>1, <1>6, <1>7, <1>9, EffectTrans
  <2>2. InNoLine(f, j)
    BY <1>2, <1>4, <1>8 DEF InNoLine
  <2> QED BY <2>1, <2>2 DEF Effect
<1>11. CASE db.job[j].late
  <2>1. db' = f /\ f.job[j].state = "failed" /\ j \notin f.scheduled /\ f.count = db.count /\ f.ids = db.ids
        /\ j \notin Members(f.pel)
    BY <1>2, <1>4, <1>5, <1>8, <1>11
  <2> QED BY <1>1, <1>2, <1>3, <1>10, <2>1, Leaves
<1>12. CASE ~db.job[j].late
  <2>1. db' = Place(f, j, FALSE) /\ f.job[j].state = "waiting" /\ j \notin f.scheduled /\ f.count = db.count
        /\ f.ids = db.ids /\ j \notin Members(f.pel)
    BY <1>2, <1>4, <1>5, <1>8, <1>12
  <2>2. /\ Effect(conf, f, db', j) /\ InOneLine(db', j) /\ db'.job = f.job /\ db'.pel = f.pel
        /\ db'.scheduled = f.scheduled /\ db'.count = f.count /\ db'.ids = f.ids
    <3>1. f \in Db(conf) /\ Tidy(f) /\ InNoLine(f, j) /\ LinedUp(f, j, db')
      BY <1>8, <1>10, <2>1 DEF LinedUp
    <3> QED BY <3>1, Placed
  <2>3. Effect(conf, db, db', j)
    BY <1>1, <1>8, <1>10, <2>2, EffectTrans
  <2> QED BY <1>1, <1>2, <1>3, <2>1, <2>2, <2>3, Waits
<1> QED BY <1>11, <1>12

(* The hash of a reclaimed job that may try again. *)
Stalling(d, j) == [d EXCEPT !.job[j].state = "waiting", !.job[j].stalls = @ + 1]

LEMMA StallingFacts ==
  ASSUME NEW d \in Db(conf), Tidy(d), conf.stalls \in Nat, NEW j \in Jobs, d.job[j].stalls /= conf.stalls
  PROVE  LET f == Stalling(d, j)
         IN  /\ Effect(conf, d, f, j) /\ f.job[j].state = "waiting"
             /\ f.priority = d.priority /\ f.lifo = d.lifo /\ f.stream = d.stream /\ f.pel = d.pel
             /\ f.scheduled = d.scheduled /\ f.count = d.count /\ f.ids = d.ids
<1> DEFINE f == Stalling(d, j)
           r == [d.job[j] EXCEPT !.state = "waiting", !.stalls = @ + 1]
<1>1. d.job[j] \in Hash(conf)
  BY DEF Db
<1>2. r \in Hash(conf) /\ r.state = "waiting"
  <2>1. d.job[j].stalls + 1 \in 0..conf.stalls
    BY <1>1 DEF Hash
  <2>2. "waiting" \in States
    BY DEF States
  <2> QED BY <1>1, <2>1, <2>2 DEF Hash
<1>3. f = [d EXCEPT !.job[j] = r]
  BY <1>1 DEF Stalling, Db, Hash
<1> HIDE DEF r
<1> DEFINE g == [d EXCEPT !.job[j] = r]
<1>4. /\ Effect(conf, d, g, j) /\ g.job[j] = r
      /\ g.priority = d.priority /\ g.lifo = d.lifo /\ g.stream = d.stream /\ g.pel = d.pel
      /\ g.scheduled = d.scheduled /\ g.count = d.count /\ g.ids = d.ids
  BY <1>2, HashEffect
<1> HIDE DEF f, g
<1>5. f = g
  BY <1>3 DEF g
<1> QED BY <1>2, <1>4, <1>5 DEF f

(* What a reclaimed job that is in no line becomes, before its claim is settled. *)
LEMMA StalledEffect ==
  ASSUME NEW d \in Db(conf), Tidy(d), conf.stalls \in Nat, NEW j \in Jobs, InNoLine(d, j)
  PROVE  LET e == Stalled(d, j)
         IN  /\ Effect(conf, d, e, j) /\ e.pel = d.pel /\ e.scheduled = d.scheduled /\ e.count = d.count /\ e.ids = d.ids
             /\ \/ e.job[j].state = "failed" /\ InNoLine(e, j)
                \/ e.job[j].state = "waiting" /\ InOneLine(e, j)
<1> DEFINE e == Stalled(d, j)
           f == Stalling(d, j)
           g == Becomes(d, j, "failed")
<1>1. CASE d.job[j].late \/ d.job[j].stalls = conf.stalls
  <2>1. e = g
    BY <1>1 DEF Stalled
  <2>2. "failed" \in States
    BY DEF States
  <2>3. /\ g \in Db(conf) /\ g.job[j].state = "failed" /\ \A i \in Jobs \ {j} : g.job[i] = d.job[i]
        /\ g.priority = d.priority /\ g.lifo = d.lifo /\ g.stream = d.stream /\ g.pel = d.pel
        /\ g.scheduled = d.scheduled /\ g.count = d.count /\ g.ids = d.ids
    BY <2>2, BecomesFacts
  <2> HIDE DEF g, e
  <2>4. Effect(conf, d, g, j)
    BY <2>3, PlainEffect
  <2>5. InNoLine(g, j)
    BY <2>3 DEF InNoLine
  <2> QED BY <2>1, <2>3, <2>4, <2>5 DEF e
<1>2. CASE ~d.job[j].late /\ d.job[j].stalls /= conf.stalls
  <2>1. e = Place(f, j, FALSE)
    BY <1>2 DEF Stalled, Stalling
  <2>2. /\ Effect(conf, d, f, j) /\ f.job[j].state = "waiting"
        /\ f.priority = d.priority /\ f.lifo = d.lifo /\ f.stream = d.stream /\ f.pel = d.pel
        /\ f.scheduled = d.scheduled /\ f.count = d.count /\ f.ids = d.ids
    BY <1>2, StallingFacts
  <2> HIDE DEF f, e
  <2>3. f \in Db(conf) /\ Tidy(f) /\ InNoLine(f, j)
    BY <2>2 DEF Effect, InNoLine
  <2>4. /\ Effect(conf, f, e, j) /\ InOneLine(e, j) /\ e.job = f.job /\ e.pel = f.pel
        /\ e.scheduled = f.scheduled /\ e.count = f.count /\ e.ids = f.ids
    <3>1. LinedUp(f, j, e)
      BY <2>1 DEF LinedUp
    <3> QED BY <2>3, <3>1, Placed
  <2>5. Effect(conf, d, e, j)
    BY <2>2, <2>3, <2>4, EffectTrans
  <2> QED BY <2>2, <2>4, <2>5 DEF e
<1> QED BY <1>1, <1>2

LEMMA ReclaimListJobOnward ==
  ASSUME Custody(conf, db, claims), "hang" \notin Races, NEW j \in Jobs, ReclaimListJob(j)
  PROVE  Onward(db, claims, db', claims')
<1> DEFINE f == Stalled(db, j)
<1>1. db \in Db(conf) /\ Tidy(db) /\ JobFits(db, claims, j) /\ claims \subseteq ClaimRecords
  BY JobFacts DEF Custody
<1>2. j \in Listed(db) /\ db.job[j].state = "active" /\ db.job[j].listed /\ Counts(db, claims, j)
  BY DEF ReclaimListJob, ActiveListIds, Listed, Counts
<1>3. Mine(claims, j) = {}
  <2>1. \A c \in Mine(claims, j) : c \in claims /\ c.job = j /\ Begun(c)
    BY <1>1, <1>2 DEF JobFits, Agree, Begun, Mine
  <2>2. ~\E c \in claims : c.job = j /\ Begun(c)
    BY DEF ReclaimListJob, Silent
  <2> QED BY <2>1, <2>2
<1>4. InNoLine(db, j) /\ j \notin Members(db.pel) /\ j \notin db.scheduled
  BY <1>1, <1>2 DEF JobFits, Agree, InNoLine
<1>5. db' = DecrListActive(f, j) /\ claims' = claims
  BY DEF ReclaimListJob
<1>6. conf.stalls \in Nat
  BY ConfFacts
<1>7. /\ Effect(conf, db, f, j) /\ f.pel = db.pel /\ f.scheduled = db.scheduled /\ f.count = db.count /\ f.ids = db.ids
      /\ \/ f.job[j].state = "failed" /\ InNoLine(f, j)
         \/ f.job[j].state = "waiting" /\ InOneLine(f, j)
  BY <1>1, <1>4, <1>6, StalledEffect
<1> HIDE DEF f
<1>8. f \in Db(conf) /\ Tidy(f)
  BY <1>7 DEF Effect
<1>9. /\ Effect(conf, f, db', j) /\ db'.job = f.job
      /\ db'.priority = f.priority /\ db'.lifo = f.lifo /\ db'.stream = f.stream /\ db'.pel = f.pel
      /\ db'.scheduled = f.scheduled
      /\ db'.count = (IF f.count > 0 THEN f.count - 1 ELSE f.count) /\ db'.ids = f.ids \ {j}
  BY <1>5, <1>8, DecrEffect
<1>10. Effect(conf, db, db', j)
  BY <1>1, <1>7, <1>8, <1>9, EffectTrans
<1>11. /\ j \notin Members(db'.pel) /\ j \notin db'.scheduled
       /\ db'.count = (IF db.count > 0 THEN db.count - 1 ELSE db.count) /\ db'.ids \ {j} = db.ids \ {j}
       /\ \/ db'.job[j].state = "failed" /\ InNoLine(db', j)
          \/ db'.job[j].state = "waiting" /\ InOneLine(db', j)
  BY <1>4, <1>7, <1>9 DEF InNoLine, InOneLine
<1>12. CASE db'.job[j].state = "failed" /\ InNoLine(db', j)
  BY <1>1, <1>2, <1>3, <1>5, <1>10, <1>11, <1>12, Leaves
<1>13. CASE db'.job[j].state = "waiting" /\ InOneLine(db', j)
  BY <1>1, <1>2, <1>3, <1>5, <1>10, <1>11, <1>13, Waits
<1> QED BY <1>11, <1>12, <1>13

LEMMA ReclaimStreamJobOnward ==
  ASSUME Custody(conf, db, claims), NEW j \in Jobs, ReclaimStreamJob(j)
  PROVE  Onward(db, claims, db', claims')
<1> DEFINE d == Ack(db, j)
           f == Stalling(d, j)
           g == Becomes(d, j, "failed")
<1>1. db \in Db(conf) /\ Tidy(db) /\ JobFits(db, claims, j) /\ claims \subseteq ClaimRecords
  BY JobFacts DEF Custody
<1>2. j \in Members(db.pel) /\ ~\E c \in claims : c.job = j /\ ~c.list
  BY DEF ReclaimStreamJob
<1>3. db.job[j].state \in {"waiting", "active"}
  BY <1>1, <1>2 DEF JobFits, Agree
<1>4. Mine(claims, j) = {}
  <2>1. \A c \in Mine(claims, j) : c \in claims /\ c.job = j /\ ~c.list
    BY <1>1, <1>2, <1>3 DEF JobFits, Agree, Mine
  <2> QED BY <1>2, <2>1
<1>5. InNoLine(db, j) /\ j \notin db.scheduled
  BY <1>1, <1>2, <1>3 DEF JobFits, Agree, InNoLine
<1>6. /\ Effect(conf, db, d, j) /\ j \notin Members(d.pel)
      /\ d.job = db.job /\ d.priority = db.priority /\ d.lifo = db.lifo /\ d.stream = db.stream
      /\ d.scheduled = db.scheduled /\ d.count = db.count /\ d.ids = db.ids
  BY <1>1, AckEffect
<1>7. Exists(d, j)
  BY <1>3, <1>6 DEF Exists, NoHash
<1>8. db' = (IF d.job[j].late \/ d.job[j].stalls = conf.stalls THEN g ELSE [f EXCEPT !.stream = Append(@, j)])
      /\ claims' = claims
  <2>1. db' = CASE ~Exists(d, j) -> d
               [] Exists(d, j) /\ (d.job[j].late \/ d.job[j].stalls = conf.stalls) -> g
               [] OTHER -> [d EXCEPT !.job[j].state = "waiting", !.job[j].stalls = @ + 1,
                                     !.stream = Append(@, j)]
    BY DEF ReclaimStreamJob
  <2>2. [d EXCEPT !.job[j].state = "waiting", !.job[j].stalls = @ + 1, !.stream = Append(@, j)]
          = [f EXCEPT !.stream = Append(@, j)]
    BY DEF Stalling
  <2>3. claims' = claims
    BY DEF ReclaimStreamJob
  <2> HIDE DEF d, f, g
  <2> QED BY <1>7, <2>1, <2>2, <2>3
<1> HIDE DEF d
<1>9. d \in Db(conf) /\ Tidy(d) /\ InNoLine(d, j) /\ conf.stalls \in Nat
  <2>1. conf.stalls \in Nat
    BY ConfFacts
  <2> QED BY <1>5, <1>6, <2>1 DEF Effect, InNoLine
<1>10. CASE d.job[j].late \/ d.job[j].stalls = conf.stalls
  <2>1. "failed" \in States
    BY DEF States
  <2>2. /\ g \in Db(conf) /\ g.job[j].state = "failed" /\ \A i \in Jobs \ {j} : g.job[i] = d.job[i]
        /\ g.priority = d.priority /\ g.lifo = d.lifo /\ g.stream = d.stream /\ g.pel = d.pel
        /\ g.scheduled = d.scheduled /\ g.count = d.count /\ g.ids = d.ids
    BY <1>9, <2>1, BecomesFacts
  <2>3. db' = g
    BY <1>8, <1>10
  <2> HIDE DEF g
  <2>4. Effect(conf, d, g, j)
    BY <1>9, <2>2, PlainEffect
  <2>5. Effect(conf, db, g, j)
    BY <1>1, <1>6, <1>9, <2>4, EffectTrans
  <2>6. InNoLine(g, j) /\ j \notin Members(g.pel) /\ j \notin g.scheduled /\ g.count = db.count /\ g.ids = db.ids
    BY <1>5, <1>6, <1>9, <2>2 DEF InNoLine
  <2> QED BY <1>1, <1>4, <1>8, <2>2, <2>3, <2>5, <2>6, Leaves
<1>11. CASE ~(d.job[j].late \/ d.job[j].stalls = conf.stalls)
  <2>1. db' = [f EXCEPT !.stream = Append(@, j)]
    BY <1>8, <1>11
  <2>2. /\ Effect(conf, d, f, j) /\ f.job[j].state = "waiting"
        /\ f.priority = d.priority /\ f.lifo = d.lifo /\ f.stream = d.stream /\ f.pel = d.pel
        /\ f.scheduled = d.scheduled /\ f.count = d.count /\ f.ids = d.ids
    BY <1>9, <1>11, StallingFacts
  <2> HIDE DEF f
  <2>3. f \in Db(conf) /\ Tidy(f) /\ InNoLine(f, j)
    BY <1>9, <2>2 DEF Effect, InNoLine
  <2>4. /\ Effect(conf, f, db', j) /\ InOneLine(db', j) /\ db'.job = f.job /\ db'.pel = f.pel
        /\ db'.scheduled = f.scheduled /\ db'.count = f.count /\ db'.ids = f.ids
    BY <2>1, <2>3, AppendEffect
  <2>5. Effect(conf, d, db', j)
    BY <1>9, <2>2, <2>3, <2>4, EffectTrans
  <2>6. Effect(conf, db, db', j)
    BY <1>1, <1>6, <1>9, <2>5, EffectTrans
  <2>7. db'.job[j].state = "waiting" /\ j \notin Members(db'.pel) /\ j \notin db'.scheduled
        /\ db'.count = db.count /\ db'.ids = db.ids
    BY <1>5, <1>6, <2>2, <2>4
  <2> QED BY <1>1, <1>4, <1>8, <2>4, <2>6, <2>7, Waits
<1> QED BY <1>10, <1>11

(* Healing lowers the counter to the jobs it finds active; without a pop in flight they are *)
(* all that it counts.                                                                       *)
LEMMA HealOnward ==
  ASSUME Custody(conf, db, claims), HealListActive
  PROVE  Onward(db, claims, db', claims')
<1> DEFINE L    == Listed(db)
           seen == IF Cardinality(db.ids) >= db.count THEN db.ids ELSE Jobs
           live == Cardinality(L \cap seen)
           A    == IF Cardinality(db.ids) >= db.count THEN db.ids \cap L ELSE L
           n    == IF db.count > live THEN live ELSE db.count
<1>1. db \in Db(conf) /\ Tidy(db) /\ db.count \in Int /\ db.ids \subseteq Jobs /\ L \subseteq Jobs
  BY DEF Custody, Db, Listed
<1>2. live \in Nat
  <2>1. IsFiniteSet(L \cap seen)
    BY <1>1, JobsAssumption, FS_Subset
  <2> QED BY <2>1, FS_CardinalityType
<1>3. db' = [db EXCEPT !.ids = A, !.count = n] /\ claims' = claims
  BY DEF HealListActive
<1>4. ~Heals => Unstarted = {}
  BY DEF HealListActive, Heals
<1>5. A \subseteq Jobs /\ n \in Int /\ n <= db.count
  <2> HIDE DEF L, live
  <2> QED BY <1>1, <1>2
<1>6. Covered(db, claims) => A = L /\ L \cap seen = L
  <2> SUFFICES ASSUME Covered(db, claims) PROVE A = L /\ L \cap seen = L
    OBVIOUS
  <2>1. L \subseteq db.ids
    BY DEF Covered
  <2> HIDE DEF L
  <2> QED BY <1>1, <2>1
<1> HIDE DEF A, n, seen
<1>7. /\ db' \in Db(conf) /\ db'.job = db.job /\ db'.priority = db.priority /\ db'.lifo = db.lifo
      /\ db'.stream = db.stream /\ db'.pel = db.pel /\ db'.scheduled = db.scheduled
      /\ db'.count = n /\ db'.ids = A
  BY <1>1, <1>3, <1>5 DEF Db
<1>8. \A i \in Jobs : SameJob(db, db', i)
  BY <1>7 DEF SameJob
<1>9. Tidy(db') /\ claims \subseteq ClaimRecords /\ conf \in Profiles
  BY <1>1, <1>7 DEF Tidy, Custody
<1>10. \A i \in Jobs : /\ JobFits(db, claims, i) => JobFits(db', claims, i)
                       /\ Counts(db', claims, i) <=> Counts(db, claims, i)
                       /\ HasPlace(db', claims, i) <=> HasPlace(db, claims, i)
  BY <1>8, SteadyJob
<1>11. Custody(conf, db', claims)
  BY <1>7, <1>9, <1>10 DEF Custody
<1>12. ASSUME ~Heals, Covered(db, claims) PROVE Covered(db', claims)
  <2>1. Counted(db', claims) = Counted(db, claims) /\ Listed(db') = L
    BY <1>8, <1>10 DEF Counted, Listed, SameJob
  <2>2. Counted(db, claims) = L
    <3>1. \A i \in Jobs : Counts(db, claims, i) <=> i \in L
      BY <1>4, <1>12 DEF Counts, Listed, Unstarted, Mine
    <3> QED BY <1>1, <3>1 DEF Counted
  <2>3. A = L /\ live = Cardinality(L) /\ Cardinality(L) <= db.count
    BY <1>6, <1>12, <2>2 DEF Covered
  <2>4. Cardinality(L) <= n
    BY <1>1, <1>2, <2>3 DEF n
  <2> QED BY <1>7, <2>1, <2>2, <2>3, <2>4 DEF Covered
<1>13. ASSUME Capped(conf, db) PROVE Capped(conf, db')
  <2> SUFFICES ASSUME conf.cap > 0
               PROVE  /\ db'.count <= conf.cap
                      /\ \A k \in 1..Len(db'.pel) : db'.job[db'.pel[k]].state = "active" => k + db'.count <= conf.cap
    BY DEF Capped
  <2>1. conf.cap \in Nat
    BY ConfFacts
  <2>2. /\ db.count <= conf.cap
        /\ \A k \in 1..Len(db.pel) : db.job[db.pel[k]].state = "active" => k + db.count <= conf.cap
    BY <1>13 DEF Capped
  <2>3. Len(db.pel) \in Nat
    BY <1>1 DEF Db
  <2>4. db'.count \in Int /\ db'.count <= db.count /\ db'.pel = db.pel /\ db'.job = db.job
    BY <1>5, <1>7
  <2> QED BY <1>1, <2>1, <2>2, <2>3, <2>4
<1>14. ASSUME Kept(db, claims) PROVE Kept(db', claims)
  BY <1>7, <1>14 DEF Kept
<1> QED BY <1>3, <1>11, <1>12, <1>13, <1>14 DEF Onward

(* A death takes claims away; without the race they are of jobs that the server still knows. *)
LEMMA CrashOnward ==
  ASSUME Custody(conf, db, claims), NEW w \in Workers, Crash(w)
  PROVE  Onward(db, claims, db', claims')
<1> DEFINE es == claims \ HeldBy(w)
<1>1. db' = db /\ claims' = es
  BY DEF Crash
<1>2. \A i \in Jobs : Mine(es, i) \subseteq Mine(claims, i)
  BY DEF Mine
<1>3. \A i \in Jobs : JobFits(db, es, i)
  <2> SUFFICES ASSUME NEW i \in Jobs PROVE JobFits(db, es, i)
    OBVIOUS
  <2>1. JobFits(db, claims, i) /\ Mine(es, i) \subseteq Mine(claims, i)
    BY <1>2, JobFacts
  <2> QED BY <2>1 DEF JobFits, Agree
<1>4. Custody(conf, db, es)
  BY <1>3 DEF Custody
<1>5. Covered(db, claims) => Covered(db, es)
  <2>1. Counted(db, es) \subseteq Counted(db, claims)
    BY <1>2 DEF Counted, Counts
  <2>2. Cardinality(Counted(db, es)) <= Cardinality(Counted(db, claims))
    BY <2>1, CountedFinite, FS_Subset
  <2>3. db.count \in Int
    BY DEF Custody, Db
  <2> QED BY <2>2, <2>3, CountedFinite DEF Covered
<1>6. ASSUME ~Drops, Kept(db, claims) PROVE Kept(db, es)
  <2> SUFFICES ASSUME NEW j \in Jobs, db.job[j].state = "waiting", j \notin Members(db.priority), j \notin Members(db.lifo),
                      j \notin Members(db.stream), j \notin Members(db.pel)
               PROVE  Mine(es, j) /= {}
    BY DEF Kept
  <2>1. PICK c \in claims : c.job = j
    BY <1>6 DEF Kept, Mine
  <2>2. JobFits(db, claims, j) /\ c \in Mine(claims, j)
    BY <2>1, JobFacts DEF Mine
  <2>3. c.list /\ c.at \in {"claimed", "returning", "revoked"}
    BY <2>2 DEF JobFits, Agree
  <2>4. c \in Unstarted /\ c.at /= "release"
    BY <2>3 DEF Unstarted, Begun
  <2>5. c.by /= w
    BY <1>6, <2>4 DEF Crash, Drops
  <2> QED BY <2>1, <2>5 DEF Mine, HeldBy
<1> HIDE DEF es
<1> QED BY <1>1, <1>4, <1>5, <1>6 DEF Onward

-----------------------------------------------------------------------------
(* Every step                                                                  *)

LEMMA NextOnward ==
  ASSUME Custody(conf, db, claims), "hang" \notin Races, "steal" \notin Races, [Next]_vars
  PROVE  conf' = conf /\ Onward(db, claims, db', claims')
<1>1. CASE UNCHANGED vars
  <2>1. conf' = conf /\ db' = db /\ claims' = claims
    BY <1>1 DEF vars
  <2> QED BY <2>1, OnwardRefl
<1>2. ASSUME Client PROVE conf' = conf /\ Onward(db, claims, db', claims')
  <2>1. CASE Pause \/ Resume
    BY <2>1, PausesOnward DEF Pause, Resume
  <2>2. ASSUME NEW j \in Jobs, NEW k \in conf.kinds, AddJob(j, k)
        PROVE  conf' = conf /\ Onward(db, claims, db', claims')
    <3>1. k \in Kinds
      BY ProfilesAssumption DEF Custody
    <3>2. conf' = conf
      BY <2>2 DEF AddJob
    <3> QED BY <2>2, <3>1, <3>2, AddJobOnward
  <2>3. ASSUME NEW j \in Jobs, RemoveJob(j) PROVE conf' = conf /\ Onward(db, claims, db', claims')
    BY <2>3, RemoveJobOnward DEF RemoveJob
  <2>4. ASSUME NEW j \in Jobs, Revoke(j) PROVE conf' = conf /\ Onward(db, claims, db', claims')
    BY <2>4, RevokeOnward DEF Revoke
  <2>5. ASSUME NEW j \in Jobs, ChangePriority(j) PROVE conf' = conf /\ Onward(db, claims, db', claims')
    BY <2>5, ChangePriorityOnward DEF ChangePriority
  <2>6. ASSUME NEW j \in Jobs, Expire(j) PROVE conf' = conf /\ Onward(db, claims, db', claims')
    BY <2>6, ExpireOnward DEF Expire
  <2> QED BY <1>2, <2>1, <2>2, <2>3, <2>4, <2>5, <2>6 DEF Client
<1>3. ASSUME Worker PROVE conf' = conf /\ Onward(db, claims, db', claims')
  <2>1. ASSUME NEW w \in Workers, Read(w) PROVE conf' = conf /\ Onward(db, claims, db', claims')
    BY <2>1, ReadOnward DEF Read
  <2>2. ASSUME NEW w \in Workers, Crash(w) PROVE conf' = conf /\ Onward(db, claims, db', claims')
    BY <2>2, CrashOnward DEF Crash
  <2>3. ASSUME NEW w \in Workers, NEW line \in {"priority", "lifo"}, Reserve(w, line)
        PROVE  conf' = conf /\ Onward(db, claims, db', claims')
    BY <2>3, ReserveOnward DEF Reserve
  <2>4. ASSUME NEW c \in claims, Handle(c) PROVE conf' = conf /\ Onward(db, claims, db', claims')
    <3>1. CASE Activate(c)
      BY <3>1, ActivateOnward DEF Activate
    <3>2. CASE ReleaseListActiveSlot(c)
      BY <3>2, ReleaseOnward DEF ReleaseListActiveSlot
    <3>3. CASE Return(c)
      BY <3>3, ReturnOnward DEF Return
    <3>4. CASE FailRevoked(c)
      BY <3>4, FailRevokedOnward DEF FailRevoked
    <3>5. ASSUME NEW chain \in BOOLEAN, EndJob(c, chain) PROVE conf' = conf /\ Onward(db, claims, db', claims')
      BY <3>5, EndJobOnward DEF EndJob
    <3> QED BY <2>4, <3>1, <3>2, <3>3, <3>4, <3>5 DEF Handle
  <2>5. ASSUME NEW c \in claims, HandBack(c) PROVE conf' = conf /\ Onward(db, claims, db', claims')
    BY <2>5, ReturnOnward DEF HandBack
  <2> QED BY <1>3, <2>1, <2>2, <2>3, <2>4, <2>5 DEF Worker
<1>4. ASSUME Scheduler PROVE conf' = conf /\ Onward(db, claims, db', claims')
  <2>1. CASE HealListActive
    BY <2>1, HealOnward DEF HealListActive
  <2>2. ASSUME NEW j \in Jobs, Promote(j) PROVE conf' = conf /\ Onward(db, claims, db', claims')
    BY <2>2, PromoteOnward DEF Promote
  <2>3. ASSUME NEW j \in Jobs, ReclaimListJob(j) PROVE conf' = conf /\ Onward(db, claims, db', claims')
    BY <2>3, ReclaimListJobOnward DEF ReclaimListJob
  <2>4. ASSUME NEW j \in Jobs, ReclaimStreamJob(j) PROVE conf' = conf /\ Onward(db, claims, db', claims')
    BY <2>4, ReclaimStreamJobOnward DEF ReclaimStreamJob
  <2> QED BY <1>4, <2>1, <2>2, <2>3, <2>4 DEF Scheduler
<1> QED BY <1>1, <1>2, <1>3, <1>4 DEF Next

LEMMA InitHolds ==
  ASSUME Init
  PROVE  Custody(conf, db, claims) /\ Covered(db, claims) /\ Capped(conf, db) /\ Kept(db, claims)
<1>1. conf \in Profiles /\ claims = {} /\ conf.stalls \in Nat /\ conf.retries \in Nat /\ conf.cap \in Nat
  BY ProfilesAssumption DEF Init
<1>2. /\ db.job = [j \in Jobs |-> Fresh] /\ db.priority = <<>> /\ db.lifo = <<>> /\ db.stream = <<>> /\ db.pel = <<>>
      /\ db.scheduled = {} /\ db.count = 0 /\ db.ids = {} /\ db.paused = FALSE
  BY DEF Init
<1>3. Fresh \in Hash(conf) /\ Fresh.state = "new"
  <2>1. 0 \in 0..conf.stalls /\ 0 \in 0..conf.retries /\ 0 \in 0..1
    BY <1>1
  <2>2. "new" \in States
    BY DEF States
  <2> QED BY <2>1, <2>2 DEF Fresh, Hash
<1>4. <<>> \in Seq(Jobs) /\ Len(<<>>) = 0 /\ Members(<<>>) = {} /\ Distinct(<<>>)
  BY DEF Members, Distinct
<1>5. db \in Db(conf)
  <2>1. db.job \in [Jobs -> Hash(conf)]
    BY <1>2, <1>3
  <2>2. db = [job |-> db.job, priority |-> <<>>, lifo |-> <<>>, stream |-> <<>>, pel |-> <<>>, scheduled |-> {},
              count |-> 0, ids |-> {}, paused |-> FALSE]
    BY DEF Init
  <2> DEFINE J == db.job
  <2>3. db = [job |-> J, priority |-> <<>>, lifo |-> <<>>, stream |-> <<>>, pel |-> <<>>, scheduled |-> {},
              count |-> 0, ids |-> {}, paused |-> FALSE]
    BY <2>2
  <2> HIDE DEF J
  <2>4. J \in [Jobs -> Hash(conf)]
    BY <2>1 DEF J
  <2> QED BY <1>4, <2>3, <2>4 DEF Db
<1>6. \A j \in Jobs : db.job[j].state = "new" /\ Mine(claims, j) = {}
  BY <1>1, <1>2, <1>3 DEF Mine
<1>7. \A j \in Jobs : JobFits(db, claims, j)
  BY <1>2, <1>4, <1>6 DEF JobFits, Agree
<1>8. Custody(conf, db, claims)
  BY <1>1, <1>2, <1>4, <1>5, <1>7 DEF Custody, Tidy
<1>9. Covered(db, claims)
  <2>1. Counted(db, claims) = {} /\ Listed(db) = {}
    BY <1>6 DEF Counted, Counts, Listed
  <2> QED BY <1>2, <2>1, FS_EmptySet DEF Covered
<1>10. Capped(conf, db)
  BY <1>1, <1>2, <1>4 DEF Capped
<1>11. Kept(db, claims)
  BY <1>6 DEF Kept
<1> QED BY <1>8, <1>9, <1>10, <1>11

-----------------------------------------------------------------------------
(* What the invariant says of the properties                                   *)

(* Claims of different jobs: as many as the jobs they are of. *)
LEMMA ClaimCount ==
  ASSUME NEW d, NEW cs, Custody(conf, d, cs), NEW U, U \subseteq cs, NEW T, IsFiniteSet(T), \A c \in U : c.job \in T
  PROVE  IsFiniteSet(U) /\ Cardinality(U) <= Cardinality(T)
<1> DEFINE f == [c \in U |-> c.job]
<1>1. f \in [U -> T]
  OBVIOUS
<1>2. ASSUME NEW a \in U, NEW b \in U, f[a] = f[b] PROVE a = b
  <2>1. a.job = b.job /\ a \in cs /\ b \in cs
    BY <1>2
  <2>2. Mine(cs, a.job) = {a} /\ b \in Mine(cs, a.job)
    BY <2>1, MineOne DEF Mine
  <2> QED BY <2>2
<1>3. f \in Injection(U, T)
  BY <1>1, <1>2 DEF Injection, IsInjective
<1> QED BY <1>3, FS_Injection

LEMMA CoverFacts ==
  ASSUME Custody(conf, db, claims), Covered(db, claims)
  PROVE  CounterCovers /\ IsFiniteSet(Listed(db)) /\ Cardinality(Listed(db)) \in Nat /\ Cardinality(Listed(db)) <= db.count
<1> DEFINE C == Counted(db, claims)
           L == Listed(db)
           U == Unstarted
           T == C \ L
<1>1. IsFiniteSet(C) /\ Cardinality(C) \in Nat /\ Cardinality(C) <= db.count /\ db.count \in Int
  BY CountedFinite DEF Covered, Custody, Db
<1>2. L \subseteq C
  BY DEF Listed, Counted, Counts
<1>3. U \subseteq claims /\ \A c \in U : c.job \in T
  <2> SUFFICES ASSUME NEW c \in U PROVE c.job \in C /\ c.job \notin L
    BY DEF Unstarted
  <2>1. c \in claims /\ c.list /\ ~Begun(c)
    BY DEF Unstarted
  <2>2. c.job \in Jobs /\ db.job[c.job].state /= "active"
    BY <2>1, ClaimState DEF Begun
  <2> QED BY <2>1, <2>2 DEF Counted, Counts, Listed, Mine
<1> HIDE DEF C, L, U
<1>4. IsFiniteSet(L) /\ IsFiniteSet(T) /\ Cardinality(L) \in Nat /\ Cardinality(T) \in Nat
      /\ Cardinality(L) <= Cardinality(C)
  BY <1>1, <1>2, FS_Subset, FS_CardinalityType
<1>5. IsFiniteSet(U) /\ Cardinality(U) <= Cardinality(T) /\ Cardinality(U) \in Nat
  <2>1. IsFiniteSet(U) /\ Cardinality(U) <= Cardinality(T)
    BY <1>3, <1>4, ClaimCount
  <2> QED BY <2>1, FS_CardinalityType
<1>6. Cardinality(L) + Cardinality(T) = Cardinality(C)
  <2>1. L \cup T = C /\ L \cap T = {}
    BY <1>2
  <2>2. Cardinality(L \cup T) = Cardinality(L) + Cardinality(T) - Cardinality(L \cap T)
    BY <1>4, FS_Union
  <2>3. Cardinality({}) = 0
    BY FS_EmptySet
  <2>4. Cardinality(L \cap T) = 0 /\ Cardinality(L \cup T) = Cardinality(C)
    BY <2>1, <2>3, Zenon
  <2> HIDE DEF T
  <2> QED BY <1>4, <2>2, <2>4
<1>7. db.count >= Cardinality(U) + Cardinality(L)
  BY <1>1, <1>4, <1>5, <1>6
<1> QED BY <1>1, <1>4, <1>7 DEF CounterCovers, U, L

(* Of the jobs that run and have a hash, the list jobs are counted, and the stream jobs are among the *)
(* oldest entries that the rest of the cap leaves room for.                                           *)
LEMMA CapFacts ==
  ASSUME Custody(conf, db, claims), Covered(db, claims), Capped(conf, db)
  PROVE  WithinCap
<1> DEFINE R == {c \in claims : Begun(c) /\ Exists(db, c.job)}
           A == {c \in R : c.list}
           B == {c \in R : ~c.list}
           L == Listed(db)
           n == conf.cap - db.count
<1> SUFFICES ASSUME conf.cap > 0 PROVE Cardinality(R) <= conf.cap
  BY DEF WithinCap
<1>1. IsFiniteSet(L) /\ Cardinality(L) \in Nat /\ Cardinality(L) <= db.count
  BY CoverFacts
<1>2. conf.cap \in Nat /\ db.count \in Int /\ db.count <= conf.cap /\ n \in Nat
  <2>1. conf.cap \in Nat
    BY ConfFacts
  <2>2. db.count \in Int /\ db.count <= conf.cap
    BY DEF Custody, Db, Capped
  <2> QED BY <2>1, <2>2
<1>3. \A c \in R : /\ c \in claims /\ c.job \in Jobs /\ c.list \in BOOLEAN /\ db.job[c.job].state = "active"
                   /\ db.job[c.job].listed <=> c.list
                   /\ ~c.list => c.job \in Members(db.pel)
  <2> SUFFICES ASSUME NEW c \in R
               PROVE  /\ c \in claims /\ c.job \in Jobs /\ c.list \in BOOLEAN /\ db.job[c.job].state = "active"
                      /\ db.job[c.job].listed <=> c.list
                      /\ ~c.list => c.job \in Members(db.pel)
    OBVIOUS
  <2>1. c \in claims /\ Begun(c) /\ db.job[c.job].state /= "gone"
    BY DEF Exists, NoHash
  <2>2. db.job[c.job].state = "active"
    BY <2>1, ClaimState DEF Begun
  <2> QED BY <2>1, <2>2, ClaimState
<1> HIDE DEF R
<1>4. IsFiniteSet(A) /\ Cardinality(A) <= Cardinality(L) /\ Cardinality(A) \in Nat
  <2>1. A \subseteq claims /\ \A c \in A : c.job \in L
    BY <1>3 DEF Listed
  <2> HIDE DEF A, L
  <2>2. IsFiniteSet(A) /\ Cardinality(A) <= Cardinality(L)
    BY <1>1, <2>1, ClaimCount
  <2> QED BY <2>2, FS_CardinalityType
<1>5. IsFiniteSet(B) /\ Cardinality(B) <= n /\ Cardinality(B) \in Nat
  <2>1. \A c \in B : \E k \in 1..n : db.pel[k] = c.job
    <3> SUFFICES ASSUME NEW c \in B PROVE \E k \in 1..n : db.pel[k] = c.job
      OBVIOUS
    <3>1. c.job \in Members(db.pel) /\ db.job[c.job].state = "active"
      BY <1>3
    <3>2. PICK k \in 1..Len(db.pel) : db.pel[k] = c.job
      BY <3>1 DEF Members
    <3>3. k + db.count <= conf.cap
      BY <3>1, <3>2 DEF Capped
    <3>4. Len(db.pel) \in Nat
      BY DEF Custody, Db
    <3>5. k \in 1..n
      BY <1>2, <3>3, <3>4
    <3> QED BY <3>2, <3>5
  <2> DEFINE f == [c \in B |-> CHOOSE k \in 1..n : db.pel[k] = c.job]
  <2>2. \A c \in B : f[c] \in 1..n /\ db.pel[f[c]] = c.job
    BY <2>1
  <2>3. f \in [B -> 1..n]
    BY <2>2
  <2>4. ASSUME NEW a \in B, NEW b \in B, f[a] = f[b] PROVE a = b
    <3> HIDE DEF f
    <3>1. a.job = b.job
      BY <2>2, <2>4
    <3>2. a \in claims /\ b \in claims
      BY <1>3
    <3>3. Mine(claims, a.job) = {a} /\ b \in Mine(claims, a.job)
      BY <3>1, <3>2, MineOne DEF Mine
    <3> QED BY <3>3
  <2>5. f \in Injection(B, 1..n)
    BY <2>3, <2>4 DEF Injection, IsInjective
  <2>6. IsFiniteSet(1..n) /\ Cardinality(1..n) = n
    <3>1. 1 \in Int /\ n \in Int /\ (1 > n => n = 0) /\ n - 1 + 1 = n
      BY <1>2
    <3> QED BY <3>1, FS_Interval
  <2> HIDE DEF B, n, f
  <2>7. IsFiniteSet(B) /\ Cardinality(B) <= n
    BY <2>5, <2>6, FS_Injection
  <2> QED BY <2>7, FS_CardinalityType
<1>6. Cardinality(R) = Cardinality(A) + Cardinality(B)
  <2>1. A \cup B = R /\ A \cap B = {}
    BY <1>3
  <2>2. Cardinality(A \cup B) = Cardinality(A) + Cardinality(B) - Cardinality(A \cap B)
    BY <1>4, <1>5, FS_Union
  <2>3. Cardinality({}) = 0
    BY FS_EmptySet
  <2>4. Cardinality(A \cap B) = 0 /\ Cardinality(A \cup B) = Cardinality(R)
    BY <2>1, <2>3, Zenon
  <2> HIDE DEF A, B
  <2> QED BY <1>4, <1>5, <2>2, <2>4
<1> HIDE DEF A, B, L
<1> QED BY <1>1, <1>2, <1>4, <1>5, <1>6

LEMMA KeptFacts ==
  ASSUME Custody(conf, db, claims), Kept(db, claims)
  PROVE  JobKept
<1> SUFFICES ASSUME NEW j \in Jobs, db.job[j].state \in {"waiting", "prioritized", "delayed"}
             PROVE  \/ j \in Members(db.priority) \cup Members(db.lifo) \cup Members(db.stream) \cup Members(db.pel)
                    \/ j \in db.scheduled
                    \/ \E c \in Unstarted : c.job = j /\ c.at /= "release"
  BY DEF JobKept
<1>1. JobFits(db, claims, j)
  BY JobFacts
<1>2. CASE db.job[j].state \in {"prioritized", "delayed"}
  BY <1>1, <1>2 DEF JobFits, Agree
<1>3. CASE db.job[j].state = "waiting"
  <2>1. CASE HasPlace(db, {}, j)
    BY <2>1 DEF HasPlace, Mine
  <2>2. CASE ~HasPlace(db, {}, j)
    <3>1. PICK c \in claims : c.job = j
      BY <1>3, <2>2 DEF Kept, HasPlace, Mine
    <3>2. c \in Mine(claims, j) /\ j \notin Members(db.pel)
      BY <2>2, <3>1 DEF HasPlace, Mine
    <3>3. c.list /\ c.at \in {"claimed", "returning", "revoked"}
      BY <1>1, <1>3, <3>2 DEF JobFits, Agree
    <3> QED BY <3>1, <3>3 DEF Unstarted, Begun
  <2> QED BY <2>1, <2>2
<1> QED BY <1>2, <1>3

-----------------------------------------------------------------------------
(* Theorems *)

(* Hashes, lines, pending entries, scheduled set and claims tell one story of every job, whatever *)
(* clients, workers and the scheduler do between two calls.                                       *)
THEOREM CustodyAlways ==
  ASSUME "hang" \notin Races, "steal" \notin Races
  PROVE  Spec => []Custody(conf, db, claims)
<1>1. Init => Custody(conf, db, claims)
  BY InitHolds
<1>2. Custody(conf, db, claims) /\ [Next]_vars => Custody(conf, db, claims)'
  <2> SUFFICES ASSUME Custody(conf, db, claims), [Next]_vars PROVE Custody(conf', db', claims')
    OBVIOUS
  <2>1. conf' = conf /\ Onward(db, claims, db', claims')
    BY NextOnward
  <2> QED BY <2>1 DEF Onward
<1> QED BY <1>1, <1>2, PTL DEF Spec

(* No job is in two workers' hands, or twice in those of one: reclaiming does not hand out a job     *)
(* whose worker still beats, and a claim of a job that was given up, or taken away, finds that it    *)
(* has none.                                                                                          *)
THEOREM OneHolder ==
  ASSUME "hang" \notin Races, "steal" \notin Races
  PROVE  Spec => [](\A a, b \in claims : a.job = b.job => a = b)
<1>1. Custody(conf, db, claims) => \A a, b \in claims : a.job = b.job => a = b
  <2> SUFFICES ASSUME Custody(conf, db, claims), NEW a \in claims, NEW b \in claims, a.job = b.job PROVE a = b
    OBVIOUS
  <2>1. Mine(claims, a.job) = {a} /\ b \in Mine(claims, a.job)
    BY MineOne DEF Mine
  <2> QED BY <2>1
<1> QED BY <1>1, CustodyAlways, PTL

(* globalConcurrency holds, and the counter that it is read from covers every pop and every active *)
(* list job: for every profile, crashes included, as long as healing does not look away from pops. *)
THEOREM CapAlwaysHeld ==
  ASSUME "hang" \notin Races, "steal" \notin Races, "heal" \notin Races
  PROVE  Spec => []CapHeld
<1> DEFINE IInv == Custody(conf, db, claims) /\ Covered(db, claims) /\ Capped(conf, db)
<1>1. Init => IInv
  BY InitHolds
<1>2. IInv /\ [Next]_vars => IInv'
  <2> SUFFICES ASSUME IInv, [Next]_vars
               PROVE  Custody(conf', db', claims') /\ Covered(db', claims') /\ Capped(conf', db')
    OBVIOUS
  <2>1. conf' = conf /\ Onward(db, claims, db', claims')
    BY NextOnward
  <2> QED BY <2>1 DEF Onward, Heals
<1>3. IInv => CapHeld
  BY CoverFacts, CapFacts DEF CapHeld
<1> HIDE DEF IInv
<1> QED BY <1>1, <1>2, <1>3, PTL DEF Spec

(* A job that waits is in a line, pending, scheduled, or in the hands of a worker that has yet to    *)
(* activate it: no interleaving of pops, hand-backs, retries, reclaims and client calls loses it, if *)
(* no worker dies with a pop it has not activated and no chained call pops a revoked job.             *)
THEOREM JobsAlwaysKept ==
  ASSUME "hang" \notin Races, "steal" \notin Races, "crash" \notin Races, "revoke" \notin Races
  PROVE  Spec => []JobKept
<1> DEFINE IInv == Custody(conf, db, claims) /\ Kept(db, claims)
<1>1. Init => IInv
  BY InitHolds
<1>2. IInv /\ [Next]_vars => IInv'
  <2> SUFFICES ASSUME IInv, [Next]_vars PROVE Custody(conf', db', claims') /\ Kept(db', claims')
    OBVIOUS
  <2>1. conf' = conf /\ Onward(db, claims, db', claims')
    BY NextOnward
  <2> QED BY <2>1 DEF Onward, Drops
<1>3. IInv => JobKept
  BY KeptFacts
<1> HIDE DEF IInv
<1> QED BY <1>1, <1>2, <1>3, PTL DEF Spec

(* Every field of the server's record, every claim and the budget of events keep their types. *)
THEOREM TypeCorrect ==
  ASSUME "hang" \notin Races, "steal" \notin Races
  PROVE  Spec => []TypeOK
<1> DEFINE IInv == Custody(conf, db, claims) /\ events \in 0..conf.events
<1>1. Init => IInv
  <2> SUFFICES ASSUME Init PROVE Custody(conf, db, claims) /\ events \in 0..conf.events
    OBVIOUS
  <2>1. conf.events \in Nat /\ events = 0
    BY ProfilesAssumption DEF Init
  <2> QED BY <2>1, InitHolds
<1>2. IInv /\ [Next]_vars => IInv'
  <2> SUFFICES ASSUME IInv, [Next]_vars PROVE Custody(conf', db', claims') /\ events' \in 0..conf'.events
    OBVIOUS
  <2>1. conf' = conf /\ Onward(db, claims, db', claims')
    BY NextOnward
  <2>2. conf.events \in Nat
    BY ProfilesAssumption DEF Custody
  <2>3. events' = events \/ (events < conf.events /\ events' = events + 1)
    <3>1. CASE UNCHANGED vars
      BY <3>1 DEF vars
    <3>2. CASE Client
      BY <3>2 DEF Client, Pause, Resume, AddJob, RemoveJob, Revoke, ChangePriority, Expire, Call
    <3>3. CASE Worker
      BY <3>3 DEF Worker, Read, Crash, Reserve, Handle, HandBack, Activate, ReleaseListActiveSlot, Return, FailRevoked,
                  EndJob, Call
    <3>4. CASE Scheduler
      BY <3>4 DEF Scheduler, HealListActive, Promote, ReclaimListJob, ReclaimStreamJob
    <3> QED BY <3>1, <3>2, <3>3, <3>4 DEF Next
  <2> QED BY <2>1, <2>2, <2>3 DEF Onward
<1>3. IInv => TypeOK
  <2> SUFFICES ASSUME Custody(conf, db, claims), events \in 0..conf.events PROVE TypeOK
    OBVIOUS
  <2>1. db \in Db(conf) /\ claims \subseteq ClaimRecords /\ conf \in Profiles
    BY DEF Custody
  <2>2. db["priority"] \in Seq(Jobs) /\ db["lifo"] \in Seq(Jobs) /\ db["stream"] \in Seq(Jobs) /\ db["pel"] \in Seq(Jobs)
    BY <2>1 DEF Db
  <2>3. /\ db.job \in [Jobs -> Hash(conf)] /\ db.scheduled \subseteq Jobs /\ db.ids \subseteq Jobs
        /\ db.count \in Int /\ db.paused \in BOOLEAN
    BY <2>1 DEF Db
  <2> QED BY <2>1, <2>2, <2>3 DEF TypeOK, Hash, ClaimRecords
<1> HIDE DEF IInv
<1> QED BY <1>1, <1>2, <1>3, PTL DEF Spec

=============================================================================
