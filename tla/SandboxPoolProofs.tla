------------------------- MODULE SandboxPoolProofs -------------------------
(***************************************************************************)
(* Theorems about SandboxPool, for every number of threads, every set of   *)
(* runs and every profile: slots are kept and handed on, and runs that use *)
(* the same thread one after the other do not touch each other.  The last  *)
(* section is about ProxyServer, for any number of requests and streams:   *)
(* the worker of a broadcast stream is there exactly while it is used.     *)
(*                                                                         *)
(* The inductive invariant is about pairs: what the main thread and the    *)
(* runner of a thread can know of one run at the same time (Pair).  The    *)
(* messages on their way are part of it: of a run there is one token, which *)
(* is its process message, the processor itself or its result, and a call  *)
(* of the processor and the answer are one token too.                      *)
(***************************************************************************)
EXTENDS SandboxPool, FiniteSetTheorems, TLAPS

InMessages  == [kind : {"process", "abort", "answer"}, id : Jobs]
OutMessages == [kind : {"call", "result"}, id : Jobs]

WorkerRecords ==
  [life : {"none", "live", "dying"}, busy : BOOLEAN, ending : BOOLEAN, current : Jobs \cup {None},
   inbox : Seq(InMessages), outbox : Seq(OutMessages), active : Jobs \cup {None},
   told : BOOLEAN, pending : BOOLEAN, floating : Jobs \cup {None}]
JobRecords ==
  [at : {"new", "waiting", "granted", "run", "settled"}, on : 0 .. MaxWorkers, signal : BOOLEAN, grace : BOOLEAN,
   out : {"none", "result", "unsent", "aborted", "terminated", "exited", "closed"}, calls : Nat, writes : Nat]

Shape ==
  /\ conf \in Profiles /\ closed \in BOOLEAN /\ pool \subseteq Workers /\ waiters \in Seq(Jobs)
  /\ crashes \in 0 .. conf.crashes
  /\ worker \in [Workers -> WorkerRecords] /\ job \in [Jobs -> JobRecords]

(* A message of this kind about run k is in the queue s; at most one is; and a call of k comes *)
(* after a result of k.                                                                         *)
Has(s, kind, k)  == \E i \in DOMAIN s : s[i] = Message(kind, k)
Once(s, kind, k) == \A i, l \in DOMAIN s : s[i] = Message(kind, k) /\ s[l] = Message(kind, k) => i = l
After(s, k)      == \A i \in DOMAIN s : s[i] = Message("call", k) => \E l \in 1 .. i - 1 : s[l] = Message("result", k)

(* A run the runner of thread w may have heard of. *)
Known(q, w) == q.at \in {"run", "settled"} /\ (q.at = "run" => q.on = w) /\ q.out /= "unsent"

(* The main thread's side: thread w with the fields pw, and run k with the fields q. *)
Serves(pw, w, k, q) ==
  /\ (q.at = "granted" /\ q.on = w) => pw.busy /\ ~pw.ending /\ pw.current = None /\ pw.life /= "none"
  /\ (q.at = "run" /\ q.on = w) => pw.busy /\ pw.current = k /\ pw.life /= "none"
  /\ pw.current = k => /\ pw.busy
                       /\ (q.at = "run" /\ q.on = w) \/ q.out = "unsent"
                       /\ pw.ending => q.signal

(* The runner's side, and the messages. *)
Talks(pw, w, k, q) ==
  /\ Has(pw.inbox, "process", k) =>
       /\ Known(q, w) /\ pw.current = k /\ pw.active = None /\ pw.floating /= k
       /\ ~Has(pw.outbox, "call", k) /\ ~Has(pw.outbox, "result", k) /\ Once(pw.inbox, "process", k)
  /\ Has(pw.inbox, "answer", k) =>
       pw.active = k /\ pw.pending /\ ~Has(pw.outbox, "call", k) /\ Once(pw.inbox, "answer", k)
  /\ pw.active = k => Known(q, w) /\ pw.current = k /\ pw.floating /= k /\ ~Has(pw.outbox, "result", k)
  /\ (pw.active = k /\ Has(pw.outbox, "call", k)) =>
       pw.pending /\ q.writes < q.calls /\ Once(pw.outbox, "call", k)
  /\ (pw.floating = k \/ Has(pw.outbox, "call", k) \/ Has(pw.outbox, "result", k)) => Known(q, w)
  /\ (pw.floating = k /\ pw.current = k) => Has(pw.outbox, "result", k)
  /\ (pw.current = k /\ pw.active /= k) => After(pw.outbox, k)

Pair(w, k) == Serves(worker[w], w, k, job[k]) /\ Talks(worker[w], w, k, job[k])
Pairs      == \A w \in Workers, k \in Jobs : Pair(w, k)

(* What is true of one run, and of one thread, by itself. *)
RunFits(q, manner) ==
  /\ q.at \in {"granted", "run"} => q.on \in Workers
  /\ q.grace => q.at = "run" /\ q.signal
  /\ q.out = "terminated" => q.signal
  /\ q.out = "unsent" => q.at = "settled" /\ manner = "unsendable"
  /\ q.writes <= q.calls
Runs == \A k \in Jobs : RunFits(job[k], conf.manner[k])

ThreadFits(pw, w) ==
  /\ pw.ending => pw.busy /\ pw.life /= "live"
  /\ ~closed => (w \in pool <=> pw.life /= "none")
  /\ closed => pw.life /= "live"
Threads == \A w \in Workers : ThreadFits(worker[w], w)

(* No thread is given to two runs at once, and a busy thread that lives serves a run. *)
GrantedOn(j, w) == job[j].at = "granted" /\ job[j].on = w
Granting ==
  /\ \A w \in Workers : \A i, k \in Jobs : GrantedOn(i, w) /\ GrantedOn(k, w) => i = k
  /\ \A w \in Workers : (worker[w].busy /\ worker[w].life = "live") =>
       worker[w].current /= None \/ \E k \in Jobs : GrantedOn(k, w)

(* Runs wait once each, and only while every thread is taken. *)
Listed(ws, k) == \E i \in DOMAIN ws : ws[i] = k
Apart(ws)     == \A i, l \in DOMAIN ws : ws[i] = ws[l] => i = l
Waiting ==
  /\ Apart(waiters)
  /\ \A k \in Jobs : job[k].at = "waiting" <=> Listed(waiters, k)
  /\ waiters /= <<>> => ~closed /\ pool = Workers /\ \A w \in Workers : worker[w].busy

Inv == Shape /\ Pairs /\ Runs /\ Threads /\ Granting /\ Waiting

-----------------------------------------------------------------------------
(* Messages and queues of them. *)

LEMMA Distinct ==
  ASSUME NEW a, NEW b, NEW j, NEW k
  PROVE  Message(a, j) = Message(b, k) <=> a = b /\ j = k
<1>1. Message(a, j).kind = a /\ Message(a, j).id = j /\ Message(b, k).kind = b /\ Message(b, k).id = k  BY DEF Message
<1>2. QED BY <1>1 DEF Message

LEMMA Fields ==
  ASSUME NEW kind, NEW k, NEW m, m \in InMessages \/ m \in OutMessages
  PROVE  m = Message(kind, k) <=> m.kind = kind /\ m.id = k
<1>1. m = Message(m.kind, m.id)  BY DEF Message, InMessages, OutMessages
<1>2. QED BY <1>1, Distinct

LEMMA HasAppend ==
  ASSUME NEW M, NEW s \in Seq(M), NEW m \in M, NEW kind, NEW k
  PROVE  Has(Append(s, m), kind, k) <=> Has(s, kind, k) \/ m = Message(kind, k)
<1>1. /\ DOMAIN s = 1 .. Len(s) /\ Len(s) \in Nat /\ DOMAIN Append(s, m) = 1 .. Len(s) + 1
      /\ Append(s, m)[Len(s) + 1] = m /\ \A i \in 1 .. Len(s) : Append(s, m)[i] = s[i]  OBVIOUS
<1>2. QED BY <1>1 DEF Has

LEMMA OnceAppend ==
  ASSUME NEW M, NEW s \in Seq(M), NEW m \in M, NEW kind, NEW k,
         Once(s, kind, k), m /= Message(kind, k) \/ ~Has(s, kind, k)
  PROVE  Once(Append(s, m), kind, k)
<1>1. /\ DOMAIN s = 1 .. Len(s) /\ Len(s) \in Nat /\ DOMAIN Append(s, m) = 1 .. Len(s) + 1
      /\ Append(s, m)[Len(s) + 1] = m /\ \A i \in 1 .. Len(s) : Append(s, m)[i] = s[i]  OBVIOUS
<1>2. QED BY <1>1 DEF Has, Once

LEMMA NoneOnce ==
  ASSUME NEW s, NEW kind, NEW k, ~Has(s, kind, k)
  PROVE  Once(s, kind, k)
BY DEF Has, Once

LEMMA AfterAppend ==
  ASSUME NEW M, NEW s \in Seq(M), NEW m \in M, NEW k,
         After(s, k), m /= Message("call", k) \/ Has(s, "result", k)
  PROVE  After(Append(s, m), k)
<1>1. /\ DOMAIN s = 1 .. Len(s) /\ Len(s) \in Nat /\ DOMAIN Append(s, m) = 1 .. Len(s) + 1
      /\ Append(s, m)[Len(s) + 1] = m /\ \A i \in 1 .. Len(s) : Append(s, m)[i] = s[i]  OBVIOUS
<1>2. SUFFICES ASSUME NEW i \in 1 .. Len(s) + 1, Append(s, m)[i] = Message("call", k)
               PROVE  \E l \in 1 .. i - 1 : Append(s, m)[l] = Message("result", k)
      BY <1>1 DEF After
<1>3. CASE i = Len(s) + 1
  <2>1. PICK l \in 1 .. Len(s) : s[l] = Message("result", k)  BY <1>1, <1>2, <1>3 DEF Has
  <2>2. QED BY <1>1, <1>3, <2>1
<1>4. CASE i \in 1 .. Len(s)
  <2>1. PICK l \in 1 .. i - 1 : s[l] = Message("result", k)  BY <1>1, <1>2, <1>4 DEF After
  <2>2. l \in 1 .. Len(s)  BY <1>1, <1>4, <2>1
  <2>3. QED BY <1>1, <2>1, <2>2
<1>5. QED BY <1>1, <1>2, <1>3, <1>4

LEMMA Reading ==
  ASSUME NEW M, NEW s \in Seq(M), s /= <<>>
  PROVE  /\ Head(s) = s[1] /\ Head(s) \in M /\ Tail(s) \in Seq(M) /\ Len(s) \in Nat /\ Len(s) >= 1 /\ DOMAIN s = 1 .. Len(s)
         /\ DOMAIN Tail(s) = 1 .. Len(s) - 1 /\ \A i \in 1 .. Len(s) - 1 : Tail(s)[i] = s[i + 1]
OBVIOUS

LEMMA HasTail ==
  ASSUME NEW M, NEW s \in Seq(M), s /= <<>>, NEW kind, NEW k
  PROVE  Has(s, kind, k) <=> Has(Tail(s), kind, k) \/ Head(s) = Message(kind, k)
<1>1. CASE Has(s, kind, k)
  <2>1. PICK i \in 1 .. Len(s) : s[i] = Message(kind, k)  BY <1>1, Reading DEF Has
  <2>2. CASE i = 1  BY <1>1, <2>1, <2>2, Reading
  <2>3. CASE i > 1
    <3>1. i - 1 \in 1 .. Len(s) - 1 /\ i - 1 + 1 = i  BY <2>3, Reading
    <3>2. Tail(s)[i - 1] = Message(kind, k)  BY <2>1, <3>1, Reading
    <3>3. QED BY <3>1, <3>2, <1>1, Reading DEF Has
  <2>4. QED BY <2>1, <2>2, <2>3, Reading
<1>2. CASE Has(Tail(s), kind, k)
  <2>1. PICK i \in 1 .. Len(s) - 1 : Tail(s)[i] = Message(kind, k)  BY <1>2, Reading DEF Has
  <2>2. i + 1 \in 1 .. Len(s) /\ s[i + 1] = Message(kind, k)  BY <2>1, Reading
  <2>3. QED BY <2>2, <1>2, Reading DEF Has
<1>3. CASE Head(s) = Message(kind, k)  BY <1>3, Reading DEF Has
<1>4. QED BY <1>1, <1>2, <1>3

LEMMA OnceTail ==
  ASSUME NEW M, NEW s \in Seq(M), s /= <<>>, NEW kind, NEW k, Once(s, kind, k)
  PROVE  Once(Tail(s), kind, k) /\ (Head(s) = Message(kind, k) => ~Has(Tail(s), kind, k))
<1>1. ASSUME NEW i \in 1 .. Len(s) - 1, Tail(s)[i] = Message(kind, k)
      PROVE  i + 1 \in 1 .. Len(s) /\ s[i + 1] = Message(kind, k) /\ i + 1 /= 1
      BY <1>1, Reading
<1>2. Once(Tail(s), kind, k)
  <2>1. SUFFICES ASSUME NEW i \in 1 .. Len(s) - 1, NEW l \in 1 .. Len(s) - 1,
                        Tail(s)[i] = Message(kind, k), Tail(s)[l] = Message(kind, k)
                 PROVE  i = l
        BY Reading DEF Once
  <2>2. i + 1 = l + 1  BY <2>1, <1>1, Reading DEF Once
  <2>3. QED BY <2>2
<1>3. ASSUME Head(s) = Message(kind, k) PROVE ~Has(Tail(s), kind, k)
  <2>1. SUFFICES ASSUME NEW i \in 1 .. Len(s) - 1, Tail(s)[i] = Message(kind, k) PROVE FALSE
        BY Reading DEF Has
  <2>2. 1 \in 1 .. Len(s) /\ s[1] = Message(kind, k)  BY <1>3, Reading
  <2>3. QED BY <2>1, <2>2, <1>1, Reading DEF Once
<1>4. QED BY <1>2, <1>3

LEMMA AfterTail ==
  ASSUME NEW M, NEW s \in Seq(M), s /= <<>>, NEW k, After(s, k)
  PROVE  Head(s) /= Message("call", k) /\ (Head(s) /= Message("result", k) => After(Tail(s), k))
<1>1. Head(s) /= Message("call", k)
  <2>1. SUFFICES ASSUME s[1] = Message("call", k) PROVE FALSE  BY Reading
  <2>2. 1 \in DOMAIN s  BY Reading
  <2>3. \E l \in 1 .. 1 - 1 : s[l] = Message("result", k)  BY <2>1, <2>2 DEF After
  <2>4. QED BY <2>3
<1>2. ASSUME Head(s) /= Message("result", k) PROVE After(Tail(s), k)
  <2>1. SUFFICES ASSUME NEW i \in 1 .. Len(s) - 1, Tail(s)[i] = Message("call", k)
                 PROVE  \E l \in 1 .. i - 1 : Tail(s)[l] = Message("result", k)
        BY Reading DEF After
  <2>2. i + 1 \in DOMAIN s /\ s[i + 1] = Message("call", k)  BY <2>1, Reading
  <2>3. PICK l \in 1 .. i + 1 - 1 : s[l] = Message("result", k)  BY <2>2 DEF After
  <2>4. l /= 1  BY <2>3, <1>2, Reading
  <2>5. l - 1 \in 1 .. i - 1 /\ l - 1 \in 1 .. Len(s) - 1 /\ l - 1 + 1 = l  BY <2>1, <2>3, <2>4, Reading
  <2>6. Tail(s)[l - 1] = Message("result", k)  BY <2>3, <2>5, Reading
  <2>7. QED BY <2>5, <2>6
<1>3. QED BY <1>1, <1>2

-----------------------------------------------------------------------------
(* The queue of waiters. *)

LEMMA Queued ==
  ASSUME NEW ws \in Seq(Jobs), Apart(ws), NEW j \in Jobs, ~Listed(ws, j)
  PROVE  /\ Append(ws, j) \in Seq(Jobs) /\ Append(ws, j) /= <<>> /\ Apart(Append(ws, j))
         /\ \A k : Listed(Append(ws, j), k) <=> Listed(ws, k) \/ k = j
<1>1. /\ DOMAIN ws = 1 .. Len(ws) /\ Len(ws) \in Nat /\ DOMAIN Append(ws, j) = 1 .. Len(ws) + 1
      /\ Append(ws, j)[Len(ws) + 1] = j /\ \A i \in 1 .. Len(ws) : Append(ws, j)[i] = ws[i]
      /\ Append(ws, j) \in Seq(Jobs) /\ Append(ws, j) /= <<>>  OBVIOUS
<1>2. Apart(Append(ws, j))  BY <1>1 DEF Apart, Listed
<1>3. \A k : Listed(Append(ws, j), k) <=> Listed(ws, k) \/ k = j  BY <1>1 DEF Listed
<1>4. QED BY <1>1, <1>2, <1>3

LEMMA Dequeued ==
  ASSUME NEW ws \in Seq(Jobs), Apart(ws), ws /= <<>>
  PROVE  /\ Tail(ws) \in Seq(Jobs) /\ Head(ws) \in Jobs /\ Listed(ws, Head(ws)) /\ Apart(Tail(ws))
         /\ \A k : Listed(Tail(ws), k) <=> Listed(ws, k) /\ k /= Head(ws)
<1>1. Apart(Tail(ws))
  <2>1. SUFFICES ASSUME NEW i \in 1 .. Len(ws) - 1, NEW l \in 1 .. Len(ws) - 1, Tail(ws)[i] = Tail(ws)[l] PROVE i = l
        BY Reading DEF Apart
  <2>2. i + 1 \in DOMAIN ws /\ l + 1 \in DOMAIN ws /\ ws[i + 1] = ws[l + 1]  BY <2>1, Reading
  <2>3. i + 1 = l + 1  BY <2>2 DEF Apart
  <2>4. QED BY <2>3
<1>2. 1 \in DOMAIN ws /\ ws[1] = Head(ws)  BY Reading
<1>3. ASSUME NEW k, Listed(Tail(ws), k) PROVE Listed(ws, k) /\ k /= Head(ws)
  <2>1. PICK i \in 1 .. Len(ws) - 1 : Tail(ws)[i] = k  BY <1>3, Reading DEF Listed
  <2>2. i + 1 \in DOMAIN ws /\ ws[i + 1] = k /\ i + 1 /= 1  BY <2>1, Reading
  <2>3. QED BY <1>2, <2>2 DEF Listed, Apart
<1>4. ASSUME NEW k, Listed(ws, k), k /= Head(ws) PROVE Listed(Tail(ws), k)
  <2>1. PICK i \in 1 .. Len(ws) : ws[i] = k  BY <1>4, Reading DEF Listed
  <2>2. i /= 1  BY <2>1, <1>2, <1>4
  <2>3. i - 1 \in 1 .. Len(ws) - 1 /\ i - 1 + 1 = i  BY <2>1, <2>2, Reading
  <2>4. i - 1 \in DOMAIN Tail(ws) /\ Tail(ws)[i - 1] = k  BY <2>1, <2>3, Reading
  <2>5. QED BY <2>4 DEF Listed
<1>5. Listed(ws, Head(ws))  BY <1>2 DEF Listed
<1>6. Tail(ws) \in Seq(Jobs) /\ Head(ws) \in Jobs  BY Reading
<1>7. QED BY <1>1, <1>3, <1>4, <1>5, <1>6

LEMMA Removed ==
  ASSUME NEW ws \in Seq(Jobs), NEW n \in DOMAIN ws
  PROVE  /\ RemoveAt(ws, n) \in Seq(Jobs) /\ DOMAIN RemoveAt(ws, n) = 1 .. Len(ws) - 1 /\ Len(ws) \in Nat
         /\ \A i \in 1 .. Len(ws) - 1 : RemoveAt(ws, n)[i] = IF i < n THEN ws[i] ELSE ws[i + 1]
<1> DEFINE a == SubSeq(ws, 1, n - 1)
<1> DEFINE b == SubSeq(ws, n + 1, Len(ws))
<1>1. Len(ws) \in Nat /\ n \in 1 .. Len(ws)  OBVIOUS
<1>2. a \in Seq(Jobs) /\ Len(a) = n - 1 /\ \A i \in 1 .. n - 1 : a[i] = ws[i]  BY <1>1
<1>3. b \in Seq(Jobs) /\ Len(b) = Len(ws) - n /\ \A i \in 1 .. Len(ws) - n : b[i] = ws[n + i]  BY <1>1
<1>4. RemoveAt(ws, n) = a \o b  BY DEF RemoveAt
<1> HIDE DEF a, b
<1>5. /\ a \o b \in Seq(Jobs) /\ Len(a \o b) = Len(ws) - 1
      /\ \A i \in 1 .. Len(ws) - 1 : (a \o b)[i] = IF i <= n - 1 THEN a[i] ELSE b[i - (n - 1)]
      BY <1>1, <1>2, <1>3, SMTT(40)
<1>6. ASSUME NEW i \in 1 .. Len(ws) - 1 PROVE (a \o b)[i] = IF i < n THEN ws[i] ELSE ws[i + 1]
  <2>1. CASE i < n
    <3>1. i \in 1 .. n - 1 /\ i <= n - 1  BY <1>1, <2>1
    <3>2. QED BY <1>2, <1>5, <2>1, <3>1
  <2>2. CASE ~(i < n)
    <3>1. i - (n - 1) \in 1 .. Len(ws) - n /\ ~(i <= n - 1) /\ n + (i - (n - 1)) = i + 1  BY <1>1, <2>2
    <3>2. b[i - (n - 1)] = ws[i + 1]  BY <1>3, <3>1
    <3>3. QED BY <1>5, <2>2, <3>1, <3>2
  <2>3. QED BY <2>1, <2>2
<1>7. DOMAIN (a \o b) = 1 .. Len(ws) - 1  BY <1>1, <1>5
<1>8. QED BY <1>1, <1>4, <1>5, <1>6, <1>7

LEMMA GivenUp ==
  ASSUME NEW ws \in Seq(Jobs), Apart(ws), NEW j \in Jobs
  PROVE  /\ GivesUp(ws, j) \in Seq(Jobs) /\ Apart(GivesUp(ws, j))
         /\ \A k : Listed(GivesUp(ws, j), k) <=> Listed(ws, k) /\ k /= j
         /\ GivesUp(ws, j) /= <<>> => ws /= <<>>
         /\ ~Listed(ws, j) => GivesUp(ws, j) = ws
<1>0. j \in ToSet(ws) <=> Listed(ws, j)  BY DEF ToSet, Listed
<1>1. CASE ~Listed(ws, j)
  <2>1. GivesUp(ws, j) = ws  BY <1>0, <1>1 DEF GivesUp
  <2>2. QED BY <1>1, <2>1
<1>2. CASE Listed(ws, j)
  <2> DEFINE n == CHOOSE i \in DOMAIN ws : ws[i] = j
  <2>1. n \in DOMAIN ws /\ ws[n] = j  BY <1>2 DEF Listed
  <2>2. GivesUp(ws, j) = RemoveAt(ws, n)  BY <1>0, <1>2 DEF GivesUp
  <2> HIDE DEF n
  <2> DEFINE r == RemoveAt(ws, n)
  <2>3. /\ r \in Seq(Jobs) /\ DOMAIN r = 1 .. Len(ws) - 1 /\ Len(ws) \in Nat
        /\ \A i \in 1 .. Len(ws) - 1 : r[i] = IF i < n THEN ws[i] ELSE ws[i + 1]
        BY <2>1, Removed
  <2>4. DOMAIN ws = 1 .. Len(ws) /\ n \in 1 .. Len(ws)  BY <2>1
  <2> HIDE DEF r
  <2>5. ASSUME NEW k, Listed(r, k) PROVE Listed(ws, k) /\ k /= j
    <3>1. PICK i \in 1 .. Len(ws) - 1 : r[i] = k  BY <2>3, <2>5 DEF Listed
    <3>2. PICK l \in 1 .. Len(ws) : ws[l] = k /\ l /= n  BY <2>3, <2>4, <3>1
    <3>3. QED BY <2>1, <2>4, <3>2 DEF Listed, Apart
  <2>6. ASSUME NEW k, Listed(ws, k), k /= j PROVE Listed(r, k)
    <3>1. PICK i \in 1 .. Len(ws) : ws[i] = k  BY <2>4, <2>6 DEF Listed
    <3>2. i /= n  BY <2>1, <2>6, <3>1
    <3>3. CASE i < n
      <4>1. i \in 1 .. Len(ws) - 1 /\ r[i] = k  BY <2>3, <2>4, <3>1, <3>3
      <4>2. QED BY <2>3, <4>1 DEF Listed
    <3>4. CASE i > n
      <4>1. i - 1 \in 1 .. Len(ws) - 1 /\ ~(i - 1 < n) /\ i - 1 + 1 = i  BY <2>3, <2>4, <3>1, <3>4
      <4>2. r[i - 1] = k  BY <2>3, <3>1, <4>1
      <4>3. QED BY <2>3, <4>1, <4>2 DEF Listed
    <3>5. QED BY <2>4, <3>1, <3>2, <3>3, <3>4
  <2>7. Apart(r)
    <3>1. SUFFICES ASSUME NEW i \in 1 .. Len(ws) - 1, NEW l \in 1 .. Len(ws) - 1, r[i] = r[l] PROVE i = l
          BY <2>3 DEF Apart
    <3>2. PICK x \in 1 .. Len(ws) : x = (IF i < n THEN i ELSE i + 1) /\ ws[x] = r[i]  BY <2>3, <2>4
    <3>3. PICK y \in 1 .. Len(ws) : y = (IF l < n THEN l ELSE l + 1) /\ ws[y] = r[l]  BY <2>3, <2>4
    <3>4. x = y  BY <2>4, <3>1, <3>2, <3>3 DEF Apart
    <3>5. QED BY <2>4, <3>2, <3>3, <3>4
  <2>8. ws /= <<>>  BY <2>4
  <2>9. GivesUp(ws, j) = r  BY <2>2 DEF r
  <2>10. QED BY <1>2, <2>3, <2>5, <2>6, <2>7, <2>8, <2>9
<1>3. QED BY <1>1, <1>2

-----------------------------------------------------------------------------
(* What a thread knows of a run. *)

Silent(pw, k) ==
  /\ ~Has(pw.inbox, "process", k) /\ ~Has(pw.inbox, "answer", k) /\ pw.active /= k
  /\ pw.floating /= k /\ ~Has(pw.outbox, "call", k) /\ ~Has(pw.outbox, "result", k)

LEMMA UnknownIsSilent ==
  ASSUME NEW pw, NEW w, NEW k, NEW q, Talks(pw, w, k, q), ~Known(q, w)
  PROVE  Silent(pw, k)
BY DEF Talks, Silent

LEMMA SilentTalks ==
  ASSUME NEW pw, NEW w, NEW k, NEW q, Silent(pw, k)
  PROVE  Talks(pw, w, k, q)
<1>1. After(pw.outbox, k)  BY DEF Silent, After, Has
<1>2. QED BY <1>1 DEF Talks, Silent

LEMMA SameTalks ==
  ASSUME NEW pw, NEW px, NEW w, NEW k, NEW q, Talks(pw, w, k, q), px.inbox = pw.inbox, px.outbox = pw.outbox,
         px.active = pw.active, px.floating = pw.floating, px.pending = pw.pending, px.current = pw.current
  PROVE  Talks(px, w, k, q)
BY DEF Talks

LEMMA StillTalks ==
  ASSUME NEW pw, NEW w, NEW k, NEW q, NEW r, Talks(pw, w, k, q), Known(q, w) => Known(r, w),
         pw.active = k => q.writes = r.writes /\ q.calls = r.calls
  PROVE  Talks(pw, w, k, r)
BY DEF Talks

(* Who has not run yet is nobody's. *)
LEMMA Outsider ==
  ASSUME Inv, NEW w \in Workers, NEW k \in Jobs, job[k].at \in {"new", "waiting", "granted"}
  PROVE  worker[w].current /= k /\ Silent(worker[w], k)
<1>1. ~Known(job[k], w)  BY DEF Known
<1>2. Silent(worker[w], k)  BY <1>1, UnknownIsSilent DEF Inv, Pairs, Pair
<1>3. job[k].out /= "unsent"  BY DEF Inv, Runs, RunFits
<1>4. worker[w].current /= k  BY <1>3 DEF Inv, Pairs, Pair, Serves
<1>5. QED BY <1>2, <1>4

(* A thread that serves a run serves no other. *)
LEMMA Single ==
  ASSUME Inv, NEW w \in Workers, NEW j \in Jobs, NEW k \in Jobs,
         job[j].at \in {"granted", "run"}, job[j].on = w, job[k].at \in {"granted", "run"}, job[k].on = w
  PROVE  j = k
<1>1. Serves(worker[w], w, j, job[j]) /\ Serves(worker[w], w, k, job[k])  BY DEF Inv, Pairs, Pair
<1>2. None \notin Jobs  BY ConstantsAssumption
<1>3. CASE job[j].at = "granted" /\ job[k].at = "granted"  BY <1>3 DEF Inv, Granting, GrantedOn
<1>4. CASE job[j].at = "run" \/ job[k].at = "run"  BY <1>1, <1>2, <1>4 DEF Serves
<1>5. QED BY <1>3, <1>4

(* What the runner of a thread works on runs there. *)
LEMMA ActiveRuns ==
  ASSUME Inv, NEW w \in Workers, NEW k \in Jobs, worker[w].active = k
  PROVE  worker[w].current = k /\ job[k].at = "run" /\ job[k].on = w /\ job[k].out /= "unsent"
<1>1. Known(job[k], w) /\ worker[w].current = k  BY DEF Inv, Pairs, Pair, Talks
<1>2. Serves(worker[w], w, k, job[k])  BY DEF Inv, Pairs, Pair
<1>3. QED BY <1>1, <1>2 DEF Serves, Known

-----------------------------------------------------------------------------
(* The initial states, and one lemma per action. *)

LEMMA Types ==
  ASSUME Shape
  PROVE  /\ \A w \in Workers : worker[w] \in WorkerRecords
         /\ \A k \in Jobs : job[k] \in JobRecords
         /\ None \notin Jobs
BY ConstantsAssumption DEF Shape

LEMMA EmptyIsSilent ==
  ASSUME NEW pw, pw.inbox = <<>>, pw.outbox = <<>>, pw.active = None, pw.floating = None, NEW k \in Jobs
  PROVE  Silent(pw, k)
<1>1. None \notin Jobs  BY ConstantsAssumption
<1>2. DOMAIN <<>> = {}  OBVIOUS
<1>3. QED BY <1>1, <1>2 DEF Silent, Has

LEMMA Fresh ==
  /\ NoWorker \in WorkerRecords /\ Spawned \in WorkerRecords
  /\ NoWorker.life = "none" /\ ~NoWorker.busy /\ ~NoWorker.ending /\ NoWorker.current = None
  /\ Spawned.life = "live" /\ Spawned.busy /\ ~Spawned.ending /\ Spawned.current = None
  /\ \A k \in Jobs : Silent(NoWorker, k) /\ Silent(Spawned, k)
<1>1. <<>> \in Seq(InMessages) /\ <<>> \in Seq(OutMessages)  OBVIOUS
<1>2. NoWorker \in WorkerRecords /\ Spawned \in WorkerRecords  BY <1>1 DEF NoWorker, Spawned, WorkerRecords
<1>3. /\ NoWorker.life = "none" /\ ~NoWorker.busy /\ ~NoWorker.ending /\ NoWorker.current = None
      /\ Spawned.life = "live" /\ Spawned.busy /\ ~Spawned.ending /\ Spawned.current = None
      BY DEF NoWorker, Spawned
<1>4. /\ NoWorker.inbox = <<>> /\ NoWorker.outbox = <<>> /\ NoWorker.active = None /\ NoWorker.floating = None
      /\ Spawned.inbox = <<>> /\ Spawned.outbox = <<>> /\ Spawned.active = None /\ Spawned.floating = None
      BY DEF NoWorker, Spawned
<1>5. \A k \in Jobs : Silent(NoWorker, k) /\ Silent(Spawned, k)  BY <1>4, EmptyIsSilent
<1>6. QED BY <1>2, <1>3, <1>5

LEMMA InitInv == Init => Inv
<1> SUFFICES ASSUME Init PROVE Inv  OBVIOUS
<1> USE DEF Init
<1>0. None \notin Jobs  BY ConstantsAssumption
<1>1. Shape
  <2>1. worker \in [Workers -> WorkerRecords]  BY Fresh
  <2>2. job \in [Jobs -> JobRecords]  BY ConstantsAssumption DEF JobRecords
  <2>3. crashes \in 0 .. conf.crashes  BY ProfilesAssumption
  <2>4. /\ closed \in BOOLEAN /\ pool \subseteq Workers /\ conf \in Profiles
        /\ waiters \in Seq(Jobs)
    <3>1. <<>> \in Seq(Jobs)  OBVIOUS
    <3>2. waiters = <<>> /\ closed = FALSE /\ pool = {} /\ conf \in Profiles  OBVIOUS
    <3>3. QED BY <3>1, <3>2
  <2>5. QED BY <2>1, <2>2, <2>3, <2>4 DEF Shape
<1>2. Pairs
  <2>1. SUFFICES ASSUME NEW w \in Workers, NEW k \in Jobs PROVE Pair(w, k)  BY DEF Pairs
  <2>2. worker[w] = NoWorker /\ job[k].at = "new"  OBVIOUS
  <2>3. Talks(worker[w], w, k, job[k])  BY <2>2, Fresh, SilentTalks
  <2>4. Serves(worker[w], w, k, job[k])  BY <1>0, <2>2, Fresh DEF Serves
  <2>5. QED BY <2>3, <2>4 DEF Pair
<1>3. Runs  BY DEF Runs, RunFits
<1>4. Threads  BY Fresh DEF Threads, ThreadFits
<1>5. Granting  BY Fresh DEF Granting, GrantedOn
<1>6. Waiting  BY DEF Waiting, Apart, Listed
<1>7. QED BY <1>1, <1>2, <1>3, <1>4, <1>5, <1>6 DEF Inv

(* A worker that is free for another run: what its release, its exit and its spawning have in  *)
(* common.  Thread w is without a current run, its runner says nothing about the run it is      *)
(* given to, and the runs that were on it have settled.                                          *)
LEMMA SettledFields ==
  ASSUME NEW q \in JobRecords, NEW out \in {"result", "unsent", "aborted", "terminated", "exited", "closed"}
  PROVE  /\ Settled(q, out) \in JobRecords /\ Settled(q, out).at = "settled" /\ Settled(q, out).out = out
         /\ ~Settled(q, out).grace /\ Settled(q, out).signal = q.signal
         /\ Settled(q, out).calls = 0 /\ Settled(q, out).writes = 0
<1>1. 0 \in 0 .. MaxWorkers  BY ConstantsAssumption
<1>2. Settled(q, out) \in JobRecords  BY <1>1 DEF Settled, JobRecords
<1>3. Settled(q, out).at = "settled" /\ Settled(q, out).out = out  BY DEF Settled, JobRecords
<1>4. ~Settled(q, out).grace /\ Settled(q, out).signal = q.signal  BY DEF Settled, JobRecords
<1>5. Settled(q, out).calls = 0 /\ Settled(q, out).writes = 0  BY DEF Settled, JobRecords
<1>6. QED BY <1>2, <1>3, <1>4, <1>5

(* Leaving a thread: run j, which was served by w, settles, and the other threads know nothing of it. *)
LEMMA Elsewhere ==
  ASSUME Inv, NEW w \in Workers, NEW j \in Jobs, job[j].at \in {"granted", "run"}, job[j].on = w,
         NEW x \in Workers, x /= w, NEW r, r.at = "settled"
  PROVE  Serves(worker[x], x, j, r) /\ Talks(worker[x], x, j, r)
<1>1. ~Known(job[j], x)  BY DEF Known
<1>2. Silent(worker[x], j)  BY <1>1, UnknownIsSilent DEF Inv, Pairs, Pair
<1>3. job[j].out /= "unsent"  BY DEF Inv, Runs, RunFits
<1>4. worker[x].current /= j  BY <1>3 DEF Inv, Pairs, Pair, Serves
<1>5. QED BY <1>2, <1>4, SilentTalks DEF Serves

(* A thread changes hands: the runs that w served have settled, at most one run is given to w, *)
(* and nothing is said on w that the new state does not allow.                                   *)
Left(k, w)  == job[k].at \in {"granted", "run"} /\ job[k].on = w /\ job'[k].at = "settled"
Given(k, w) == job[k].at \in {"new", "waiting"} /\ job'[k].at = "granted" /\ job'[k].on = w
Stays(k, w) == job'[k] = job[k] /\ ~(job[k].at \in {"granted", "run"} /\ job[k].on = w)

LEMMA Renews ==
  ASSUME Inv, NEW w \in Workers, Shape', Runs', Threads', Waiting',
         \A x \in Workers : x /= w => worker'[x] = worker[x],
         worker'[w].current = None,
         \A k \in Jobs : Talks(worker'[w], w, k, job'[k]),
         \A k \in Jobs : Left(k, w) \/ Given(k, w) \/ Stays(k, w),
         \A i, k \in Jobs : Given(i, w) /\ Given(k, w) => i = k,
         (\E k \in Jobs : Given(k, w)) => worker'[w].busy /\ ~worker'[w].ending /\ worker'[w].life /= "none",
         (worker'[w].busy /\ worker'[w].life = "live") => \E k \in Jobs : Given(k, w)
  PROVE  Inv'
<1>1. Pairs /\ Runs /\ Granting /\ None \notin Jobs  BY Types DEF Inv
<1>2. Pairs'
  <2>1. SUFFICES ASSUME NEW x \in Workers, NEW k \in Jobs
                 PROVE  Serves(worker'[x], x, k, job'[k]) /\ Talks(worker'[x], x, k, job'[k])
        BY DEF Pairs, Pair
  <2>2. CASE x = w
    <3>1. ~(job'[k].at = "run" /\ job'[k].on = w)  BY DEF Left, Given, Stays
    <3>2. (job'[k].at = "granted" /\ job'[k].on = w) => Given(k, w)  BY DEF Left, Given, Stays
    <3>3. QED BY <1>1, <2>2, <3>1, <3>2 DEF Serves
  <2>3. CASE x /= w /\ Left(k, w)  BY <2>3, Elsewhere DEF Left
  <2>4. CASE x /= w /\ Given(k, w)
    <3>1. worker[x].current /= k /\ Silent(worker[x], k)  BY <2>4, Outsider DEF Given
    <3>2. Serves(worker[x], x, k, job'[k])  BY <2>4, <3>1 DEF Serves, Given
    <3>3. QED BY <2>4, <3>1, <3>2, SilentTalks
  <2>5. CASE x /= w /\ Stays(k, w)  BY <1>1, <2>5 DEF Pairs, Pair, Stays
  <2>6. QED BY <2>2, <2>3, <2>4, <2>5
<1>3. ASSUME NEW x \in Workers, NEW k \in Jobs, job'[k].at = "granted", job'[k].on = x
      PROVE  (x = w /\ Given(k, w)) \/ (x /= w /\ GrantedOn(k, x))
      BY <1>3 DEF Left, Given, Stays, GrantedOn
<1>4. ASSUME NEW x \in Workers, NEW i \in Jobs, NEW k \in Jobs, job'[i].at = "granted", job'[i].on = x,
             job'[k].at = "granted", job'[k].on = x
      PROVE  i = k
  <2>1. CASE x = w  BY <1>3, <1>4, <2>1
  <2>2. CASE x /= w  BY <1>1, <1>3, <1>4, <2>2 DEF Granting
  <2>3. QED BY <2>1, <2>2
<1>5. ASSUME NEW x \in Workers, worker'[x].busy, worker'[x].life = "live"
      PROVE  worker'[x].current /= None \/ \E k \in Jobs : job'[k].at = "granted" /\ job'[k].on = x
  <2>1. CASE x = w  BY <1>5, <2>1 DEF Given
  <2>2. CASE x /= w
    <3>1. CASE worker[x].current /= None  BY <2>2, <3>1
    <3>2. CASE worker[x].current = None
      <4>1. PICK k \in Jobs : GrantedOn(k, x)  BY <1>1, <1>5, <2>2, <3>2 DEF Granting
      <4>2. job'[k].at = "granted" /\ job'[k].on = x  BY <2>2, <4>1 DEF Left, Given, Stays, GrantedOn
      <4>3. QED BY <4>2
    <3>3. QED BY <3>1, <3>2
  <2>3. QED BY <2>1, <2>2
<1>6. Granting'  BY <1>4, <1>5 DEF Granting, GrantedOn
<1>7. QED BY <1>2, <1>6 DEF Inv

LEMMA Releases ==
  ASSUME Inv, NEW w \in Workers, NEW j \in Jobs, job[j].at \in {"granted", "run"}, job[j].on = w,
         NEW r \in JobRecords, r.at = "settled", RunFits(r, conf.manner[j]),
         NEW box \in Seq(OutMessages),
         \A k \in Jobs : Talks([worker[w] EXCEPT !.outbox = box, !.current = None], w, k, IF k = j THEN r ELSE job[k]),
         Release(w, [job EXCEPT ![j] = r], [worker EXCEPT ![w].outbox = box]),
         UNCHANGED <<conf, closed, pool, crashes>>
  PROVE  Inv'
<1> DEFINE jobs == [job EXCEPT ![j] = r]
<1> DEFINE pw == [worker[w] EXCEPT !.outbox = box, !.current = None]
<1> DEFINE h == Head(waiters)
<1> DEFINE hands == ~worker[w].ending /\ waiters /= <<>>
<1>1. Shape /\ Pairs /\ Runs /\ Threads /\ Granting /\ Waiting  BY DEF Inv
<1>2. worker[w] \in WorkerRecords /\ None \notin Jobs  BY <1>1, Types
<1>3. /\ pw \in WorkerRecords /\ pw.current = None /\ pw.ending = worker[w].ending /\ pw.life = worker[w].life
      /\ pw.inbox = worker[w].inbox /\ pw.outbox = box /\ pw.active = worker[w].active
      /\ pw.floating = worker[w].floating /\ pw.pending = worker[w].pending
      BY <1>2 DEF WorkerRecords
<1>4. jobs \in [Jobs -> JobRecords] /\ jobs[j] = r /\ \A k \in Jobs : k /= j => jobs[k] = job[k]  BY <1>1 DEF Shape
<1>5. \A k \in Jobs : Talks(pw, w, k, jobs[k])  BY <1>4
<1>6. hands => /\ h \in Jobs /\ job[h].at = "waiting" /\ h /= j
               /\ Tail(waiters) \in Seq(Jobs) /\ Apart(Tail(waiters))
               /\ \A k : Listed(Tail(waiters), k) <=> Listed(waiters, k) /\ k /= h
      BY <1>1, Dequeued DEF Waiting, Shape
<1>7. /\ worker' \in [Workers -> WorkerRecords]
      /\ \A x \in Workers : x /= w => worker'[x] = worker[x]
      /\ worker'[w] = [pw EXCEPT !.busy = IF hands THEN TRUE ELSE pw.ending]
  <2>1. CASE hands
    <3>1. worker' = [[worker EXCEPT ![w].outbox = box] EXCEPT ![w] = [Free(@) EXCEPT !.busy = TRUE]]
          BY <1>1, <2>1, <1>2 DEF Release, Shape, WorkerRecords
    <3>2. [Free([worker[w] EXCEPT !.outbox = box]) EXCEPT !.busy = TRUE] = [pw EXCEPT !.busy = TRUE]
          BY <1>2 DEF Free, WorkerRecords
    <3>3. [pw EXCEPT !.busy = TRUE] \in WorkerRecords  BY <1>3 DEF WorkerRecords
    <3>4. QED BY <1>1, <2>1, <3>1, <3>2, <3>3 DEF Shape
  <2>2. CASE ~hands
    <3>1. worker' = [[worker EXCEPT ![w].outbox = box] EXCEPT ![w] = Free(@)]
          BY <1>1, <2>2, <1>2 DEF Release, Shape, WorkerRecords
    <3>2. Free([worker[w] EXCEPT !.outbox = box]) = [pw EXCEPT !.busy = pw.ending]
          BY <1>2, <1>3 DEF Free, WorkerRecords
    <3>3. [pw EXCEPT !.busy = pw.ending] \in WorkerRecords  BY <1>3 DEF WorkerRecords
    <3>4. QED BY <1>1, <2>2, <3>1, <3>2, <3>3 DEF Shape
  <2>3. QED BY <2>1, <2>2
<1>8. /\ job' \in [Jobs -> JobRecords] /\ job'[j] = r
      /\ \A k \in Jobs : k /= j /\ ~(hands /\ k = h) => job'[k] = job[k]
      /\ hands => job'[h] = [job[h] EXCEPT !.at = "granted", !.on = w]
  <2>1. CASE hands
    <3>1. job' = [jobs EXCEPT ![h].at = "granted", ![h].on = w]
          BY <1>1, <2>1, <1>2 DEF Release, Shape, WorkerRecords
    <3>2. w \in 0 .. MaxWorkers /\ job[h] \in JobRecords  BY <1>1, <1>6, <2>1, ConstantsAssumption DEF Shape, Workers
    <3>3. job' = [jobs EXCEPT ![h] = [job[h] EXCEPT !.at = "granted", !.on = w]]
          BY <1>4, <1>6, <2>1, <3>1, <3>2
    <3>4. [job[h] EXCEPT !.at = "granted", !.on = w] \in JobRecords  BY <3>2 DEF JobRecords
    <3>5. QED BY <1>4, <1>6, <2>1, <3>3, <3>4
  <2>2. CASE ~hands
    <3>1. job' = jobs  BY <1>1, <2>2, <1>2 DEF Release, Shape, WorkerRecords
    <3>2. QED BY <1>4, <2>2, <3>1
  <2>3. QED BY <2>1, <2>2
<1>9. waiters' = IF hands THEN Tail(waiters) ELSE waiters
      BY <1>1, <1>2 DEF Release, Shape, WorkerRecords
<1>10. hands => /\ job'[h].at = "granted" /\ job'[h].on = w /\ job'[h].out = job[h].out /\ job'[h].grace = job[h].grace
                /\ job'[h].signal = job[h].signal /\ job'[h].calls = job[h].calls /\ job'[h].writes = job[h].writes
      BY <1>1, <1>6, <1>8 DEF Shape, JobRecords
<1>11. /\ worker'[w].current = None /\ worker'[w].ending = worker[w].ending /\ worker'[w].life = worker[w].life
       /\ worker'[w].busy <=> hands \/ worker[w].ending
       /\ worker'[w].inbox = pw.inbox /\ worker'[w].outbox = pw.outbox /\ worker'[w].active = pw.active
       /\ worker'[w].floating = pw.floating /\ worker'[w].pending = pw.pending
  <2> DEFINE nb == IF hands THEN TRUE ELSE pw.ending
  <2>1. worker'[w] = [pw EXCEPT !.busy = nb] /\ nb \in BOOLEAN
    <3>1. pw.ending \in BOOLEAN  BY <1>3 DEF WorkerRecords
    <3>2. QED BY <1>7, <3>1
  <2>2. hands => nb = TRUE  OBVIOUS
  <2>3. ~hands => nb = worker[w].ending  BY <1>3
  <2> HIDE DEF jobs, pw, h, hands, nb
  <2>4. nb <=> hands \/ worker[w].ending  BY <2>2, <2>3
  <2>5. QED BY <1>3, <2>1, <2>4 DEF WorkerRecords
<1> HIDE DEF jobs, pw, h, hands
<1>12. Serves(worker[w], w, j, job[j])  BY <1>1 DEF Pairs, Pair
<1>13. \A k \in Jobs : k /= j => ~(job[k].at \in {"granted", "run"} /\ job[k].on = w)  BY Single
<1>14. Shape'  BY <1>1, <1>7, <1>8, <1>9, <1>6 DEF Shape
<1>15. \A k \in Jobs : Talks(worker'[w], w, k, job'[k])
  <2>1. SUFFICES ASSUME NEW k \in Jobs PROVE Talks(worker'[w], w, k, job'[k])  OBVIOUS
  <2>2. CASE hands /\ k = h
    <3>1. Silent(worker[w], k) /\ ~Known(job[k], w) /\ jobs[k] = job[k]
          BY <1>4, <1>6, <2>2, Outsider DEF Known
    <3>2. Silent(pw, k)  BY <1>5, <3>1, UnknownIsSilent
    <3>3. Silent(worker'[w], k)  BY <1>11, <3>2 DEF Silent
    <3>4. QED BY <3>3, SilentTalks
  <2>3. CASE ~(hands /\ k = h)
    <3>1. job'[k] = jobs[k]  BY <1>4, <1>8, <2>3
    <3>2. QED BY <1>3, <1>5, <1>11, <3>1, SameTalks
  <2>4. QED BY <2>2, <2>3
<1>16. Runs'
  <2>1. SUFFICES ASSUME NEW k \in Jobs PROVE RunFits(job'[k], conf.manner[k])  BY DEF Runs
  <2>2. CASE k = j  BY <1>8, <2>2 DEF RunFits
  <2>3. CASE k /= j /\ hands /\ k = h  BY <1>1, <1>6, <1>10, <2>3 DEF Runs, RunFits
  <2>4. CASE k /= j /\ ~(hands /\ k = h)  BY <1>1, <1>8, <2>4 DEF Runs, RunFits
  <2>5. QED BY <2>2, <2>3, <2>4
<1>17. Threads'
  <2>1. SUFFICES ASSUME NEW x \in Workers PROVE ThreadFits(worker[x], x)'  BY DEF Threads
  <2>2. ThreadFits(worker[x], x)  BY <1>1 DEF Threads
  <2>3. CASE x /= w  BY <1>7, <2>2, <2>3 DEF ThreadFits
  <2>4. CASE x = w
    <3>1. hands => ~worker[w].ending  BY DEF hands
    <3>2. QED BY <1>11, <2>2, <2>4, <3>1 DEF ThreadFits
  <2>5. QED BY <2>3, <2>4
<1>18. \A k \in Jobs : IF k = j THEN Left(k, w) ELSE IF hands /\ k = h THEN Given(k, w) ELSE Stays(k, w)
       BY <1>6, <1>8, <1>10, <1>13 DEF Left, Given, Stays
<1>19. Waiting'
  <2>1. Apart(waiters')  BY <1>1, <1>6, <1>9 DEF Waiting
  <2>2. ASSUME NEW k \in Jobs PROVE job'[k].at = "waiting" <=> Listed(waiters', k)
    <3>1. CASE hands  BY <1>1, <1>6, <1>8, <1>9, <1>10, <3>1, SMTT(40), ZenonT(40) DEF Waiting
    <3>2. CASE ~hands  BY <1>1, <1>8, <1>9, <3>2 DEF Waiting
    <3>3. QED BY <3>1, <3>2
  <2>3. waiters' /= <<>> => ~closed' /\ pool' = Workers /\ \A x \in Workers : worker'[x].busy
    <3>1. SUFFICES ASSUME waiters' /= <<>> PROVE ~closed /\ pool = Workers /\ \A x \in Workers : worker'[x].busy  OBVIOUS
    <3>2. waiters /= <<>>  BY <1>9, <3>1 DEF hands
    <3>3. hands \/ worker[w].ending  BY <3>2 DEF hands
    <3>4. worker'[w].busy  BY <1>11, <3>3
    <3>5. QED BY <1>1, <1>7, <3>2, <3>4 DEF Waiting
  <2>4. QED BY <2>1, <2>2, <2>3 DEF Waiting
<1>20. \A k \in Jobs : Given(k, w) <=> hands /\ k = h
  <2>1. \A k \in Jobs : Given(k, w) => ~Left(k, w)  BY DEF Given, Left
  <2>2. \A k \in Jobs : Given(k, w) => ~Stays(k, w)  BY DEF Given, Stays
  <2>3. QED BY <1>6, <1>18, <2>1, <2>2
<1>21. hands => worker'[w].busy /\ ~worker'[w].ending /\ worker'[w].life /= "none"
       BY <1>11, <1>12 DEF Serves, hands
<1>22. (worker'[w].busy /\ worker'[w].life = "live") => hands  BY <1>1, <1>11 DEF Threads, ThreadFits
<1>23. \A k \in Jobs : Left(k, w) \/ Given(k, w) \/ Stays(k, w)  BY <1>18
<1>24. \A i, k \in Jobs : Given(i, w) /\ Given(k, w) => i = k  BY <1>20
<1>25. (\E k \in Jobs : Given(k, w)) => worker'[w].busy /\ ~worker'[w].ending /\ worker'[w].life /= "none"
       BY <1>20, <1>21
<1>26. (worker'[w].busy /\ worker'[w].life = "live") => \E k \in Jobs : Given(k, w)  BY <1>6, <1>20, <1>22
<1>27. worker'[w].current = None /\ \A x \in Workers : x /= w => worker'[x] = worker[x]  BY <1>7, <1>11
<1>28. QED BY <1>14, <1>15, <1>16, <1>17, <1>19, <1>23, <1>24, <1>25, <1>26, <1>27, Renews

(* The threads serve whom they served before: a step of a runner, a message that is not a result, *)
(* a stop, an abort; who has not been given a thread yet may come to wait or be refused.          *)
Same(k)    == job'[k].at = job[k].at /\ job'[k].on = job[k].on /\ job'[k].out = job[k].out
Refused(k) == job[k].at \in {"new", "waiting"} /\ job'[k].at \in {"waiting", "settled"} /\ job'[k].out /= "unsent"

LEMMA Continues ==
  ASSUME Inv, Shape', Runs', Threads', Waiting',
         \A x \in Workers :
           /\ worker'[x].busy = worker[x].busy /\ worker'[x].current = worker[x].current
           /\ worker[x].life /= "none" => worker'[x].life /= "none"
           /\ worker'[x].life = "live" => worker[x].life = "live"
           /\ worker'[x].ending => \/ worker[x].ending
                                   \/ Granted = {} /\ \A k \in Jobs : worker[x].current = k => job'[k].signal,
         \A k \in Jobs : (Same(k) /\ (job[k].signal => job'[k].signal)) \/ Refused(k),
         \A x \in Workers, k \in Jobs : Talks(worker'[x], x, k, job'[k])
  PROVE  Inv'
<1>1. Pairs /\ Granting  BY DEF Inv
<1>2. ASSUME NEW x \in Workers, NEW k \in Jobs PROVE Serves(worker'[x], x, k, job'[k])
  <2>1. CASE Refused(k)
    <3>1. worker[x].current /= k  BY <2>1, Outsider DEF Refused
    <3>2. QED BY <2>1, <3>1 DEF Serves, Refused
  <2>2. CASE Same(k) /\ (job[k].signal => job'[k].signal)
    <3>1. Serves(worker[x], x, k, job[k])  BY <1>1 DEF Pairs, Pair
    <3>2. job[k].at = "granted" => Granted /= {}  BY DEF Granted, At
    <3>3. QED BY <2>2, <3>1, <3>2 DEF Serves, Same
  <2>3. QED BY <2>1, <2>2
<1>3. Pairs'  BY <1>2 DEF Pairs, Pair
<1>4. ASSUME NEW x \in Workers, NEW k \in Jobs
      PROVE  (job'[k].at = "granted" /\ job'[k].on = x) <=> GrantedOn(k, x)
      BY DEF Same, Refused, GrantedOn
<1>5. Granting'  BY <1>1, <1>4 DEF Granting, GrantedOn
<1>6. QED BY <1>3, <1>5 DEF Inv

(* A thread whose runner has not moved talks as before, and of a refused run nothing is said. *)
LEMMA Unheard ==
  ASSUME Inv, NEW x \in Workers, NEW k \in Jobs, NEW px, NEW r,
         px.inbox = worker[x].inbox, px.outbox = worker[x].outbox, px.active = worker[x].active,
         px.floating = worker[x].floating, px.pending = worker[x].pending, px.current = worker[x].current,
         \/ job[k].at \in {"new", "waiting"}
         \/ r.at = job[k].at /\ r.on = job[k].on /\ r.out = job[k].out /\ r.calls = job[k].calls /\ r.writes = job[k].writes
  PROVE  Talks(px, x, k, r)
<1>1. Talks(worker[x], x, k, job[k])  BY DEF Inv, Pairs, Pair
<1>2. CASE job[k].at \in {"new", "waiting"}
  <2>1. Silent(worker[x], k)  BY <1>2, Outsider
  <2>2. Silent(px, k)  BY <2>1 DEF Silent
  <2>3. QED BY <2>2, SilentTalks
<1>3. CASE r.at = job[k].at /\ r.on = job[k].on /\ r.out = job[k].out /\ r.calls = job[k].calls /\ r.writes = job[k].writes
  <2>1. Known(job[k], x) => Known(r, x)  BY <1>3 DEF Known
  <2>2. Talks(worker[x], x, k, r)  BY <1>1, <1>3, <2>1, StillTalks
  <2>3. QED BY <2>2, SameTalks
<1>4. QED BY <1>2, <1>3

LEMMA Slots ==
  ASSUME NEW S \in SUBSET Workers
  PROVE  /\ IsFiniteSet(S) /\ Cardinality(S) \in Nat /\ Cardinality(S) <= MaxWorkers
         /\ Cardinality(S) >= MaxWorkers <=> S = Workers
<1>1. MaxWorkers \in Nat  BY ConstantsAssumption
<1>2. IsFiniteSet(1 .. MaxWorkers) /\ Cardinality(1 .. MaxWorkers) = MaxWorkers
  <2>1. 1 \in Int /\ MaxWorkers \in Int  BY <1>1
  <2>2. IsFiniteSet(1 .. MaxWorkers) /\ Cardinality(1 .. MaxWorkers) = IF 1 > MaxWorkers THEN 0 ELSE MaxWorkers - 1 + 1
        BY <2>1, FS_Interval
  <2>3. QED BY <1>1, <2>2
<1>3. IsFiniteSet(S) /\ Cardinality(S) <= MaxWorkers /\ (Cardinality(S) = MaxWorkers => S = 1 .. MaxWorkers)
      BY <1>2, FS_Subset DEF Workers
<1>4. Cardinality(S) \in Nat  BY <1>3, FS_CardinalityType
<1>5. QED BY <1>1, <1>2, <1>3, <1>4 DEF Workers

LEMMA RunKeeps ==
  ASSUME Inv, NEW j \in Jobs, Run(j)
  PROVE  Inv'
<1>1. Shape /\ Pairs /\ Runs /\ Threads /\ Granting /\ Waiting  BY DEF Inv
<1>2. job[j].at = "new" /\ job[j] \in JobRecords /\ UNCHANGED <<conf, closed, crashes>> /\ None \notin Jobs
      BY <1>1, Types DEF Run, At
<1>3. ~Listed(waiters, j)  BY <1>1, <1>2 DEF Waiting
<1>4. CASE closed \/ job[j].signal
  <2> DEFINE r == Settled(job[j], IF closed THEN "closed" ELSE "aborted")
  <2>1. job' = [job EXCEPT ![j] = r] /\ UNCHANGED <<pool, waiters, worker>>  BY <1>4 DEF Run
  <2>2. r \in JobRecords /\ r.at = "settled" /\ r.out \in {"closed", "aborted"} /\ ~r.grace /\ r.calls = 0 /\ r.writes = 0
        BY <1>2, SettledFields
  <2> HIDE DEF r
  <2>3. job' \in [Jobs -> JobRecords] /\ job'[j] = r /\ \A k \in Jobs : k /= j => job'[k] = job[k]
        BY <1>1, <2>1, <2>2 DEF Shape
  <2>4. Shape'  BY <1>1, <1>2, <2>1, <2>3 DEF Shape
  <2>5. Runs'  BY <1>1, <1>2, <2>2, <2>3 DEF Runs, RunFits
  <2>6. Threads'  BY <1>1, <1>2, <2>1 DEF Threads, ThreadFits
  <2>7. Waiting'  BY <1>1, <1>2, <2>1, <2>2, <2>3 DEF Waiting
  <2>8. \A x \in Workers, k \in Jobs : Talks(worker'[x], x, k, job'[k])
    <3>1. ASSUME NEW x \in Workers, NEW k \in Jobs PROVE Talks(worker[x], x, k, job'[k])
      <4>1. CASE k = j  BY <1>2, <4>1, Unheard
      <4>2. CASE k /= j  BY <1>1, <2>3, <4>2 DEF Pairs, Pair
      <4>3. QED BY <4>1, <4>2
    <3>2. QED BY <2>1, <3>1
  <2>9. \A k \in Jobs : (Same(k) /\ (job[k].signal => job'[k].signal)) \/ Refused(k)
        BY <1>2, <2>2, <2>3 DEF Same, Refused
  <2>10. QED BY <2>1, <2>4, <2>5, <2>6, <2>7, <2>8, <2>9, Continues
<1>5. ASSUME ~closed,
             NEW w \in Workers, NEW px \in WorkerRecords, px.busy, ~px.ending, px.current = None, px.life /= "none",
             worker' = [worker EXCEPT ![w] = px], pool' = pool \cup {w}, waiters' = waiters, waiters = <<>>,
             \A k \in Jobs : Talks(px, w, k, job[k]),
             \A k \in Jobs : ~(job[k].at \in {"granted", "run"} /\ job[k].on = w),
             job' = [job EXCEPT ![j].at = "granted", ![j].on = w]
      PROVE  Inv'
  <2> DEFINE r == [job[j] EXCEPT !.at = "granted", !.on = w]
  <2>1. w \in 0 .. MaxWorkers  BY ConstantsAssumption DEF Workers
  <2>2. /\ r \in JobRecords /\ r.at = "granted" /\ r.on = w /\ r.signal = job[j].signal /\ r.grace = job[j].grace
        /\ r.out = job[j].out /\ r.calls = job[j].calls /\ r.writes = job[j].writes
        BY <1>2, <2>1 DEF JobRecords
  <2>3. job' = [job EXCEPT ![j] = r]  BY <1>1, <1>5 DEF Shape
  <2> HIDE DEF r
  <2>4. job' \in [Jobs -> JobRecords] /\ job'[j] = r /\ \A k \in Jobs : k /= j => job'[k] = job[k]
        BY <1>1, <2>2, <2>3 DEF Shape
  <2>5. worker' \in [Workers -> WorkerRecords] /\ worker'[w] = px /\ \A x \in Workers : x /= w => worker'[x] = worker[x]
        BY <1>1, <1>5 DEF Shape
  <2>6. Shape'  BY <1>1, <1>2, <1>5, <2>4, <2>5 DEF Shape
  <2>7. Runs'  BY <1>1, <1>2, <2>2, <2>4 DEF Runs, RunFits
  <2>8. Threads'  BY <1>1, <1>2, <1>5, <2>5 DEF Threads, ThreadFits
  <2>9. Waiting'  BY <1>1, <1>2, <1>5, <2>2, <2>4 DEF Waiting
  <2>10. \A k \in Jobs : Talks(worker'[w], w, k, job'[k])
    <3>1. Silent(px, j)
      <4>1. ~Known(job[j], w)  BY <1>2 DEF Known
      <4>2. QED BY <1>5, <4>1, UnknownIsSilent
    <3>2. ASSUME NEW k \in Jobs PROVE Talks(px, w, k, job'[k])
      <4>1. CASE k = j  BY <3>1, <4>1, SilentTalks
      <4>2. CASE k /= j  BY <1>5, <2>4, <4>2
      <4>3. QED BY <4>1, <4>2
    <3>3. QED BY <2>5, <3>2
  <2>11. \A k \in Jobs : IF k = j THEN Given(k, w) ELSE Stays(k, w)  BY <1>2, <1>5, <2>2, <2>4 DEF Given, Stays
  <2>12. \A k \in Jobs : Given(k, w) => k = j  BY <2>11 DEF Given, Stays
  <2>13. QED BY <1>5, <2>5, <2>6, <2>7, <2>8, <2>9, <2>10, <2>11, <2>12, Renews
<1>6. ASSUME ~closed, ~job[j].signal, NEW w \in pool, ~worker[w].busy, worker' = [worker EXCEPT ![w].busy = TRUE],
             job' = [job EXCEPT ![j].at = "granted", ![j].on = w], UNCHANGED <<pool, waiters>>
      PROVE  Inv'
  <2> DEFINE px == [worker[w] EXCEPT !.busy = TRUE]
  <2>1. w \in Workers /\ worker[w] \in WorkerRecords /\ pool' = pool \cup {w}  BY <1>1, <1>6, Types DEF Shape
  <2>2. /\ px \in WorkerRecords /\ px.busy /\ px.ending = worker[w].ending /\ px.current = worker[w].current
        /\ px.life = worker[w].life /\ px.inbox = worker[w].inbox /\ px.outbox = worker[w].outbox
        /\ px.active = worker[w].active /\ px.floating = worker[w].floating /\ px.pending = worker[w].pending
        BY <2>1 DEF WorkerRecords
  <2>3. worker' = [worker EXCEPT ![w] = px]  BY <1>1, <1>6, <2>1 DEF Shape
  <2> HIDE DEF px
  <2>4. ~px.ending /\ px.life /= "none"  BY <1>1, <1>6, <2>1, <2>2 DEF Threads, ThreadFits
  <2>5. \A k \in Jobs : Serves(worker[w], w, k, job[k]) /\ Talks(worker[w], w, k, job[k])  BY <1>1, <2>1 DEF Pairs, Pair
  <2>6. px.current = None
    <3>1. worker[w].current \in Jobs \cup {None}  BY <2>1 DEF WorkerRecords
    <3>2. QED BY <1>6, <2>2, <2>5, <3>1 DEF Serves
  <2>7. \A k \in Jobs : ~(job[k].at \in {"granted", "run"} /\ job[k].on = w)  BY <1>6, <2>5 DEF Serves
  <2>8. waiters = <<>>  BY <1>1, <1>6, <2>1 DEF Waiting
  <2>9. \A k \in Jobs : Talks(px, w, k, job[k])  BY <2>2, <2>5, SameTalks
  <2>10. QED BY <1>5, <1>6, <2>1, <2>2, <2>3, <2>4, <2>6, <2>7, <2>8, <2>9
<1>7. ASSUME ~closed, \A x \in pool : worker[x].busy, Cardinality(pool) < MaxWorkers, NEW w,
             w = CHOOSE x \in Workers \ pool : TRUE,
             worker' = [worker EXCEPT ![w] = Spawned], pool' = pool \cup {w}, waiters' = waiters,
             job' = [job EXCEPT ![j].at = "granted", ![j].on = w]
      PROVE  Inv'
  <2>1. pool /= Workers
    <3>1. pool \in SUBSET Workers  BY <1>1 DEF Shape
    <3>2. Cardinality(pool) \in Nat /\ MaxWorkers \in Nat  BY <3>1, Slots, ConstantsAssumption
    <3>3. ~(Cardinality(pool) >= MaxWorkers)  BY <1>7, <3>2
    <3>4. QED BY <3>1, <3>3, Slots
  <2>2. w \in Workers \ pool
    <3>1. \E x : x \in Workers \ pool  BY <1>1, <2>1 DEF Shape
    <3>2. QED BY <1>7, <3>1
  <2>3. waiters = <<>>  BY <1>1, <2>1 DEF Waiting
  <2>4. worker[w].life = "none"  BY <1>1, <1>7, <2>2 DEF Threads, ThreadFits
  <2>5. \A k \in Jobs : ~(job[k].at \in {"granted", "run"} /\ job[k].on = w)
        BY <1>1, <2>2, <2>4 DEF Pairs, Pair, Serves
  <2>6. \A k \in Jobs : Talks(Spawned, w, k, job[k])  BY Fresh, SilentTalks
  <2>7. QED BY <1>5, <1>7, <2>2, <2>3, <2>5, <2>6, Fresh
<1>8. ASSUME ~closed, \A x \in pool : worker[x].busy, Cardinality(pool) >= MaxWorkers,
             waiters' = Append(waiters, j), job' = [job EXCEPT ![j].at = "waiting"], UNCHANGED <<pool, worker>>
      PROVE  Inv'
  <2> DEFINE r == [job[j] EXCEPT !.at = "waiting"]
  <2>1. /\ r \in JobRecords /\ r.at = "waiting" /\ r.on = job[j].on /\ r.signal = job[j].signal /\ r.grace = job[j].grace
        /\ r.out = job[j].out /\ r.calls = job[j].calls /\ r.writes = job[j].writes
        BY <1>2 DEF JobRecords
  <2>2. job' = [job EXCEPT ![j] = r]  BY <1>1, <1>8 DEF Shape
  <2> HIDE DEF r
  <2>3. job' \in [Jobs -> JobRecords] /\ job'[j] = r /\ \A k \in Jobs : k /= j => job'[k] = job[k]
        BY <1>1, <2>1, <2>2 DEF Shape
  <2>4. /\ waiters' \in Seq(Jobs) /\ Apart(waiters') /\ \A k : Listed(waiters', k) <=> Listed(waiters, k) \/ k = j
        BY <1>1, <1>3, <1>8, Queued DEF Shape, Waiting
  <2>5. pool = Workers
    <3>1. pool \in SUBSET Workers  BY <1>1 DEF Shape
    <3>2. QED BY <1>8, <3>1, Slots
  <2>6. Shape'  BY <1>1, <1>2, <1>8, <2>3, <2>4 DEF Shape
  <2>7. Runs'  BY <1>1, <1>2, <2>1, <2>3 DEF Runs, RunFits
  <2>8. Threads'  BY <1>1, <1>2, <1>8 DEF Threads, ThreadFits
  <2>9. Waiting'  BY <1>1, <1>2, <1>8, <2>1, <2>3, <2>4, <2>5 DEF Waiting
  <2>10. \A x \in Workers, k \in Jobs : Talks(worker'[x], x, k, job'[k])
    <3>1. ASSUME NEW x \in Workers, NEW k \in Jobs PROVE Talks(worker[x], x, k, job'[k])
      <4>1. CASE k = j  BY <1>2, <4>1, Unheard
      <4>2. CASE k /= j  BY <1>1, <2>3, <4>2 DEF Pairs, Pair
      <4>3. QED BY <4>1, <4>2
    <3>2. QED BY <1>8, <3>1
  <2>11. \A k \in Jobs : (Same(k) /\ (job[k].signal => job'[k].signal)) \/ Refused(k)
    <3>1. job[j].out /= "unsent"  BY <1>1, <1>2 DEF Runs, RunFits
    <3>2. QED BY <1>2, <2>1, <2>3, <3>1 DEF Same, Refused
  <2>12. QED BY <1>8, <2>6, <2>7, <2>8, <2>9, <2>10, <2>11, Continues
<1>9. QED
  <2>1. CASE ~closed /\ ~job[j].signal /\ \E w \in pool : ~worker[w].busy
    <3>1. PICK w \in pool : /\ ~worker[w].busy /\ worker' = [worker EXCEPT ![w].busy = TRUE]
                            /\ job' = [job EXCEPT ![j].at = "granted", ![j].on = w] /\ UNCHANGED <<pool, waiters>>
          BY <2>1 DEF Run
    <3>2. QED BY <1>6, <2>1, <3>1
  <2>2. CASE ~closed /\ ~job[j].signal /\ (\A x \in pool : worker[x].busy)
    <3>1. Cardinality(pool) \in Nat /\ MaxWorkers \in Nat  BY <1>1, Slots, ConstantsAssumption DEF Shape
    <3>2. {x \in pool : ~worker[x].busy} = {}  BY <2>2
    <3>3. CASE Cardinality(pool) < MaxWorkers
      <4>1. ~(Cardinality(pool) >= MaxWorkers)  BY <3>1, <3>3
      <4> DEFINE w == CHOOSE x \in Workers \ pool : TRUE
      <4>2. /\ worker' = [worker EXCEPT ![w] = Spawned] /\ pool' = pool \cup {w} /\ waiters' = waiters
            /\ job' = [job EXCEPT ![j].at = "granted", ![j].on = w]
            BY <2>2, <3>2, <4>1 DEF Run
      <4>3. QED BY <1>7, <2>2, <3>3, <4>2
    <3>4. CASE Cardinality(pool) >= MaxWorkers
      <4>1. ~(Cardinality(pool) < MaxWorkers)  BY <3>1, <3>4
      <4>2. waiters' = Append(waiters, j) /\ job' = [job EXCEPT ![j].at = "waiting"] /\ UNCHANGED <<pool, worker>>
            BY <2>2, <3>2, <4>1 DEF Run
      <4>3. QED BY <1>8, <2>2, <3>4, <4>2
    <3>5. QED BY <3>1, <3>3, <3>4
  <2>3. QED BY <1>4, <2>1, <2>2

(* A step of the runner of w, or a message of it that the main thread reads: only the run it   *)
(* works on may change, and of that only the counts.                                              *)
Counted(k) ==
  /\ Same(k) /\ job'[k].signal = job[k].signal /\ job'[k].grace = job[k].grace /\ job'[k].writes <= job'[k].calls

LEMMA Moves ==
  ASSUME Inv, NEW w \in Workers, NEW px \in WorkerRecords, worker' = [worker EXCEPT ![w] = px],
         px.life = worker[w].life, px.busy = worker[w].busy, px.ending = worker[w].ending, px.current = worker[w].current,
         UNCHANGED <<conf, closed, pool, waiters, crashes>>, job' \in [Jobs -> JobRecords],
         \A k \in Jobs : job'[k] = job[k] \/ (worker[w].active = k /\ Counted(k)),
         \A k \in Jobs : Talks(px, w, k, job'[k])
  PROVE  Inv'
<1>1. Shape /\ Pairs /\ Runs /\ Threads /\ Granting /\ Waiting  BY DEF Inv
<1>2. worker' \in [Workers -> WorkerRecords] /\ worker'[w] = px /\ \A x \in Workers : x /= w => worker'[x] = worker[x]
      BY <1>1 DEF Shape
<1>3. Shape'  BY <1>1, <1>2 DEF Shape
<1>4. Runs'  BY <1>1 DEF Runs, RunFits, Counted, Same
<1>5. Threads'  BY <1>1, <1>2 DEF Threads, ThreadFits
<1>6. Waiting'
  <2>1. \A k \in Jobs : job'[k].at = job[k].at  BY DEF Counted, Same
  <2>2. \A x \in Workers : worker'[x].busy = worker[x].busy  BY <1>2
  <2>3. QED BY <1>1, <2>1, <2>2 DEF Waiting
<1>7. \A x \in Workers, k \in Jobs : Talks(worker'[x], x, k, job'[k])
  <2>1. SUFFICES ASSUME NEW x \in Workers, NEW k \in Jobs PROVE Talks(worker'[x], x, k, job'[k])  OBVIOUS
  <2>2. CASE x = w  BY <1>2, <2>2
  <2>3. CASE x /= w /\ job'[k] = job[k]  BY <1>1, <1>2, <2>3 DEF Pairs, Pair
  <2>4. CASE x /= w /\ worker[w].active = k /\ Counted(k)
    <3>1. Talks(worker[x], x, k, job[k])  BY <1>1 DEF Pairs, Pair
    <3>2. worker[x].active /= k
      <4>1. job[k].on = w  BY <2>4, ActiveRuns
      <4>2. worker[x].active = k => job[k].on = x  BY ActiveRuns
      <4>3. QED BY <2>4, <4>1, <4>2
    <3>3. Known(job[k], x) => Known(job'[k], x)  BY <2>4 DEF Known, Counted, Same
    <3>4. Talks(worker[x], x, k, job'[k])  BY <3>1, <3>2, <3>3, StillTalks
    <3>5. QED BY <1>2, <2>4, <3>4
  <2>5. QED BY <2>2, <2>3, <2>4
<1>8. \A k \in Jobs : (Same(k) /\ (job[k].signal => job'[k].signal)) \/ Refused(k)  BY DEF Same, Counted
<1>9. \A x \in Workers :
        /\ worker'[x].busy = worker[x].busy /\ worker'[x].current = worker[x].current
        /\ worker'[x].life = worker[x].life /\ worker'[x].ending = worker[x].ending
      BY <1>2
<1>10. QED BY <1>3, <1>4, <1>5, <1>6, <1>7, <1>8, <1>9, Continues

LEMMA Sending ==
  ASSUME NEW k \in Jobs
  PROVE  /\ \A kind \in {"process", "abort", "answer"} : Message(kind, k) \in InMessages
         /\ \A kind \in {"call", "result"} : Message(kind, k) \in OutMessages
BY DEF Message, InMessages, OutMessages

LEMMA HandleKeeps ==
  ASSUME Inv, NEW w \in Workers, Handle(w)
  PROVE  Inv'
<1> DEFINE pw == worker[w]
<1> DEFINE m == Head(pw.inbox)
<1> DEFINE rest == Tail(pw.inbox)
<1>1. Shape /\ Pairs /\ pw \in WorkerRecords /\ None \notin Jobs  BY Types DEF Inv
<1>2. pw.inbox \in Seq(InMessages) /\ pw.inbox /= <<>>  BY <1>1 DEF Handle, WorkerRecords
<1>3. m \in InMessages /\ rest \in Seq(InMessages)  BY <1>2, Reading
<1>4. m.kind \in {"process", "abort", "answer"} /\ m.id \in Jobs /\ m = Message(m.kind, m.id)
      BY <1>3 DEF InMessages, Message
<1> DEFINE px == CASE m.kind = "process" -> [[pw EXCEPT !.inbox = rest] EXCEPT !.active = m.id, !.told = FALSE, !.pending = FALSE]
                   [] m.kind = "abort"   -> [[pw EXCEPT !.inbox = rest] EXCEPT !.told = @ \/ [pw EXCEPT !.inbox = rest].active = m.id]
                   [] m.kind = "answer"  -> [[pw EXCEPT !.inbox = rest] EXCEPT !.pending = @ /\ [pw EXCEPT !.inbox = rest].active /= m.id]
<1>5. worker' = [worker EXCEPT ![w] = px] /\ UNCHANGED <<conf, closed, pool, waiters, job, crashes>>  BY DEF Handle
<1>6. /\ px \in WorkerRecords /\ px.life = pw.life /\ px.busy = pw.busy /\ px.ending = pw.ending /\ px.current = pw.current
      /\ px.inbox = rest /\ px.outbox = pw.outbox /\ px.floating = pw.floating
      /\ m.kind = "process" => px.active = m.id
      /\ m.kind /= "process" => px.active = pw.active
      /\ m.kind = "abort" => px.pending = pw.pending
      /\ m.kind = "answer" => px.pending = (pw.pending /\ pw.active /= m.id)
  <2>1. CASE m.kind = "process"
    <3>1. px = [[pw EXCEPT !.inbox = rest] EXCEPT !.active = m.id, !.told = FALSE, !.pending = FALSE]  BY <2>1
    <3>2. QED BY <1>1, <1>3, <1>4, <2>1, <3>1 DEF WorkerRecords
  <2>2. CASE m.kind = "abort"
    <3>1. px = [[pw EXCEPT !.inbox = rest] EXCEPT !.told = @ \/ [pw EXCEPT !.inbox = rest].active = m.id]  BY <2>2
    <3>2. QED BY <1>1, <1>3, <1>4, <2>2, <3>1 DEF WorkerRecords
  <2>3. CASE m.kind = "answer"
    <3>1. px = [[pw EXCEPT !.inbox = rest] EXCEPT !.pending = @ /\ [pw EXCEPT !.inbox = rest].active /= m.id]  BY <2>3
    <3>2. QED BY <1>1, <1>3, <1>4, <2>3, <3>1 DEF WorkerRecords
  <2>4. QED BY <1>4, <2>1, <2>2, <2>3
<1> HIDE DEF px
<1>7. ASSUME NEW k \in Jobs PROVE Talks(px, w, k, job[k])
  <2>1. Talks(pw, w, k, job[k]) /\ Talks(pw, w, m.id, job[m.id])  BY <1>1, <1>4 DEF Pairs, Pair
  <2>2. \A kind : Has(pw.inbox, kind, k) <=> Has(rest, kind, k) \/ m = Message(kind, k)  BY <1>2, HasTail
  <2>3. \A kind : Once(pw.inbox, kind, k) => Once(rest, kind, k) /\ (m = Message(kind, k) => ~Has(rest, kind, k))
        BY <1>2, OnceTail
  <2>4. Has(pw.inbox, m.kind, m.id)  BY <1>2, <1>4, HasTail
  <2>5. m.id = k <=> m = Message(m.kind, k)  BY <1>4, Distinct
  <2> HIDE DEF m, rest
  <2>6. CASE m.kind = "process" /\ m.id = k
    <3>1. ~Has(rest, "process", k) /\ ~Has(rest, "answer", k)  BY <1>1, <2>1, <2>2, <2>3, <2>4, <2>5, <2>6 DEF Talks
    <3>2. QED BY <1>6, <2>1, <2>4, <2>6, <3>1 DEF Talks
  <2>7. CASE m.kind = "process" /\ m.id /= k
    <3>1. pw.active = None /\ pw.current /= k  BY <2>1, <2>4, <2>7 DEF Talks
    <3>2. ~Has(rest, "process", k) /\ ~Has(rest, "answer", k)  BY <1>1, <2>1, <2>2, <3>1 DEF Talks
    <3>3. QED BY <1>6, <2>1, <2>7, <3>1, <3>2 DEF Talks
  <2>8. CASE m.kind = "abort"  BY <1>6, <2>1, <2>2, <2>3, <2>8 DEF Talks
  <2>9. CASE m.kind = "answer" /\ m.id = k
    <3>1. pw.active = k /\ ~Has(pw.outbox, "call", k) /\ ~Has(rest, "answer", k)
          BY <2>1, <2>3, <2>4, <2>5, <2>9 DEF Talks
    <3>2. ~Has(rest, "process", k)  BY <1>1, <2>1, <2>2, <3>1 DEF Talks
    <3>3. QED BY <1>6, <2>1, <2>9, <3>1, <3>2 DEF Talks
  <2>10. CASE m.kind = "answer" /\ m.id /= k
    <3>1. pw.active = m.id  BY <2>1, <2>4, <2>10 DEF Talks
    <3>2. px.pending = FALSE  BY <1>6, <2>10, <3>1
    <3>3. QED BY <1>6, <2>1, <2>2, <2>3, <2>10, <3>1 DEF Talks
  <2>11. QED BY <1>4, <2>6, <2>7, <2>8, <2>9, <2>10
<1>8. job' \in [Jobs -> JobRecords] /\ job' = job  BY <1>1, <1>5 DEF Shape
<1> HIDE DEF m, rest
<1>9. QED BY <1>5, <1>6, <1>7, <1>8, Moves

LEMMA CallKeeps ==
  ASSUME Inv, NEW w \in Workers, Call(w)
  PROVE  Inv'
<1> DEFINE pw == worker[w]
<1> DEFINE j == pw.active
<1> DEFINE px == [pw EXCEPT !.pending = TRUE, !.outbox = Append(pw.outbox, Message("call", j))]
<1> DEFINE r == [job[j] EXCEPT !.calls = job[j].calls + 1]
<1>1. Shape /\ Pairs /\ Runs /\ pw \in WorkerRecords /\ None \notin Jobs  BY Types DEF Inv
<1>2. j \in Jobs /\ ~pw.pending  BY <1>1 DEF Call, WorkerRecords
<1>3. job[j] \in JobRecords /\ Message("call", j) \in OutMessages /\ pw.outbox \in Seq(OutMessages)
      BY <1>1, <1>2, Types, Sending DEF WorkerRecords
<1>4. Append(pw.outbox, Message("call", j)) \in Seq(OutMessages)  BY <1>3
<1>5. /\ worker' = [worker EXCEPT ![w] = px] /\ job' = [job EXCEPT ![j] = r]
      /\ UNCHANGED <<conf, closed, pool, waiters, crashes>>
      BY <1>1, <1>2 DEF Call, Shape
<1>6. /\ px \in WorkerRecords /\ px.life = pw.life /\ px.busy = pw.busy /\ px.ending = pw.ending /\ px.current = pw.current
      /\ px.inbox = pw.inbox /\ px.outbox = Append(pw.outbox, Message("call", j)) /\ px.active = pw.active
      /\ px.floating = pw.floating /\ px.pending
      BY <1>1, <1>4 DEF WorkerRecords
<1>7. /\ r \in JobRecords /\ r.at = job[j].at /\ r.on = job[j].on /\ r.out = job[j].out /\ r.signal = job[j].signal
      /\ r.grace = job[j].grace /\ r.calls = job[j].calls + 1 /\ r.writes = job[j].writes
      /\ job[j].calls \in Nat /\ job[j].writes \in Nat
      BY <1>3 DEF JobRecords
<1>8. job[j].writes <= job[j].calls  BY <1>1, <1>2 DEF Runs, RunFits
<1>9. r.writes < r.calls /\ r.writes <= r.calls  BY <1>7, <1>8
<1> HIDE DEF px, r
<1>10. job' \in [Jobs -> JobRecords] /\ job'[j] = r /\ \A k \in Jobs : k /= j => job'[k] = job[k]
       BY <1>1, <1>2, <1>5, <1>7 DEF Shape
<1>11. \A k \in Jobs : job'[k] = job[k] \/ (pw.active = k /\ Counted(k))  BY <1>7, <1>9, <1>10 DEF Counted, Same
<1>12. ASSUME NEW k \in Jobs PROVE Talks(px, w, k, job'[k])
  <2>1. Talks(pw, w, k, job[k]) /\ Talks(pw, w, j, job[j])  BY <1>1, <1>2 DEF Pairs, Pair
  <2>2. \A kind : Has(px.outbox, kind, k) <=> Has(pw.outbox, kind, k) \/ Message("call", j) = Message(kind, k)
        BY <1>3, <1>6, HasAppend
  <2>3. \A kind : Message("call", j) = Message(kind, k) <=> kind = "call" /\ j = k  BY Distinct
  <2>4. CASE k = j
    <3>1. ~Has(pw.outbox, "call", k)  BY <1>2, <2>1, <2>4 DEF Talks
    <3>2. Once(px.outbox, "call", k)  BY <1>3, <1>6, <3>1, NoneOnce, OnceAppend
    <3>3. Known(job[k], w) => Known(job'[k], w)  BY <1>7, <1>10, <2>4 DEF Known
    <3>4. ~Has(pw.inbox, "process", k) /\ ~Has(pw.inbox, "answer", k)  BY <1>1, <1>2, <2>1, <2>4 DEF Talks
    <3>5. QED BY <1>6, <1>9, <1>10, <2>1, <2>2, <2>3, <2>4, <3>2, <3>3, <3>4 DEF Talks
  <2>5. CASE k /= j
    <3>1. \A kind : Has(px.outbox, kind, k) <=> Has(pw.outbox, kind, k)  BY <2>2, <2>3, <2>5
    <3>2. job'[k] = job[k] /\ pw.active /= k /\ pw.current /= k  BY <1>10, <2>1, <2>5 DEF Talks
    <3>3. QED BY <1>6, <2>1, <3>1, <3>2 DEF Talks
  <2>6. QED BY <2>4, <2>5
<1>13. QED BY <1>5, <1>6, <1>10, <1>11, <1>12, Moves

LEMMA FinishKeeps ==
  ASSUME Inv, NEW w \in Workers, Finish(w)
  PROVE  Inv'
<1> DEFINE pw == worker[w]
<1> DEFINE j == pw.active
<1> DEFINE fl == IF job[j].calls < conf.calls THEN j ELSE pw.floating
<1> DEFINE px == [pw EXCEPT !.active = None, !.outbox = Append(pw.outbox, Message("result", j)), !.floating = fl]
<1>1. Shape /\ Pairs /\ pw \in WorkerRecords /\ None \notin Jobs  BY Types DEF Inv
<1>2. j \in Jobs /\ ~pw.pending  BY <1>1 DEF Finish, WorkerRecords
<1>3. Message("result", j) \in OutMessages /\ pw.outbox \in Seq(OutMessages) /\ pw.floating \in Jobs \cup {None}
      BY <1>1, <1>2, Sending DEF WorkerRecords
<1>4. Append(pw.outbox, Message("result", j)) \in Seq(OutMessages) /\ fl \in Jobs \cup {None}  BY <1>2, <1>3
<1>5. worker' = [worker EXCEPT ![w] = px] /\ UNCHANGED <<conf, closed, pool, waiters, job, crashes>>
      BY <1>1 DEF Finish, Shape
<1>6. fl = j \/ fl = pw.floating  OBVIOUS
<1> HIDE DEF fl
<1>7. /\ px \in WorkerRecords /\ px.life = pw.life /\ px.busy = pw.busy /\ px.ending = pw.ending /\ px.current = pw.current
      /\ px.inbox = pw.inbox /\ px.outbox = Append(pw.outbox, Message("result", j)) /\ px.active = None
      /\ px.floating = fl /\ px.pending = pw.pending
      BY <1>1, <1>4 DEF WorkerRecords
<1> HIDE DEF px
<1>8. ASSUME NEW k \in Jobs PROVE Talks(px, w, k, job[k])
  <2>1. Talks(pw, w, k, job[k]) /\ Talks(pw, w, j, job[j])  BY <1>1, <1>2 DEF Pairs, Pair
  <2>2. \A kind : Has(px.outbox, kind, k) <=> Has(pw.outbox, kind, k) \/ Message("result", j) = Message(kind, k)
        BY <1>3, <1>7, HasAppend
  <2>3. \A kind : Message("result", j) = Message(kind, k) <=> kind = "result" /\ j = k  BY Distinct
  <2>4. ~Has(pw.inbox, "process", k) /\ ~Has(pw.inbox, "answer", k)  BY <1>1, <1>2, <2>1 DEF Talks
  <2>5. pw.current = j /\ Known(job[j], w) /\ ~Has(pw.outbox, "call", j)  BY <1>2, <2>1 DEF Talks
  <2>6. CASE k = j
    <3>1. ~Has(px.outbox, "call", k)  BY <2>2, <2>3, <2>5, <2>6
    <3>2. After(px.outbox, k)  BY <3>1 DEF After, Has
    <3>3. QED BY <1>1, <1>7, <2>2, <2>4, <2>5, <2>6, <3>1, <3>2 DEF Talks
  <2>7. CASE k /= j
    <3>1. \A kind : Has(px.outbox, kind, k) <=> Has(pw.outbox, kind, k)  BY <2>2, <2>3, <2>7
    <3>2. px.floating = k => pw.floating = k  BY <1>6, <1>7, <2>7
    <3>3. QED BY <1>1, <1>7, <2>1, <2>4, <2>5, <2>7, <3>1, <3>2 DEF Talks
  <2>8. QED BY <2>6, <2>7
<1>9. job' \in [Jobs -> JobRecords] /\ job' = job  BY <1>1, <1>5 DEF Shape
<1>10. QED BY <1>5, <1>7, <1>8, <1>9, Moves

LEMMA FloatingCallKeeps ==
  ASSUME Inv, NEW w \in Workers, FloatingCall(w)
  PROVE  Inv'
<1> DEFINE pw == worker[w]
<1> DEFINE j == pw.floating
<1> DEFINE px == [pw EXCEPT !.floating = None, !.outbox = Append(pw.outbox, Message("call", j))]
<1>1. Shape /\ Pairs /\ pw \in WorkerRecords /\ None \notin Jobs  BY Types DEF Inv
<1>2. j \in Jobs  BY <1>1 DEF FloatingCall, WorkerRecords
<1>3. Message("call", j) \in OutMessages /\ pw.outbox \in Seq(OutMessages)  BY <1>1, <1>2, Sending DEF WorkerRecords
<1>4. Append(pw.outbox, Message("call", j)) \in Seq(OutMessages)  BY <1>3
<1>5. worker' = [worker EXCEPT ![w] = px] /\ UNCHANGED <<conf, closed, pool, waiters, job, crashes>>
      BY <1>1 DEF FloatingCall, Shape
<1>6. /\ px \in WorkerRecords /\ px.life = pw.life /\ px.busy = pw.busy /\ px.ending = pw.ending /\ px.current = pw.current
      /\ px.inbox = pw.inbox /\ px.outbox = Append(pw.outbox, Message("call", j)) /\ px.active = pw.active
      /\ px.floating = None /\ px.pending = pw.pending
      BY <1>1, <1>4 DEF WorkerRecords
<1> HIDE DEF px
<1>7. ASSUME NEW k \in Jobs PROVE Talks(px, w, k, job[k])
  <2>1. Talks(pw, w, k, job[k])  BY <1>1 DEF Pairs, Pair
  <2>2. \A kind : Has(px.outbox, kind, k) <=> Has(pw.outbox, kind, k) \/ Message("call", j) = Message(kind, k)
        BY <1>3, <1>6, HasAppend
  <2>3. \A kind : Message("call", j) = Message(kind, k) <=> kind = "call" /\ j = k  BY Distinct
  <2>4. CASE k = j
    <3>1. Known(job[k], w) /\ pw.active /= k /\ ~Has(pw.inbox, "process", k) /\ ~Has(pw.inbox, "answer", k)
          BY <2>1, <2>4 DEF Talks
    <3>2. pw.current = k => After(px.outbox, k)
      <4>1. pw.current = k => After(pw.outbox, k) /\ Has(pw.outbox, "result", k)  BY <2>1, <2>4, <3>1 DEF Talks
      <4>2. QED BY <1>3, <1>6, <4>1, AfterAppend
    <3>3. QED BY <1>1, <1>6, <2>2, <2>3, <2>4, <3>1, <3>2 DEF Talks
  <2>5. CASE k /= j
    <3>1. \A kind : Has(px.outbox, kind, k) <=> Has(pw.outbox, kind, k)  BY <2>2, <2>3, <2>5
    <3>2. Message("call", j) /= Message("call", k)  BY <2>3, <2>5
    <3>3. Once(pw.outbox, "call", k) => Once(px.outbox, "call", k)  BY <1>3, <1>6, <3>2, OnceAppend
    <3>4. After(pw.outbox, k) => After(px.outbox, k)  BY <1>3, <1>6, <3>2, AfterAppend
    <3>5. QED BY <1>1, <1>6, <2>1, <2>5, <3>1, <3>3, <3>4 DEF Talks
  <2>6. QED BY <2>4, <2>5
<1>8. job' \in [Jobs -> JobRecords] /\ job' = job  BY <1>1, <1>5 DEF Shape
<1>9. QED BY <1>5, <1>6, <1>7, <1>8, Moves

LEMMA ReceiveKeeps ==
  ASSUME Inv, NEW w \in Workers, Receive(w)
  PROVE  Inv'
<1> DEFINE pw == worker[w]
<1> DEFINE m == Head(pw.outbox)
<1> DEFINE rest == Tail(pw.outbox)
<1> DEFINE j == pw.current
<1> DEFINE read == [worker EXCEPT ![w].outbox = rest]
<1>1. Shape /\ Pairs /\ Runs /\ pw \in WorkerRecords /\ None \notin Jobs  BY Types DEF Inv
<1>2. pw.outbox \in Seq(OutMessages) /\ pw.outbox /= <<>>  BY <1>1 DEF Receive, WorkerRecords
<1>3. m \in OutMessages /\ rest \in Seq(OutMessages)  BY <1>2, Reading
<1>4. m.kind \in {"call", "result"} /\ m.id \in Jobs /\ m = Message(m.kind, m.id)  BY <1>3 DEF OutMessages, Message
<1>5. Has(pw.outbox, m.kind, m.id)  BY <1>2, <1>4, HasTail
<1>6. UNCHANGED <<conf, closed, pool, crashes>>  BY DEF Receive
<1>7. \A k, kind : Has(pw.outbox, kind, k) <=> Has(rest, kind, k) \/ m = Message(kind, k)  BY <1>2, HasTail
<1>8. \A k, kind : Once(pw.outbox, kind, k) => Once(rest, kind, k) /\ (m = Message(kind, k) => ~Has(rest, kind, k))
      BY <1>2, OnceTail
<1>9. \A k : After(pw.outbox, k) => m /= Message("call", k) /\ (m /= Message("result", k) => After(rest, k))
      BY <1>2, AfterTail
<1>10. \A k, kind : m = Message(kind, k) <=> m.kind = kind /\ m.id = k  BY <1>4, Distinct
<1>11. \A k \in Jobs : Talks(pw, w, k, job[k]) /\ Serves(pw, w, k, job[k])  BY <1>1 DEF Pairs, Pair
<1>12. /\ read = [worker EXCEPT ![w] = [pw EXCEPT !.outbox = rest]]
       /\ [worker EXCEPT ![w].outbox = Tail(@)] = read
       BY <1>1 DEF Shape
<1> HIDE DEF m, rest, read
<1>13. CASE ~Accepted(m, j) /\ worker' = read /\ UNCHANGED <<job, waiters>>
  <2> DEFINE px == [pw EXCEPT !.outbox = rest]
  <2>1. /\ px \in WorkerRecords /\ px.life = pw.life /\ px.busy = pw.busy /\ px.ending = pw.ending /\ px.current = pw.current
        /\ px.inbox = pw.inbox /\ px.outbox = rest /\ px.active = pw.active
        /\ px.floating = pw.floating /\ px.pending = pw.pending
        BY <1>1, <1>3 DEF WorkerRecords
  <2>2. worker' = [worker EXCEPT ![w] = px]  BY <1>12, <1>13
  <2> HIDE DEF px
  <2>3. ASSUME NEW k \in Jobs PROVE Talks(px, w, k, job[k])
    <3>1. pw.current = k => m /= Message("result", k)  BY <1>10, <1>13 DEF Accepted
    <3>2. Talks(pw, w, k, job[k])  BY <1>11
    <3>3. QED BY <1>7, <1>8, <1>9, <2>1, <3>1, <3>2 DEF Talks
  <2>4. job' \in [Jobs -> JobRecords] /\ job' = job  BY <1>1, <1>13 DEF Shape
  <2>5. QED BY <1>6, <1>13, <2>1, <2>2, <2>3, <2>4, Moves
<1>14. CASE Accepted(m, j) /\ m.kind = "result" /\ Release(w, [job EXCEPT ![j] = Cleaned(@, "result")], read)
  <2> DEFINE r == Settled(job[j], "result")
  <2>1. j \in Jobs /\ m.id = j /\ Has(pw.outbox, "result", j)  BY <1>4, <1>5, <1>14 DEF Accepted
  <2>2. job[j] \in JobRecords  BY <1>1, <2>1, Types
  <2>3. /\ r \in JobRecords /\ r.at = "settled" /\ r.out = "result" /\ ~r.grace /\ r.signal = job[j].signal
        /\ r.calls = 0 /\ r.writes = 0
        BY <2>2, SettledFields
  <2>4. [job EXCEPT ![j] = Cleaned(@, "result")] = [job EXCEPT ![j] = r]  BY DEF Cleaned
  <2> HIDE DEF r
  <2>5. RunFits(r, conf.manner[j])  BY <2>3 DEF RunFits
  <2>6. Known(job[j], w) /\ Serves(pw, w, j, job[j])  BY <1>11, <2>1 DEF Talks
  <2>7. job[j].at = "run" /\ job[j].on = w  BY <2>1, <2>6 DEF Serves, Known
  <2> DEFINE px == [pw EXCEPT !.outbox = rest, !.current = None]
  <2>8. /\ px.inbox = pw.inbox /\ px.outbox = rest /\ px.active = pw.active /\ px.current = None
        /\ px.floating = pw.floating /\ px.pending = pw.pending
        BY <1>1, <1>3 DEF WorkerRecords
  <2> HIDE DEF px
  <2>9. pw.active = None
    <3>1. pw.active /= j  BY <1>11, <2>1 DEF Talks
    <3>2. pw.active \in Jobs \cup {None}  BY <1>1 DEF WorkerRecords
    <3>3. QED BY <1>11, <3>1, <3>2 DEF Talks
  <2>10. ASSUME NEW k \in Jobs PROVE Talks(px, w, k, IF k = j THEN r ELSE job[k])
    <3>1. Talks(pw, w, k, job[k])  BY <1>11
    <3>2. ~Has(pw.inbox, "process", k) /\ ~Has(pw.inbox, "answer", k)  BY <1>1, <2>1, <2>9, <3>1 DEF Talks
    <3>3. Known(r, w)  BY <2>3 DEF Known
    <3>4. CASE k = j  BY <1>1, <2>8, <2>9, <3>2, <3>3, <3>4 DEF Talks
    <3>5. CASE k /= j  BY <1>1, <1>7, <2>8, <2>9, <3>1, <3>2, <3>5 DEF Talks
    <3>6. QED BY <3>4, <3>5
  <2>11. read = [worker EXCEPT ![w].outbox = rest]  BY DEF read
  <2>12. Release(w, [job EXCEPT ![j] = r], [worker EXCEPT ![w].outbox = rest])  BY <1>14, <2>4, <2>11
  <2>13. QED BY <1>3, <1>6, <2>1, <2>3, <2>5, <2>7, <2>10, <2>12, Releases DEF px
<1>15. CASE Accepted(m, j) /\ m.kind = "call" /\ HandleProxyRequest(j, m, w, read)
  <2> DEFINE px == [pw EXCEPT !.outbox = rest, !.inbox = Append(pw.inbox, Message("answer", j))]
  <2>1. j \in Jobs /\ m.id = j /\ Has(pw.outbox, "call", j)  BY <1>4, <1>5, <1>15 DEF Accepted
  <2>2. Message("answer", j) \in InMessages /\ pw.inbox \in Seq(InMessages)  BY <1>1, <2>1, Sending DEF WorkerRecords
  <2>3. Append(pw.inbox, Message("answer", j)) \in Seq(InMessages)  BY <2>2
  <2>4. /\ px \in WorkerRecords /\ px.life = pw.life /\ px.busy = pw.busy /\ px.ending = pw.ending /\ px.current = pw.current
        /\ px.inbox = Append(pw.inbox, Message("answer", j)) /\ px.outbox = rest /\ px.active = pw.active
        /\ px.floating = pw.floating /\ px.pending = pw.pending
        BY <1>1, <1>3, <2>3 DEF WorkerRecords
  <2>5. worker' = [worker EXCEPT ![w] = px]
    <3>1. worker' = [read EXCEPT ![w].inbox = Append(@, Message("answer", j))]  BY <1>15, <2>1 DEF HandleProxyRequest
    <3>2. [pw EXCEPT !.outbox = rest].inbox = pw.inbox  BY <1>1 DEF WorkerRecords
    <3>3. [[pw EXCEPT !.outbox = rest] EXCEPT !.inbox = Append(pw.inbox, Message("answer", j))] = px
          BY <1>1 DEF WorkerRecords
    <3>4. worker' = [worker EXCEPT ![w] = [[pw EXCEPT !.outbox = rest] EXCEPT !.inbox = Append(pw.inbox, Message("answer", j))]]
          BY <1>1, <1>12, <3>1, <3>2 DEF Shape
    <3>5. QED BY <3>3, <3>4
  <2> HIDE DEF px
  <2>6. pw.active = j /\ pw.pending /\ job[j].writes < job[j].calls /\ ~Has(rest, "call", j)
    <3>1. Talks(pw, w, j, job[j])  BY <1>11, <2>1
    <3>2. m = Message("call", j)  BY <1>10, <1>15, <2>1
    <3>3. pw.active = j  BY <1>9, <3>1, <3>2 DEF Talks
    <3>4. pw.pending /\ job[j].writes < job[j].calls /\ Once(pw.outbox, "call", j)  BY <2>1, <3>1, <3>3 DEF Talks
    <3>5. QED BY <1>8, <3>2, <3>3, <3>4
  <2>7. UNCHANGED waiters /\ (job' = job \/ job' = [job EXCEPT ![j].writes = @ + 1])  BY <1>15 DEF HandleProxyRequest
  <2> DEFINE q == IF job' = job THEN job[j] ELSE [job[j] EXCEPT !.writes = @ + 1]
  <2>8. /\ q \in JobRecords /\ q.at = job[j].at /\ q.on = job[j].on /\ q.out = job[j].out /\ q.signal = job[j].signal
        /\ q.grace = job[j].grace /\ q.writes <= q.calls
    <3>1. job[j] \in JobRecords /\ job[j].writes \in Nat /\ job[j].calls \in Nat  BY <1>1, <2>1, Types DEF JobRecords
    <3>2. job[j].writes + 1 <= job[j].calls /\ job[j].writes <= job[j].calls  BY <2>6, <3>1
    <3>3. CASE q = job[j]  BY <3>1, <3>2, <3>3
    <3>4. CASE q = [job[j] EXCEPT !.writes = @ + 1]  BY <3>1, <3>2, <3>4 DEF JobRecords
    <3>5. QED BY <3>3, <3>4
  <2>9. job' = [job EXCEPT ![j] = q]  BY <1>1, <2>7 DEF Shape
  <2> HIDE DEF q
  <2>10. job' \in [Jobs -> JobRecords] /\ job'[j] = q /\ \A k \in Jobs : k /= j => job'[k] = job[k]
         BY <1>1, <2>1, <2>8, <2>9 DEF Shape
  <2>11. \A k \in Jobs : job'[k] = job[k] \/ (pw.active = k /\ Counted(k))  BY <2>6, <2>8, <2>10 DEF Counted, Same
  <2>12. ASSUME NEW k \in Jobs PROVE Talks(px, w, k, job'[k])
    <3>1. Talks(pw, w, k, job[k])  BY <1>11
    <3>2. \A kind : Has(px.inbox, kind, k) <=> Has(pw.inbox, kind, k) \/ Message("answer", j) = Message(kind, k)
          BY <2>2, <2>4, HasAppend
    <3>3. \A kind : Message("answer", j) = Message(kind, k) <=> kind = "answer" /\ j = k  BY Distinct
    <3>4. ~Has(pw.inbox, "process", k)  BY <1>1, <2>1, <2>6, <3>1 DEF Talks
    <3>5. CASE k = j
      <4>1. ~Has(pw.inbox, "answer", k)  BY <2>1, <3>1, <3>5 DEF Talks
      <4>2. Once(px.inbox, "answer", k)  BY <2>2, <2>4, <4>1, NoneOnce, OnceAppend
      <4>3. Known(job[k], w) => Known(job'[k], w)  BY <2>8, <2>10, <3>5 DEF Known
      <4>4. QED BY <1>7, <2>4, <2>6, <3>1, <3>2, <3>3, <3>4, <3>5, <4>2, <4>3 DEF Talks
    <3>6. CASE k /= j
      <4>1. \A kind : Has(px.inbox, kind, k) <=> Has(pw.inbox, kind, k)  BY <3>2, <3>3, <3>6
      <4>2. ~Has(pw.inbox, "answer", k)  BY <2>6, <3>1, <3>6 DEF Talks
      <4>3. m /= Message("call", k) /\ m /= Message("result", k) /\ job'[k] = job[k] /\ pw.active /= k /\ pw.current /= k
            BY <1>10, <2>1, <2>6, <2>10, <3>6
      <4>4. QED BY <1>7, <2>4, <3>1, <3>4, <4>1, <4>2, <4>3 DEF Talks
    <3>7. QED BY <3>5, <3>6
  <2>13. QED BY <1>6, <2>4, <2>5, <2>7, <2>10, <2>11, <2>12, Moves
<1>16. QED BY <1>12, <1>13, <1>14, <1>15 DEF Receive, m, rest

LEMMA CrashKeeps ==
  ASSUME Inv, NEW w \in Workers, Crash(w)
  PROVE  Inv'
<1> DEFINE px == Dying(worker[w])
<1>1. Shape /\ Pairs /\ Runs /\ Threads /\ Granting /\ Waiting /\ worker[w] \in WorkerRecords  BY Types DEF Inv
<1>2. /\ px \in WorkerRecords /\ px.life = "dying" /\ px.busy = worker[w].busy /\ px.ending = worker[w].ending
      /\ px.current = worker[w].current /\ px.inbox = worker[w].inbox /\ px.outbox = worker[w].outbox
      /\ px.active = worker[w].active /\ px.floating = worker[w].floating /\ px.pending = worker[w].pending
      BY <1>1 DEF WorkerRecords, Dying, Crash, Live
<1>3. worker' = [worker EXCEPT ![w] = px] /\ UNCHANGED <<conf, closed, pool, waiters, job>>  BY DEF Crash
<1> HIDE DEF px
<1>4. worker' \in [Workers -> WorkerRecords] /\ worker'[w] = px /\ \A x \in Workers : x /= w => worker'[x] = worker[x]
      BY <1>1, <1>2, <1>3 DEF Shape
<1>5. crashes' \in 0 .. conf.crashes  BY <1>1, ProfilesAssumption DEF Shape, Crash
<1>6. Shape'  BY <1>1, <1>3, <1>4, <1>5 DEF Shape
<1>7. Runs'  BY <1>1, <1>3 DEF Runs, RunFits
<1>8. Threads'  BY <1>1, <1>2, <1>3, <1>4 DEF Threads, ThreadFits, Crash, Live
<1>9. Waiting'  BY <1>1, <1>2, <1>3, <1>4 DEF Waiting
<1>10. \A x \in Workers, k \in Jobs : Talks(worker'[x], x, k, job'[k])
  <2>1. SUFFICES ASSUME NEW x \in Workers, NEW k \in Jobs PROVE Talks(worker'[x], x, k, job[k])  BY <1>3
  <2>2. CASE x = w  BY <1>2, <1>4, <2>2, Unheard
  <2>3. CASE x /= w  BY <1>1, <1>4, <2>3 DEF Pairs, Pair
  <2>4. QED BY <2>2, <2>3
<1>11. \A k \in Jobs : (Same(k) /\ (job[k].signal => job'[k].signal)) \/ Refused(k)  BY <1>3 DEF Same
<1>12. \A x \in Workers : /\ worker'[x].busy = worker[x].busy /\ worker'[x].current = worker[x].current
                          /\ worker[x].life /= "none" => worker'[x].life /= "none"
                          /\ worker'[x].life = "live" => worker[x].life = "live"
                          /\ worker'[x].ending = worker[x].ending
       BY <1>2, <1>4
<1>13. QED BY <1>6, <1>7, <1>8, <1>9, <1>10, <1>11, <1>12, Continues

LEMMA TerminateKeeps ==
  ASSUME Inv, NEW j \in Jobs, Terminate(j)
  PROVE  Inv'
<1> DEFINE w == job[j].on
<1> DEFINE px == Dying([worker[w] EXCEPT !.ending = TRUE])
<1> DEFINE r == [job[j] EXCEPT !.grace = FALSE]
<1>1. Shape /\ Pairs /\ Runs /\ Threads /\ Granting /\ Waiting /\ job[j] \in JobRecords /\ None \notin Jobs
      BY Types DEF Inv
<1>2. job[j].at = "run" /\ job[j].signal /\ w \in Workers  BY <1>1 DEF Terminate, Runs, RunFits
<1>3. Serves(worker[w], w, j, job[j]) /\ worker[w] \in WorkerRecords  BY <1>1, <1>2, Types DEF Pairs, Pair
<1>4. worker[w].busy /\ worker[w].current = j /\ worker[w].life /= "none"  BY <1>2, <1>3 DEF Serves
<1>5. /\ px \in WorkerRecords /\ px.life = "dying" /\ px.busy = worker[w].busy /\ px.ending
      /\ px.current = worker[w].current /\ px.inbox = worker[w].inbox /\ px.outbox = worker[w].outbox
      /\ px.active = worker[w].active /\ px.floating = worker[w].floating /\ px.pending = worker[w].pending
      BY <1>3, <1>4 DEF WorkerRecords, Dying
<1>6. /\ worker' = [worker EXCEPT ![w] = px] /\ job' = [job EXCEPT ![j] = r]
      /\ UNCHANGED <<conf, closed, pool, waiters, crashes>> /\ Granted = {}
      BY <1>1, <1>2 DEF Terminate, Quiet, Shape
<1>7. /\ r \in JobRecords /\ r.at = job[j].at /\ r.on = job[j].on /\ r.out = job[j].out /\ r.signal = job[j].signal
      /\ ~r.grace /\ r.calls = job[j].calls /\ r.writes = job[j].writes
      BY <1>1 DEF JobRecords
<1> HIDE DEF px, r, w
<1>8. worker' \in [Workers -> WorkerRecords] /\ worker'[w] = px /\ \A x \in Workers : x /= w => worker'[x] = worker[x]
      BY <1>1, <1>2, <1>5, <1>6 DEF Shape
<1>9. job' \in [Jobs -> JobRecords] /\ job'[j] = r /\ \A k \in Jobs : k /= j => job'[k] = job[k]
      BY <1>1, <1>6, <1>7 DEF Shape
<1>10. Shape'  BY <1>1, <1>6, <1>8, <1>9 DEF Shape
<1>11. Runs'  BY <1>1, <1>6, <1>7, <1>9 DEF Runs, RunFits
<1>12. Threads'  BY <1>1, <1>4, <1>5, <1>6, <1>8 DEF Threads, ThreadFits
<1>13. Waiting'
  <2>1. \A k \in Jobs : job'[k].at = job[k].at  BY <1>7, <1>9
  <2>2. \A x \in Workers : worker'[x].busy = worker[x].busy  BY <1>5, <1>8
  <2>3. QED BY <1>1, <1>6, <2>1, <2>2 DEF Waiting
<1>14. \A x \in Workers, k \in Jobs : Talks(worker'[x], x, k, job'[k])
  <2>1. SUFFICES ASSUME NEW x \in Workers, NEW k \in Jobs PROVE Talks(worker'[x], x, k, job'[k])  OBVIOUS
  <2>2. /\ job'[k].at = job[k].at /\ job'[k].on = job[k].on /\ job'[k].out = job[k].out
        /\ job'[k].calls = job[k].calls /\ job'[k].writes = job[k].writes
        BY <1>7, <1>9
  <2>3. CASE x = w  BY <1>5, <1>8, <2>2, <2>3, Unheard
  <2>4. CASE x /= w  BY <1>8, <2>2, <2>4, Unheard
  <2>5. QED BY <2>3, <2>4
<1>15. \A k \in Jobs : (Same(k) /\ (job[k].signal => job'[k].signal)) \/ Refused(k)  BY <1>7, <1>9 DEF Same
<1>16. \A x \in Workers : /\ worker'[x].busy = worker[x].busy /\ worker'[x].current = worker[x].current
                          /\ worker[x].life /= "none" => worker'[x].life /= "none"
                          /\ worker'[x].life = "live" => worker[x].life = "live"
                          /\ worker'[x].ending => worker[x].ending \/ worker[x].current = j
       BY <1>4, <1>5, <1>8
<1>17. job'[j].signal  BY <1>2, <1>7, <1>9
<1>18. QED BY <1>6, <1>10, <1>11, <1>12, <1>13, <1>14, <1>15, <1>16, <1>17, Continues

LEMMA StartKeeps ==
  ASSUME Inv, NEW j \in Jobs, Start(j)
  PROVE  Inv'
<1> DEFINE w == job[j].on
<1> DEFINE pw == worker[w]
<1>1. Shape /\ Pairs /\ Runs /\ Threads /\ Granting /\ Waiting /\ job[j] \in JobRecords /\ None \notin Jobs
      BY Types DEF Inv
<1>2. job[j].at = "granted" /\ UNCHANGED <<conf, closed, pool, crashes>>  BY DEF Start, At
<1>3. w \in Workers  BY <1>1, <1>2 DEF Runs, RunFits
<1>4. pw \in WorkerRecords /\ Serves(pw, w, j, job[j])  BY <1>1, <1>3, Types DEF Pairs, Pair
<1>5. pw.busy /\ ~pw.ending /\ pw.current = None /\ pw.life /= "none"  BY <1>2, <1>4 DEF Serves
<1>6. Silent(pw, j)  BY <1>2, <1>3, Outsider
<1>7. \A k \in Jobs : Talks(pw, w, k, job[k]) /\ Serves(pw, w, k, job[k])  BY <1>1, <1>3 DEF Pairs, Pair
<1>8. CASE job[j].signal
  <2> DEFINE r == Settled(job[j], "aborted")
  <2>1. /\ r \in JobRecords /\ r.at = "settled" /\ r.out = "aborted" /\ ~r.grace /\ r.calls = 0 /\ r.writes = 0
        BY <1>1, SettledFields
  <2>2. [job EXCEPT ![j] = Settled(@, "aborted")] = [job EXCEPT ![j] = r]  BY <1>1 DEF Shape
  <2>3. Release(w, [job EXCEPT ![j] = Settled(@, "aborted")], worker)  BY <1>8 DEF Start
  <2> HIDE DEF r
  <2>4. RunFits(r, conf.manner[j])  BY <2>1 DEF RunFits
  <2> DEFINE box == pw.outbox
  <2>5. box \in Seq(OutMessages) /\ worker = [worker EXCEPT ![w].outbox = box]
    <3>1. [pw EXCEPT !.outbox = pw.outbox] = pw  BY <1>4 DEF WorkerRecords
    <3>2. QED BY <1>1, <1>3, <1>4, <3>1 DEF WorkerRecords, Shape
  <2> DEFINE px == [pw EXCEPT !.outbox = box, !.current = None]
  <2>6. /\ px.inbox = pw.inbox /\ px.outbox = pw.outbox /\ px.active = pw.active /\ px.current = None
        /\ px.floating = pw.floating /\ px.pending = pw.pending
        BY <1>4 DEF WorkerRecords
  <2> HIDE DEF px, box
  <2>7. ASSUME NEW k \in Jobs PROVE Talks(px, w, k, IF k = j THEN r ELSE job[k])
    <3>1. CASE k = j
      <4>1. Silent(px, j)  BY <1>6, <2>6 DEF Silent
      <4>2. QED BY <3>1, <4>1, SilentTalks
    <3>2. CASE k /= j  BY <1>5, <1>7, <2>6, <3>2, SameTalks
    <3>3. QED BY <3>1, <3>2
  <2>8. Release(w, [job EXCEPT ![j] = r], [worker EXCEPT ![w].outbox = box])  BY <2>2, <2>3, <2>5
  <2>9. QED BY <1>2, <1>3, <2>1, <2>4, <2>5, <2>7, <2>8, Releases, SMTT(40), ZenonT(40) DEF px
<1>9. CASE ~job[j].signal
  <2> DEFINE sends == conf.manner[j] /= "unsendable"
  <2> DEFINE in == IF sends THEN Append(pw.inbox, Message("process", j)) ELSE pw.inbox
  <2> DEFINE px == [pw EXCEPT !.current = j, !.inbox = in]
  <2> DEFINE r == IF sends THEN [job[j] EXCEPT !.at = "run"] ELSE Settled(job[j], "unsent")
  <2>1. Message("process", j) \in InMessages /\ pw.inbox \in Seq(InMessages)  BY <1>4, Sending DEF WorkerRecords
  <2>2. in \in Seq(InMessages)
    <3>1. Append(pw.inbox, Message("process", j)) \in Seq(InMessages)  BY <2>1
    <3>2. QED BY <2>1, <3>1
  <2>3. /\ px \in WorkerRecords /\ px.life = pw.life /\ px.busy = pw.busy /\ px.ending = pw.ending /\ px.current = j
        /\ px.inbox = in /\ px.outbox = pw.outbox /\ px.active = pw.active /\ px.floating = pw.floating
        /\ px.pending = pw.pending
        BY <1>4, <2>2 DEF WorkerRecords
  <2>4. /\ r \in JobRecords /\ r.signal = job[j].signal
        /\ sends => r.at = "run" /\ r.on = w /\ r.out = job[j].out /\ r.grace = job[j].grace
                    /\ r.calls = job[j].calls /\ r.writes = job[j].writes
        /\ ~sends => r.at = "settled" /\ r.out = "unsent" /\ ~r.grace /\ r.calls = 0 /\ r.writes = 0
    <3>1. CASE sends
      <4>1. r = [job[j] EXCEPT !.at = "run"]  BY <3>1
      <4>2. QED BY <1>1, <3>1, <4>1 DEF JobRecords
    <3>2. CASE ~sends
      <4>1. r = Settled(job[j], "unsent")  BY <3>2
      <4>2. QED BY <1>1, <3>2, <4>1, SettledFields
    <3>3. QED BY <3>1, <3>2
  <2>5. job' = [job EXCEPT ![j] = r] /\ UNCHANGED waiters  BY <1>1, <1>9 DEF Start, Shape
  <2>6. worker' = [worker EXCEPT ![w] = px]  BY <1>1, <1>3, <1>4, <1>9 DEF Start, Shape, WorkerRecords
  <2>7. sends => \A kind, k : Has(in, kind, k) <=> Has(pw.inbox, kind, k) \/ Message("process", j) = Message(kind, k)
        BY <2>1, HasAppend
  <2>8. sends => Once(in, "process", j)  BY <1>6, <2>1, NoneOnce, OnceAppend DEF Silent
  <2>9. ~sends => in = pw.inbox  OBVIOUS
  <2>10. sends \/ conf.manner[j] = "unsendable"  OBVIOUS
  <2> HIDE DEF px, r, in, w, sends
  <2>11. worker' \in [Workers -> WorkerRecords] /\ worker'[w] = px /\ \A x \in Workers : x /= w => worker'[x] = worker[x]
         BY <1>1, <1>3, <2>3, <2>6 DEF Shape
  <2>12. job' \in [Jobs -> JobRecords] /\ job'[j] = r /\ \A k \in Jobs : k /= j => job'[k] = job[k]
         BY <1>1, <2>4, <2>5 DEF Shape
  <2>13. Shape'  BY <1>1, <1>2, <2>5, <2>11, <2>12 DEF Shape
  <2>14. Runs'
    <3>1. SUFFICES ASSUME NEW k \in Jobs PROVE RunFits(job'[k], conf.manner[k])  BY <1>2 DEF Runs
    <3>2. RunFits(job[k], conf.manner[k])  BY <1>1 DEF Runs
    <3>3. CASE k = j  BY <1>2, <1>3, <2>4, <2>10, <2>12, <3>2, <3>3 DEF RunFits
    <3>4. CASE k /= j  BY <2>12, <3>2, <3>4
    <3>5. QED BY <3>3, <3>4
  <2>15. Threads'  BY <1>1, <1>2, <2>3, <2>11 DEF Threads, ThreadFits
  <2>16. Waiting'
    <3>1. \A k \in Jobs : job'[k].at = "waiting" <=> job[k].at = "waiting"  BY <1>2, <2>4, <2>12
    <3>2. \A x \in Workers : worker'[x].busy = worker[x].busy  BY <2>3, <2>11
    <3>3. QED BY <1>1, <1>2, <2>5, <3>1, <3>2 DEF Waiting
  <2>17. \A k \in Jobs : job[k].at \in {"granted", "run"} /\ job[k].on = w => k = j  BY <1>2, <1>3, Single DEF w
  <2>18. ASSUME NEW x \in Workers, NEW k \in Jobs, job'[k].at = "granted", job'[k].on = x
         PROVE  x /= w /\ k /= j /\ GrantedOn(k, x)
    <3>1. k /= j  BY <2>4, <2>12, <2>18
    <3>2. job[k].at = "granted" /\ job[k].on = x  BY <2>12, <2>18, <3>1
    <3>3. QED BY <2>17, <3>1, <3>2 DEF GrantedOn
  <2>19. Granting'
    <3>1. ASSUME NEW x \in Workers, worker'[x].busy, worker'[x].life = "live"
          PROVE  worker'[x].current /= None \/ \E k \in Jobs : job'[k].at = "granted" /\ job'[k].on = x
      <4>1. CASE x = w  BY <1>1, <2>3, <2>11, <4>1
      <4>2. CASE x /= w /\ worker[x].current /= None  BY <2>11, <4>2
      <4>3. CASE x /= w /\ worker[x].current = None
        <5>1. PICK k \in Jobs : GrantedOn(k, x)  BY <1>1, <2>11, <3>1, <4>3 DEF Granting
        <5>2. k /= j  BY <4>3, <5>1 DEF GrantedOn, w
        <5>3. QED BY <2>12, <5>1, <5>2 DEF GrantedOn
      <4>4. QED BY <4>1, <4>2, <4>3
    <3>2. ASSUME NEW x \in Workers, NEW i \in Jobs, NEW k \in Jobs, job'[i].at = "granted", job'[i].on = x,
                 job'[k].at = "granted", job'[k].on = x
          PROVE  i = k
          BY <1>1, <2>18, <3>2 DEF Granting
    <3>3. QED BY <3>1, <3>2 DEF Granting, GrantedOn
  <2>20. Pairs'
    <3>1. SUFFICES ASSUME NEW x \in Workers, NEW k \in Jobs
                   PROVE  Serves(worker'[x], x, k, job'[k]) /\ Talks(worker'[x], x, k, job'[k])
          BY DEF Pairs, Pair
    <3>2. CASE x /= w /\ k /= j  BY <1>1, <2>11, <2>12, <3>2 DEF Pairs, Pair
    <3>3. CASE x /= w /\ k = j
      <4>1. worker[x].current /= k /\ Silent(worker[x], k)  BY <1>2, <3>3, Outsider
      <4>2. Talks(worker[x], x, k, job'[k])  BY <4>1, SilentTalks
      <4>3. Serves(worker[x], x, k, job'[k])  BY <2>4, <2>10, <2>12, <3>3, <4>1 DEF Serves
      <4>4. QED BY <2>11, <3>3, <4>2, <4>3
    <3>4. CASE x = w /\ k /= j
      <4>1. ~(job[k].at \in {"granted", "run"} /\ job[k].on = w)  BY <2>17, <3>4
      <4>2. Serves(px, w, k, job[k])  BY <2>3, <3>4, <4>1 DEF Serves
      <4>3. Talks(pw, w, k, job[k]) /\ pw.current /= k  BY <1>1, <1>5, <1>7
      <4>4. Message("process", j) /= Message("process", k) /\ Message("process", j) /= Message("answer", k)
            BY <3>4, Distinct
      <4>5. (Has(in, "process", k) <=> Has(pw.inbox, "process", k)) /\ (Has(in, "answer", k) <=> Has(pw.inbox, "answer", k))
            BY <2>7, <2>9, <4>4
      <4>6. ~Has(pw.inbox, "process", k) /\ ~Has(pw.inbox, "answer", k) /\ pw.active /= k  BY <4>3 DEF Talks
      <4>7. Talks(px, w, k, job[k])  BY <2>3, <3>4, <4>3, <4>5, <4>6 DEF Talks
      <4>8. QED BY <2>11, <2>12, <3>4, <4>2, <4>7
    <3>5. CASE x = w /\ k = j
      <4>1. Serves(px, w, k, r)  BY <1>5, <2>3, <2>4, <2>10, <3>5 DEF Serves
      <4>2. After(px.outbox, k)  BY <1>6, <2>3, <3>5 DEF After, Silent, Has
      <4>3. pw.active = None
        <5>1. pw.active \in Jobs \cup {None}  BY <1>4 DEF WorkerRecords
        <5>2. QED BY <1>1, <1>5, <1>7, <5>1 DEF Talks
      <4>4. Message("process", j) /= Message("answer", k)  BY Distinct
      <4>5. ~Has(in, "answer", k)  BY <1>6, <2>7, <2>9, <3>5, <4>4 DEF Silent
      <4>6. CASE sends
        <5>1. Known(r, w)
          <6>1. job[j].out /= "unsent"  BY <1>1, <1>2 DEF Runs, RunFits
          <6>2. QED BY <2>4, <4>6, <6>1 DEF Known
        <5>2. Talks(px, w, k, r)  BY <1>1, <1>6, <2>3, <2>8, <3>5, <4>2, <4>3, <4>5, <4>6, <5>1 DEF Talks, Silent
        <5>3. QED BY <2>11, <2>12, <3>5, <4>1, <5>2
      <4>7. CASE ~sends
        <5>1. Silent(px, k)  BY <1>6, <2>3, <2>9, <3>5, <4>7 DEF Silent
        <5>2. QED BY <2>11, <2>12, <3>5, <4>1, <5>1, SilentTalks
      <4>8. QED BY <4>6, <4>7
    <3>6. QED BY <3>2, <3>3, <3>4, <3>5
  <2>21. QED BY <2>13, <2>14, <2>15, <2>16, <2>19, <2>20 DEF Inv
<1>10. QED BY <1>8, <1>9

LEMMA SignalKeeps ==
  ASSUME Inv, NEW j \in Jobs, Signal(j)
  PROVE  Inv'
<1> DEFINE w == job[j].on
<1> DEFINE r == IF At(j, {"waiting"}) THEN Settled([job[j] EXCEPT !.signal = TRUE], "aborted") ELSE Aborted(job[j])
<1>1. Shape /\ Pairs /\ Runs /\ Threads /\ Granting /\ Waiting /\ job[j] \in JobRecords /\ None \notin Jobs
      BY Types DEF Inv
<1>2. /\ UNCHANGED <<conf, closed, pool, crashes>> /\ job[j].at /= "settled"
      /\ waiters' = GivesUp(waiters, j) /\ job' = [job EXCEPT ![j] = r]
  <2>1. [job[j] EXCEPT !.signal = TRUE] = [[job EXCEPT ![j] = job[j]][j] EXCEPT !.signal = TRUE]  BY <1>1 DEF Shape
  <2>2. QED BY <1>1 DEF Signal, At, Shape
<1>3. /\ r \in JobRecords /\ r.signal
      /\ job[j].at = "waiting" => r.at = "settled" /\ r.out = "aborted" /\ ~r.grace /\ r.calls = 0 /\ r.writes = 0
      /\ job[j].at /= "waiting" => /\ r.at = job[j].at /\ r.on = job[j].on /\ r.out = job[j].out
                                   /\ r.calls = job[j].calls /\ r.writes = job[j].writes
                                   /\ r.grace = (job[j].at = "run")
  <2>1. CASE job[j].at = "waiting"
    <3> DEFINE q == [job[j] EXCEPT !.signal = TRUE]
    <3>1. r = Settled(q, "aborted")  BY <2>1 DEF At
    <3>2. q \in JobRecords /\ q.signal  BY <1>1 DEF JobRecords
    <3> HIDE DEF q, r
    <3>3. r \in JobRecords /\ r.at = "settled" /\ r.out = "aborted" /\ ~r.grace /\ r.signal = q.signal /\ r.calls = 0 /\ r.writes = 0
          BY <3>1, <3>2, SettledFields
    <3>4. QED BY <2>1, <3>2, <3>3
  <2>2. CASE job[j].at /= "waiting"
    <3>1. r = Aborted(job[j])  BY <2>2 DEF At
    <3>2. QED BY <1>1, <2>2, <3>1 DEF Aborted, JobRecords
  <2>3. QED BY <2>1, <2>2
<1> HIDE DEF r
<1>4. job' \in [Jobs -> JobRecords] /\ job'[j] = r /\ \A k \in Jobs : k /= j => job'[k] = job[k]
      BY <1>1, <1>2, <1>3 DEF Shape
<1>5. /\ waiters' \in Seq(Jobs) /\ Apart(waiters') /\ \A k : Listed(waiters', k) <=> Listed(waiters, k) /\ k /= j
      /\ waiters' /= <<>> => waiters /= <<>>
      BY <1>1, <1>2, GivenUp DEF Shape, Waiting
<1>6. ASSUME worker' \in [Workers -> WorkerRecords],
             \A x \in Workers : /\ worker'[x].busy = worker[x].busy /\ worker'[x].current = worker[x].current
                                /\ worker'[x].life = worker[x].life /\ worker'[x].ending = worker[x].ending,
             \A x \in Workers, k \in Jobs : Talks(worker'[x], x, k, job'[k])
      PROVE  Inv'
  <2>1. Shape'  BY <1>1, <1>2, <1>4, <1>5, <1>6 DEF Shape
  <2>2. Runs'
    <3>1. SUFFICES ASSUME NEW k \in Jobs PROVE RunFits(job'[k], conf.manner[k])  BY <1>2 DEF Runs
    <3>2. RunFits(job[k], conf.manner[k])  BY <1>1 DEF Runs
    <3>3. CASE k = j /\ job[j].at = "waiting"  BY <1>3, <1>4, <3>3 DEF RunFits
    <3>4. CASE k = j /\ job[j].at /= "waiting"  BY <1>3, <1>4, <3>2, <3>4 DEF RunFits
    <3>5. CASE k /= j  BY <1>4, <3>2, <3>5
    <3>6. QED BY <3>3, <3>4, <3>5
  <2>3. Threads'  BY <1>1, <1>2, <1>6 DEF Threads, ThreadFits
  <2>4. Waiting'
    <3>1. \A k \in Jobs : job'[k].at = "waiting" <=> job[k].at = "waiting" /\ k /= j  BY <1>3, <1>4
    <3>2. QED BY <1>1, <1>2, <1>5, <1>6, <3>1 DEF Waiting
  <2>5. \A k \in Jobs : (Same(k) /\ (job[k].signal => job'[k].signal)) \/ Refused(k)
        BY <1>3, <1>4 DEF Same, Refused
  <2>6. QED BY <1>6, <2>1, <2>2, <2>3, <2>4, <2>5, Continues
<1>7. CASE job[j].at /= "run"
  <2>1. worker' = worker  BY <1>7 DEF Signal, At
  <2>2. \A x \in Workers, k \in Jobs : Talks(worker'[x], x, k, job'[k])
    <3>1. ASSUME NEW x \in Workers, NEW k \in Jobs PROVE Talks(worker[x], x, k, job'[k])
      <4>1. CASE k = j /\ job[j].at = "waiting"  BY <4>1, Unheard
      <4>2. CASE k = j /\ job[j].at /= "waiting"  BY <1>3, <1>4, <4>2, Unheard
      <4>3. CASE k /= j  BY <1>1, <1>4, <4>3 DEF Pairs, Pair
      <4>4. QED BY <4>1, <4>2, <4>3
    <3>2. QED BY <2>1, <3>1
  <2>3. QED BY <1>1, <1>6, <2>1, <2>2 DEF Shape
<1>8. CASE job[j].at = "run"
  <2> DEFINE pw == worker[w]
  <2> DEFINE px == [pw EXCEPT !.inbox = Append(pw.inbox, Message("abort", j))]
  <2>1. w \in Workers  BY <1>1, <1>8 DEF Runs, RunFits
  <2>2. pw \in WorkerRecords /\ Message("abort", j) \in InMessages /\ pw.inbox \in Seq(InMessages)
        BY <1>1, <2>1, Types, Sending DEF WorkerRecords
  <2>3. Append(pw.inbox, Message("abort", j)) \in Seq(InMessages)  BY <2>2
  <2>4. /\ px \in WorkerRecords /\ px.life = pw.life /\ px.busy = pw.busy /\ px.ending = pw.ending /\ px.current = pw.current
        /\ px.inbox = Append(pw.inbox, Message("abort", j)) /\ px.outbox = pw.outbox /\ px.active = pw.active
        /\ px.floating = pw.floating /\ px.pending = pw.pending
        BY <2>2, <2>3 DEF WorkerRecords
  <2>5. worker' = [worker EXCEPT ![w] = px]  BY <1>1, <1>8, <2>1 DEF Signal, At, Shape
  <2> HIDE DEF px
  <2>6. worker' \in [Workers -> WorkerRecords] /\ worker'[w] = px /\ \A x \in Workers : x /= w => worker'[x] = worker[x]
        BY <1>1, <2>1, <2>4, <2>5 DEF Shape
  <2>7. ASSUME NEW x \in Workers, NEW k \in Jobs PROVE Talks(worker[x], x, k, job'[k])
    <3>1. CASE k = j  BY <1>3, <1>4, <1>8, <3>1, Unheard
    <3>2. CASE k /= j  BY <1>1, <1>4, <3>2 DEF Pairs, Pair
    <3>3. QED BY <3>1, <3>2
  <2>8. ASSUME NEW k \in Jobs PROVE Talks(px, w, k, job'[k])
    <3>1. Talks(pw, w, k, job'[k])  BY <2>1, <2>7
    <3>2. Message("abort", j) /= Message("process", k) /\ Message("abort", j) /= Message("answer", k)  BY Distinct
    <3>3. /\ Has(px.inbox, "process", k) <=> Has(pw.inbox, "process", k)
          /\ Has(px.inbox, "answer", k) <=> Has(pw.inbox, "answer", k)
          BY <2>2, <2>4, <3>2, HasAppend
    <3>4. /\ Once(pw.inbox, "process", k) => Once(px.inbox, "process", k)
          /\ Once(pw.inbox, "answer", k) => Once(px.inbox, "answer", k)
          BY <2>2, <2>4, <3>2, OnceAppend
    <3>5. QED BY <2>4, <3>1, <3>3, <3>4 DEF Talks
  <2>9. \A x \in Workers, k \in Jobs : Talks(worker'[x], x, k, job'[k])
    <3>1. SUFFICES ASSUME NEW x \in Workers, NEW k \in Jobs PROVE Talks(worker'[x], x, k, job'[k])  OBVIOUS
    <3>2. CASE x = w  BY <2>6, <2>8, <3>2
    <3>3. CASE x /= w  BY <2>6, <2>7, <3>3
    <3>4. QED BY <3>2, <3>3
  <2>10. \A x \in Workers : /\ worker'[x].busy = worker[x].busy /\ worker'[x].current = worker[x].current
                            /\ worker'[x].life = worker[x].life /\ worker'[x].ending = worker[x].ending
         BY <2>4, <2>6
  <2>11. QED BY <1>6, <2>6, <2>9, <2>10
<1>9. QED BY <1>7, <1>8

LEMMA ExitKeeps ==
  ASSUME Inv, NEW w \in Workers, Exit(w)
  PROVE  Inv'
<1> DEFINE pw == worker[w]
<1> DEFINE j == pw.current
<1> DEFINE ends == j /= None /\ ~At(j, {"settled"})
<1> DEFINE jobs == IF j = None \/ At(j, {"settled"}) THEN job
                   ELSE [job EXCEPT ![j] = Settled(@, IF pw.ending THEN "terminated" ELSE "exited")]
<1> DEFINE h == Head(waiters)
<1>1. Shape /\ Pairs /\ Runs /\ Threads /\ Granting /\ Waiting /\ pw \in WorkerRecords /\ None \notin Jobs
      BY Types DEF Inv
<1>2. UNCHANGED <<conf, closed, crashes>> /\ Granted = {} /\ pw.life = "dying"  BY DEF Exit, Quiet
<1>3. j \in Jobs \cup {None}  BY <1>1 DEF WorkerRecords
<1>4. \A k \in Jobs : job[k].at /= "granted"  BY <1>2 DEF Granted, At
<1>5. ends => /\ j \in Jobs /\ job[j].at = "run" /\ job[j].on = w /\ job[j] \in JobRecords
              /\ pw.ending => job[j].signal
  <2>1. SUFFICES ASSUME ends PROVE job[j].at = "run" /\ job[j].on = w /\ job[j] \in JobRecords /\ (pw.ending => job[j].signal)
        BY <1>3
  <2>2. j \in Jobs  BY <1>3, <2>1
  <2>3. Serves(pw, w, j, job[j]) /\ RunFits(job[j], conf.manner[j])  BY <1>1, <2>2 DEF Pairs, Pair, Runs
  <2>4. QED BY <1>1, <2>1, <2>2, <2>3, Types DEF Serves, RunFits, At
<1>6. /\ jobs \in [Jobs -> JobRecords]
      /\ \A k \in Jobs : ~(ends /\ k = j) => jobs[k] = job[k]
      /\ ends => /\ jobs[j].at = "settled" /\ ~jobs[j].grace /\ jobs[j].out \in {"terminated", "exited"}
                 /\ jobs[j].out = "terminated" => jobs[j].signal
                 /\ jobs[j].calls = 0 /\ jobs[j].writes = 0
  <2>1. CASE ~ends
    <3>1. jobs = job  BY <2>1
    <3>2. QED BY <1>1, <2>1, <3>1 DEF Shape
  <2>2. CASE ends
    <3> DEFINE r == Settled(job[j], IF pw.ending THEN "terminated" ELSE "exited")
    <3>1. jobs = [job EXCEPT ![j] = r]  BY <1>1, <1>5, <2>2 DEF Shape
    <3>2. /\ r \in JobRecords /\ r.at = "settled" /\ r.out = (IF pw.ending THEN "terminated" ELSE "exited")
          /\ ~r.grace /\ r.signal = job[j].signal /\ r.calls = 0 /\ r.writes = 0
          BY <1>5, <2>2, SettledFields
    <3> HIDE DEF r
    <3>3. QED BY <1>1, <1>5, <2>2, <3>1, <3>2 DEF Shape
  <2>3. QED BY <2>1, <2>2
<1>7. \A k \in Jobs : job[k].at = "run" /\ job[k].on = w => ends /\ k = j
      BY <1>1 DEF Pairs, Pair, Serves, At
<1>8. /\ Replaces => /\ worker' = [worker EXCEPT ![w] = Spawned] /\ UNCHANGED pool
                     /\ job' = [jobs EXCEPT ![h].at = "granted", ![h].on = w] /\ waiters' = Tail(waiters)
      /\ ~Replaces => /\ worker' = [worker EXCEPT ![w] = NoWorker] /\ pool' = pool \ {w}
                      /\ job' = jobs /\ UNCHANGED waiters
      BY DEF Exit
<1>9. Replaces => /\ ~closed /\ h \in Jobs /\ job[h].at = "waiting" /\ jobs[h] = job[h] /\ ~(ends /\ h = j)
                  /\ Tail(waiters) \in Seq(Jobs) /\ Apart(Tail(waiters))
                  /\ \A k : Listed(Tail(waiters), k) <=> Listed(waiters, k) /\ k /= h
  <2>1. SUFFICES ASSUME Replaces
                 PROVE  /\ ~closed /\ h \in Jobs /\ job[h].at = "waiting" /\ jobs[h] = job[h] /\ ~(ends /\ h = j)
                        /\ Tail(waiters) \in Seq(Jobs) /\ Apart(Tail(waiters))
                        /\ \A k : Listed(Tail(waiters), k) <=> Listed(waiters, k) /\ k /= h
        OBVIOUS
  <2>2. /\ h \in Jobs /\ Listed(waiters, h) /\ Tail(waiters) \in Seq(Jobs) /\ Apart(Tail(waiters))
        /\ \A k : Listed(Tail(waiters), k) <=> Listed(waiters, k) /\ k /= h
        BY <1>1, <2>1, Dequeued DEF Replaces, Waiting, Shape
  <2>3. job[h].at = "waiting"  BY <1>1, <2>2 DEF Waiting
  <2>4. ~(ends /\ h = j)  BY <1>5, <2>3
  <2>5. jobs[h] = job[h]  BY <1>6, <2>2, <2>4
  <2>6. QED BY <2>1, <2>2, <2>3, <2>4, <2>5 DEF Replaces
<1> DEFINE nw == IF Replaces THEN Spawned ELSE NoWorker
<1>10. /\ worker' \in [Workers -> WorkerRecords] /\ worker'[w] = nw
       /\ \A x \in Workers : x /= w => worker'[x] = worker[x]
       BY <1>1, <1>8, Fresh DEF Shape
<1> DEFINE r == [job[h] EXCEPT !.at = "granted", !.on = w]
<1>11. Replaces => /\ r \in JobRecords /\ r.at = "granted" /\ r.on = w /\ r.signal = job[h].signal /\ r.grace = job[h].grace
                   /\ r.out = job[h].out /\ r.calls = job[h].calls /\ r.writes = job[h].writes
  <2>1. w \in 0 .. MaxWorkers  BY ConstantsAssumption DEF Workers
  <2>2. Replaces => job[h] \in JobRecords  BY <1>1, <1>9, Types
  <2>3. QED BY <2>1, <2>2 DEF JobRecords
<1> HIDE DEF r, h, nw
<1>12. /\ job' \in [Jobs -> JobRecords]
       /\ \A k \in Jobs : job'[k] = IF Replaces /\ k = h THEN r ELSE jobs[k]
  <2> HIDE DEF jobs, ends
  <2>1. CASE Replaces
    <3>1. job' = [jobs EXCEPT ![h] = r]  BY <1>6, <1>8, <1>9, <2>1 DEF r
    <3>2. QED BY <1>6, <1>9, <1>11, <2>1, <3>1
  <2>2. CASE ~Replaces  BY <1>6, <1>8, <2>2
  <2>3. QED BY <2>1, <2>2
<1> HIDE DEF jobs, ends
<1>13. waiters' \in Seq(Jobs) /\ Apart(waiters') /\ pool' \subseteq Workers /\ pool' = IF Replaces THEN pool ELSE pool \ {w}
       BY <1>1, <1>8, <1>9 DEF Shape, Waiting
<1>14. Shape'  BY <1>1, <1>2, <1>10, <1>12, <1>13 DEF Shape
<1>15. Runs'
  <2>1. SUFFICES ASSUME NEW k \in Jobs PROVE RunFits(job'[k], conf.manner[k])  BY <1>2 DEF Runs
  <2>2. RunFits(job[k], conf.manner[k])  BY <1>1 DEF Runs
  <2>3. CASE Replaces /\ k = h  BY <1>9, <1>11, <1>12, <2>2, <2>3 DEF RunFits
  <2>4. CASE ~(Replaces /\ k = h) /\ ends /\ k = j  BY <1>6, <1>12, <2>4 DEF RunFits
  <2>5. CASE ~(Replaces /\ k = h) /\ ~(ends /\ k = j)  BY <1>6, <1>12, <2>2, <2>5
  <2>6. QED BY <2>3, <2>4, <2>5
<1>16. nw.life /= "live" <=> ~Replaces  BY Fresh DEF nw
<1>17. Threads'
  <2>1. SUFFICES ASSUME NEW x \in Workers PROVE ThreadFits(worker[x], x)'  BY DEF Threads
  <2>2. ThreadFits(worker[x], x) /\ ThreadFits(pw, w)  BY <1>1 DEF Threads
  <2>3. CASE x /= w  BY <1>2, <1>10, <1>13, <2>2, <2>3 DEF ThreadFits
  <2>4. CASE x = w /\ Replaces  BY <1>2, <1>9, <1>10, <1>13, <2>2, <2>4, Fresh DEF ThreadFits, nw
  <2>5. CASE x = w /\ ~Replaces  BY <1>2, <1>10, <1>13, <2>2, <2>5, Fresh DEF ThreadFits, nw
  <2>6. QED BY <2>3, <2>4, <2>5
<1>18. Waiting'
  <2>1. ASSUME NEW k \in Jobs PROVE job'[k].at = "waiting" <=> Listed(waiters', k)
    <3>1. job[k].at = "waiting" <=> Listed(waiters, k)  BY <1>1 DEF Waiting
    <3>2. CASE Replaces /\ k = h  BY <1>8, <1>9, <1>11, <1>12, <3>2 DEF h
    <3>3. CASE ~(Replaces /\ k = h) /\ ends /\ k = j
      <4>1. job'[k].at /= "waiting" /\ job[k].at /= "waiting"  BY <1>5, <1>6, <1>12, <3>3
      <4>2. QED BY <1>8, <1>9, <3>1, <4>1
    <3>4. CASE ~(Replaces /\ k = h) /\ ~(ends /\ k = j)
      <4>1. job'[k] = job[k]  BY <1>6, <1>12, <3>4
      <4>2. Listed(waiters', k) <=> Listed(waiters, k)  BY <1>8, <1>9, <3>4 DEF h
      <4>3. QED BY <3>1, <4>1, <4>2
    <3>5. QED BY <3>2, <3>3, <3>4
  <2>2. waiters' /= <<>> => ~closed' /\ pool' = Workers /\ \A x \in Workers : worker'[x].busy
    <3>1. SUFFICES ASSUME waiters' /= <<>> PROVE ~closed /\ pool' = Workers /\ \A x \in Workers : worker'[x].busy
          BY <1>2
    <3>2. Replaces
      <4>1. CASE ~Replaces
        <5>1. waiters /= <<>>  BY <1>8, <3>1, <4>1
        <5>2. QED BY <1>1, <4>1, <5>1 DEF Replaces, Waiting
      <4>2. QED BY <4>1
    <3>3. waiters /= <<>>  BY <3>2 DEF Replaces
    <3>4. QED BY <1>1, <1>10, <1>13, <3>2, <3>3, Fresh DEF Waiting, nw
  <2>3. QED BY <1>13, <2>1, <2>2 DEF Waiting
<1>19. worker'[w].current = None /\ \A k \in Jobs : Talks(worker'[w], w, k, job'[k])
       BY <1>10, Fresh, SilentTalks DEF nw
<1>20. \A k \in Jobs : IF Replaces /\ k = h THEN Given(k, w) ELSE IF ends /\ k = j THEN Left(k, w) ELSE Stays(k, w)
  <2>1. SUFFICES ASSUME NEW k \in Jobs
                 PROVE  IF Replaces /\ k = h THEN Given(k, w) ELSE IF ends /\ k = j THEN Left(k, w) ELSE Stays(k, w)
        OBVIOUS
  <2>2. CASE Replaces /\ k = h  BY <1>9, <1>11, <1>12, <2>2 DEF Given
  <2>3. CASE ~(Replaces /\ k = h) /\ ends /\ k = j  BY <1>5, <1>6, <1>12, <2>3 DEF Left
  <2>4. CASE ~(Replaces /\ k = h) /\ ~(ends /\ k = j)  BY <1>4, <1>6, <1>7, <1>12, <2>4 DEF Stays
  <2>5. QED BY <2>2, <2>3, <2>4
<1>21. \A k \in Jobs : Given(k, w) <=> Replaces /\ k = h
  <2>1. \A k \in Jobs : Given(k, w) => ~Left(k, w)  BY DEF Given, Left
  <2>2. \A k \in Jobs : Given(k, w) => ~Stays(k, w)  BY DEF Given, Stays
  <2>3. QED BY <1>20, <2>1, <2>2
<1>22. Replaces => worker'[w].busy /\ ~worker'[w].ending /\ worker'[w].life /= "none"  BY <1>10, Fresh DEF nw
<1>23. worker'[w].life = "live" => Replaces  BY <1>10, <1>16
<1>24. \A k \in Jobs : Left(k, w) \/ Given(k, w) \/ Stays(k, w)  BY <1>20
<1>25. \A i, k \in Jobs : Given(i, w) /\ Given(k, w) => i = k  BY <1>21
<1>26. (\E k \in Jobs : Given(k, w)) => worker'[w].busy /\ ~worker'[w].ending /\ worker'[w].life /= "none"
       BY <1>21, <1>22
<1>27. (worker'[w].busy /\ worker'[w].life = "live") => \E k \in Jobs : Given(k, w)  BY <1>9, <1>21, <1>23
<1>28. QED BY <1>10, <1>14, <1>15, <1>17, <1>18, <1>19, <1>24, <1>25, <1>26, <1>27, Renews

LEMMA CloseKeeps ==
  ASSUME Inv, Close
  PROVE  Inv'
<1>1. Shape /\ Pairs /\ Runs /\ Threads /\ Granting /\ Waiting  BY DEF Inv
<1>2. UNCHANGED <<conf, pool, crashes>> /\ ~closed /\ closed' = TRUE /\ waiters' = <<>>  BY DEF Close
<1>3. ASSUME NEW k \in Jobs
      PROVE  /\ job'[k] \in JobRecords
             /\ IF job[k].at = "waiting"
                THEN job'[k].at = "settled" /\ job'[k].out = "closed" /\ ~job'[k].grace /\ job'[k].calls = 0 /\ job'[k].writes = 0
                ELSE job'[k] = job[k]
  <2>1. job[k] \in JobRecords  BY <1>1, Types
  <2>2. job'[k] = IF job[k].at = "waiting" THEN Settled(job[k], "closed") ELSE job[k]  BY DEF Close, At
  <2>3. QED BY <2>1, <2>2, SettledFields
<1>4. job' \in [Jobs -> JobRecords]
  <2>1. job' = [k \in Jobs |-> job'[k]]  BY DEF Close
  <2>2. QED BY <1>3, <2>1
<1>5. ASSUME NEW x \in Workers
      PROVE  /\ worker'[x] \in WorkerRecords
             /\ worker'[x].busy = worker[x].busy /\ worker'[x].current = worker[x].current
             /\ worker'[x].ending = worker[x].ending /\ worker'[x].inbox = worker[x].inbox
             /\ worker'[x].outbox = worker[x].outbox /\ worker'[x].active = worker[x].active
             /\ worker'[x].floating = worker[x].floating /\ worker'[x].pending = worker[x].pending
             /\ worker'[x].life /= "live" /\ (worker[x].life /= "none" => worker'[x].life /= "none")
  <2>1. worker[x] \in WorkerRecords /\ (x \notin pool => worker[x].life = "none")
        BY <1>1, <1>2, Types DEF Threads, ThreadFits
  <2>2. worker'[x] = IF x \in pool THEN Dying(worker[x]) ELSE worker[x]  BY DEF Close, Stops
  <2>3. CASE x \in pool
    <3>1. worker'[x] = [worker[x] EXCEPT !.life = IF worker[x].life = "live" THEN "dying" ELSE worker[x].life]
          BY <2>2, <2>3 DEF Dying
    <3>2. QED BY <2>1, <3>1 DEF WorkerRecords
  <2>4. CASE x \notin pool  BY <2>1, <2>2, <2>4
  <2>5. QED BY <2>3, <2>4
<1>6. worker' \in [Workers -> WorkerRecords]
  <2>1. worker' = [x \in Workers |-> worker'[x]]  BY DEF Close
  <2>2. QED BY <1>5, <2>1
<1>7. Shape'
  <2>1. <<>> \in Seq(Jobs)  OBVIOUS
  <2>2. QED BY <1>1, <1>2, <1>4, <1>6, <2>1 DEF Shape
<1>8. Runs'
  <2>1. SUFFICES ASSUME NEW k \in Jobs PROVE RunFits(job'[k], conf.manner[k])  BY <1>2 DEF Runs
  <2>2. RunFits(job[k], conf.manner[k])  BY <1>1 DEF Runs
  <2>3. CASE job[k].at = "waiting"  BY <1>3, <2>3 DEF RunFits
  <2>4. CASE job[k].at /= "waiting"  BY <1>3, <2>2, <2>4
  <2>5. QED BY <2>3, <2>4
<1>9. Threads'  BY <1>1, <1>2, <1>5 DEF Threads, ThreadFits
<1>10. Waiting'
  <2>1. Apart(<<>>) /\ \A k : ~Listed(<<>>, k)  BY DEF Apart, Listed
  <2>2. \A k \in Jobs : job'[k].at /= "waiting"  BY <1>3
  <2>3. QED BY <1>2, <2>1, <2>2 DEF Waiting
<1>11. \A x \in Workers, k \in Jobs : Talks(worker'[x], x, k, job'[k])
  <2>1. SUFFICES ASSUME NEW x \in Workers, NEW k \in Jobs PROVE Talks(worker'[x], x, k, job'[k])  OBVIOUS
  <2>2. CASE job[k].at = "waiting"  BY <1>5, <2>2, Unheard
  <2>3. CASE job[k].at /= "waiting"  BY <1>3, <1>5, <2>3, Unheard
  <2>4. QED BY <2>2, <2>3
<1>12. \A k \in Jobs : (Same(k) /\ (job[k].signal => job'[k].signal)) \/ Refused(k)  BY <1>3 DEF Same, Refused
<1>13. QED BY <1>5, <1>7, <1>8, <1>9, <1>10, <1>11, <1>12, Continues

LEMMA CloseEndsKeeps ==
  ASSUME Inv, CloseEnds
  PROVE  Inv'
<1>1. Shape /\ Pairs /\ Runs /\ Threads /\ Granting /\ Waiting  BY DEF Inv
<1>2. closed /\ pool' = {} /\ UNCHANGED <<conf, closed, waiters, worker, job, crashes>>  BY DEF CloseEnds
<1>3. Shape'  BY <1>1, <1>2 DEF Shape
<1>4. Pairs'  BY <1>1, <1>2 DEF Pairs, Pair
<1>5. Runs'  BY <1>1, <1>2 DEF Runs, RunFits
<1>6. Threads'  BY <1>1, <1>2 DEF Threads, ThreadFits
<1>7. Granting'  BY <1>1, <1>2 DEF Granting, GrantedOn
<1>8. Waiting'  BY <1>1, <1>2 DEF Waiting
<1>9. QED BY <1>3, <1>4, <1>5, <1>6, <1>7, <1>8 DEF Inv

LEMMA InvStep == Inv /\ [Next]_vars => Inv'
<1> SUFFICES ASSUME Inv, [Next]_vars PROVE Inv'  OBVIOUS
<1>1. ASSUME NEW j \in Jobs, Run(j) \/ JobStep(j) \/ Signal(j) PROVE Inv'
      BY <1>1, RunKeeps, StartKeeps, TerminateKeeps, SignalKeeps DEF JobStep
<1>2. ASSUME NEW w \in Workers, WorkerStep(w) \/ FloatingCall(w) \/ Crash(w) PROVE Inv'
      BY <1>2, ReceiveKeeps, ExitKeeps, HandleKeeps, CallKeeps, FinishKeeps, FloatingCallKeeps, CrashKeeps DEF WorkerStep
<1>3. CASE Close \/ CloseEnds  BY <1>3, CloseKeeps, CloseEndsKeeps
<1>4. CASE UNCHANGED vars
  <2>1. UNCHANGED <<conf, closed, pool, waiters, worker, job, crashes>>  BY <1>4 DEF vars
  <2>2. QED BY <2>1 DEF Inv, Shape, Pairs, Pair, Runs, RunFits, Threads, ThreadFits, Granting, GrantedOn, Waiting
<1>5. QED BY <1>1, <1>2, <1>3, <1>4 DEF Next

-----------------------------------------------------------------------------
(* The theorems. *)

(* The invariant above holds in every reachable state, whatever the profile: processors that hang, *)
(* threads that die, aborts, jobs that cannot be sent, and a close at any moment.                   *)
THEOREM Invariance == Spec => []Inv
<1>1. Init => Inv  BY InitInv
<1>2. Inv /\ [Next]_vars => Inv'  BY InvStep
<1>3. QED BY <1>1, <1>2, PTL DEF Spec

(* Every variable keeps its type. *)
THEOREM TypeCorrect == Spec => []TypeOK
<1>1. Inv => TypeOK
  <2>1. SUFFICES ASSUME Inv PROVE TypeOK  OBVIOUS
  <2>2. Shape  BY <2>1 DEF Inv
  <2>3. \A w \in Workers : /\ worker[w].life \in {"none", "live", "dying"}
                           /\ worker[w].current \in Jobs \cup {None} /\ worker[w].active \in Jobs \cup {None}
        BY <2>2, Types DEF WorkerRecords
  <2>4. \A k \in Jobs : /\ job[k].at \in {"new", "waiting", "granted", "run", "settled"}
                        /\ job[k].out \in {"none", "result", "unsent", "aborted", "terminated", "exited", "closed"}
        BY <2>2, Types DEF JobRecords
  <2>5. QED BY <2>2, <2>3, <2>4 DEF TypeOK, Shape
<1>2. QED BY <1>1, Invariance, PTL

LEMMA OneHolder ==
  ASSUME Inv, NEW w \in Workers
  PROVE  IsFiniteSet(Holders(w)) /\ Cardinality(Holders(w)) <= 1
<1>1. \A i, k \in Holders(w) : i = k  BY Single DEF Holders, At
<1>2. CASE Holders(w) = {}  BY <1>2, FS_EmptySet
<1>3. CASE Holders(w) /= {}
  <2>1. PICK k \in Holders(w) : TRUE  BY <1>3
  <2>2. Holders(w) = {k}  BY <1>1, <2>1
  <2>3. IsFiniteSet({k}) /\ Cardinality({k}) = 1  BY FS_Singleton
  <2>4. QED BY <2>2, <2>3
<1>4. QED BY <1>2, <1>3

(* Two runs that use a thread one after the other do not touch each other: the grace period of one *)
(* never ends the other, a write to a job is made only for a call of its own processor, and the     *)
(* runner works only on the run the main thread believes is there.                                   *)
THEOREM NeighboursApart == Spec => []RunsApart
<1>1. Inv => RunsApart
  <2>1. SUFFICES ASSUME Inv PROVE RunsApart  OBVIOUS
  <2>2. Shape /\ Runs  BY <2>1 DEF Inv
  <2>3. StoppedForItself /\ WritesOwn  BY <2>2 DEF StoppedForItself, WritesOwn, Runs, RunFits
  <2>4. NoGhost
    <3>1. SUFFICES ASSUME NEW w \in Workers, worker[w].active /= None PROVE Holders(w) = {worker[w].active}
          BY DEF NoGhost
    <3>2. worker[w].active \in Jobs  BY <2>2, <3>1, Types DEF WorkerRecords
    <3>3. worker[w].active \in Holders(w)  BY <2>1, <3>2, ActiveRuns DEF Holders, At
    <3>4. \A k \in Holders(w) : k = worker[w].active  BY <2>1, <3>3, Single DEF Holders, At
    <3>5. QED BY <3>3, <3>4
  <2>5. QED BY <2>3, <2>4 DEF RunsApart
<1>2. QED BY <1>1, Invariance, PTL

Sendable == \A p \in Profiles : \A k \in Jobs : p.manner[k] /= "unsendable"

(* Slots are kept and handed on, as long as every job can be sent: the pool stays within its limit, *)
(* a thread serves one run, a busy one serves a run or is about to be replaced, and nobody waits     *)
(* beside a free slot.                                                                                *)
THEOREM SlotsHandedOn ==
  ASSUME Sendable
  PROVE  Spec => []SlotsServed
<1>1. Inv => SlotsServed
  <2>1. SUFFICES ASSUME Inv PROVE SlotsServed  OBVIOUS
  <2>2. Shape /\ Pairs /\ Runs /\ Granting /\ Waiting  BY <2>1 DEF Inv
  <2>3. Cardinality(pool) <= MaxWorkers /\ (pool = Workers => Cardinality(pool) = MaxWorkers)
    <3>1. pool \in SUBSET Workers  BY <2>2 DEF Shape
    <3>2. Cardinality(pool) \in Nat /\ MaxWorkers \in Nat  BY <3>1, Slots, ConstantsAssumption
    <3>3. QED BY <3>1, <3>2, Slots
  <2>4. \A k \in Jobs : job[k].out /= "unsent"  BY <2>2 DEF Sendable, Shape, Runs, RunFits
  <2>5. ASSUME NEW w \in pool, worker[w].busy, worker[w].life = "live" PROVE Holders(w) /= {}
    <3>1. w \in Workers /\ worker[w].current \in Jobs \cup {None}  BY <2>2, Types DEF Shape, WorkerRecords
    <3>2. CASE worker[w].current = None
      <4>1. PICK k \in Jobs : GrantedOn(k, w)  BY <2>2, <2>5, <3>1, <3>2 DEF Granting
      <4>2. k \in Holders(w)  BY <4>1 DEF GrantedOn, Holders, At
      <4>3. QED BY <4>2
    <3>3. CASE worker[w].current \in Jobs
      <4>1. Serves(worker[w], w, worker[w].current, job[worker[w].current])  BY <2>2, <3>1, <3>3 DEF Pairs, Pair
      <4>2. worker[w].current \in Holders(w)  BY <2>4, <3>3, <4>1 DEF Serves, Holders, At
      <4>3. QED BY <4>2
    <3>4. QED BY <3>1, <3>2, <3>3
  <2>6. SlotsKept  BY <2>1, <2>2, <2>3, <2>5, OneHolder DEF SlotsKept, Shape
  <2>7. WaitsForSlot
    <3>1. \A k \in Jobs : At(k, {"waiting"}) <=> k \in ToSet(waiters)  BY <2>2 DEF Waiting, Listed, At, ToSet
    <3>2. waiters /= <<>> => Cardinality(pool) = MaxWorkers /\ \A w \in pool : worker[w].busy
          BY <2>2, <2>3 DEF Waiting
    <3>3. QED BY <3>1, <3>2 DEF WaitsForSlot
  <2>8. QED BY <2>6, <2>7 DEF SlotsServed
<1>2. QED BY <1>1, Invariance, PTL

-----------------------------------------------------------------------------
(* The broadcast stream that requests of the proxy share (ProxyServer) has the same shape: *)
(* something is opened for the first user, counted, and closed after the last.  Nothing     *)
(* above is used below, and the assumptions of ProxyServer are hypotheses of its theorem.   *)

CONSTANTS Requests, Setups, MaxStreams, Page
VARIABLES setup, draining, phase, shared, queue, streams, current, req, faults

Proxy == INSTANCE ProxyServer WITH Profiles <- Setups, conf <- setup

Routes == {"add", "summary", "jobEvents", "wait", "stream"}
RequestRecords ==
  [at : {"new", "client", "op", "getJob", "cursor", "read", "connect", "adding", "xread", "check", "backoff",
         "reconnect", "fallback", "state", "trail", "sleep", "create", "ready", "attached", "done"},
   gone : BOOLEAN, conn : {"none", "open", "closed"}, stream : 0 .. MaxStreams,
   out : {"none", "ok", "failed", "gone", "refused", "timeout", "closed", "drained"},
   job : {"none", "active", "ended"}, cursor : BOOLEAN, event : BOOLEAN, chunks : Nat, sent : Nat]
StreamRecords ==
  [state : {"none", "starting", "ready", "failed"}, closing : BOOLEAN, pending : Nat, worker : {"none", "open", "closed"}]

ProxyTyped ==
  /\ setup \in Setups /\ phase = "off" /\ queue \in {"none", "open"} /\ current \in 0 .. MaxStreams
  /\ streams \in [Proxy!StreamIds -> StreamRecords] /\ req \in [Requests -> RequestRecords]
  /\ \A r \in Requests : req[r].at = "client" => Proxy!Kind(r) \in Routes

(* The requests with a claim on stream s: the one that created it until its worker is ready,  *)
(* those that wait with it, and the subscribers.                                              *)
Creating(r, s)  == req[r].at = "create" /\ req[r].stream = s
Claimants(s)    == {r \in Requests : req[r].at \in {"create", "ready"} /\ req[r].stream = s}
Present(p)      == p.state /= "none" /\ ~p.closing

(* pending counts the claimants, and still counts a creator that failed. *)
StreamFits(s, p) ==
  /\ p.state = "none" => p.worker = "none" /\ ~p.closing
  /\ p.state = "starting" => ~p.closing
  /\ p.worker = "open" <=> Present(p)
  /\ s = current <=> Present(p)
  /\ IsFiniteSet(Claimants(s))
  /\ p.pending = Cardinality(Claimants(s)) + IF p.state = "failed" /\ p.closing THEN 1 ELSE 0

UsersFit(s, p) ==
  /\ p.state = "none" => Claimants(s) = {}
  /\ p.state /= "ready" => Proxy!Attached(s) = {}
  /\ p.state = "ready" => (p.closing <=> Claimants(s) \cup Proxy!Attached(s) = {})
  /\ p.state \in {"starting", "failed"} => ((\E r \in Requests : Creating(r, s)) <=> ~p.closing)
  /\ \A r, q \in Requests : Creating(r, s) /\ Creating(q, s) => r = q

ProxyInv ==
  /\ draining \in BOOLEAN
  /\ ~draining =>
       /\ ProxyTyped
       /\ \A r \in Requests : req[r].at \in {"create", "ready", "attached"} => req[r].stream \in Proxy!StreamIds
       /\ \A r \in Requests : req[r].out /= "refused"
       /\ \A s \in Proxy!StreamIds : StreamFits(s, streams[s]) /\ UsersFit(s, streams[s])

(* Who holds what when only other requests move. *)
Holding      == {"create", "ready", "attached"}
SamePlace(r) ==
  /\ req[r].stream = req'[r].stream
  /\ req[r].at = req'[r].at \/ (req[r].at \notin Holding /\ req'[r].at \notin Holding)
Legal(r, x)  == x \in RequestRecords /\ x.out /= "refused" /\ (x.at = "client" => Proxy!Kind(r) \in Routes)
(* What ProxyServer assumes of its constants. *)
Assumed == Proxy!ConstantsAssumption /\ Proxy!ProfilesAssumption
Books == Assumed /\ ProxyInv /\ ~draining

(* Nothing but requests and the command client moves. *)
RequestsOnly ==
  /\ setup' = setup /\ phase' = phase /\ streams' = streams /\ current' = current
  /\ draining' = FALSE /\ queue' \in {"none", "open"}

LEMMA RequestsMove ==
  ASSUME Books, RequestsOnly, DOMAIN req' = Requests, req' = [r \in Requests |-> req'[r]],
         \A r \in Requests : Legal(r, req'[r]) /\ SamePlace(r)
  PROVE  ProxyInv'
<1>1. ProxyTyped'
  BY DEF Books, ProxyInv, ProxyTyped, Legal, Proxy!Kind, Proxy!StreamIds, RequestsOnly
<1>2. \A r \in Requests : req'[r].at \in {"create", "ready", "attached"} => req'[r].stream \in Proxy!StreamIds
  BY DEF Books, ProxyInv, SamePlace, Holding
<1>3. \A r \in Requests : req'[r].out /= "refused"
  BY DEF Legal
<1>4. \A s : Claimants(s)' = Claimants(s) /\ Proxy!Attached(s)' = Proxy!Attached(s)
  BY DEF SamePlace, Holding, Claimants, Proxy!Attached
<1>5. \A s : \A r \in Requests : Creating(r, s)' <=> Creating(r, s)
  BY DEF SamePlace, Holding, Creating
<1>6. \A s \in Proxy!StreamIds : StreamFits(s, streams[s])' /\ UsersFit(s, streams[s])'
  <2> SUFFICES ASSUME NEW s \in Proxy!StreamIds PROVE StreamFits(s, streams[s])' /\ UsersFit(s, streams[s])'
    BY DEF Proxy!StreamIds
  <2>1. StreamFits(s, streams[s]) /\ UsersFit(s, streams[s]) /\ streams' = streams /\ current' = current
    BY DEF Books, ProxyInv, RequestsOnly
  <2>2. StreamFits(s, streams[s])'
    BY <1>4, <2>1 DEF StreamFits, Present
  <2>3. UsersFit(s, streams[s])'
    <3>1. \A r \in Requests : Creating(r, s)' <=> Creating(r, s)
      BY <1>5
    <3>2. Claimants(s)' = Claimants(s) /\ Proxy!Attached(s)' = Proxy!Attached(s) /\ streams'[s] = streams[s]
      BY <1>4, <2>1
    <3> QED BY <2>1, <3>1, <3>2 DEF UsersFit
  <2> QED BY <2>2, <2>3
<1> QED BY <1>1, <1>2, <1>3, <1>6 DEF ProxyInv, Proxy!StreamIds, RequestsOnly

LEMMA RequestMoves ==
  ASSUME Books, RequestsOnly, NEW r \in Requests, NEW x, req' = [req EXCEPT ![r] = x], Legal(r, x),
         x.stream = req[r].stream, x.at = req[r].at \/ (req[r].at \notin Holding /\ x.at \notin Holding)
  PROVE  ProxyInv'
<1>1. req \in [Requests -> RequestRecords] /\ \A q \in Requests : Legal(q, req[q])
  BY DEF Books, ProxyInv, ProxyTyped, Legal
<1>2. DOMAIN req' = Requests /\ req' = [q \in Requests |-> req'[q]] /\ \A q \in Requests : req'[q] = IF q = r THEN x ELSE req[q]
  BY <1>1
<1>3. \A q \in Requests : Legal(q, req'[q]) /\ SamePlace(q)
  BY <1>1, <1>2 DEF SamePlace
<1> QED BY <1>2, <1>3, RequestsMove

LEMMA OneRecord == Books => req \in [Requests -> RequestRecords] /\ \A r \in Requests : req[r] \in RequestRecords
BY DEF Books, ProxyInv, ProxyTyped

Ends == {"none", "ok", "failed", "gone", "timeout", "closed", "drained"}
LEMMA OverLegal ==
  ASSUME NEW r \in Requests, NEW x \in RequestRecords, NEW out \in Ends
  PROVE  /\ Legal(r, Proxy!Over(x, out)) /\ Proxy!Over(x, out).stream = x.stream
         /\ Proxy!Over(x, out).at \notin Holding
<1> DEFINE y == Proxy!Over(x, out)
<1>1. Proxy!Shut(x.conn) \in {"none", "open", "closed"}
  BY DEF Proxy!Shut, RequestRecords
<1>2. y = [x EXCEPT !.at = "done", !.out = out, !.conn = Proxy!Shut(x.conn), !.event = FALSE]
  BY DEF Proxy!Over
<1>3. y \in RequestRecords
  BY <1>1, <1>2, ZenonT(40) DEF RequestRecords, Ends
<1>4. y.at = "done" /\ y.out = out /\ y.stream = x.stream
  BY <1>2 DEF RequestRecords
<1> HIDE DEF y
<1>5. Legal(r, y)
  BY <1>3, <1>4 DEF Legal, Ends
<1>6. y.at \notin Holding
  BY <1>4 DEF Holding
<1> QED BY <1>4, <1>5, <1>6 DEF y

(* A step that ends its request. *)
LEMMA Finishes ==
  ASSUME Books, RequestsOnly, NEW r \in Requests, NEW out \in Ends, Proxy!Finish(r, out), req[r].at \notin Holding
  PROVE  ProxyInv'
<1> DEFINE x == Proxy!Over(req[r], out)
<1>1. req[r] \in RequestRecords
  BY OneRecord
<1>2. Legal(r, x) /\ x.stream = req[r].stream /\ x.at \notin Holding
  BY <1>1, OverLegal
<1>3. req' = [req EXCEPT ![r] = x]
  BY OneRecord DEF Proxy!Finish
<1> HIDE DEF x
<1> QED BY <1>2, <1>3, RequestMoves

(* A step after which it goes on. *)
Walking == {"op", "getJob", "cursor", "read", "connect", "adding", "xread", "check", "backoff", "reconnect",
            "fallback", "state", "trail", "sleep"}
LEMMA Proceeds ==
  ASSUME Books, RequestsOnly, NEW r \in Requests, NEW x \in RequestRecords, req' = [req EXCEPT ![r] = x],
         x.out = req[r].out, x.stream = req[r].stream,
         x.at = req[r].at \/ (req[r].at \notin Holding /\ x.at \in Walking)
  PROVE  ProxyInv'
<1>1. Legal(r, x)
  BY DEF Legal, Books, ProxyInv, ProxyTyped, Walking
<1>2. x.at = req[r].at \/ (req[r].at \notin Holding /\ x.at \notin Holding)
  BY DEF Walking, Holding
<1> QED BY <1>1, <1>2, RequestMoves

LEMMA Goes ==
  ASSUME Books, RequestsOnly, NEW r \in Requests, NEW pc, Proxy!Goto(r, pc), req[r].at \notin Holding,
         pc \in Walking
  PROVE  ProxyInv'
<1> DEFINE x == [req[r] EXCEPT !.at = pc]
<1>1. x \in RequestRecords /\ x.out = req[r].out /\ x.stream = req[r].stream /\ x.at = pc
  BY OneRecord DEF RequestRecords, Walking
<1>2. req' = [req EXCEPT ![r] = x]
  BY OneRecord DEF Proxy!Goto
<1> HIDE DEF x
<1> QED BY <1>1, <1>2, Proceeds

(* The routes without a shared stream *)

LEMMA BeginLegal ==
  ASSUME NEW r \in Requests, NEW x \in RequestRecords, NEW kind \in Routes, x.out /= "refused"
  PROVE  /\ Legal(r, Proxy!Begin(x, kind)) /\ Proxy!Begin(x, kind).stream = x.stream
         /\ Proxy!Begin(x, kind).at \notin Holding
<1> DEFINE y == Proxy!Begin(x, kind)
<1>1. ASSUME NEW pc \in {"op", "getJob", "cursor", "read"}, NEW z, z = [x EXCEPT !.at = pc]
      PROVE  Legal(r, z) /\ z.stream = x.stream /\ z.at \notin Holding
  <2>1. z \in RequestRecords /\ z.at = pc /\ z.out = x.out /\ z.stream = x.stream
    BY <1>1 DEF RequestRecords
  <2>2. pc \notin Holding \cup {"client"}
    BY DEF Holding
  <2> QED BY <2>1, <2>2 DEF Legal
<1>2. \/ \E pc \in {"op", "getJob", "cursor", "read"} : y = [x EXCEPT !.at = pc]
      \/ y = Proxy!Over(x, "gone")
  BY DEF Proxy!Begin, Routes
<1>3. "gone" \in Ends
  BY DEF Ends
<1> HIDE DEF y
<1>4. CASE \E pc \in {"op", "getJob", "cursor", "read"} : y = [x EXCEPT !.at = pc]
  BY <1>1, <1>4 DEF y
<1>5. CASE y = Proxy!Over(x, "gone")
  BY <1>3, <1>5, OverLegal DEF y
<1> QED BY <1>2, <1>4, <1>5

LEMMA GetQueueStep ==
  ASSUME Books, NEW r \in Requests, Proxy!GetQueue(r) PROVE ProxyInv'
<1>1. RequestsOnly /\ req[r].at = "new" /\ ~draining
  BY DEF Books, ProxyInv, ProxyTyped, Proxy!GetQueue, Proxy!At, RequestsOnly
<1>2. req \in [Requests -> RequestRecords] /\ req[r] \in RequestRecords /\ req[r].at \notin Holding /\ req[r].out /= "refused"
  BY <1>1, OneRecord DEF Holding, Books, ProxyInv
<1>3. Proxy!Kind(r) \in Proxy!Kinds
  BY DEF Books, Assumed, Proxy!ProfilesAssumption, ProxyInv, ProxyTyped, Proxy!Kind
<1>4. Proxy!Kind(r) \in Routes
  BY <1>3 DEF Routes, Proxy!Kinds, Proxy!GetQueue
<1>5. CASE req' = [req EXCEPT ![r] = Proxy!Begin(@, Proxy!Kind(r))]
  <2> DEFINE x == Proxy!Begin(req[r], Proxy!Kind(r))
  <2>1. req' = [req EXCEPT ![r] = x]
    BY <1>2, <1>5
  <2>2. Legal(r, x) /\ x.stream = req[r].stream /\ x.at \notin Holding
    BY <1>2, <1>4, BeginLegal
  <2> HIDE DEF x
  <2> QED BY <1>1, <1>2, <2>1, <2>2, RequestMoves
<1>6. CASE Proxy!Goto(r, "client")
  <2> DEFINE x == [req[r] EXCEPT !.at = "client"]
  <2>1. req' = [req EXCEPT ![r] = x]
    BY <1>2, <1>6 DEF Proxy!Goto
  <2>2. x \in RequestRecords /\ x.stream = req[r].stream /\ x.at = "client" /\ x.out = req[r].out
    BY <1>2 DEF RequestRecords
  <2>3. "client" \notin Holding
    BY DEF Holding
  <2> HIDE DEF x
  <2>4. Legal(r, x) /\ x.at \notin Holding
    BY <1>2, <1>4, <2>2, <2>3 DEF Legal
  <2> QED BY <1>1, <1>2, <2>1, <2>2, <2>4, RequestMoves
<1> QED BY <1>1, <1>5, <1>6 DEF Proxy!GetQueue

LEMMA ClientStep ==
  ASSUME Books, Proxy!ClientCreated \/ Proxy!ClientFails PROVE ProxyInv'
<1>1. RequestsOnly
  BY DEF Books, ProxyInv, ProxyTyped, Proxy!ClientCreated, Proxy!ClientFails, RequestsOnly
<1>2. \A r \in Requests : req[r] \in RequestRecords /\ req[r].out /= "refused" /\ Legal(r, req[r])
  BY OneRecord DEF Books, ProxyInv, ProxyTyped, Legal
<1>3. /\ DOMAIN req' = Requests /\ req' = [r \in Requests |-> req'[r]]
      /\ \A r \in Requests : \/ req'[r] = req[r]
                             \/ req[r].at = "client" /\ req'[r] = Proxy!Begin(req[r], Proxy!Kind(r))
                             \/ req[r].at = "client" /\ req'[r] = Proxy!Over(req[r], "failed")
  BY DEF Books, Proxy!ClientCreated, Proxy!ClientFails, Proxy!TooLate, Proxy!AwaitClient, Proxy!At
<1>4. ASSUME NEW r \in Requests PROVE Legal(r, req'[r]) /\ SamePlace(r)
  <2>1. CASE req'[r] = req[r]
    BY <1>2, <2>1 DEF SamePlace
  <2>2. CASE req[r].at = "client" /\ req'[r] = Proxy!Begin(req[r], Proxy!Kind(r))
    <3>1. Proxy!Kind(r) \in Routes /\ req[r].at \notin Holding
      BY <2>2 DEF Books, ProxyInv, ProxyTyped, Holding
    <3> QED BY <1>2, <2>2, <3>1, BeginLegal DEF SamePlace
  <2>3. CASE req[r].at = "client" /\ req'[r] = Proxy!Over(req[r], "failed")
    <3>1. "failed" \in Ends /\ req[r].at \notin Holding
      BY <2>3 DEF Ends, Holding
    <3> QED BY <1>2, <2>3, <3>1, OverLegal DEF SamePlace
  <2> QED BY <1>3, <2>1, <2>2, <2>3
<1> QED BY <1>1, <1>3, <1>4, RequestsMove

LEMMA PlainStep ==
  ASSUME Books, NEW r \in Requests, Proxy!AddJob(r) \/ Proxy!UsageSummary(r) \/ Proxy!Fallback(r) \/ Proxy!QueueEvents(r) \/ Proxy!GetJob(r) \/ Proxy!Check(r) \/ Proxy!Sleep(r) \/ Proxy!Backoff(r)
  PROVE  ProxyInv'
<1>1. RequestsOnly /\ req[r].at \notin Holding
  BY DEF Books, ProxyInv, ProxyTyped, Proxy!AddJob, Proxy!UsageSummary, Proxy!Fallback, Proxy!QueueEvents, Proxy!GetJob, Proxy!Check, Proxy!Sleep, Proxy!Backoff, Proxy!At, RequestsOnly, Holding
<1>2. \/ \E out \in {"ok", "failed", "gone", "timeout"} : Proxy!Finish(r, out)
      \/ \E pc \in {"connect", "xread", "read", "reconnect"} : Proxy!Goto(r, pc)
  BY DEF Proxy!AddJob, Proxy!UsageSummary, Proxy!Fallback, Proxy!QueueEvents, Proxy!GetJob, Proxy!Check, Proxy!Sleep, Proxy!Backoff
<1>3. CASE \E out \in {"ok", "failed", "gone", "timeout"} : Proxy!Finish(r, out)
  <2>1. {"ok", "failed", "gone", "timeout"} \subseteq Ends
    BY DEF Ends
  <2> QED BY <1>1, <1>3, <2>1, Finishes
<1>4. CASE \E pc \in {"connect", "xread", "read", "reconnect"} : Proxy!Goto(r, pc)
  <2>1. {"connect", "xread", "read", "reconnect"} \subseteq Walking
    BY DEF Walking
  <2> QED BY <1>1, <1>4, <2>1, Goes
<1> QED BY <1>2, <1>3, <1>4

LEMMA WaitStep ==
  ASSUME Books, NEW r \in Requests, Proxy!Cursor(r) \/ Proxy!Connect(r) \/ Proxy!Added(r) \/ Proxy!WaitRead(r) \/ Proxy!Deadline(r) \/ Proxy!Reconnect(r)
  PROVE  ProxyInv'
<1>1. RequestsOnly /\ req[r].at \notin Holding
  BY DEF Books, ProxyInv, ProxyTyped, Proxy!Cursor, Proxy!Connect, Proxy!Added, Proxy!WaitRead, Proxy!Deadline, Proxy!Reconnect, Proxy!At, RequestsOnly, Holding
<1>2. \/ \E out \in {"ok", "failed", "gone"} : Proxy!Finish(r, out)
      \/ \E pc \in {"backoff"} : Proxy!Goto(r, pc)
      \/ req' = [req EXCEPT ![r].at = "connect", ![r].cursor = Proxy!TakesCursor("cursor")]
      \/ req' = [req EXCEPT ![r].at = "adding", ![r].conn = "open"]
      \/ req' = [req EXCEPT ![r].at = "xread", ![r].cursor = @ \/ Proxy!TakesCursor("adding")]
      \/ req' = [req EXCEPT ![r].at = "backoff", ![r].conn = "closed"]
      \/ req' = [req EXCEPT ![r].at = "fallback", ![r].conn = Proxy!Shut(@)]
      \/ req' = [req EXCEPT ![r].at = "xread", ![r].conn = "open"]
  BY DEF Proxy!Cursor, Proxy!Connect, Proxy!Added, Proxy!WaitRead, Proxy!Deadline, Proxy!Reconnect
<1>3. CASE \E out \in {"ok", "failed", "gone"} : Proxy!Finish(r, out)
  <2>1. {"ok", "failed", "gone"} \subseteq Ends
    BY DEF Ends
  <2> QED BY <1>1, <1>3, <2>1, Finishes
<1>4. CASE \E pc \in {"backoff"} : Proxy!Goto(r, pc)
  <2>1. {"backoff"} \subseteq Walking
    BY DEF Walking
  <2> QED BY <1>1, <1>4, <2>1, Goes
<1>5. CASE req' = [req EXCEPT ![r].at = "connect", ![r].cursor = Proxy!TakesCursor("cursor")]
  <2> DEFINE x == [req[r] EXCEPT !.at = "connect", !.cursor = Proxy!TakesCursor("cursor")]
  <2>1. req' = [req EXCEPT ![r] = x]
    BY <1>5, OneRecord
  <2>2. x \in RequestRecords /\ x.out = req[r].out /\ x.stream = req[r].stream /\ x.at \in Walking
    BY OneRecord, ZenonT(40) DEF RequestRecords, Walking, Proxy!TakesCursor, Proxy!Shut
  <2> HIDE DEF x
  <2> QED BY <1>1, <2>1, <2>2, Proceeds
<1>6. CASE req' = [req EXCEPT ![r].at = "adding", ![r].conn = "open"]
  <2> DEFINE x == [req[r] EXCEPT !.at = "adding", !.conn = "open"]
  <2>1. req' = [req EXCEPT ![r] = x]
    BY <1>6, OneRecord
  <2>2. x \in RequestRecords /\ x.out = req[r].out /\ x.stream = req[r].stream /\ x.at \in Walking
    BY OneRecord, ZenonT(40) DEF RequestRecords, Walking, Proxy!TakesCursor, Proxy!Shut
  <2> HIDE DEF x
  <2> QED BY <1>1, <2>1, <2>2, Proceeds
<1>7. CASE req' = [req EXCEPT ![r].at = "xread", ![r].cursor = @ \/ Proxy!TakesCursor("adding")]
  <2> DEFINE x == [req[r] EXCEPT !.at = "xread", !.cursor = req[r].cursor \/ Proxy!TakesCursor("adding")]
  <2>1. req' = [req EXCEPT ![r] = x]
    BY <1>7, OneRecord
  <2>2. x \in RequestRecords /\ x.out = req[r].out /\ x.stream = req[r].stream /\ x.at \in Walking
    BY OneRecord, ZenonT(40) DEF RequestRecords, Walking, Proxy!TakesCursor, Proxy!Shut
  <2> HIDE DEF x
  <2> QED BY <1>1, <2>1, <2>2, Proceeds
<1>8. CASE req' = [req EXCEPT ![r].at = "backoff", ![r].conn = "closed"]
  <2> DEFINE x == [req[r] EXCEPT !.at = "backoff", !.conn = "closed"]
  <2>1. req' = [req EXCEPT ![r] = x]
    BY <1>8, OneRecord
  <2>2. x \in RequestRecords /\ x.out = req[r].out /\ x.stream = req[r].stream /\ x.at \in Walking
    BY OneRecord, ZenonT(40) DEF RequestRecords, Walking, Proxy!TakesCursor, Proxy!Shut
  <2> HIDE DEF x
  <2> QED BY <1>1, <2>1, <2>2, Proceeds
<1>9. CASE req' = [req EXCEPT ![r].at = "fallback", ![r].conn = Proxy!Shut(@)]
  <2> DEFINE x == [req[r] EXCEPT !.at = "fallback", !.conn = Proxy!Shut(req[r].conn)]
  <2>1. req' = [req EXCEPT ![r] = x]
    BY <1>9, OneRecord
  <2>2. x \in RequestRecords /\ x.out = req[r].out /\ x.stream = req[r].stream /\ x.at \in Walking
    BY OneRecord, ZenonT(40) DEF RequestRecords, Walking, Proxy!TakesCursor, Proxy!Shut
  <2> HIDE DEF x
  <2> QED BY <1>1, <2>1, <2>2, Proceeds
<1>10. CASE req' = [req EXCEPT ![r].at = "xread", ![r].conn = "open"]
  <2> DEFINE x == [req[r] EXCEPT !.at = "xread", !.conn = "open"]
  <2>1. req' = [req EXCEPT ![r] = x]
    BY <1>10, OneRecord
  <2>2. x \in RequestRecords /\ x.out = req[r].out /\ x.stream = req[r].stream /\ x.at \in Walking
    BY OneRecord, ZenonT(40) DEF RequestRecords, Walking, Proxy!TakesCursor, Proxy!Shut
  <2> HIDE DEF x
  <2> QED BY <1>1, <2>1, <2>2, Proceeds
<1> QED BY <1>2, <1>3, <1>4, <1>5, <1>6, <1>7, <1>8, <1>9, <1>10

LEMMA EventsStep ==
  ASSUME Books, NEW r \in Requests, Proxy!EventsConnect(r) \/ Proxy!EventsRead(r)
  PROVE  ProxyInv'
<1>1. RequestsOnly /\ req[r].at \notin Holding
  BY DEF Books, ProxyInv, ProxyTyped, Proxy!EventsConnect, Proxy!EventsRead, Proxy!At, RequestsOnly, Holding
<1>2. \/ \E out \in {"ok", "failed", "gone"} : Proxy!Finish(r, out)
      \/ \E pc \in {"check"} : Proxy!Goto(r, pc)
      \/ req' = [req EXCEPT ![r].at = "xread", ![r].conn = "open"]
      \/ req' = [req EXCEPT ![r].cursor = TRUE]
  BY DEF Proxy!EventsConnect, Proxy!EventsRead
<1>3. CASE \E out \in {"ok", "failed", "gone"} : Proxy!Finish(r, out)
  <2>1. {"ok", "failed", "gone"} \subseteq Ends
    BY DEF Ends
  <2> QED BY <1>1, <1>3, <2>1, Finishes
<1>4. CASE \E pc \in {"check"} : Proxy!Goto(r, pc)
  <2>1. {"check"} \subseteq Walking
    BY DEF Walking
  <2> QED BY <1>1, <1>4, <2>1, Goes
<1>5. CASE req' = [req EXCEPT ![r].at = "xread", ![r].conn = "open"]
  <2> DEFINE x == [req[r] EXCEPT !.at = "xread", !.conn = "open"]
  <2>1. req' = [req EXCEPT ![r] = x]
    BY <1>5, OneRecord
  <2>2. x \in RequestRecords /\ x.out = req[r].out /\ x.stream = req[r].stream /\ x.at \in Walking
    BY OneRecord, ZenonT(40) DEF RequestRecords, Walking, Proxy!TakesCursor, Proxy!Shut
  <2> HIDE DEF x
  <2> QED BY <1>1, <2>1, <2>2, Proceeds
<1>6. CASE req' = [req EXCEPT ![r].cursor = TRUE]
  <2> DEFINE x == [req[r] EXCEPT !.cursor = TRUE]
  <2>1. req' = [req EXCEPT ![r] = x]
    BY <1>6, OneRecord
  <2>2. x \in RequestRecords /\ x.out = req[r].out /\ x.stream = req[r].stream /\ x.at = req[r].at
    BY OneRecord, ZenonT(40) DEF RequestRecords
  <2> HIDE DEF x
  <2> QED BY <1>1, <2>1, <2>2, Proceeds
<1> QED BY <1>2, <1>3, <1>4, <1>5, <1>6

LEMMA ReadLegal ==
  ASSUME Assumed, NEW r \in Requests, NEW x \in RequestRecords
  PROVE  Proxy!Read(x) \in RequestRecords /\ Proxy!Read(x).out = x.out /\ Proxy!Read(x).stream = x.stream
<1>1. Proxy!Upto(x.chunks, x.sent + Page) \in Nat
  BY DEF Assumed, Proxy!ConstantsAssumption, Proxy!Upto, RequestRecords
<1> QED BY <1>1 DEF Proxy!Read, RequestRecords

LEMMA StreamRouteStep ==
  ASSUME Books, NEW r \in Requests, Proxy!ReadStream(r) \/ Proxy!GetState(r) \/ Proxy!Trail(r)
  PROVE  ProxyInv'
<1>1. RequestsOnly /\ req[r].at \notin Holding
  BY DEF Books, ProxyInv, ProxyTyped, Proxy!ReadStream, Proxy!GetState, Proxy!Trail, Proxy!StreamCall, Proxy!At, RequestsOnly, Holding
<1>2. req[r] \in RequestRecords /\ req[r].out /= "refused" /\ Assumed
  BY OneRecord DEF Books, ProxyInv
<1>3. ASSUME NEW x, Legal(r, x), x.stream = req[r].stream, x.at \notin Holding, req' = [req EXCEPT ![r] = x]
      PROVE  ProxyInv'
  BY <1>1, <1>3, RequestMoves
<1>4. CASE Proxy!Finish(r, "failed")
  <2>1. "failed" \in Ends
    BY DEF Ends
  <2> QED BY <1>1, <1>4, <2>1, Finishes
<1>5. CASE req' = [req EXCEPT ![r] = Proxy!PageRead(req[r])]
  <2> DEFINE x == Proxy!PageRead(req[r])
  <2>1. CASE req[r].gone
    <3>1. "gone" \in Ends /\ x = Proxy!Over(req[r], "gone")
      BY <2>1 DEF Ends, Proxy!PageRead
    <3> HIDE DEF x
    <3>2. Legal(r, x) /\ x.stream = req[r].stream /\ x.at \notin Holding
      BY <1>2, <3>1, OverLegal
    <3> QED BY <1>3, <1>5, <3>2 DEF x
  <2>2. CASE ~req[r].gone
    <3> DEFINE y == Proxy!Read(req[r])
    <3>1. x = [y EXCEPT !.at = "state"]
      BY <2>2 DEF Proxy!PageRead
    <3>2. y \in RequestRecords /\ y.out = req[r].out /\ y.stream = req[r].stream
      BY <1>2, ReadLegal
    <3> HIDE DEF x, y
    <3>3. x \in RequestRecords /\ x.out = req[r].out /\ x.stream = req[r].stream /\ x.at = "state"
      BY <3>1, <3>2 DEF RequestRecords
    <3>4. Legal(r, x) /\ x.at \notin Holding
      BY <1>2, <3>3 DEF Legal, Holding
    <3> QED BY <1>3, <1>5, <3>3, <3>4 DEF x
  <2> QED BY <2>1, <2>2
<1>6. CASE req' = [req EXCEPT ![r] = [req[r] EXCEPT !.at = IF req[r].job = "ended" THEN "trail" ELSE "sleep"]]
  <2> DEFINE x == [req[r] EXCEPT !.at = IF req[r].job = "ended" THEN "trail" ELSE "sleep"]
  <2>1. x \in RequestRecords /\ x.out = req[r].out /\ x.stream = req[r].stream /\ x.at \in {"trail", "sleep"}
    BY <1>2 DEF RequestRecords
  <2> HIDE DEF x
  <2>2. Legal(r, x) /\ x.at \notin Holding
    BY <1>2, <2>1 DEF Legal, Holding
  <2> QED BY <1>3, <1>6, <2>1, <2>2 DEF x
<1>7. CASE req' = [req EXCEPT ![r] = Proxy!Trailing(req[r])]
  <2> DEFINE y == Proxy!Read(req[r])
             x == Proxy!Over(y, "drained")
  <2>1. y \in RequestRecords /\ y.stream = req[r].stream
    BY <1>2, ReadLegal
  <2>2. "drained" \in Ends
    BY DEF Ends
  <2>3. Legal(r, x) /\ x.stream = req[r].stream /\ x.at \notin Holding
    <3> HIDE DEF y
    <3> QED BY <2>1, <2>2, OverLegal
  <2>4. req' = [req EXCEPT ![r] = x]
    BY <1>7 DEF Proxy!Trailing
  <2> HIDE DEF x
  <2> QED BY <1>3, <2>3, <2>4
<1> QED BY <1>4, <1>5, <1>6, <1>7 DEF Proxy!ReadStream, Proxy!GetState, Proxy!Trail, Proxy!StreamCall

LEMMA OutputStep ==
  ASSUME Books, NEW r \in Requests, Proxy!Enqueue(r) \/ Proxy!WriteChunk(r) \/ Proxy!JobEnds(r)
  PROVE  ProxyInv'
<1>1. RequestsOnly
  BY DEF Books, ProxyInv, ProxyTyped, Proxy!Enqueue, Proxy!WriteChunk, Proxy!JobEnds, RequestsOnly
<1>2. req[r] \in RequestRecords /\ req \in [Requests -> RequestRecords]
  BY OneRecord
<1>3. \E now \in {"active", "ended"}, event \in BOOLEAN, chunks \in Nat :
        req' = [req EXCEPT ![r] = [req[r] EXCEPT !.job = now, !.event = event, !.chunks = chunks]]
  <2>1. CASE Proxy!Enqueue(r)
    <3>1. req' = [req EXCEPT ![r] = [req[r] EXCEPT !.job = "active", !.event = req[r].event, !.chunks = req[r].chunks]]
      BY <1>2, <2>1 DEF Proxy!Enqueue, RequestRecords
    <3> QED BY <1>2, <3>1 DEF RequestRecords
  <2>2. CASE Proxy!WriteChunk(r)
    <3>1. req' = [req EXCEPT ![r] = [req[r] EXCEPT !.job = "active", !.event = req[r].event, !.chunks = req[r].chunks + 1]]
      BY <1>2, <2>2 DEF Proxy!WriteChunk, RequestRecords
    <3>2. req[r].chunks + 1 \in Nat /\ req[r].event \in BOOLEAN
      BY <1>2 DEF RequestRecords
    <3> QED BY <3>1, <3>2
  <2>3. CASE Proxy!JobEnds(r)
    <3> DEFINE e == ~Proxy!At(r, {"done"}) /\ (req[r].cursor \/ (Proxy!Kind(r) = "jobEvents" /\ Proxy!At(r, {"xread"})))
    <3>1. e \in BOOLEAN
      OBVIOUS
    <3>2. req' = [req EXCEPT ![r].job = "ended", ![r].event = e]
      BY <2>3 DEF Proxy!JobEnds
    <3> HIDE DEF e
    <3>3. req' = [req EXCEPT ![r] = [req[r] EXCEPT !.job = "ended", !.event = e, !.chunks = req[r].chunks]]
      BY <1>2, <3>2 DEF RequestRecords
    <3> QED BY <1>2, <3>1, <3>3 DEF RequestRecords
  <2> QED BY <2>1, <2>2, <2>3
<1>4. PICK now \in {"active", "ended"}, event \in BOOLEAN, chunks \in Nat :
        req' = [req EXCEPT ![r] = [req[r] EXCEPT !.job = now, !.event = event, !.chunks = chunks]]
  BY <1>3
<1> DEFINE x == [req[r] EXCEPT !.job = now, !.event = event, !.chunks = chunks]
<1>5. x \in RequestRecords /\ x.out = req[r].out /\ x.stream = req[r].stream /\ x.at = req[r].at
  BY <1>2 DEF RequestRecords
<1> HIDE DEF x
<1> QED BY <1>1, <1>4, <1>5, Proceeds DEF x

(* The shared stream *)

LEMMA Counting ==
  ASSUME NEW H, IsFiniteSet(H), NEW r
  PROVE  /\ Cardinality(H) \in Nat /\ (Cardinality(H) = 0 <=> H = {})
         /\ IsFiniteSet(H \cup {r}) /\ (r \notin H => Cardinality(H \cup {r}) = Cardinality(H) + 1)
         /\ IsFiniteSet(H \ {r}) /\ (r \in H => Cardinality(H \ {r}) = Cardinality(H) - 1)
BY FS_CardinalityType, FS_EmptySet, FS_AddElement, FS_RemoveElement

(* Request q is on no stream but s, before and after. *)
Near(q, s) == /\ req[q].at \in Holding => req[q].stream = s
              /\ req'[q].at \in Holding => req'[q].stream = s

LEMMA OneStream ==
  ASSUME Books, setup' = setup, phase' = phase, queue' = queue, draining' = FALSE,
         NEW s \in Proxy!StreamIds, NEW p \in StreamRecords, streams' = [streams EXCEPT ![s] = p],
         current' \in 0 .. MaxStreams, \A t \in Proxy!StreamIds : t /= s => (t = current' <=> t = current),
         DOMAIN req' = Requests, req' = [q \in Requests |-> req'[q]],
         \A q \in Requests : Legal(q, req'[q]) /\ (SamePlace(q) \/ Near(q, s)),
         StreamFits(s, p)', UsersFit(s, p)'
  PROVE  ProxyInv'
<1>1. streams \in [Proxy!StreamIds -> StreamRecords] /\ queue \in {"none", "open"}
  BY DEF Books, ProxyInv, ProxyTyped
<1>2. /\ streams' \in [Proxy!StreamIds -> StreamRecords] /\ streams'[s] = p
      /\ \A t \in Proxy!StreamIds : t /= s => streams'[t] = streams[t]
  BY <1>1
<1>3. ProxyTyped'
  BY <1>2 DEF Books, ProxyInv, ProxyTyped, Legal, Proxy!Kind, Proxy!StreamIds
<1>4. \A r \in Requests : req'[r].at \in {"create", "ready", "attached"} => req'[r].stream \in Proxy!StreamIds
  BY DEF Books, ProxyInv, SamePlace, Near, Holding
<1>5. \A r \in Requests : req'[r].out /= "refused"
  BY DEF Legal
<1>6. \A t \in Proxy!StreamIds : StreamFits(t, streams[t])' /\ UsersFit(t, streams[t])'
  <2> SUFFICES ASSUME NEW t \in Proxy!StreamIds PROVE StreamFits(t, streams[t])' /\ UsersFit(t, streams[t])'
    BY DEF Proxy!StreamIds
  <2>1. CASE t = s
    BY <1>2, <2>1
  <2>2. CASE t /= s
    <3>1. Claimants(t)' = Claimants(t) /\ Proxy!Attached(t)' = Proxy!Attached(t) /\ streams'[t] = streams[t]
      BY <1>2, <2>2 DEF SamePlace, Near, Holding, Claimants, Proxy!Attached
    <3>2. \A r \in Requests : Creating(r, t)' <=> Creating(r, t)
      BY <2>2 DEF SamePlace, Near, Holding, Creating
    <3>3. StreamFits(t, streams[t]) /\ UsersFit(t, streams[t]) /\ (t = current' <=> t = current)
      BY <2>2 DEF Books, ProxyInv
    <3>4. StreamFits(t, streams[t])'
      BY <3>1, <3>3 DEF StreamFits, Present
    <3>5. UsersFit(t, streams[t])'
      BY <3>1, <3>2, <3>3 DEF UsersFit
    <3> QED BY <3>4, <3>5
  <2> QED BY <2>1, <2>2
<1> QED BY <1>3, <1>4, <1>5, <1>6 DEF ProxyInv, Proxy!StreamIds

(* One request moves on stream s: who is where then. *)
LEMMA OneMoves ==
  ASSUME Books, NEW s \in Proxy!StreamIds, NEW r \in Requests, NEW x, req' = [req EXCEPT ![r] = x], Legal(r, x),
         req[r].at \in Holding => req[r].stream = s, x.at \in Holding => x.stream = s
  PROVE  /\ DOMAIN req' = Requests /\ req' = [q \in Requests |-> req'[q]]
         /\ \A q \in Requests : Legal(q, req'[q]) /\ (SamePlace(q) \/ Near(q, s))
         /\ Claimants(s)' = IF x.at \in {"create", "ready"} THEN Claimants(s) \cup {r} ELSE Claimants(s) \ {r}
         /\ Proxy!Attached(s)' = IF x.at = "attached" THEN Proxy!Attached(s) \cup {r} ELSE Proxy!Attached(s) \ {r}
         /\ \A q \in Requests : Creating(q, s)' <=> IF q = r THEN x.at = "create" ELSE Creating(q, s)
<1>1. req \in [Requests -> RequestRecords] /\ \A q \in Requests : Legal(q, req[q])
  BY DEF Books, ProxyInv, ProxyTyped, Legal
<1>2. DOMAIN req' = Requests /\ req' = [q \in Requests |-> req'[q]] /\ \A q \in Requests : req'[q] = IF q = r THEN x ELSE req[q]
  BY <1>1
<1>3. \A q \in Requests : Legal(q, req'[q]) /\ (SamePlace(q) \/ Near(q, s))
  BY <1>1, <1>2 DEF SamePlace, Near
<1>4. Claimants(s)' = IF x.at \in {"create", "ready"} THEN Claimants(s) \cup {r} ELSE Claimants(s) \ {r}
  BY <1>2 DEF Claimants, Holding
<1>5. Proxy!Attached(s)' = IF x.at = "attached" THEN Proxy!Attached(s) \cup {r} ELSE Proxy!Attached(s) \ {r}
  BY <1>2 DEF Proxy!Attached, Holding
<1>6. \A q \in Requests : Creating(q, s)' <=> IF q = r THEN x.at = "create" ELSE Creating(q, s)
  BY <1>2 DEF Creating, Holding
<1> QED BY <1>2, <1>3, <1>4, <1>5, <1>6

(* What is known of a stream. *)
LEMMA OfStream ==
  ASSUME Books, NEW s \in Proxy!StreamIds
  PROVE  /\ streams \in [Proxy!StreamIds -> StreamRecords] /\ streams[s] \in StreamRecords
         /\ StreamFits(s, streams[s]) /\ UsersFit(s, streams[s]) /\ IsFiniteSet(Claimants(s))
         /\ s \in 1 .. MaxStreams /\ current \in 0 .. MaxStreams /\ MaxStreams \in Nat
BY DEF Books, Assumed, Proxy!ConstantsAssumption, ProxyInv, ProxyTyped, StreamFits, Proxy!StreamIds

LEMMA OfHolder ==
  ASSUME Books, NEW r \in Requests, req[r].at \in Holding
  PROVE  req[r].stream \in Proxy!StreamIds
BY DEF Books, ProxyInv, Holding

LEMMA GetStreamStep ==
  ASSUME Books, NEW r \in Requests, Proxy!GetStream(r) PROVE ProxyInv'
<1>1. /\ ~draining /\ draining' = FALSE /\ req[r].at = "new" /\ req[r].at \notin Holding
      /\ setup' = setup /\ phase' = phase /\ queue' = queue
  BY DEF Books, ProxyInv, Proxy!GetStream, Proxy!At, Holding
<1>2. \E s \in Proxy!StreamIds :
        \/ /\ s = current /\ current' = s
           /\ streams' = [streams EXCEPT ![s].pending = @ + 1]
           /\ req' = [req EXCEPT ![r].at = "ready", ![r].stream = s]
        \/ /\ current = 0 /\ streams[s].state = "none" /\ current' = s
           /\ streams' = [streams EXCEPT ![s] = [state |-> "starting", closing |-> FALSE, pending |-> 1, worker |-> "open"]]
           /\ req' = [req EXCEPT ![r].at = "create", ![r].stream = s]
  <2>1. current /= 0 => current \in Proxy!StreamIds
    BY DEF Books, ProxyInv, ProxyTyped, Proxy!StreamIds, Assumed, Proxy!ConstantsAssumption
  <2> QED BY <1>1, <2>1 DEF Proxy!GetStream
<1>3. req \in [Requests -> RequestRecords] /\ req[r] \in RequestRecords /\ req[r].out /= "refused"
  BY OneRecord DEF Books, ProxyInv
<1>4. ASSUME NEW pc \in {"ready", "create"}, NEW s \in Proxy!StreamIds, NEW x, x = [req[r] EXCEPT !.at = pc, !.stream = s]
      PROVE  Legal(r, x) /\ x.at = pc /\ x.stream = s
  <2>1. s \in 0 .. MaxStreams
    BY DEF Proxy!StreamIds, Books, Assumed, Proxy!ConstantsAssumption
  <2>2. x \in RequestRecords /\ x.at = pc /\ x.stream = s /\ x.out = req[r].out
    BY <1>3, <1>4, <2>1 DEF RequestRecords
  <2> QED BY <1>3, <2>2 DEF Legal
<1>5. ASSUME NEW s \in Proxy!StreamIds, s = current, current' = s,
             streams' = [streams EXCEPT ![s].pending = @ + 1], req' = [req EXCEPT ![r].at = "ready", ![r].stream = s]
      PROVE  ProxyInv'
  <2> PICK p : p = [streams[s] EXCEPT !.pending = streams[s].pending + 1]
    OBVIOUS
  <2> DEFINE x == [req[r] EXCEPT !.at = "ready", !.stream = s]
  <2>1. /\ streams \in [Proxy!StreamIds -> StreamRecords] /\ streams[s] \in StreamRecords
        /\ StreamFits(s, streams[s]) /\ UsersFit(s, streams[s]) /\ IsFiniteSet(Claimants(s)) /\ current' \in 0 .. MaxStreams
    BY <1>5, OfStream
  <2>2. /\ p \in StreamRecords /\ p.state = streams[s].state /\ p.closing = streams[s].closing
        /\ p.worker = streams[s].worker /\ p.pending = streams[s].pending + 1
    BY <2>1 DEF StreamRecords
  <2>3. streams' = [streams EXCEPT ![s] = p]
    BY <1>5, <2>1
  <2>4. req' = [req EXCEPT ![r] = x]
    BY <1>3, <1>5
  <2>5. Legal(r, x) /\ x.at = "ready" /\ x.stream = s
    BY <1>4
  <2> HIDE DEF x
  <2>6. /\ DOMAIN req' = Requests /\ req' = [q \in Requests |-> req'[q]]
        /\ \A q \in Requests : Legal(q, req'[q]) /\ (SamePlace(q) \/ Near(q, s))
        /\ Claimants(s)' = Claimants(s) \cup {r}
        /\ Proxy!Attached(s)' = Proxy!Attached(s)
        /\ \A q \in Requests : Creating(q, s)' <=> Creating(q, s)
    <3>1. r \notin Proxy!Attached(s) /\ ~Creating(r, s)
      BY <1>1 DEF Proxy!Attached, Creating
    <3>2. /\ DOMAIN req' = Requests /\ req' = [q \in Requests |-> req'[q]]
          /\ \A q \in Requests : Legal(q, req'[q]) /\ (SamePlace(q) \/ Near(q, s))
          /\ Claimants(s)' = Claimants(s) \cup {r} /\ Proxy!Attached(s)' = Proxy!Attached(s) \ {r}
          /\ \A q \in Requests : Creating(q, s)' <=> IF q = r THEN FALSE ELSE Creating(q, s)
      BY <1>1, <2>4, <2>5, OneMoves
    <3> QED BY <3>1, <3>2
  <2>7. Present(streams[s]) /\ streams[s].state \in {"starting", "ready", "failed"} /\ ~streams[s].closing
    BY <1>5, <2>1 DEF StreamFits, Present, StreamRecords
  <2>8. StreamFits(s, p)'
    <3>1. r \notin Claimants(s)
      BY <1>1 DEF Claimants
    <3>2. Cardinality(Claimants(s) \cup {r}) = Cardinality(Claimants(s)) + 1 /\ IsFiniteSet(Claimants(s) \cup {r})
          /\ Cardinality(Claimants(s)) \in Nat
      BY <2>1, <3>1, Counting
    <3> QED BY <1>5, <2>1, <2>2, <2>6, <2>7, <3>2 DEF StreamFits, Present
  <2>9. UsersFit(s, p)'
    BY <2>1, <2>2, <2>6, <2>7 DEF UsersFit
  <2> QED BY <1>1, <1>5, <2>1, <2>2, <2>3, <2>6, <2>8, <2>9, OneStream
<1>6. ASSUME NEW s \in Proxy!StreamIds, current = 0, streams[s].state = "none", current' = s,
             streams' = [streams EXCEPT ![s] = [state |-> "starting", closing |-> FALSE, pending |-> 1, worker |-> "open"]],
             req' = [req EXCEPT ![r].at = "create", ![r].stream = s]
      PROVE  ProxyInv'
  <2> PICK p : p = [state |-> "starting", closing |-> FALSE, pending |-> 1, worker |-> "open"]
    OBVIOUS
  <2> DEFINE x == [req[r] EXCEPT !.at = "create", !.stream = s]
  <2>1. /\ streams \in [Proxy!StreamIds -> StreamRecords] /\ streams[s] \in StreamRecords
        /\ StreamFits(s, streams[s]) /\ UsersFit(s, streams[s]) /\ s \in 1 .. MaxStreams
    BY OfStream
  <2>2. /\ p \in StreamRecords /\ p.state = "starting" /\ ~p.closing /\ p.worker = "open" /\ p.pending = 1
    BY DEF StreamRecords
  <2>3. streams' = [streams EXCEPT ![s] = p]
    BY <1>6
  <2>4. req' = [req EXCEPT ![r] = x]
    BY <1>3, <1>6
  <2>5. Legal(r, x) /\ x.at = "create" /\ x.stream = s
    BY <1>4
  <2> HIDE DEF x
  <2>6. Claimants(s) = {} /\ Proxy!Attached(s) = {}
    BY <1>6, <2>1 DEF UsersFit
  <2>7. /\ DOMAIN req' = Requests /\ req' = [q \in Requests |-> req'[q]]
        /\ \A q \in Requests : Legal(q, req'[q]) /\ (SamePlace(q) \/ Near(q, s))
        /\ Claimants(s)' = {r} /\ Proxy!Attached(s)' = {}
        /\ \A q \in Requests : Creating(q, s)' <=> q = r
    <3>1. \A q \in Requests : ~Creating(q, s)
      BY <2>6 DEF Claimants, Creating
    <3> QED BY <1>1, <2>4, <2>5, <2>6, <3>1, OneMoves
  <2>8. Cardinality({r}) = 1 /\ IsFiniteSet({r})
    BY Counting, FS_EmptySet
  <2>9. StreamFits(s, p)'
    BY <1>6, <2>1, <2>2, <2>7, <2>8 DEF StreamFits, Present
  <2>10. UsersFit(s, p)'
    BY <2>2, <2>7 DEF UsersFit
  <2>11. current' \in 0 .. MaxStreams /\ \A t \in Proxy!StreamIds : t /= s => (t = current' <=> t = current)
    BY <1>6, <2>1 DEF Proxy!StreamIds
  <2> QED BY <1>1, <2>2, <2>3, <2>7, <2>9, <2>10, <2>11, OneStream
<1> QED BY <1>2, <1>5, <1>6

LEMMA StreamSettlesStep ==
  ASSUME Books, NEW s \in Proxy!StreamIds, Proxy!StreamSettles(s) PROVE ProxyInv'
<1>1. /\ draining' = FALSE /\ setup' = setup /\ phase' = phase /\ queue' = queue /\ current' = current /\ req' = req
      /\ streams[s].state = "starting" /\ \E state \in {"ready", "failed"} : streams' = [streams EXCEPT ![s].state = state]
  BY DEF Books, ProxyInv, Proxy!StreamSettles
<1>2. PICK state \in {"ready", "failed"} : streams' = [streams EXCEPT ![s].state = state]
  BY <1>1
<1>3. /\ streams \in [Proxy!StreamIds -> StreamRecords] /\ streams[s] \in StreamRecords
      /\ StreamFits(s, streams[s]) /\ UsersFit(s, streams[s]) /\ current \in 0 .. MaxStreams
  BY OfStream
<1> PICK p : p = [streams[s] EXCEPT !.state = state]
  OBVIOUS
<1>4. /\ p \in StreamRecords /\ p.state = state /\ p.closing = streams[s].closing
      /\ p.worker = streams[s].worker /\ p.pending = streams[s].pending
  BY <1>3 DEF StreamRecords
<1>5. streams' = [streams EXCEPT ![s] = p]
  BY <1>2, <1>3
<1>6. /\ DOMAIN req' = Requests /\ req' = [q \in Requests |-> req'[q]]
      /\ \A q \in Requests : Legal(q, req'[q]) /\ (SamePlace(q) \/ Near(q, s))
  BY <1>1, OneRecord DEF Legal, SamePlace, Books, ProxyInv, ProxyTyped
<1>7. /\ Claimants(s)' = Claimants(s) /\ Proxy!Attached(s)' = Proxy!Attached(s)
      /\ \A q \in Requests : Creating(q, s)' <=> Creating(q, s)
  BY <1>1 DEF Claimants, Proxy!Attached, Creating
<1>8. ~streams[s].closing /\ Proxy!Attached(s) = {} /\ \E q \in Requests : Creating(q, s)
  BY <1>1, <1>3 DEF StreamFits, UsersFit
<1>9. Claimants(s) /= {}
  BY <1>8 DEF Claimants, Creating
<1>10. StreamFits(s, p)'
  BY <1>1, <1>3, <1>4, <1>7, <1>8 DEF StreamFits, Present
<1>11. UsersFit(s, p)'
  BY <1>1, <1>3, <1>4, <1>7, <1>8, <1>9 DEF UsersFit
<1> QED BY <1>1, <1>3, <1>4, <1>5, <1>6, <1>10, <1>11, OneStream

(* A request leaves a stream whose worker is ready. *)
LEMMA ReleaseStep ==
  ASSUME Books, setup' = setup, phase' = phase, queue' = queue, draining' = FALSE,
         NEW r \in Requests, NEW s \in Proxy!StreamIds, req[r].at \in Holding, req[r].stream = s,
         streams[s].state = "ready", ~streams[s].closing,
         NEW p \in StreamRecords, p.state = "ready", ~p.closing, p.worker = streams[s].worker,
         p.pending = Cardinality(Claimants(s) \ {r}),
         NEW ss, ss = [streams EXCEPT ![s] = p], NEW out \in Ends, Proxy!Release(r, ss, out)
  PROVE  ProxyInv'
<1>1. /\ streams \in [Proxy!StreamIds -> StreamRecords] /\ streams[s] \in StreamRecords
      /\ StreamFits(s, streams[s]) /\ UsersFit(s, streams[s]) /\ IsFiniteSet(Claimants(s))
      /\ s \in 1 .. MaxStreams /\ current \in 0 .. MaxStreams /\ MaxStreams \in Nat
  BY OfStream
<1>2. req \in [Requests -> RequestRecords] /\ req[r] \in RequestRecords
  BY OneRecord
<1> DEFINE x == Proxy!Over(req[r], out)
<1>3. Legal(r, x) /\ x.stream = s /\ x.at \notin Holding
  BY <1>2, OverLegal
<1>4. req' = [req EXCEPT ![r] = x]
  BY <1>2 DEF Proxy!Release
<1>5. ss[s] = p /\ current = s /\ p.worker = "open"
  BY <1>1 DEF StreamFits, Present
<1> HIDE DEF x
<1>6. /\ DOMAIN req' = Requests /\ req' = [q \in Requests |-> req'[q]]
      /\ \A q \in Requests : Legal(q, req'[q]) /\ (SamePlace(q) \/ Near(q, s))
      /\ Claimants(s)' = Claimants(s) \ {r} /\ Proxy!Attached(s)' = Proxy!Attached(s) \ {r}
      /\ \A q \in Requests : Creating(q, s)' => Creating(q, s)
  <2>1. x.at \notin {"create", "ready"} /\ x.at /= "attached" /\ x.at /= "create"
    BY <1>3 DEF Holding
  <2> QED BY <1>3, <1>4, <2>1, OneMoves
<1>7. /\ IsFiniteSet(Claimants(s) \ {r}) /\ Cardinality(Claimants(s) \ {r}) \in Nat
      /\ Cardinality(Claimants(s) \ {r}) = 0 <=> Claimants(s) \ {r} = {}
  BY <1>1, Counting
<1>8. \A q, t \in Requests : (Creating(q, s) /\ Creating(t, s))' => q = t
  BY <1>1, <1>6 DEF UsersFit
<1>9. CASE Proxy!Attached(s) \ {r} = {} /\ p.pending = 0
  <2> PICK e : e = [p EXCEPT !.closing = TRUE, !.worker = "closed"]
    OBVIOUS
  <2>1. streams' = Proxy!Closed(ss, s) /\ current' = 0
    BY <1>5, <1>9 DEF Proxy!Release, Proxy!Idle
  <2>2. ss \in [Proxy!StreamIds -> StreamRecords] /\ ss[s] = p
    BY <1>1
  <2>3. streams' = [ss EXCEPT ![s] = e]
    BY <1>5, <2>1, <2>2 DEF Proxy!Closed, Proxy!Shut, StreamRecords
  <2>4. streams' = [streams EXCEPT ![s] = e]
    BY <1>1, <2>3
  <2>5. e \in StreamRecords /\ e.state = "ready" /\ e.closing /\ e.worker = "closed" /\ e.pending = 0
    BY <1>9 DEF StreamRecords
  <2>6. Claimants(s)' = {} /\ Proxy!Attached(s)' = {}
    BY <1>6, <1>7, <1>9
  <2>7. StreamFits(s, e)'
    BY <1>1, <2>1, <2>5, <2>6, FS_EmptySet DEF StreamFits, Present
  <2>8. UsersFit(s, e)'
    BY <1>8, <2>5, <2>6 DEF UsersFit
  <2>9. current' \in 0 .. MaxStreams /\ \A t \in Proxy!StreamIds : t /= s => (t = current' <=> t = current)
    BY <1>1, <1>5, <2>1 DEF Proxy!StreamIds
  <2> QED BY <1>6, <2>4, <2>5, <2>7, <2>8, <2>9, OneStream
<1>10. CASE ~(Proxy!Attached(s) \ {r} = {} /\ p.pending = 0)
  <2>1. streams' = [streams EXCEPT ![s] = p] /\ current' = current
    BY <1>5, <1>10 DEF Proxy!Release, Proxy!Idle
  <2>2. Claimants(s)' \cup Proxy!Attached(s)' /= {}
    BY <1>6, <1>7, <1>10
  <2>3. StreamFits(s, p)'
    BY <1>5, <1>6, <1>7, <2>1 DEF StreamFits, Present
  <2>4. UsersFit(s, p)'
    BY <1>8, <2>2 DEF UsersFit
  <2> QED BY <1>1, <1>6, <2>1, <2>3, <2>4, OneStream
<1> QED BY <1>9, <1>10

(* A holder gives up its hold. *)
LEMMA HoldGiven ==
  ASSUME Books, NEW r \in Requests, NEW s \in Proxy!StreamIds, r \in Claimants(s)
  PROVE  \E p \in StreamRecords :
           /\ p.state = streams[s].state /\ p.closing = streams[s].closing /\ p.worker = streams[s].worker
           /\ p.pending = streams[s].pending - 1 /\ Proxy!Given(streams, s) = [streams EXCEPT ![s] = p]
<1>1. /\ streams \in [Proxy!StreamIds -> StreamRecords] /\ streams[s] \in StreamRecords
      /\ StreamFits(s, streams[s]) /\ IsFiniteSet(Claimants(s))
  BY OfStream
<1>2. Cardinality(Claimants(s)) \in Nat /\ Cardinality(Claimants(s)) /= 0
  BY <1>1, Counting
<1>3. streams[s].pending - 1 \in Nat
  BY <1>1, <1>2 DEF StreamFits, StreamRecords
<1> DEFINE p == [streams[s] EXCEPT !.pending = streams[s].pending - 1]
<1>4. /\ p \in StreamRecords /\ p.state = streams[s].state /\ p.closing = streams[s].closing
      /\ p.worker = streams[s].worker /\ p.pending = streams[s].pending - 1
  BY <1>1, <1>3 DEF StreamRecords
<1>5. Proxy!Given(streams, s) = [streams EXCEPT ![s] = p]
  BY <1>1 DEF Proxy!Given
<1> HIDE DEF p
<1> QED BY <1>4, <1>5

LEMMA CreatorFailsStep ==
  ASSUME Books, NEW r \in Requests, Proxy!CreatorFails(r) PROVE ProxyInv'
<1>1. /\ ~draining /\ draining' = FALSE /\ setup' = setup /\ phase' = phase /\ queue' = queue
      /\ req[r].at = "create" /\ req[r].at \in Holding
  BY DEF Books, ProxyInv, Proxy!CreatorFails, Proxy!At, Holding
<1> PICK s \in Proxy!StreamIds : s = req[r].stream
  BY <1>1, OfHolder
<1>2. /\ streams[s].state = "failed" /\ streams' = Proxy!Closed(streams, s) /\ current' = 0
      /\ Proxy!Finish(r, "failed")
  BY <1>1 DEF Proxy!CreatorFails
<1>3. /\ streams \in [Proxy!StreamIds -> StreamRecords] /\ streams[s] \in StreamRecords
      /\ StreamFits(s, streams[s]) /\ UsersFit(s, streams[s]) /\ IsFiniteSet(Claimants(s))
      /\ s \in 1 .. MaxStreams /\ current \in 0 .. MaxStreams /\ MaxStreams \in Nat
  BY OfStream
<1>4. req \in [Requests -> RequestRecords] /\ req[r] \in RequestRecords /\ "failed" \in Ends
  BY OneRecord DEF Ends
<1>5. Creating(r, s) /\ r \in Claimants(s) /\ r \notin Proxy!Attached(s)
  BY <1>1 DEF Creating, Claimants, Proxy!Attached
<1>6. ~streams[s].closing /\ current = s /\ streams[s].worker = "open"
  BY <1>2, <1>3, <1>5 DEF StreamFits, UsersFit, Present
<1> DEFINE x == Proxy!Over(req[r], "failed")
<1>7. Legal(r, x) /\ x.stream = s /\ x.at \notin Holding
  BY <1>4, OverLegal
<1>8. req' = [req EXCEPT ![r] = x]
  BY <1>2, <1>4 DEF Proxy!Finish
<1> HIDE DEF x
<1>9. /\ DOMAIN req' = Requests /\ req' = [q \in Requests |-> req'[q]]
      /\ \A q \in Requests : Legal(q, req'[q]) /\ (SamePlace(q) \/ Near(q, s))
      /\ Claimants(s)' = Claimants(s) \ {r} /\ Proxy!Attached(s)' = Proxy!Attached(s) \ {r}
      /\ \A q \in Requests : Creating(q, s)' <=> (q /= r /\ Creating(q, s))
  <2>1. x.at \notin {"create", "ready"} /\ x.at /= "attached" /\ x.at /= "create"
    BY <1>7 DEF Holding
  <2> QED BY <1>7, <1>8, <2>1, OneMoves
<1>10. \A q \in Requests : ~Creating(q, s)'
  BY <1>3, <1>5, <1>9 DEF UsersFit
<1> PICK e : e = [streams[s] EXCEPT !.closing = TRUE, !.worker = "closed"]
  OBVIOUS
<1>11. streams' = [streams EXCEPT ![s] = e]
  BY <1>2, <1>3, <1>6 DEF Proxy!Closed, Proxy!Shut, StreamRecords
<1>12. e \in StreamRecords /\ e.state = "failed" /\ e.closing /\ e.worker = "closed" /\ e.pending = streams[s].pending
  BY <1>2, <1>3 DEF StreamRecords
<1>13. StreamFits(s, e)'
  <2>1. /\ IsFiniteSet(Claimants(s) \ {r}) /\ Cardinality(Claimants(s) \ {r}) = Cardinality(Claimants(s)) - 1
        /\ Cardinality(Claimants(s)) \in Nat
    BY <1>3, <1>5, Counting
  <2>2. streams[s].pending = Cardinality(Claimants(s))
    BY <1>3, <1>6, <2>1 DEF StreamFits
  <2>3. e.pending = Cardinality(Claimants(s) \ {r}) + 1
    BY <1>12, <2>1, <2>2
  <2> QED BY <1>2, <1>3, <1>9, <1>12, <2>1, <2>3 DEF StreamFits, Present
<1>14. UsersFit(s, e)'
  <2>1. Proxy!Attached(s)' = {}
    BY <1>2, <1>3, <1>9 DEF UsersFit
  <2> QED BY <1>10, <1>12, <2>1 DEF UsersFit
<1>15. current' \in 0 .. MaxStreams /\ \A t \in Proxy!StreamIds : t /= s => (t = current' <=> t = current)
  BY <1>2, <1>3, <1>6 DEF Proxy!StreamIds
<1> QED BY <1>1, <1>9, <1>11, <1>12, <1>13, <1>14, <1>15, OneStream

LEMMA WaiterFailsStep ==
  ASSUME Books, NEW r \in Requests, Proxy!WaiterFails(r) PROVE ProxyInv'
<1>1. /\ ~draining /\ draining' = FALSE /\ setup' = setup /\ phase' = phase /\ queue' = queue /\ current' = current
      /\ req[r].at = "ready" /\ req[r].at \in Holding
  BY DEF Books, ProxyInv, Proxy!WaiterFails, Proxy!At, Holding
<1> PICK s \in Proxy!StreamIds : s = req[r].stream
  BY <1>1, OfHolder
<1>2. streams[s].state = "failed" /\ streams' = Proxy!Given(streams, s) /\ Proxy!Finish(r, "failed")
  BY <1>1 DEF Proxy!WaiterFails
<1>3. /\ streams \in [Proxy!StreamIds -> StreamRecords] /\ streams[s] \in StreamRecords
      /\ StreamFits(s, streams[s]) /\ UsersFit(s, streams[s]) /\ IsFiniteSet(Claimants(s)) /\ current \in 0 .. MaxStreams
  BY OfStream
<1>4. req \in [Requests -> RequestRecords] /\ req[r] \in RequestRecords /\ "failed" \in Ends
  BY OneRecord DEF Ends
<1>5. ~Creating(r, s) /\ r \in Claimants(s)
  BY <1>1 DEF Creating, Claimants
<1> DEFINE x == Proxy!Over(req[r], "failed")
<1>6. Legal(r, x) /\ x.stream = s /\ x.at \notin Holding
  BY <1>4, OverLegal
<1>7. req' = [req EXCEPT ![r] = x]
  BY <1>2, <1>4 DEF Proxy!Finish
<1> HIDE DEF x
<1>8. /\ DOMAIN req' = Requests /\ req' = [q \in Requests |-> req'[q]]
      /\ \A q \in Requests : Legal(q, req'[q]) /\ (SamePlace(q) \/ Near(q, s))
      /\ Claimants(s)' = Claimants(s) \ {r} /\ Proxy!Attached(s)' = Proxy!Attached(s) \ {r}
      /\ \A q \in Requests : Creating(q, s)' <=> Creating(q, s)
  <2>1. x.at \notin {"create", "ready"} /\ x.at /= "attached" /\ x.at /= "create"
    BY <1>6 DEF Holding
  <2> QED BY <1>5, <1>6, <1>7, <2>1, OneMoves
<1> PICK p \in StreamRecords :
      /\ p.state = streams[s].state /\ p.closing = streams[s].closing /\ p.worker = streams[s].worker
      /\ p.pending = streams[s].pending - 1 /\ streams' = [streams EXCEPT ![s] = p]
  BY <1>2, <1>5, HoldGiven
<1>9. StreamFits(s, p)'
  <2>1. /\ IsFiniteSet(Claimants(s) \ {r}) /\ Cardinality(Claimants(s) \ {r}) = Cardinality(Claimants(s)) - 1
        /\ Cardinality(Claimants(s)) \in Nat
    BY <1>3, <1>5, Counting
  <2> QED BY <1>1, <1>3, <1>8, <2>1 DEF StreamFits, Present
<1>10. UsersFit(s, p)'
  <2>1. Proxy!Attached(s)' = {}
    BY <1>2, <1>3, <1>8 DEF UsersFit
  <2> QED BY <1>2, <1>3, <1>8, <2>1 DEF UsersFit
<1> QED BY <1>1, <1>3, <1>8, <1>9, <1>10, OneStream

LEMMA AttachStep ==
  ASSUME Books, NEW r \in Requests, Proxy!Attach(r) PROVE ProxyInv'
<1>1. /\ ~draining /\ draining' = FALSE /\ setup' = setup /\ phase' = phase /\ queue' = queue
      /\ req[r].at \in {"create", "ready"} /\ req[r].at \in Holding
  BY DEF Books, ProxyInv, Proxy!Attach, Proxy!At, Holding
<1> PICK s \in Proxy!StreamIds : s = req[r].stream
  BY <1>1, OfHolder
<1>2. /\ streams \in [Proxy!StreamIds -> StreamRecords] /\ streams[s] \in StreamRecords
      /\ StreamFits(s, streams[s]) /\ UsersFit(s, streams[s]) /\ IsFiniteSet(Claimants(s)) /\ current \in 0 .. MaxStreams
  BY OfStream
<1>3. req \in [Requests -> RequestRecords] /\ req[r] \in RequestRecords /\ req[r].out /= "refused"
  BY OneRecord DEF Books, ProxyInv
<1>4. r \in Claimants(s) /\ r \notin Proxy!Attached(s)
  BY <1>1 DEF Claimants, Proxy!Attached
<1>5. streams[s].state = "ready"
  BY DEF Proxy!Attach
<1>6. ~streams[s].closing
  BY <1>2, <1>4, <1>5 DEF UsersFit
<1> DEFINE ss == Proxy!Given(streams, s)
<1>7. \/ Proxy!Release(r, ss, "gone")
      \/ streams' = ss /\ Proxy!Goto(r, "attached") /\ current' = current
  BY <1>1, <1>6 DEF Proxy!Attach
<1> PICK p \in StreamRecords :
      /\ p.state = streams[s].state /\ p.closing = streams[s].closing /\ p.worker = streams[s].worker
      /\ p.pending = streams[s].pending - 1 /\ ss = [streams EXCEPT ![s] = p]
  BY <1>4, HoldGiven
<1> HIDE DEF ss
<1>8. /\ IsFiniteSet(Claimants(s) \ {r}) /\ Cardinality(Claimants(s) \ {r}) = Cardinality(Claimants(s)) - 1
      /\ Cardinality(Claimants(s)) \in Nat
  BY <1>2, <1>4, Counting
<1>9. p.pending = Cardinality(Claimants(s) \ {r})
  BY <1>2, <1>5, <1>8 DEF StreamFits
<1>10. CASE Proxy!Release(r, ss, "gone")
  <2>1. "gone" \in Ends
    BY DEF Ends
  <2> QED BY <1>1, <1>5, <1>6, <1>9, <1>10, <2>1, ReleaseStep
<1>11. CASE streams' = ss /\ Proxy!Goto(r, "attached") /\ current' = current
  <2> DEFINE x == [req[r] EXCEPT !.at = "attached"]
  <2>1. req' = [req EXCEPT ![r] = x]
    BY <1>3, <1>11 DEF Proxy!Goto
  <2>2. x \in RequestRecords /\ x.at = "attached" /\ x.stream = s /\ x.out = req[r].out
    BY <1>3 DEF RequestRecords
  <2> HIDE DEF x
  <2>3. Legal(r, x)
    BY <1>3, <2>2 DEF Legal
  <2>4. /\ DOMAIN req' = Requests /\ req' = [q \in Requests |-> req'[q]]
        /\ \A q \in Requests : Legal(q, req'[q]) /\ (SamePlace(q) \/ Near(q, s))
        /\ Claimants(s)' = Claimants(s) \ {r} /\ Proxy!Attached(s)' = Proxy!Attached(s) \cup {r}
        /\ \A q \in Requests : Creating(q, s)' => Creating(q, s)
    BY <2>1, <2>2, <2>3, OneMoves
  <2>5. StreamFits(s, p)'
    BY <1>2, <1>5, <1>6, <1>8, <1>9, <1>11, <2>4 DEF StreamFits, Present
  <2>6. UsersFit(s, p)'
    <3>1. \A q, t \in Requests : (Creating(q, s) /\ Creating(t, s))' => q = t
      BY <1>2, <2>4 DEF UsersFit
    <3>2. Proxy!Attached(s)' /= {}
      BY <2>4
    <3> QED BY <1>5, <1>6, <3>1, <3>2 DEF UsersFit
  <2> QED BY <1>1, <1>2, <1>11, <2>4, <2>5, <2>6, OneStream
<1> QED BY <1>7, <1>10, <1>11

LEMMA DisconnectStep ==
  ASSUME Books, NEW r \in Requests, Proxy!Disconnect(r) PROVE ProxyInv'
<1>1. /\ ~draining /\ draining' = FALSE /\ setup' = setup /\ phase' = phase /\ queue' = queue
  BY DEF Books, ProxyInv, Proxy!Disconnect
<1>2. req \in [Requests -> RequestRecords] /\ req[r] \in RequestRecords /\ req[r].out /= "refused" /\ "gone" \in Ends
  BY OneRecord DEF Books, ProxyInv, Ends
<1>3. CASE req[r].at = "attached" /\ Proxy!Release(r, streams, "gone")
  <2>1. req[r].at \in Holding
    BY <1>3 DEF Holding
  <2> PICK s \in Proxy!StreamIds : s = req[r].stream
    BY <2>1, OfHolder
  <2>2. /\ streams \in [Proxy!StreamIds -> StreamRecords] /\ streams[s] \in StreamRecords
        /\ StreamFits(s, streams[s]) /\ UsersFit(s, streams[s])
    BY OfStream
  <2>3. r \in Proxy!Attached(s) /\ r \notin Claimants(s)
    BY <1>3 DEF Proxy!Attached, Claimants
  <2>4. streams[s].state = "ready" /\ ~streams[s].closing
    BY <2>2, <2>3 DEF UsersFit
  <2> PICK p \in StreamRecords : p = streams[s]
    BY <2>2
  <2>5. p.pending = Cardinality(Claimants(s) \ {r})
    <3>1. Claimants(s) \ {r} = Claimants(s)
      BY <2>3
    <3>2. Cardinality(Claimants(s)) \in Nat
      BY <2>2, Counting DEF StreamFits
    <3> QED BY <2>2, <2>4, <3>1, <3>2 DEF StreamFits
  <2>6. streams = [streams EXCEPT ![s] = p]
    BY <2>2
  <2> QED BY <1>1, <1>2, <1>3, <2>1, <2>4, <2>5, <2>6, ReleaseStep
<1>4. CASE /\ req[r].at /= "attached" /\ req' = [req EXCEPT ![r] = Proxy!Abort([@ EXCEPT !.gone = TRUE])]
           /\ UNCHANGED <<streams, current>>
  <2> DEFINE y == [req[r] EXCEPT !.gone = TRUE]
             x == Proxy!Abort(y)
  <2>1. y \in RequestRecords /\ y.at = req[r].at /\ y.stream = req[r].stream /\ y.out = req[r].out
    BY <1>2 DEF RequestRecords
  <2>2. req' = [req EXCEPT ![r] = x]
    BY <1>2, <1>4
  <2>3. RequestsOnly
    BY <1>1, <1>4 DEF RequestsOnly, Books, ProxyInv, ProxyTyped
  <2> HIDE DEF y
  <2>4. CASE y.at \in {"xread", "check", "backoff"}
    <3>1. x = Proxy!Over(y, "gone")
      BY <2>4 DEF Proxy!Abort
    <3>2. Legal(r, x) /\ x.stream = req[r].stream /\ x.at \notin Holding /\ req[r].at \notin Holding
      <4>1. Legal(r, x) /\ x.stream = y.stream /\ x.at \notin Holding
        BY <1>2, <2>1, <3>1, OverLegal
      <4> QED BY <2>1, <2>4, <4>1 DEF Holding
    <3> HIDE DEF x
    <3> QED BY <2>2, <2>3, <3>2, RequestMoves
  <2>5. CASE y.at \notin {"xread", "check", "backoff"}
    <3>1. x = y
      BY <2>5 DEF Proxy!Abort
    <3> HIDE DEF x
    <3> QED BY <2>1, <2>2, <2>3, <3>1, Proceeds
  <2> QED BY <2>4, <2>5
<1> QED BY <1>3, <1>4 DEF Proxy!Disconnect, Proxy!At

(* Until closeQueues is called the shutdown takes no step, and from then on nothing is claimed. *)
LEMMA ProxyNext ==
  ASSUME Assumed, ProxyInv, Proxy!Next PROVE ProxyInv'
<1>1. CASE draining
  <2>1. ASSUME NEW r \in Requests, Proxy!RequestStep(r) PROVE draining' = draining
    BY <2>1 DEF Proxy!RequestStep, Proxy!GetQueue, Proxy!AddJob, Proxy!UsageSummary, Proxy!Cursor, Proxy!Connect,
       Proxy!Enqueue, Proxy!Added, Proxy!WaitRead, Proxy!Backoff, Proxy!Reconnect, Proxy!Fallback, Proxy!QueueEvents,
       Proxy!GetJob, Proxy!EventsConnect, Proxy!EventsRead, Proxy!Check, Proxy!ReadStream, Proxy!GetState, Proxy!Trail,
       Proxy!StreamCall, Proxy!Sleep, Proxy!GetStream, Proxy!CreatorFails, Proxy!WaiterFails, Proxy!Attach
  <2>2. ASSUME NEW r \in Requests, Proxy!Deadline(r) \/ Proxy!Disconnect(r) \/ Proxy!WriteChunk(r) \/ Proxy!JobEnds(r)
        PROVE  draining' = draining
    BY <2>2 DEF Proxy!Deadline, Proxy!Disconnect, Proxy!WriteChunk, Proxy!JobEnds
  <2>3. CASE Proxy!ServerStep \/ Proxy!ShutdownTimeout
    BY <1>1, <2>3 DEF ProxyInv, Proxy!ServerStep, Proxy!ClientCreated, Proxy!ClientFails, Proxy!StreamSettles,
       Proxy!ShutdownInits, Proxy!ShutdownStreams, Proxy!ShutdownQueue, Proxy!QueueRejects, Proxy!ShutdownClient,
       Proxy!ShutdownTimeout
  <2>4. CASE Proxy!CloseQueues
    BY <2>4 DEF Proxy!CloseQueues, ProxyInv
  <2> QED BY <1>1, <2>1, <2>2, <2>3, <2>4 DEF ProxyInv, Proxy!Next
<1>2. CASE ~draining
  <2>1. Books
    BY <1>2 DEF Books
  <2>2. CASE Proxy!CloseQueues
    BY <2>2 DEF Proxy!CloseQueues, ProxyInv
  <2>3. CASE \/ Proxy!ShutdownInits \/ Proxy!ShutdownStreams \/ Proxy!ShutdownQueue \/ Proxy!QueueRejects
             \/ Proxy!ShutdownClient \/ Proxy!ShutdownTimeout
    <3>1. phase = "off" /\ queue \in {"none", "open"}
      BY <1>2 DEF ProxyInv, ProxyTyped
    <3> QED BY <2>3, <3>1 DEF Proxy!ShutdownInits, Proxy!ShutdownStreams, Proxy!ShutdownQueue, Proxy!QueueRejects,
                              Proxy!ShutdownClient, Proxy!ShutdownTimeout
  <2>4. CASE Proxy!ClientCreated \/ Proxy!ClientFails
    BY <2>1, <2>4, ClientStep
  <2>5. CASE \E s \in Proxy!StreamIds : Proxy!StreamSettles(s)
    BY <2>1, <2>5, StreamSettlesStep
  <2>6. ASSUME NEW r \in Requests,
               Proxy!RequestStep(r) \/ Proxy!Deadline(r) \/ Proxy!Disconnect(r) \/ Proxy!WriteChunk(r) \/ Proxy!JobEnds(r)
        PROVE  ProxyInv'
    BY <2>1, <2>6, GetQueueStep, PlainStep, WaitStep, EventsStep, StreamRouteStep, OutputStep,
       GetStreamStep, CreatorFailsStep, WaiterFailsStep, AttachStep, DisconnectStep DEF Proxy!RequestStep
  <2> QED BY <2>2, <2>3, <2>4, <2>5, <2>6 DEF Proxy!Next, Proxy!ServerStep
<1> QED BY <1>1, <1>2 DEF ProxyInv

LEMMA ProxyInit == ASSUME Assumed PROVE Proxy!Init => ProxyInv
<1> SUFFICES ASSUME Proxy!Init PROVE ProxyInv
  OBVIOUS
<1>1. /\ DOMAIN req = Requests /\ req = [r \in Requests |-> req[r]]
      /\ \A r \in Requests : /\ req[r] \in RequestRecords /\ req[r].out = "none"
                             /\ req[r].at = "new" /\ req[r].at \notin Holding /\ req[r].at /= "client"
  BY DEF Proxy!Init, RequestRecords, Holding, Assumed, Proxy!ConstantsAssumption
<1>2. \A s \in Proxy!StreamIds : streams[s] = [state |-> "none", closing |-> FALSE, pending |-> 0, worker |-> "none"]
  BY DEF Proxy!Init
<1>3. ProxyTyped
  <2>1. streams \in [Proxy!StreamIds -> StreamRecords]
    BY DEF Proxy!Init, StreamRecords
  <2> QED BY <1>1, <2>1 DEF Proxy!Init, ProxyTyped, Assumed, Proxy!ConstantsAssumption
<1>4. ASSUME NEW s \in Proxy!StreamIds PROVE StreamFits(s, streams[s]) /\ UsersFit(s, streams[s])
  <2>1. Claimants(s) = {} /\ Proxy!Attached(s) = {} /\ \A r \in Requests : ~Creating(r, s)
    BY <1>1 DEF Claimants, Proxy!Attached, Creating, Holding
  <2>2. s /= current
    BY DEF Proxy!Init, Proxy!StreamIds
  <2> QED BY <1>2, <2>1, <2>2, FS_EmptySet DEF StreamFits, UsersFit, Present
<1> QED BY <1>1, <1>3, <1>4 DEF ProxyInv, Proxy!Init, Holding

LEMMA ProxyStutter == ASSUME Assumed, ProxyInv, UNCHANGED Proxy!vars PROVE ProxyInv'
<1>1. CASE draining
  BY <1>1 DEF ProxyInv, Proxy!vars
<1>2. CASE ~draining
  <2>1. Books
    BY <1>2 DEF Books
  <2>2. RequestsOnly /\ req' = req
    BY <1>2 DEF RequestsOnly, ProxyInv, ProxyTyped, Proxy!vars
  <2>3. /\ DOMAIN req' = Requests /\ req' = [r \in Requests |-> req'[r]]
        /\ \A r \in Requests : Legal(r, req'[r]) /\ SamePlace(r)
    BY <1>2, <2>1, <2>2, OneRecord DEF Legal, SamePlace, ProxyInv, ProxyTyped
  <2> QED BY <2>1, <2>2, <2>3, RequestsMove
<1> QED BY <1>1, <1>2 DEF ProxyInv

LEMMA ProxyShared == ProxyInv => Proxy!SharedWhileUsed
<1> SUFFICES ASSUME ProxyInv PROVE Proxy!SharedWhileUsed
  OBVIOUS
<1>1. Proxy!NotRefused
  BY DEF ProxyInv, Proxy!NotRefused
<1>2. ASSUME ~draining, NEW s \in Proxy!StreamIds
      PROVE  (streams[s].worker = "open" <=> Proxy!Users(s) /= {}) /\ (streams[s].worker = "open" <=> s = current)
  <2>1. StreamFits(s, streams[s]) /\ UsersFit(s, streams[s]) /\ streams[s] \in StreamRecords
    BY <1>2 DEF ProxyInv, ProxyTyped
  <2>2. streams[s].worker = "open" <=> Present(streams[s])
    BY <2>1 DEF StreamFits
  <2>3. \A r \in Requests : r \in Proxy!Users(s) <=>
          Creating(r, s) \/ r \in Proxy!Attached(s) \/ (r \in Claimants(s) /\ streams[s].state /= "failed")
    BY DEF Proxy!Users, Proxy!At, Creating, Proxy!Attached, Claimants
  <2>4. streams[s].worker = "open" <=> s = current
    BY <2>1 DEF StreamFits
  <2>5. CASE streams[s].state = "none"
    <3>1. \A r \in Requests : ~Creating(r, s) /\ r \notin Proxy!Attached(s) /\ r \notin Claimants(s)
      BY <2>1, <2>5 DEF UsersFit, Claimants, Creating
    <3> QED BY <2>2, <2>3, <2>5, <2>4, <3>1 DEF Proxy!Users, Present
  <2>6. CASE streams[s].state \in {"starting", "failed"}
    <3>1. Proxy!Attached(s) = {} /\ ((\E r \in Requests : Creating(r, s)) <=> ~streams[s].closing)
      BY <2>1, <2>6 DEF UsersFit
    <3>2. streams[s].state = "starting" => ~streams[s].closing
      BY <2>1 DEF StreamFits
    <3> QED BY <2>2, <2>3, <2>6, <2>4, <3>1, <3>2 DEF Proxy!Users, Present
  <2>7. CASE streams[s].state = "ready"
    <3>1. streams[s].closing <=> Claimants(s) \cup Proxy!Attached(s) = {}
      BY <2>1, <2>7 DEF UsersFit
    <3>2. \A r \in Requests : r \in Proxy!Users(s) <=> r \in Claimants(s) \cup Proxy!Attached(s)
      BY <2>3, <2>7 DEF Creating, Claimants
    <3>3. Proxy!Users(s) = Claimants(s) \cup Proxy!Attached(s)
      BY <3>2 DEF Proxy!Users, Proxy!Attached, Claimants
    <3> QED BY <2>2, <2>7, <2>4, <3>1, <3>3 DEF Present
  <2>8. streams[s].state \in {"none", "starting", "ready", "failed"}
    BY <2>1 DEF StreamRecords
  <2> QED BY <2>5, <2>6, <2>7, <2>4, <2>8
<1>3. ~draining => current \in Proxy!StreamIds \cup {0} /\ 0 \notin Proxy!StreamIds
  BY DEF ProxyInv, ProxyTyped, Proxy!StreamIds
<1>4. Proxy!StreamShared
  BY <1>2, <1>3 DEF Proxy!StreamShared, Proxy!LiveStreams
<1> QED BY <1>1, <1>4 DEF Proxy!SharedWhileUsed

(* SharedWhileUsed of ProxyServer: while the proxy is not shut down, the broadcast stream of a *)
(* subscription has an open worker exactly while a request creates it, waits for it or is      *)
(* subscribed, however creations, failures and departures interleave, and no request is refused. *)
THEOREM SubscriptionShared ==
  ASSUME Proxy!ConstantsAssumption, Proxy!ProfilesAssumption
  PROVE  Proxy!Spec => []Proxy!SharedWhileUsed
<1>1. Assumed
  BY DEF Assumed
<1>2. Proxy!Init => ProxyInv
  BY <1>1, ProxyInit
<1>3. ProxyInv /\ [Proxy!Next]_(Proxy!vars) => ProxyInv'
  <2> SUFFICES ASSUME ProxyInv, [Proxy!Next]_(Proxy!vars) PROVE ProxyInv'
    OBVIOUS
  <2>1. CASE Proxy!Next
    BY <1>1, <2>1, ProxyNext
  <2>2. CASE UNCHANGED Proxy!vars
    BY <1>1, <2>2, ProxyStutter
  <2> QED BY <2>1, <2>2
<1> QED BY <1>2, <1>3, ProxyShared, PTL DEF Proxy!Spec
=============================================================================
