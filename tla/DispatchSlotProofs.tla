------------------------- MODULE DispatchSlotProofs -------------------------
(***************************************************************************)
(* What a dispatch slot promises, for every number of jobs, every size of  *)
(* a batch and every bound on the failures: OwnOutcome, NothingLeft and    *)
(* OrderKept of DispatchSlot.                                              *)
(*                                                                         *)
(* The promises are about the moment the slot comes free, so the invariant *)
(* says at every statement which jobs the slot still has in hand (Open),   *)
(* where the others are (Books), which of the answers may be believed      *)
(* (Verdicts), who runs a timer (Timers), and in which order the jobs that *)
(* may still go back stand before the queue (InOrder).                     *)
(***************************************************************************)
EXTENDS DispatchSlot, TLAPS

Replies == {"hash", "parked", "PAUSED", "REVOKED", "error", "ok"}
Pcs == {"idle", "claimed", "activate", "handle", "restore", "limit", "run", "ended",
        "settle", "complete", "follow", "chained"}
IsLine(s) == s \in Seq(Jobs) /\ IsInjective(s)

(* The types of the variables, the cached flags aside, which decide nothing here. *)
Typed ==
    /\ state \in [Jobs -> {"waiting", "claimed", "active", "completed", "failed", "elsewhere"}]
    /\ why \in [Jobs -> {"none", "value", "error", "revoked"}]
    /\ said \in [Jobs -> {"none", "value", "bad", "park", "error", "aborted", "moved"}]
    /\ IsLine(queue) /\ IsLine(claims) /\ IsLine(batch) /\ IsLine(back) /\ IsLine(done)
    /\ reply \in Seq(Replies) /\ at \in Nat \ {0} /\ pc \in Pcs
    /\ mode \in Modes /\ source \in Sources /\ errors \in Nat
    /\ revoked \subseteq Jobs
    /\ mode = "batch" => \A j \in Jobs : said[j] # "park"

Before(s, i) == {s[k] : k \in 1 .. (i - 1)}
HandedBack == kind = "handed back"

(* What the locals of the slot hold at each statement: which are still empty, how many
   answers have come, and that a list of jobs was made from an earlier one. *)
Fresh == batch = <<>> /\ back = <<>> /\ done = <<>> /\ ~HandedBack
Shape ==
    /\ ~Batch => Len(claims) <= 1 /\ Len(batch) <= 1 /\ done = <<>>
    /\ pc = "idle" => Fresh /\ claims = <<>> /\ reply = <<>>
    /\ pc = "claimed" => Fresh /\ reply = <<>>
    /\ pc = "activate" => Fresh /\ Len(reply) = at - 1 /\ at <= Len(claims) + 1
    /\ pc = "chained" =>
        ~Batch /\ Fresh /\ Len(reply) = Len(claims) /\ \A k \in DOMAIN reply : reply[k] \in {"hash", "REVOKED"}
    /\ pc = "handle" =>
        /\ done = <<>> /\ ~HandedBack /\ Len(reply) = Len(claims) /\ at <= Len(claims) + 1
        /\ Rng(batch) \cup Rng(back) \subseteq Before(claims, at) /\ Rng(batch) \cap Rng(back) = {}
    /\ pc = "restore" =>
        /\ done = <<>> /\ Rng(back) \subseteq Rng(claims) \cup Rng(batch)
        /\ ~HandedBack => Rng(batch) \cap Rng(back) = {}
    /\ pc \in {"limit", "run"} => done = <<>> /\ back = <<>> /\ ~HandedBack
    /\ pc = "ended" => done = <<>> /\ back = <<>>
    /\ pc = "settle" => back = <<>> /\ at <= Len(batch) + 1 /\ Rng(done) \subseteq Before(batch, at)
    /\ pc = "complete" => back = <<>> /\ Rng(done) \subseteq Rng(batch) /\ Len(reply) = at - 1 /\ at <= Len(done) + 1
    /\ pc = "follow" => back = <<>> /\ Rng(done) \subseteq Rng(batch) /\ Len(reply) = Len(done)

(* The jobs of s from place i on whose answer, if it has come, is one of A. *)
Rest(s, i, answers, A) ==
    {s[k] : k \in {n \in DOMAIN s : n >= i /\ (n \in DOMAIN answers => answers[n] \in A)}}

(* The jobs in hand: a claim leaves when it is diverted, when its call broke, or when the
   server parked it; a job of the batch when it is settled, one that succeeded not before
   the pipeline of completions answered; one that goes back when it is back. *)
Kept == {"hash", "PAUSED", "REVOKED"}
Denied == {"REVOKED"}
Open ==
    CASE pc \in {"claimed", "chained"} -> Rng(claims)
      [] pc = "activate" -> Rest(claims, 1, reply, Kept)
      [] pc = "handle" -> Rest(claims, at, reply, Kept) \cup Rng(back) \cup Rng(batch)
      [] pc = "restore" -> Rng(back) \cup (IF HandedBack THEN {} ELSE Rng(batch))
      [] pc \in {"limit", "run", "ended"} -> Rng(batch)
      [] pc = "settle" -> Rest(batch, at, <<>>, {}) \cup Rng(done)
      [] pc = "complete" -> Rest(done, 1, reply, Denied)
      [] pc = "follow" -> Rest(done, at, reply, Denied)
      [] OTHER -> {}

(* Where the jobs are: those that wait and those in hand have no outcome yet, one that the
   processor failed itself has left, and while nothing broke and nothing was forced every
   job the server holds for this worker is in hand. *)
InHand(j) == state[j] \in {"claimed", "active"}
Books ==
    /\ \A j \in Rng(queue) : state[j] = "waiting"
    /\ \A j \in Jobs : state[j] = "waiting" \/ InHand(j) => why[j] = "none"
    /\ \A j \in Jobs : said[j] = "moved" => state[j] \in {"failed", "elsewhere"}
    /\ \A j \in Open : InHand(j) \/ (said[j] = "moved" /\ pc \in {"run", "ended", "settle"})
    /\ errors = 0 /\ stop # "force" => \A j \in Jobs : InHand(j) => j \in Open

(* OwnOutcome, and what the statements that come will rely on: an answer REVOKED is about
   the job of its place, the processor spoke of every job of the batch, and the jobs to
   complete are those it gave a value for. *)
Verdicts ==
    /\ OwnOutcome
    /\ pc \in {"activate", "handle", "chained"} =>
        \A k \in DOMAIN reply : reply[k] = "REVOKED" => claims[k] \in revoked
    /\ pc \in {"complete", "follow"} =>
        \A k \in DOMAIN reply : reply[k] = "REVOKED" => done[k] \in revoked
    /\ pc \in {"ended", "settle"} => \A j \in Rng(batch) : said[j] # "none"
    /\ \A j \in Rng(done) : said[j] = "value"

(* Timers run for jobs of the batch, and only until the processor has ended. *)
Timers ==
    /\ heartbeats \cup controllers \subseteq Rng(batch)
    /\ pc \notin {"handle", "restore", "limit", "run"} \/ HandedBack => heartbeats = {}
    /\ pc \notin {"limit", "run"} => controllers = {}

Ordered(s) == \A m, n \in DOMAIN s : m < n => Position(s[m]) < Position(s[n])
Descending(s) == \A m, n \in DOMAIN s : m < n => Position(s[n]) < Position(s[m])
Ahead(s, t) == \A i \in Rng(s), j \in Rng(t) : Position(i) < Position(j)

(* Jobs of a list that may still go back stand before the queue in the order they came:
   the claims do, those refused by a pause follow the batch because a pause lasts, and
   they are put back last first. *)
PauseLasts == \A m, n \in DOMAIN reply : reply[m] = "PAUSED" /\ m < n => reply[n] # "hash"
InOrder == FromList =>
    /\ Ordered(queue)
    /\ pc \in {"claimed", "activate", "handle", "chained"} => Ordered(claims) /\ Ahead(claims, queue)
    /\ pc = "activate" => PauseLasts /\ \A m \in DOMAIN reply : reply[m] = "PAUSED" => queuePaused
    /\ pc = "handle" =>
        /\ PauseLasts /\ Ordered(back) /\ Ahead(batch, back) /\ Ahead(batch, queue)
        /\ back # <<>> => \A n \in DOMAIN reply : n >= at => reply[n] # "hash"
    /\ pc = "restore" =>
        /\ Descending(back) /\ Ahead(back, queue)
        /\ ~HandedBack => Ahead(batch, back) /\ Ahead(batch, queue)
    /\ pc = "limit" => Ahead(batch, queue)

(* OrderKept needs that the limiter wait of several list jobs is not cut short. *)
SlotInv == Typed /\ Shape /\ Books /\ Verdicts /\ Timers /\ (Races = {} => InOrder)

-----------------------------------------------------------------------------
(* Sequences of jobs *)

LEMMA LineFacts ==
  ASSUME NEW s, IsLine(s)
  PROVE  /\ DOMAIN s = 1 .. Len(s) /\ Len(s) \in Nat /\ Rng(s) \subseteq Jobs
         /\ \A k \in DOMAIN s : s[k] \in Jobs /\ s[k] \in Rng(s)
         /\ \A m, n \in DOMAIN s : s[m] = s[n] => m = n
         /\ s = <<>> <=> Len(s) = 0
         /\ s = <<>> <=> Rng(s) = {}
<1>1. DOMAIN s = 1 .. Len(s) /\ Len(s) \in Nat /\ \A k \in DOMAIN s : s[k] \in Jobs
  BY DEF IsLine
<1>2. Rng(s) \subseteq Jobs /\ \A k \in DOMAIN s : s[k] \in Rng(s)
  BY <1>1 DEF Rng
<1>3. \A m, n \in DOMAIN s : s[m] = s[n] => m = n
  BY DEF IsLine, IsInjective
<1>4. s = <<>> <=> Len(s) = 0
  BY DEF IsLine
<1>5. s = <<>> <=> Rng(s) = {}
  <2>1. CASE s = <<>>
    BY <2>1 DEF Rng
  <2>2. CASE s # <<>>
    BY <1>1, <1>2, <1>4, <2>2
  <2> QED BY <2>1, <2>2
<1> QED BY <1>1, <1>2, <1>3, <1>4, <1>5

LEMMA EmptyLine == IsLine(<<>>) /\ Rng(<<>>) = {} /\ Len(<<>>) = 0 /\ DOMAIN <<>> = {}
BY DEF IsLine, Rng, IsInjective

LEMMA OneLine == ASSUME NEW j \in Jobs PROVE IsLine(<<j>>) /\ Rng(<<j>>) = {j} /\ Len(<<j>>) = 1
BY DEF IsLine, Rng, IsInjective

LEMMA AppendLine ==
  ASSUME NEW s, IsLine(s), NEW j \in Jobs, j \notin Rng(s), NEW t, t = Append(s, j)
  PROVE  /\ IsLine(t) /\ Len(t) = Len(s) + 1 /\ Rng(t) = Rng(s) \cup {j}
         /\ t[Len(t)] = j /\ \A k \in DOMAIN s : k \in DOMAIN t /\ t[k] = s[k]
         /\ \A k \in DOMAIN t : k \in DOMAIN s \/ k = Len(t)
<1>1. /\ t \in Seq(Jobs) /\ Len(t) = Len(s) + 1 /\ t[Len(t)] = j /\ DOMAIN t = 1 .. Len(t)
      /\ \A k \in DOMAIN s : k \in DOMAIN t /\ t[k] = s[k]
      /\ \A k \in DOMAIN t : k \in DOMAIN s \/ k = Len(t)
  BY LineFacts DEF IsLine
<1>2. IsInjective(t)
  BY <1>1, LineFacts DEF IsInjective
<1>3. Rng(t) = Rng(s) \cup {j}
  <2>1. \A k \in DOMAIN t : t[k] \in Rng(s) \cup {j}
    BY <1>1, LineFacts
  <2>2. Len(t) \in DOMAIN t
    BY <1>1, LineFacts
  <2> QED BY <1>1, <2>1, <2>2 DEF Rng
<1> QED BY <1>1, <1>2, <1>3 DEF IsLine

LEMMA TailLine ==
  ASSUME NEW s, IsLine(s), s # <<>>, NEW t, t = Tail(s)
  PROVE  /\ Head(s) = s[1] /\ Head(s) \in Jobs /\ Head(s) \in Rng(s)
         /\ IsLine(t) /\ Len(t) = Len(s) - 1 /\ Rng(t) = Rng(s) \ {Head(s)}
         /\ \A k \in DOMAIN t : k + 1 \in DOMAIN s /\ t[k] = s[k + 1]
<1>1. /\ Head(s) = s[1] /\ 1 \in DOMAIN s /\ t \in Seq(Jobs) /\ Len(t) = Len(s) - 1 /\ DOMAIN t = 1 .. Len(t)
      /\ \A k \in DOMAIN t : k + 1 \in DOMAIN s /\ t[k] = s[k + 1]
  BY LineFacts DEF IsLine
<1>2. IsInjective(t)
  BY <1>1, LineFacts DEF IsInjective
<1>3. Rng(t) \subseteq Rng(s) \ {Head(s)}
  <2>1. \A k \in DOMAIN t : t[k] \in Rng(s) /\ t[k] # s[1]
    BY <1>1, LineFacts
  <2> QED BY <1>1, <2>1 DEF Rng
<1>4. Rng(s) \ {Head(s)} \subseteq Rng(t)
  <2>1. \A k \in DOMAIN s : k = 1 \/ (k - 1 \in DOMAIN t /\ t[k - 1] = s[k])
    <3> SUFFICES ASSUME NEW k \in DOMAIN s, k # 1
                 PROVE  k - 1 \in DOMAIN t /\ t[k - 1] = s[k]
      OBVIOUS
    <3>1. k - 1 \in DOMAIN t /\ (k - 1) + 1 = k
      BY <1>1, LineFacts
    <3> QED BY <1>1, <3>1
  <2>2. \A k \in DOMAIN s : k = 1 \/ s[k] \in Rng(t)
    BY <2>1 DEF Rng
  <2> QED BY <1>1, <2>2 DEF Rng
<1> QED BY <1>1, <1>2, <1>3, <1>4, LineFacts DEF IsLine

Pushed(s, j, t) == t = <<j>> \o s
LEMMA ConsLine ==
  ASSUME NEW s, IsLine(s), NEW j \in Jobs, j \notin Rng(s), NEW t, Pushed(s, j, t)
  PROVE  /\ IsLine(t) /\ Len(t) = Len(s) + 1 /\ Rng(t) = Rng(s) \cup {j}
         /\ t[1] = j /\ \A k \in DOMAIN t : k = 1 \/ (k - 1 \in DOMAIN s /\ t[k] = s[k - 1])
<1>1. t \in Seq(Jobs) /\ Len(t) = Len(s) + 1 /\ DOMAIN t = 1 .. Len(t)
  BY LineFacts DEF IsLine, Pushed
<1>2. t[1] = j
  BY LineFacts DEF IsLine, Pushed
<1>3. \A k \in DOMAIN t : k = 1 \/ (k - 1 \in DOMAIN s /\ t[k] = s[k - 1])
  BY <1>1, LineFacts DEF IsLine, Pushed
<1>4. IsInjective(t)
  BY <1>1, <1>2, <1>3, LineFacts DEF IsInjective
<1>5. Rng(t) \subseteq Rng(s) \cup {j}
  BY <1>1, <1>2, <1>3, LineFacts DEF Rng
<1>6. Rng(s) \cup {j} \subseteq Rng(t)
  <2>1. \A k \in DOMAIN s : k + 1 \in DOMAIN t /\ t[k + 1] = s[k]
    <3> SUFFICES ASSUME NEW k \in DOMAIN s PROVE k + 1 \in DOMAIN t /\ t[k + 1] = s[k]
      OBVIOUS
    <3>1. k + 1 \in DOMAIN t /\ (k + 1) - 1 = k /\ k + 1 # 1
      BY <1>1, LineFacts
    <3> QED BY <1>3, <3>1
  <2>2. 1 \in DOMAIN t
    BY <1>1, LineFacts
  <2>3. \A k \in DOMAIN s : s[k] \in Rng(t)
    BY <2>1 DEF Rng
  <2>4. j \in Rng(t)
    BY <1>2, <2>2 DEF Rng
  <2> QED BY <2>3, <2>4 DEF Rng
<1> QED BY <1>1, <1>2, <1>3, <1>4, <1>5, <1>6 DEF IsLine

Cut(s, n, t, u) == t = SubSeq(s, 1, n) /\ u = SubSeq(s, n + 1, Len(s))
LEMMA CutLine ==
  ASSUME NEW s, IsLine(s), NEW n \in Nat, n <= Len(s), NEW t, NEW u, Cut(s, n, t, u)
  PROVE  /\ IsLine(t) /\ IsLine(u) /\ Len(t) = n /\ Rng(t) \cap Rng(u) = {} /\ Rng(t) \cup Rng(u) = Rng(s)
         /\ \A k \in DOMAIN t : k \in DOMAIN s /\ k <= n /\ t[k] = s[k]
         /\ \A k \in DOMAIN u : k + n \in DOMAIN s /\ k >= 1 /\ u[k] = s[k + n]
<1>1. /\ t \in Seq(Jobs) /\ Len(t) = n /\ DOMAIN t = 1 .. n
      /\ \A k \in DOMAIN t : k \in DOMAIN s /\ k <= n /\ t[k] = s[k]
  BY LineFacts DEF IsLine, Cut
<1>2. /\ u \in Seq(Jobs) /\ DOMAIN u = 1 .. (Len(s) - n)
      /\ \A k \in DOMAIN u : k + n \in DOMAIN s /\ k >= 1 /\ u[k] = s[k + n]
  BY LineFacts DEF IsLine, Cut
<1>3. IsInjective(t) /\ IsInjective(u)
  BY <1>1, <1>2, LineFacts DEF IsInjective
<1>4. Rng(t) \cap Rng(u) = {}
  <2>1. \A k \in DOMAIN t, l \in DOMAIN u : t[k] # u[l]
    BY <1>1, <1>2, LineFacts
  <2> QED BY <2>1 DEF Rng
<1>5. Rng(t) \cup Rng(u) \subseteq Rng(s)
  BY <1>1, <1>2 DEF Rng
<1>6. Rng(s) \subseteq Rng(t) \cup Rng(u)
  <2>1. \A k \in DOMAIN s : (k \in DOMAIN t /\ t[k] = s[k]) \/ (k - n \in DOMAIN u /\ u[k - n] = s[k])
    BY <1>1, <1>2, LineFacts
  <2> QED BY <2>1 DEF Rng
<1> QED BY <1>1, <1>2, <1>3, <1>4, <1>5, <1>6 DEF IsLine

LEMMA ReverseLine ==
  ASSUME NEW s, IsLine(s), NEW t, t = Reverse(s)
  PROVE  /\ IsLine(t) /\ Len(t) = Len(s) /\ Rng(t) = Rng(s)
         /\ \A k \in DOMAIN t : (Len(s) - k) + 1 \in DOMAIN s /\ t[k] = s[(Len(s) - k) + 1]
<1>1. /\ t \in Seq(Jobs) /\ Len(t) = Len(s) /\ DOMAIN t = 1 .. Len(s)
      /\ \A k \in DOMAIN t : (Len(s) - k) + 1 \in DOMAIN s /\ t[k] = s[(Len(s) - k) + 1]
  <2>1. t = [k \in 1 .. Len(s) |-> s[(Len(s) - k) + 1]]
    BY DEF Reverse
  <2>2. \A k \in 1 .. Len(s) : (Len(s) - k) + 1 \in DOMAIN s /\ s[(Len(s) - k) + 1] \in Jobs
    BY LineFacts
  <2>3. Len(s) \in Nat
    BY LineFacts
  <2>4. t \in [1 .. Len(s) -> Jobs] /\ DOMAIN t = 1 .. Len(s)
    BY <2>1, <2>2
  <2>5. t \in Seq(Jobs)
    BY <2>3, <2>4
  <2>6. Len(t) = Len(s)
    BY <2>3, <2>4, <2>5
  <2>7. \A k \in 1 .. Len(s) : t[k] = s[(Len(s) - k) + 1]
    BY <2>1
  <2> QED BY <2>2, <2>4, <2>5, <2>6, <2>7
<1>2. IsInjective(t)
  <2> SUFFICES ASSUME NEW m \in DOMAIN t, NEW n \in DOMAIN t, t[m] = t[n] PROVE m = n
    BY DEF IsInjective
  <2> DEFINE x == (Len(s) - m) + 1
             y == (Len(s) - n) + 1
  <2>1. x \in DOMAIN s /\ y \in DOMAIN s /\ s[x] = s[y]
    BY <1>1
  <2>2. x = y
    <3> HIDE DEF x, y
    <3> QED BY <2>1, LineFacts
  <2>3. m \in Nat /\ n \in Nat /\ Len(s) \in Nat
    <3>1. Len(s) \in Nat
      BY LineFacts
    <3>2. DOMAIN t = 1 .. Len(s)
      BY <1>1
    <3> QED BY <3>1, <3>2
  <2> QED BY <2>2, <2>3
<1>3. Rng(t) \subseteq Rng(s)
  BY <1>1 DEF Rng
<1>4. Rng(s) \subseteq Rng(t)
  <2>1. \A k \in DOMAIN s : (Len(s) - k) + 1 \in DOMAIN t /\ t[(Len(s) - k) + 1] = s[k]
    <3> SUFFICES ASSUME NEW k \in DOMAIN s
                 PROVE  (Len(s) - k) + 1 \in DOMAIN t /\ t[(Len(s) - k) + 1] = s[k]
      OBVIOUS
    <3>1. (Len(s) - k) + 1 \in DOMAIN t
      BY <1>1, LineFacts
    <3>2. (Len(s) - ((Len(s) - k) + 1)) + 1 = k
      BY LineFacts
    <3> QED BY <1>1, <3>1, <3>2
  <2> QED BY <2>1 DEF Rng
<1> QED BY <1>1, <1>2, <1>3, <1>4 DEF IsLine

LEMMA BeforeFacts ==
  ASSUME NEW s, IsLine(s), NEW i \in DOMAIN s
  PROVE  /\ Before(s, i + 1) = Before(s, i) \cup {s[i]}
         /\ s[i] \notin Before(s, i) /\ Before(s, i) \subseteq Rng(s) /\ Before(s, 1) = {}
<1>1. i \in Nat \ {0} /\ i <= Len(s) /\ 1 .. ((i + 1) - 1) = 1 .. i /\ i \in 1 .. i
  BY LineFacts
<1>2. Before(s, i + 1) = Before(s, i) \cup {s[i]}
  <2>1. \A k : k \in 1 .. ((i + 1) - 1) <=> k \in 1 .. (i - 1) \/ k = i
    BY <1>1
  <2> QED BY <2>1 DEF Before
<1>3. \A k \in 1 .. (i - 1) : k \in DOMAIN s /\ k # i
  BY <1>1, LineFacts
<1>4. s[i] \notin Before(s, i)
  BY <1>3, LineFacts DEF Before
<1>5. Before(s, i) \subseteq Rng(s)
  BY <1>3 DEF Before, Rng
<1>6. Before(s, 1) = {}
  BY DEF Before
<1> QED BY <1>2, <1>4, <1>5, <1>6

LEMMA BeforeEnd ==
  ASSUME NEW s, IsLine(s), NEW i, i = Len(s) + 1
  PROVE  Before(s, i) = Rng(s)
<1>1. 1 .. (i - 1) = DOMAIN s
  BY LineFacts
<1> QED BY <1>1 DEF Before, Rng

LEMMA RestIn ==
  ASSUME NEW s, NEW i, NEW rs, NEW A
  PROVE  Rest(s, i, rs, A) \subseteq Rng(s)
BY DEF Rest, Rng

LEMMA RestStep ==
  ASSUME NEW s, IsLine(s), NEW i \in DOMAIN s, NEW rs, NEW A
  PROVE  /\ Rest(s, i + 1, rs, A) \subseteq Rest(s, i, rs, A)
         /\ Rest(s, i, rs, A) \subseteq Rest(s, i + 1, rs, A) \cup {s[i]}
         /\ s[i] \in Rest(s, i, rs, A) <=> (i \in DOMAIN rs => rs[i] \in A)
         /\ s[i] \notin Rest(s, i + 1, rs, A)
<1>1. i \in Nat /\ DOMAIN s \subseteq Nat
  BY LineFacts
<1>2. \A n \in DOMAIN s : n >= i <=> n = i \/ n >= i + 1
  BY <1>1
<1>3. ~(i >= i + 1)
  BY <1>1
<1>4. Rest(s, i + 1, rs, A) \subseteq Rest(s, i, rs, A) /\ Rest(s, i, rs, A) \subseteq Rest(s, i + 1, rs, A) \cup {s[i]}
  BY <1>2 DEF Rest
<1>5. s[i] \notin Rest(s, i + 1, rs, A)
  BY <1>3, LineFacts DEF Rest
<1>6. s[i] \in Rest(s, i, rs, A) <=> (i \in DOMAIN rs => rs[i] \in A)
  BY <1>1, <1>2, LineFacts DEF Rest
<1> QED BY <1>4, <1>5, <1>6

LEMMA RestEnd ==
  ASSUME NEW s, IsLine(s), NEW i \in Nat, i > Len(s), NEW rs, NEW A
  PROVE  Rest(s, i, rs, A) = {}
<1>1. \A n \in DOMAIN s : ~(n >= i)
  BY LineFacts
<1> QED BY <1>1 DEF Rest

LEMMA RestAll ==
  ASSUME NEW s, IsLine(s), NEW A
  PROVE  Rest(s, 1, <<>>, A) = Rng(s)
<1>1. \A n \in DOMAIN s : n >= 1
  BY LineFacts
<1>2. DOMAIN <<>> = {}
  BY EmptyLine
<1> QED BY <1>1, <1>2 DEF Rest, Rng

(* The next answer comes: the others of s stay in or out. *)
LEMMA AnswerFacts ==
  ASSUME NEW rs \in Seq(Replies), NEW r \in Replies, NEW ns, ns = Append(rs, r), NEW i \in Nat, Len(rs) = i - 1
  PROVE  /\ ns \in Seq(Replies) /\ Len(ns) = i /\ DOMAIN ns = 1 .. i /\ ns[i] = r
         /\ \A k \in DOMAIN ns : k # i => k \in DOMAIN rs /\ ns[k] = rs[k]
         /\ \A k \in DOMAIN rs : k \in DOMAIN ns /\ k # i /\ ns[k] = rs[k]
<1>1. DOMAIN rs = 1 .. (i - 1) /\ ns \in Seq(Replies) /\ Len(ns) = i /\ DOMAIN ns = 1 .. i /\ ns[i] = r
  OBVIOUS
<1>2. \A k \in DOMAIN ns : k # i => k \in DOMAIN rs /\ ns[k] = rs[k]
  BY <1>1
<1>3. \A k \in DOMAIN rs : k \in DOMAIN ns /\ k # i /\ ns[k] = rs[k]
  BY <1>1
<1> QED BY <1>1, <1>2, <1>3

LEMMA RestAnswer ==
  ASSUME NEW s, IsLine(s), NEW i \in DOMAIN s, NEW rs, NEW ns, NEW A,
         i \notin DOMAIN rs, i \in DOMAIN ns,
         \A k \in DOMAIN ns : k # i => k \in DOMAIN rs /\ ns[k] = rs[k],
         \A k \in DOMAIN rs : k \in DOMAIN ns /\ k # i /\ ns[k] = rs[k]
  PROVE  /\ Rest(s, 1, ns, A) \subseteq Rest(s, 1, rs, A)
         /\ Rest(s, 1, rs, A) \subseteq Rest(s, 1, ns, A) \cup {s[i]}
         /\ s[i] \in Rest(s, 1, rs, A)
         /\ s[i] \in Rest(s, 1, ns, A) <=> ns[i] \in A
<1>1. \A n \in DOMAIN s : n >= 1
  BY LineFacts
<1>2. \A n \in DOMAIN s : n # i => ((n \in DOMAIN ns => ns[n] \in A) <=> (n \in DOMAIN rs => rs[n] \in A))
  OBVIOUS
<1>3. Rest(s, 1, ns, A) \subseteq Rest(s, 1, rs, A)
  BY <1>2 DEF Rest
<1>4. Rest(s, 1, rs, A) \subseteq Rest(s, 1, ns, A) \cup {s[i]}
  BY <1>2 DEF Rest
<1>5. s[i] \in Rest(s, 1, rs, A)
  BY <1>1 DEF Rest
<1>6. s[i] \in Rest(s, 1, ns, A) <=> ns[i] \in A
  BY <1>1, LineFacts DEF Rest
<1> QED BY <1>3, <1>4, <1>5, <1>6

-----------------------------------------------------------------------------
(* What a step does to a job *)

(* A job ends, or leaves for another set; W are the outcomes it may get. *)
Outcome(j, W) ==
    \E s \in {"completed", "failed", "elsewhere"}, w \in {"none", "value", "error", "revoked"} :
        /\ Put(j, s, w) /\ queue' = queue
        /\ (s = "completed" /\ w = "value") \/ (s = "failed" /\ w \in {"error", "revoked"})
                                            \/ (s = "elsewhere" /\ w = "none")
        /\ w \in W \cup {"none"}

LEMMA FailJobOutcome ==
  ASSUME NEW j, NEW w \in {"error", "revoked"}, FailJob(j, w)
  PROVE  Outcome(j, {w})
BY DEF FailJob, Outcome

LEMMA ParkOutcome ==
  ASSUME NEW j, Put(j, "elsewhere", "none"), queue' = queue
  PROVE  Outcome(j, {})
BY DEF Outcome

LEMMA CompleteOutcome ==
  ASSUME NEW j, Complete(j)
  PROVE  UNCHANGED server \/ Outcome(j, {"value"})
BY DEF Complete, Outcome

LEMMA MoreOutcomes ==
  ASSUME NEW j, NEW W, NEW V, W \subseteq V, Outcome(j, W)
  PROVE  Outcome(j, V)
BY DEF Outcome

LEMMA OutcomeFacts ==
  ASSUME Typed, NEW j \in Jobs, NEW W, Outcome(j, W)
  PROVE  /\ state' \in [Jobs -> {"waiting", "claimed", "active", "completed", "failed", "elsewhere"}]
         /\ why' \in [Jobs -> {"none", "value", "error", "revoked"}]
         /\ queue' = queue
         /\ \A i \in Jobs : i # j => state'[i] = state[i] /\ why'[i] = why[i]
         /\ state'[j] \in {"completed", "failed", "elsewhere"}
         /\ state'[j] = "completed" => why'[j] = "value"
         /\ why'[j] \in W \cup {"none"}
<1>1. PICK s \in {"completed", "failed", "elsewhere"}, w \in {"none", "value", "error", "revoked"} :
        /\ Put(j, s, w) /\ queue' = queue
        /\ (s = "completed" /\ w = "value") \/ (s = "failed" /\ w \in {"error", "revoked"})
                                            \/ (s = "elsewhere" /\ w = "none")
        /\ w \in W \cup {"none"}
  BY DEF Outcome
<1>2. state' = [state EXCEPT ![j] = s] /\ why' = [why EXCEPT ![j] = w]
  BY <1>1 DEF Put
<1>3. state'[j] = s /\ why'[j] = w /\ \A i \in Jobs : i # j => state'[i] = state[i] /\ why'[i] = why[i]
  BY <1>2 DEF Typed
<1>4. state' \in [Jobs -> {"waiting", "claimed", "active", "completed", "failed", "elsewhere"}]
  BY <1>2 DEF Typed
<1>5. why' \in [Jobs -> {"none", "value", "error", "revoked"}]
  BY <1>2 DEF Typed
<1> QED BY <1>1, <1>3, <1>4, <1>5

LEMMA OpenFacts ==
  ASSUME Typed, Shape, Books
  PROVE  /\ Open \subseteq Jobs /\ Open \cap Rng(queue) = {}
         /\ \A j \in Open : state[j] # "waiting"
<1>1. Rng(claims) \subseteq Jobs /\ Rng(batch) \subseteq Jobs /\ Rng(back) \subseteq Jobs /\ Rng(done) \subseteq Jobs
  BY LineFacts DEF Typed
<1>2. Open \subseteq Rng(claims) \cup Rng(batch) \cup Rng(back) \cup Rng(done)
  BY RestIn DEF Open
<1>3. \A j \in Open : j \in Jobs /\ state[j] # "waiting"
  BY <1>1, <1>2 DEF Books, InHand
<1> QED BY <1>3 DEF Books

(* Books, when no job comes into hand: nothing happens to the jobs, or they are marked. *)
LEMMA BooksStay ==
  ASSUME Typed, Shape, Books, queue' = queue, said' = said, Open' \subseteq Open,
         \A i \in Jobs : /\ why'[i] = why[i]
                         /\ state'[i] = state[i] \/ (InHand(i) /\ InHand(i)'),
         (pc \in {"run", "ended", "settle"} /\ pc' \notin {"run", "ended", "settle"}) =>
             \A i \in Open' : said[i] # "moved",
         (errors' = 0 /\ stop' # "force") =>
             errors = 0 /\ stop # "force" /\ \A i \in Open : InHand(i) => i \in Open'
  PROVE  Books'
<1>1. \A i \in Jobs : /\ state'[i] = "waiting" <=> state[i] = "waiting"
                      /\ InHand(i)' <=> InHand(i)
                      /\ state'[i] \in {"failed", "elsewhere"} <=> state[i] \in {"failed", "elsewhere"}
  BY DEF InHand
<1>2. Rng(queue) \subseteq Jobs /\ Open \subseteq Jobs
  BY OpenFacts, LineFacts DEF Typed
<1>3. \A i \in Rng(queue)' : state'[i] = "waiting"
  BY <1>1, <1>2 DEF Books, Rng
<1>4. \A i \in Jobs : state'[i] = "waiting" \/ InHand(i)' => why'[i] = "none"
  BY <1>1 DEF Books
<1>5. \A i \in Jobs : said'[i] = "moved" => state'[i] \in {"failed", "elsewhere"}
  BY <1>1 DEF Books
<1>6. \A i \in Open' : InHand(i)' \/ (said'[i] = "moved" /\ pc' \in {"run", "ended", "settle"})
  BY <1>1, <1>2 DEF Books
<1>7. errors' = 0 /\ stop' # "force" => \A i \in Jobs : InHand(i)' => i \in Open'
  BY <1>1 DEF Books
<1> QED BY <1>3, <1>4, <1>5, <1>6, <1>7 DEF Books

(* ... or one job gets its outcome and is let go. *)
LEMMA BooksEnd ==
  ASSUME Typed, Shape, Books, NEW j \in Open, NEW W, Outcome(j, W), said' = said,
         said[j] = "moved" => "value" \notin W,
         Open' \subseteq Open, j \notin Open',
         (pc \in {"run", "ended", "settle"} /\ pc' \notin {"run", "ended", "settle"}) =>
             \A i \in Open' : said[i] # "moved",
         (errors' = 0 /\ stop' # "force") =>
             errors = 0 /\ stop # "force" /\ \A i \in Open : InHand(i) /\ i # j => i \in Open'
  PROVE  Books'
<1>1. j \in Jobs /\ j \notin Rng(queue) /\ Open \subseteq Jobs /\ Rng(queue) \subseteq Jobs
  BY OpenFacts, LineFacts DEF Typed
<1>2. /\ queue' = queue
      /\ \A i \in Jobs : i # j => state'[i] = state[i] /\ why'[i] = why[i]
      /\ state'[j] \in {"completed", "failed", "elsewhere"}
      /\ state'[j] = "completed" => why'[j] = "value"
      /\ why'[j] \in W \cup {"none"}
  BY <1>1, OutcomeFacts
<1>3. \A i \in Jobs : i # j => (InHand(i)' <=> InHand(i))
  BY <1>2 DEF InHand
<1>4. ~InHand(j)' /\ state'[j] # "waiting"
  BY <1>2 DEF InHand
<1>5. \A i \in Rng(queue)' : state'[i] = "waiting"
  BY <1>1, <1>2 DEF Books, Rng
<1>6. \A i \in Jobs : state'[i] = "waiting" \/ InHand(i)' => why'[i] = "none"
  BY <1>2, <1>3, <1>4 DEF Books
<1>7. \A i \in Jobs : said'[i] = "moved" => state'[i] \in {"failed", "elsewhere"}
  BY <1>2 DEF Books
<1>8. \A i \in Open' : InHand(i)' \/ (said'[i] = "moved" /\ pc' \in {"run", "ended", "settle"})
  BY <1>1, <1>2, <1>3 DEF Books
<1>9. errors' = 0 /\ stop' # "force" => \A i \in Jobs : InHand(i)' => i \in Open'
  BY <1>3, <1>4 DEF Books
<1> QED BY <1>5, <1>6, <1>7, <1>8, <1>9 DEF Books

(* The processor has ended. *)
LEMMA BooksSaid ==
  ASSUME Typed, Shape, Books, UNCHANGED server, stop' = stop, Open' = Open,
         pc' \in {"run", "ended", "settle"}, errors' = 0 => errors = 0,
         \A i \in Jobs : said'[i] = "moved" <=> said[i] = "moved"
  PROVE  Books'
<1>1. Rng(queue) \subseteq Jobs /\ Open \subseteq Jobs
  BY OpenFacts, LineFacts DEF Typed
<1>2. state' = state /\ why' = why /\ queue' = queue
  BY DEF server
<1>3. \A i \in Jobs : said'[i] = "moved" => state'[i] \in {"failed", "elsewhere"}
  BY <1>2 DEF Books
<1>4. \A i \in Open' : InHand(i)' \/ (said'[i] = "moved" /\ pc' \in {"run", "ended", "settle"})
  BY <1>1, <1>2 DEF Books, InHand
<1>5. errors' = 0 /\ stop' # "force" => \A i \in Jobs : InHand(i)' => i \in Open'
  BY <1>2 DEF Books, InHand
<1> QED BY <1>2, <1>3, <1>4, <1>5 DEF Books, InHand, Rng

(* OwnOutcome, when the outcome fits what the processor said. *)
LEMMA OwnStays ==
  ASSUME OwnOutcome, UNCHANGED <<why, said>>, revoked \subseteq revoked'
  PROVE  OwnOutcome'
BY DEF OwnOutcome

LEMMA OwnEnds ==
  ASSUME Typed, OwnOutcome, NEW j \in Jobs, NEW W, Outcome(j, W), said' = said, revoked \subseteq revoked',
         "value" \in W => said[j] = "value",
         "error" \in W => said[j] \in {"error", "aborted", "bad", "park", "moved"},
         "revoked" \in W => j \in revoked
  PROVE  OwnOutcome'
<1>1. /\ \A i \in Jobs : i # j => why'[i] = why[i]
      /\ why'[j] \in W \cup {"none"}
  BY OutcomeFacts
<1> QED BY <1>1 DEF OwnOutcome

LEMMA OwnSaid ==
  ASSUME OwnOutcome, why' = why, revoked' = revoked, \A i \in Jobs : said'[i] = said[i] \/ why[i] = "none"
  PROVE  OwnOutcome'
BY DEF OwnOutcome

LEMMA OwnBack ==
  ASSUME Typed, OwnOutcome, NEW j \in Jobs, NEW s, Put(j, s, "none"), said' = said, revoked \subseteq revoked'
  PROVE  OwnOutcome'
BY DEF OwnOutcome, Put, Typed

(* The slot comes free. *)
LEMMA SlotFrees ==
  ASSUME Typed, Shape, Timers, Return, mode' = mode, source' = source,
         heartbeats' = {}, controllers' = {}
  PROVE  /\ Shape' /\ Timers' /\ Open' = {}
         /\ InOrder /\ queue' = queue => InOrder'
         /\ OwnOutcome' => Verdicts'
         /\ IsLine(claims') /\ IsLine(batch') /\ IsLine(back') /\ IsLine(done')
         /\ reply' \in Seq(Replies) /\ at' \in Nat \ {0} /\ pc' \in Pcs /\ pc' = "idle"
<1>1. /\ pc' = "idle" /\ at' = 1 /\ claims' = <<>> /\ reply' = <<>> /\ batch' = <<>> /\ kind' = "none"
      /\ back' = <<>> /\ done' = <<>>
  BY DEF Return, Goto
<1>2. Shape'
  <2>1. Len(claims') = 0 /\ Len(batch') = 0
    BY <1>1
  <2>2. ~HandedBack'
    BY <1>1 DEF HandedBack
  <2> QED BY <1>1, <2>1, <2>2 DEF Shape, Fresh
<1>3. Timers'
  BY <1>1, EmptyLine DEF Timers
<1>4. Open' = {}
  BY <1>1 DEF Open
<1>5. ASSUME InOrder, queue' = queue PROVE InOrder'
  BY <1>1, <1>5 DEF InOrder, FromList, Ordered
<1>6. ASSUME OwnOutcome' PROVE Verdicts'
  BY <1>1, <1>6, EmptyLine DEF Verdicts
<1>7. /\ IsLine(claims') /\ IsLine(batch') /\ IsLine(back') /\ IsLine(done')
      /\ reply' \in Seq(Replies) /\ at' \in Nat \ {0} /\ pc' \in Pcs
  BY <1>1, EmptyLine DEF Pcs
<1> QED BY <1>1, <1>2, <1>3, <1>4, <1>5, <1>6, <1>7

LEMMA SlotFacts ==
  ASSUME SlotInv
  PROVE  /\ Typed /\ Shape /\ Books /\ Verdicts /\ Timers /\ (Races = {} => InOrder)
         /\ IsLine(queue) /\ IsLine(claims) /\ IsLine(batch) /\ IsLine(back) /\ IsLine(done)
         /\ Len(claims) \in Nat /\ Len(batch) \in Nat /\ Len(done) \in Nat
         /\ at \in Nat \ {0} /\ errors \in Nat /\ reply \in Seq(Replies)
         /\ DOMAIN reply = 1 .. Len(reply) /\ DOMAIN reply \subseteq Nat /\ Len(reply) \in Nat
         /\ OwnOutcome
BY LineFacts DEF SlotInv, Typed, Verdicts

LEMMA EmptyOrder ==
  /\ Ordered(<<>>) /\ Descending(<<>>)
  /\ \A s : Ahead(<<>>, s) /\ Ahead(s, <<>>)
BY EmptyLine DEF Ordered, Descending, Ahead

(* A claim that is looked at stands behind those before it. *)
LEMMA AheadBefore ==
  ASSUME NEW s, IsLine(s), Ordered(s), NEW i \in DOMAIN s, NEW t, Rng(t) \subseteq Before(s, i)
  PROVE  \A k \in Rng(t) : Position(k) < Position(s[i])
<1>1. \A n \in 1 .. (i - 1) : n \in DOMAIN s /\ n < i
  BY LineFacts
<1>2. \A k \in Before(s, i) : Position(k) < Position(s[i])
  BY <1>1 DEF Before, Ordered
<1> QED BY <1>2

LEMMA OrderedAppend ==
  ASSUME NEW s, IsLine(s), Ordered(s), NEW j \in Jobs, j \notin Rng(s),
         \A k \in Rng(s) : Position(k) < Position(j), NEW t, t = Append(s, j)
  PROVE  Ordered(t)
<1>1. /\ DOMAIN t = 1 .. Len(t) /\ t[Len(t)] = j
      /\ \A k \in DOMAIN s : k \in DOMAIN t /\ t[k] = s[k]
      /\ \A k \in DOMAIN t : k \in DOMAIN s \/ k = Len(t)
  BY AppendLine, LineFacts
<1>2. Len(t) = Len(s) + 1 /\ DOMAIN s = 1 .. Len(s) /\ Len(s) \in Nat
  BY AppendLine, LineFacts
<1> SUFFICES ASSUME NEW m \in DOMAIN t, NEW n \in DOMAIN t, m < n PROVE Position(t[m]) < Position(t[n])
  BY DEF Ordered
<1>3. m \in DOMAIN s /\ t[m] = s[m]
  BY <1>1, <1>2
<1>4. CASE n \in DOMAIN s
  BY <1>1, <1>3, <1>4 DEF Ordered
<1>5. CASE n = Len(t)
  <2>1. s[m] \in Rng(s)
    BY <1>3, LineFacts
  <2> QED BY <1>1, <1>3, <1>5, <2>1
<1> QED BY <1>1, <1>4, <1>5

-----------------------------------------------------------------------------
(* From the read to the batch *)

LEMMA AnsweredStep ==
  ASSUME SlotInv, Answered
  PROVE  SlotInv'
<1>step. /\ pc = "activate" /\ at > Len(claims)
         /\ pc' = "handle" /\ at' = 1
         /\ UNCHANGED <<mode, source, state, why, queue, revoked, queuePaused, claims, reply, batch,
            kind, said, back, done, heartbeats, controllers, aborted, seenPaused, stop, errors>>
  BY DEF Answered, Goto, Step, Works, Breaks, server, outside, run, timers
<1>inv. Typed /\ Shape /\ Books /\ Verdicts /\ Timers /\ (Races = {} => InOrder)
  BY SlotFacts
<1>types. /\ IsLine(queue) /\ IsLine(claims) /\ IsLine(batch) /\ IsLine(back) /\ IsLine(done)
          /\ Len(claims) \in Nat /\ Len(batch) \in Nat /\ Len(done) \in Nat
          /\ at \in Nat \ {0} /\ errors \in Nat /\ reply \in Seq(Replies) /\ OwnOutcome
          /\ DOMAIN reply = 1 .. Len(reply) /\ DOMAIN reply \subseteq Nat /\ Len(reply) \in Nat
  BY SlotFacts
<1>here. /\ ~Batch => Len(claims) <= 1 /\ Len(batch) <= 1 /\ done = <<>>
         /\ Fresh
         /\ Len(reply) = Len(claims) /\ 1 <= Len(claims) + 1
         /\ heartbeats = {} /\ controllers = {}
  BY <1>step, <1>inv, <1>types, LineFacts DEF Shape, Timers
<1>typed. Typed'
  BY <1>step, <1>inv, <1>types DEF Typed, Pcs
<1>shape. Shape'
  BY <1>step, <1>here, EmptyLine DEF Shape, Fresh, Batch, HandedBack
<1>open. Open' = Open
  BY <1>step, <1>types, <1>here, EmptyLine DEF Open, Fresh
<1>books. Books'
  BY <1>step, <1>inv, <1>types, <1>open, BooksStay
<1>verdicts. Verdicts'
  BY <1>step, <1>inv, <1>types, <1>here, OwnStays DEF Verdicts
<1>timers. Timers'
  BY <1>step, <1>inv, <1>here, EmptyLine DEF Timers, HandedBack
<1>lined. FromList /\ Races = {} =>
        /\ Ordered(queue) /\ Ordered(claims) /\ Ahead(claims, queue) /\ PauseLasts
  BY <1>step, <1>inv DEF InOrder
<1>order. ASSUME Races = {} PROVE InOrder'
  BY <1>order, <1>step, <1>lined, <1>here, EmptyOrder DEF InOrder, FromList, PauseLasts, Fresh
<1> QED BY <1>typed, <1>shape, <1>books, <1>verdicts, <1>timers, <1>order DEF SlotInv

LEMMA ActivateThrowsStep ==
  ASSUME SlotInv, ActivateThrows
  PROVE  SlotInv'
<1>step. /\ pc = "activate"
         /\ Return
         /\ errors' = errors + 1
         /\ UNCHANGED <<mode, source, state, why, queue, revoked, queuePaused, said, heartbeats,
            controllers, aborted, seenPaused, stop>>
  BY DEF ActivateThrows, Goto, Step, Works, Breaks, server, outside, run, timers
<1>inv. Typed /\ Shape /\ Books /\ Verdicts /\ Timers /\ (Races = {} => InOrder)
  BY SlotFacts
<1>types. /\ IsLine(queue) /\ IsLine(claims) /\ IsLine(batch) /\ IsLine(back) /\ IsLine(done)
          /\ Len(claims) \in Nat /\ Len(batch) \in Nat /\ Len(done) \in Nat
          /\ at \in Nat \ {0} /\ errors \in Nat /\ reply \in Seq(Replies) /\ OwnOutcome
          /\ DOMAIN reply = 1 .. Len(reply) /\ DOMAIN reply \subseteq Nat /\ Len(reply) \in Nat
  BY SlotFacts
<1>here. /\ ~Batch => Len(claims) <= 1 /\ Len(batch) <= 1 /\ done = <<>>
         /\ Fresh
         /\ heartbeats = {} /\ controllers = {}
  BY <1>step, <1>inv, <1>types, LineFacts DEF Shape, Timers, Fresh
<1>free. /\ Shape' /\ Timers' /\ Open' = {} /\ (Races = {} => InOrder') /\ (OwnOutcome' => Verdicts')
         /\ IsLine(claims') /\ IsLine(batch') /\ IsLine(back') /\ IsLine(done')
         /\ reply' \in Seq(Replies) /\ at' \in Nat \ {0} /\ pc' \in Pcs /\ pc' = "idle"
  BY <1>step, <1>inv, <1>here, SlotFrees
<1>typed. Typed'
  BY <1>step, <1>inv, <1>types, <1>free DEF Typed, Pcs
<1>shape. Shape'
  BY <1>step, <1>here, <1>free DEF Shape, Fresh, Batch, HandedBack
<1>books. Books'
  BY <1>step, <1>inv, <1>types, <1>free, BooksStay
<1>verdicts. Verdicts'
  BY <1>step, <1>inv, <1>types, <1>here, <1>free, OwnStays DEF Verdicts
<1>timers. Timers'
  BY <1>step, <1>inv, <1>here, <1>free DEF Timers, HandedBack
<1>order. ASSUME Races = {} PROVE InOrder'
  BY <1>order, <1>step, <1>inv, <1>here, <1>free DEF InOrder, FromList, HandedBack
<1> QED BY <1>typed, <1>shape, <1>books, <1>verdicts, <1>timers, <1>order DEF SlotInv

LEMMA SkipStep ==
  ASSUME SlotInv, Skip
  PROVE  SlotInv'
<1>step. /\ pc = "handle" /\ at <= Len(claims) /\ reply[at] \in {"error", "parked"}
         /\ pc' = pc /\ at' = at + 1
         /\ UNCHANGED <<mode, source, state, why, queue, revoked, queuePaused, claims, reply, batch,
            kind, said, back, done, heartbeats, controllers, aborted, seenPaused, stop, errors>>
  BY DEF Skip, Handling, Goto, Step, Works, Breaks, server, outside, run, timers
<1>inv. Typed /\ Shape /\ Books /\ Verdicts /\ Timers /\ (Races = {} => InOrder)
  BY SlotFacts
<1>types. /\ IsLine(queue) /\ IsLine(claims) /\ IsLine(batch) /\ IsLine(back) /\ IsLine(done)
          /\ Len(claims) \in Nat /\ Len(batch) \in Nat /\ Len(done) \in Nat
          /\ at \in Nat \ {0} /\ errors \in Nat /\ reply \in Seq(Replies) /\ OwnOutcome
          /\ DOMAIN reply = 1 .. Len(reply) /\ DOMAIN reply \subseteq Nat /\ Len(reply) \in Nat
  BY SlotFacts
<1>here. /\ ~Batch => Len(claims) <= 1 /\ Len(batch) <= 1 /\ done = <<>>
         /\ done = <<>> /\ ~HandedBack /\ Len(reply) = Len(claims) /\ controllers = {}
         /\ at \in DOMAIN claims /\ at \in DOMAIN reply /\ at + 1 <= Len(claims) + 1
         /\ Rng(batch) \cup Rng(back) \subseteq Before(claims, at) /\ Rng(batch) \cap Rng(back) = {}
         /\ Before(claims, at + 1) = Before(claims, at) \cup {claims[at]} /\ claims[at] \notin
            Before(claims, at)
         /\ claims[at] \in Jobs /\ claims[at] \in Rng(claims)
         /\ \A n \in DOMAIN reply : n >= at + 1 => n >= at /\ at < n
  BY <1>step, <1>inv, <1>types, LineFacts, BeforeFacts DEF Shape, Fresh, Timers
<1>typed. Typed'
  BY <1>step, <1>inv, <1>types DEF Typed, Pcs
<1>shape. Shape'
  BY <1>step, <1>here DEF Shape, Fresh, Batch, HandedBack
<1>open. Open' = Open
  BY <1>step, <1>types, <1>here, RestStep DEF Open, Kept
<1>books. Books'
  BY <1>step, <1>inv, <1>types, <1>open, BooksStay
<1>verdicts. Verdicts'
  BY <1>step, <1>inv, <1>types, <1>here, OwnStays DEF Verdicts
<1>timers. Timers'
  BY <1>step, <1>inv, <1>here DEF Timers, HandedBack
<1>lined. FromList /\ Races = {} =>
        /\ Ordered(queue) /\ Ordered(claims) /\ Ahead(claims, queue)
        /\ PauseLasts /\ Ordered(back) /\ Ahead(batch, back) /\ Ahead(batch, queue)
        /\ back # <<>> => \A n \in DOMAIN reply : n >= at => reply[n] # "hash"
  BY <1>step, <1>inv DEF InOrder
<1>order. ASSUME Races = {} PROVE InOrder'
  BY <1>order, <1>step, <1>lined, <1>here DEF InOrder, FromList, PauseLasts
<1> QED BY <1>typed, <1>shape, <1>books, <1>verdicts, <1>timers, <1>order DEF SlotInv

LEMMA KeepPausedStep ==
  ASSUME SlotInv, KeepPaused
  PROVE  SlotInv'
<1>step. /\ pc = "handle" /\ at <= Len(claims) /\ reply[at] = "PAUSED"
         /\ pc' = pc /\ at' = at + 1 /\ back' = Append(back, claims[at]) /\ seenPaused' = TRUE
         /\ UNCHANGED <<mode, source, state, why, queue, revoked, queuePaused, claims, reply, batch,
            kind, said, done, heartbeats, controllers, aborted, stop, errors>>
  BY DEF KeepPaused, Handling, Goto, Step, Works, Breaks, server, outside, run, timers
<1>inv. Typed /\ Shape /\ Books /\ Verdicts /\ Timers /\ (Races = {} => InOrder)
  BY SlotFacts
<1>types. /\ IsLine(queue) /\ IsLine(claims) /\ IsLine(batch) /\ IsLine(back) /\ IsLine(done)
          /\ Len(claims) \in Nat /\ Len(batch) \in Nat /\ Len(done) \in Nat
          /\ at \in Nat \ {0} /\ errors \in Nat /\ reply \in Seq(Replies) /\ OwnOutcome
          /\ DOMAIN reply = 1 .. Len(reply) /\ DOMAIN reply \subseteq Nat /\ Len(reply) \in Nat
  BY SlotFacts
<1>here. /\ ~Batch => Len(claims) <= 1 /\ Len(batch) <= 1 /\ done = <<>>
         /\ done = <<>> /\ ~HandedBack /\ Len(reply) = Len(claims) /\ controllers = {}
         /\ at \in DOMAIN claims /\ at \in DOMAIN reply /\ at + 1 <= Len(claims) + 1
         /\ Rng(batch) \cup Rng(back) \subseteq Before(claims, at) /\ Rng(batch) \cap Rng(back) = {}
         /\ Before(claims, at + 1) = Before(claims, at) \cup {claims[at]} /\ claims[at] \notin
            Before(claims, at)
         /\ claims[at] \in Jobs /\ claims[at] \in Rng(claims)
         /\ \A n \in DOMAIN reply : n >= at + 1 => n >= at /\ at < n
  BY <1>step, <1>inv, <1>types, LineFacts, BeforeFacts DEF Shape, Fresh, Timers
<1>more. IsLine(back') /\ Rng(back') = Rng(back) \cup {claims[at]}
  BY <1>step, <1>types, <1>here, AppendLine
<1>typed. Typed'
  BY <1>step, <1>inv, <1>types, <1>more DEF Typed, Pcs
<1>shape. Shape'
  BY <1>step, <1>here, <1>more DEF Shape, Fresh, Batch, HandedBack
<1>open. Open' = Open
  BY <1>step, <1>types, <1>here, <1>more, RestStep DEF Open, Kept
<1>books. Books'
  BY <1>step, <1>inv, <1>types, <1>open, BooksStay
<1>verdicts. Verdicts'
  BY <1>step, <1>inv, <1>types, <1>here, OwnStays DEF Verdicts
<1>timers. Timers'
  BY <1>step, <1>inv, <1>here DEF Timers, HandedBack
<1>lined. FromList /\ Races = {} =>
        /\ Ordered(queue) /\ Ordered(claims) /\ Ahead(claims, queue)
        /\ PauseLasts /\ Ordered(back) /\ Ahead(batch, back) /\ Ahead(batch, queue)
        /\ back # <<>> => \A n \in DOMAIN reply : n >= at => reply[n] # "hash"
  BY <1>step, <1>inv DEF InOrder
<1>order. ASSUME Races = {} PROVE InOrder'
  <2>1. CASE FromList
    <3>1. Ordered(back')
      <4>1. \A k \in Rng(back) : Position(k) < Position(claims[at])
        BY <1>order, <1>types, <1>here, <1>lined, <2>1, AheadBefore
      <4> QED BY <1>order, <1>step, <1>types, <1>here, <1>lined, <2>1, <4>1, OrderedAppend
    <3>2. Ahead(batch, back')
      <4>1. \A k \in Rng(batch) : Position(k) < Position(claims[at])
        BY <1>order, <1>types, <1>here, <1>lined, <2>1, AheadBefore
      <4> QED BY <1>order, <1>more, <1>lined, <2>1, <4>1 DEF Ahead
    <3>3. \A n \in DOMAIN reply : n >= at + 1 => reply[n] # "hash"
      BY <1>order, <1>step, <1>here, <1>lined, <2>1 DEF PauseLasts
    <3> QED BY <1>order, <1>step, <1>here, <1>lined, <2>1, <3>1, <3>2, <3>3 DEF InOrder, FromList, PauseLasts
  <2> QED BY <1>step, <2>1 DEF InOrder, FromList
<1> QED BY <1>typed, <1>shape, <1>books, <1>verdicts, <1>timers, <1>order DEF SlotInv

LEMMA ActivateRefusedStep ==
  ASSUME SlotInv, ActivateRefused
  PROVE  SlotInv'
<1>step. /\ pc = "activate" /\ at <= Len(claims)
         /\ pc' = pc /\ at' = at + 1 /\ reply' = Append(reply, "error") /\ errors' = errors + 1
         /\ UNCHANGED <<mode, source, state, why, queue, revoked, queuePaused, claims, batch, kind,
            said, back, done, heartbeats, controllers, aborted, seenPaused, stop>>
  BY DEF ActivateRefused, Goto, Step, Works, Breaks, server, outside, run, timers
<1>inv. Typed /\ Shape /\ Books /\ Verdicts /\ Timers /\ (Races = {} => InOrder)
  BY SlotFacts
<1>types. /\ IsLine(queue) /\ IsLine(claims) /\ IsLine(batch) /\ IsLine(back) /\ IsLine(done)
          /\ Len(claims) \in Nat /\ Len(batch) \in Nat /\ Len(done) \in Nat
          /\ at \in Nat \ {0} /\ errors \in Nat /\ reply \in Seq(Replies) /\ OwnOutcome
          /\ DOMAIN reply = 1 .. Len(reply) /\ DOMAIN reply \subseteq Nat /\ Len(reply) \in Nat
  BY SlotFacts
<1>here. /\ ~Batch => Len(claims) <= 1 /\ Len(batch) <= 1 /\ done = <<>>
         /\ Fresh /\ Len(reply) = at - 1 /\ at \in DOMAIN claims /\ at + 1 <= Len(claims) + 1
         /\ claims[at] \in Jobs /\ claims[at] \in Rng(claims)
         /\ heartbeats = {} /\ controllers = {}
  BY <1>step, <1>inv, <1>types, LineFacts DEF Shape, Timers
<1>more. /\ reply' \in Seq(Replies) /\ Len(reply') = at /\ Len(reply') = (at + 1) - 1 /\ reply'[at] = "error"
         /\ \A k \in DOMAIN reply' : k # at => k \in DOMAIN reply /\ reply'[k] = reply[k]
         /\ DOMAIN reply' = 1 .. at
         /\ Rest(claims, 1, reply', Kept) \subseteq Rest(claims, 1, reply, Kept)
         /\ Rest(claims, 1, reply, Kept) \subseteq Rest(claims, 1, reply', Kept) \cup {claims[at]}
         /\ claims[at] \in Rest(claims, 1, reply, Kept)
         /\ claims[at] \in Rest(claims, 1, reply', Kept) <=> "error" \in Kept
  <2>1. /\ reply' \in Seq(Replies) /\ Len(reply') = at /\ DOMAIN reply' = 1 .. at /\ reply'[at] = "error"
        /\ \A k \in DOMAIN reply' : k # at => k \in DOMAIN reply /\ reply'[k] = reply[k]
        /\ \A k \in DOMAIN reply : k \in DOMAIN reply' /\ k # at /\ reply'[k] = reply[k]
    <3>1. reply \in Seq(Replies) /\ Len(reply) = at - 1 /\ at \in Nat /\ "error" \in Replies /\ reply' = Append(reply, "error")
      BY <1>step, <1>types, <1>here DEF Replies
    <3> QED BY <3>1, AnswerFacts
  <2>2. at \notin DOMAIN reply /\ at \in DOMAIN reply' /\ IsLine(claims) /\ at \in DOMAIN claims
    BY <1>types, <1>here, <2>1
  <2>3. /\ Rest(claims, 1, reply', Kept) \subseteq Rest(claims, 1, reply, Kept)
        /\ Rest(claims, 1, reply, Kept) \subseteq Rest(claims, 1, reply', Kept) \cup {claims[at]}
        /\ claims[at] \in Rest(claims, 1, reply, Kept)
        /\ claims[at] \in Rest(claims, 1, reply', Kept) <=> reply'[at] \in Kept
    BY <2>1, <2>2, RestAnswer
  <2> QED BY <1>types, <2>1, <2>3
<1>typed. Typed'
  BY <1>step, <1>inv, <1>types, <1>more DEF Typed, Pcs
<1>shape. Shape'
  BY <1>step, <1>here, <1>more DEF Shape, Fresh, Batch, HandedBack
<1>open. Open' \subseteq Open
  BY <1>step, <1>types, <1>here, <1>more DEF Open
<1>books. Books'
  BY <1>step, <1>inv, <1>types, <1>open, BooksStay
<1>verdicts. Verdicts'
  BY <1>step, <1>inv, <1>types, <1>here, <1>more, OwnStays DEF Verdicts
<1>timers. Timers'
  BY <1>step, <1>inv, <1>here DEF Timers, HandedBack
<1>lined. FromList /\ Races = {} =>
        /\ Ordered(queue) /\ Ordered(claims) /\ Ahead(claims, queue) /\ PauseLasts
        /\ \A m \in DOMAIN reply : reply[m] = "PAUSED" => queuePaused
  BY <1>step, <1>inv DEF InOrder
<1>order. ASSUME Races = {} PROVE InOrder'
  BY <1>order, <1>step, <1>types, <1>lined, <1>more DEF InOrder, FromList, PauseLasts
<1> QED BY <1>typed, <1>shape, <1>books, <1>verdicts, <1>timers, <1>order DEF SlotInv

LEMMA ActivateStep ==
  ASSUME SlotInv, Activate
  PROVE  SlotInv'
<1>step. /\ pc = "activate" /\ at <= Len(claims)
         /\ pc' = pc /\ at' = at + 1
         /\ UNCHANGED <<mode, source, queue, revoked, queuePaused, claims, batch, kind, said, back,
            done, heartbeats, controllers, aborted, seenPaused, stop, errors>>
  BY DEF Activate, Goto, Step, Works, Breaks, server, outside, run, timers
<1>inv. Typed /\ Shape /\ Books /\ Verdicts /\ Timers /\ (Races = {} => InOrder)
  BY SlotFacts
<1>types. /\ IsLine(queue) /\ IsLine(claims) /\ IsLine(batch) /\ IsLine(back) /\ IsLine(done)
          /\ Len(claims) \in Nat /\ Len(batch) \in Nat /\ Len(done) \in Nat
          /\ at \in Nat \ {0} /\ errors \in Nat /\ reply \in Seq(Replies) /\ OwnOutcome
          /\ DOMAIN reply = 1 .. Len(reply) /\ DOMAIN reply \subseteq Nat /\ Len(reply) \in Nat
  BY SlotFacts
<1>here. /\ ~Batch => Len(claims) <= 1 /\ Len(batch) <= 1 /\ done = <<>>
         /\ Fresh /\ Len(reply) = at - 1 /\ at \in DOMAIN claims /\ at + 1 <= Len(claims) + 1
         /\ claims[at] \in Jobs /\ claims[at] \in Rng(claims)
         /\ heartbeats = {} /\ controllers = {}
  BY <1>step, <1>inv, <1>types, LineFacts DEF Shape, Timers
<1>pick. PICK r \in Replies :
        /\ reply' = Append(reply, r)
        /\ r = "REVOKED" => claims[at] \in revoked
        /\ r = "PAUSED" => queuePaused
        /\ r = "hash" => ~queuePaused /\ Put(claims[at], "active", "none")
        /\ r = "parked" => Put(claims[at], "elsewhere", "none")
        /\ r \notin {"hash", "parked"} => UNCHANGED <<state, why>>
        /\ r \in {"hash", "parked"} \cup Kept
  BY <1>step DEF Activate, Answer, Replies, Kept
<1>more. /\ reply' \in Seq(Replies) /\ Len(reply') = at /\ Len(reply') = (at + 1) - 1 /\ reply'[at] = r
         /\ \A k \in DOMAIN reply' : k # at => k \in DOMAIN reply /\ reply'[k] = reply[k]
         /\ DOMAIN reply' = 1 .. at
         /\ Rest(claims, 1, reply', Kept) \subseteq Rest(claims, 1, reply, Kept)
         /\ Rest(claims, 1, reply, Kept) \subseteq Rest(claims, 1, reply', Kept) \cup {claims[at]}
         /\ claims[at] \in Rest(claims, 1, reply, Kept)
         /\ claims[at] \in Rest(claims, 1, reply', Kept) <=> r \in Kept
  <2>1. /\ reply' \in Seq(Replies) /\ Len(reply') = at /\ DOMAIN reply' = 1 .. at /\ reply'[at] = r
        /\ \A k \in DOMAIN reply' : k # at => k \in DOMAIN reply /\ reply'[k] = reply[k]
        /\ \A k \in DOMAIN reply : k \in DOMAIN reply' /\ k # at /\ reply'[k] = reply[k]
    <3>1. reply \in Seq(Replies) /\ Len(reply) = at - 1 /\ at \in Nat /\ r \in Replies /\ reply' = Append(reply, r)
      BY <1>step, <1>types, <1>here, <1>pick DEF Replies
    <3> QED BY <3>1, AnswerFacts
  <2>2. at \notin DOMAIN reply /\ at \in DOMAIN reply' /\ IsLine(claims) /\ at \in DOMAIN claims
    BY <1>types, <1>here, <2>1
  <2>3. /\ Rest(claims, 1, reply', Kept) \subseteq Rest(claims, 1, reply, Kept)
        /\ Rest(claims, 1, reply, Kept) \subseteq Rest(claims, 1, reply', Kept) \cup {claims[at]}
        /\ claims[at] \in Rest(claims, 1, reply, Kept)
        /\ claims[at] \in Rest(claims, 1, reply', Kept) <=> reply'[at] \in Kept
    BY <2>1, <2>2, RestAnswer
  <2> QED BY <1>types, <2>1, <2>3
<1>hand. claims[at] \in Open /\ InHand(claims[at]) /\ why[claims[at]] = "none"
  <2>1. claims[at] \in Open
    BY <1>step, <1>more DEF Open
  <2> QED BY <1>step, <1>inv, <1>here, <2>1 DEF Books
<1>effect. /\ state' \in [Jobs -> {"waiting", "claimed", "active", "completed", "failed", "elsewhere"}]
           /\ why' \in [Jobs -> {"none", "value", "error", "revoked"}]
           /\ r # "parked" => \A i \in Jobs : /\ why'[i] = why[i]
                                              /\ state'[i] = state[i] \/ (InHand(i) /\ InHand(i)')
           /\ r = "parked" => Outcome(claims[at], {})
  <2>1. CASE r = "hash"
    BY <1>pick, <1>hand, <1>here, <1>inv, <2>1 DEF Put, Typed, InHand
  <2>2. CASE r = "parked"
    <3>1. Outcome(claims[at], {})
      BY <1>pick, <1>step, <2>2, ParkOutcome
    <3> QED BY <1>inv, <1>here, <2>2, <3>1, OutcomeFacts
  <2>3. CASE r \notin {"hash", "parked"}
    BY <1>pick, <1>inv, <2>3 DEF Typed
  <2> QED BY <2>1, <2>2, <2>3
<1>typed. Typed'
  BY <1>step, <1>inv, <1>types, <1>more, <1>effect DEF Typed, Pcs
<1>shape. Shape'
  BY <1>step, <1>here, <1>more DEF Shape, Fresh, Batch, HandedBack
<1>open. Open' \subseteq Open /\ Open \subseteq Open' \cup {claims[at]} /\ (claims[at] \in Open' <=> r \in Kept)
  BY <1>step, <1>types, <1>here, <1>more DEF Open
<1>books. Books'
  <2>1. CASE r # "parked"
    <3>1. Open' = Open
      BY <1>open, <1>hand, <1>pick, <2>1 DEF Kept
    <3> QED BY <1>step, <1>inv, <1>effect, <2>1, <3>1, BooksStay
  <2>2. CASE r = "parked"
    <3>1. claims[at] \notin Open' /\ claims[at] \in Open
      BY <1>open, <1>hand, <2>2 DEF Kept
    <3>2. Outcome(claims[at], {}) /\ pc \notin {"run", "ended", "settle"}
      BY <1>effect, <1>step, <2>2
    <3> QED BY <1>step, <1>inv, <1>open, <3>1, <3>2, BooksEnd
  <2> QED BY <2>1, <2>2
<1>verdicts. Verdicts'
  <2>1. OwnOutcome'
    <3>1. CASE r # "parked"
      BY <1>step, <1>types, <1>effect, <3>1 DEF OwnOutcome
    <3>2. CASE r = "parked"
      <4>1. Outcome(claims[at], {})
        BY <1>effect, <3>2
      <4> QED BY <1>step, <1>inv, <1>types, <1>here, <4>1, OwnEnds
    <3> QED BY <3>1, <3>2
  <2>2. \A k \in DOMAIN reply' : reply'[k] = "REVOKED" => claims[k] \in revoked
    BY <1>step, <1>inv, <1>pick, <1>more DEF Verdicts
  <2>3. done' = <<>>
    BY <1>step, <1>here DEF Fresh
  <2> QED BY <1>step, <2>1, <2>2, <2>3, EmptyLine DEF Verdicts
<1>timers. Timers'
  BY <1>step, <1>inv, <1>here DEF Timers, HandedBack
<1>lined. FromList /\ Races = {} =>
        /\ Ordered(queue) /\ Ordered(claims) /\ Ahead(claims, queue) /\ PauseLasts
        /\ \A m \in DOMAIN reply : reply[m] = "PAUSED" => queuePaused
  BY <1>step, <1>inv DEF InOrder
<1>order. ASSUME Races = {} PROVE InOrder'
  <2>1. CASE FromList
    <3>1. \A m, n \in DOMAIN reply' : reply'[m] = "PAUSED" /\ m < n => reply'[n] # "hash"
      <4> SUFFICES ASSUME NEW m \in DOMAIN reply', NEW n \in DOMAIN reply', reply'[m] = "PAUSED", m < n
                   PROVE  reply'[n] # "hash"
        OBVIOUS
      <4>1. m # at
        BY <1>types, <1>more
      <4>2. m \in DOMAIN reply /\ reply[m] = "PAUSED"
        BY <1>more, <4>1
      <4>3. CASE n = at
        BY <1>order, <1>lined, <1>pick, <1>more, <2>1, <4>2, <4>3
      <4>4. CASE n # at
        BY <1>order, <1>lined, <1>more, <2>1, <4>2, <4>4 DEF PauseLasts
      <4> QED BY <4>3, <4>4
    <3>2. \A m \in DOMAIN reply' : reply'[m] = "PAUSED" => queuePaused
      BY <1>order, <1>lined, <1>pick, <1>more, <2>1
    <3> QED BY <1>order, <1>step, <1>lined, <2>1, <3>1, <3>2 DEF InOrder, FromList, PauseLasts
  <2> QED BY <1>step, <2>1 DEF InOrder, FromList
<1> QED BY <1>typed, <1>shape, <1>books, <1>verdicts, <1>timers, <1>order DEF SlotInv

LEMMA HandleRevokedStep ==
  ASSUME SlotInv, HandleRevoked
  PROVE  SlotInv'
<1>step. /\ pc = "handle" /\ at <= Len(claims) /\ reply[at] = "REVOKED"
         /\ pc' = pc /\ at' = at + 1
         /\ errors' \in {errors, errors + 1}
         /\ UNCHANGED <<mode, source, revoked, queuePaused, claims, reply, batch, kind, said, back,
            done, heartbeats, controllers, aborted, seenPaused, stop>>
  BY DEF HandleRevoked, Handling, MayHave, Goto, Step, Works, Breaks, server, outside, run,
         timers
<1>inv. Typed /\ Shape /\ Books /\ Verdicts /\ Timers /\ (Races = {} => InOrder)
  BY SlotFacts
<1>types. /\ IsLine(queue) /\ IsLine(claims) /\ IsLine(batch) /\ IsLine(back) /\ IsLine(done)
          /\ Len(claims) \in Nat /\ Len(batch) \in Nat /\ Len(done) \in Nat
          /\ at \in Nat \ {0} /\ errors \in Nat /\ reply \in Seq(Replies) /\ OwnOutcome
          /\ DOMAIN reply = 1 .. Len(reply) /\ DOMAIN reply \subseteq Nat /\ Len(reply) \in Nat
  BY SlotFacts
<1>here. /\ ~Batch => Len(claims) <= 1 /\ Len(batch) <= 1 /\ done = <<>>
         /\ done = <<>> /\ ~HandedBack /\ Len(reply) = Len(claims) /\ controllers = {}
         /\ at \in DOMAIN claims /\ at \in DOMAIN reply /\ at + 1 <= Len(claims) + 1
         /\ Rng(batch) \cup Rng(back) \subseteq Before(claims, at) /\ Rng(batch) \cap Rng(back) = {}
         /\ Before(claims, at + 1) = Before(claims, at) \cup {claims[at]} /\ claims[at] \notin
            Before(claims, at)
         /\ claims[at] \in Jobs /\ claims[at] \in Rng(claims)
         /\ \A n \in DOMAIN reply : n >= at + 1 => n >= at /\ at < n
  BY <1>step, <1>inv, <1>types, LineFacts, BeforeFacts DEF Shape, Fresh, Timers
<1>hand. claims[at] \in Open /\ claims[at] \in Rest(claims, at, reply, Kept) /\ InHand(claims[at])
  <2>1. claims[at] \in Rest(claims, at, reply, Kept)
    BY <1>step, <1>types, <1>here, RestStep DEF Kept
  <2>2. claims[at] \in Open
    BY <1>step, <2>1 DEF Open
  <2> QED BY <1>step, <1>inv, <2>1, <2>2 DEF Books
<1>effect. Outcome(claims[at], {"revoked"}) \/ (UNCHANGED server /\ errors' = errors + 1)
  <2>1. FailJob(claims[at], "revoked") \/ (UNCHANGED server /\ errors' = errors + 1)
    BY DEF HandleRevoked, MayHave, Breaks
  <2> QED BY <2>1, FailJobOutcome
<1>server. /\ state' \in [Jobs -> {"waiting", "claimed", "active", "completed", "failed", "elsewhere"}]
           /\ why' \in [Jobs -> {"none", "value", "error", "revoked"}] /\ queue' = queue /\ errors' \in Nat
  <2>1. CASE Outcome(claims[at], {"revoked"})
    BY <1>step, <1>inv, <1>types, <1>here, <2>1, OutcomeFacts
  <2>2. CASE UNCHANGED server
    BY <1>step, <1>inv, <1>types, <2>2 DEF server, Typed
  <2> QED BY <1>effect, <2>1, <2>2
<1>typed. Typed'
  BY <1>step, <1>inv, <1>types, <1>server DEF Typed, Pcs
<1>shape. Shape'
  BY <1>step, <1>here DEF Shape, Fresh, Batch, HandedBack
<1>open. Open' \subseteq Open /\ Open \subseteq Open' \cup {claims[at]} /\ claims[at] \notin Open'
  BY <1>step, <1>types, <1>here, <1>hand, RestStep DEF Open
<1>books. Books'
  <2>1. CASE Outcome(claims[at], {"revoked"})
    BY <1>step, <1>inv, <1>types, <1>here, <1>open, <2>1, <1>hand, BooksEnd
  <2>2. CASE UNCHANGED server /\ errors' = errors + 1
    BY <1>step, <1>inv, <1>types, <1>open, <2>2, BooksStay DEF server
  <2> QED BY <1>effect, <2>1, <2>2
<1>verdicts. Verdicts'
  <2>1. claims[at] \in revoked
    BY <1>step, <1>inv, <1>here DEF Verdicts
  <2>2. OwnOutcome'
    <3>1. CASE Outcome(claims[at], {"revoked"})
      BY <1>step, <1>inv, <1>types, <1>here, <2>1, <3>1, OwnEnds
    <3>2. CASE UNCHANGED server
      BY <1>step, <1>types, <3>2, OwnStays DEF server
    <3> QED BY <1>effect, <3>1, <3>2
  <2> QED BY <1>step, <1>inv, <2>2 DEF Verdicts
<1>timers. Timers'
  BY <1>step, <1>inv, <1>here DEF Timers, HandedBack
<1>lined. FromList /\ Races = {} =>
        /\ Ordered(queue) /\ Ordered(claims) /\ Ahead(claims, queue)
        /\ PauseLasts /\ Ordered(back) /\ Ahead(batch, back) /\ Ahead(batch, queue)
        /\ back # <<>> => \A n \in DOMAIN reply : n >= at => reply[n] # "hash"
  BY <1>step, <1>inv DEF InOrder
<1>order. ASSUME Races = {} PROVE InOrder'
  BY <1>order, <1>step, <1>lined, <1>here, <1>server DEF InOrder, FromList, PauseLasts
<1> QED BY <1>typed, <1>shape, <1>books, <1>verdicts, <1>timers, <1>order DEF SlotInv

LEMMA ReadyStep ==
  ASSUME SlotInv, Ready
  PROVE  SlotInv'
<1>step. /\ pc = "handle" /\ at <= Len(claims) /\ reply[at] = "hash"
         /\ pc' = pc /\ at' = at + 1
         /\ heartbeats' = heartbeats \cup {claims[at]} /\ batch' = Append(batch, claims[at])
         /\ UNCHANGED <<mode, source, state, why, queue, revoked, queuePaused, claims, reply, kind,
            said, back, done, controllers, aborted, seenPaused, stop, errors>>
  BY DEF Ready, Handling, Goto, Step, Works, Breaks, server, outside, run, timers
<1>inv. Typed /\ Shape /\ Books /\ Verdicts /\ Timers /\ (Races = {} => InOrder)
  BY SlotFacts
<1>types. /\ IsLine(queue) /\ IsLine(claims) /\ IsLine(batch) /\ IsLine(back) /\ IsLine(done)
          /\ Len(claims) \in Nat /\ Len(batch) \in Nat /\ Len(done) \in Nat
          /\ at \in Nat \ {0} /\ errors \in Nat /\ reply \in Seq(Replies) /\ OwnOutcome
          /\ DOMAIN reply = 1 .. Len(reply) /\ DOMAIN reply \subseteq Nat /\ Len(reply) \in Nat
  BY SlotFacts
<1>here. /\ ~Batch => Len(claims) <= 1 /\ Len(batch) <= 1 /\ done = <<>>
         /\ done = <<>> /\ ~HandedBack /\ Len(reply) = Len(claims) /\ controllers = {}
         /\ at \in DOMAIN claims /\ at \in DOMAIN reply /\ at + 1 <= Len(claims) + 1
         /\ Rng(batch) \cup Rng(back) \subseteq Before(claims, at) /\ Rng(batch) \cap Rng(back) = {}
         /\ Before(claims, at + 1) = Before(claims, at) \cup {claims[at]} /\ claims[at] \notin
            Before(claims, at)
         /\ claims[at] \in Jobs /\ claims[at] \in Rng(claims)
         /\ \A n \in DOMAIN reply : n >= at + 1 => n >= at /\ at < n
  BY <1>step, <1>inv, <1>types, LineFacts, BeforeFacts DEF Shape, Fresh, Timers
<1>hand. claims[at] \in Open /\ claims[at] \in Rest(claims, at, reply, Kept) /\ InHand(claims[at])
  <2>1. claims[at] \in Rest(claims, at, reply, Kept)
    BY <1>step, <1>types, <1>here, RestStep DEF Kept
  <2>2. claims[at] \in Open
    BY <1>step, <2>1 DEF Open
  <2> QED BY <1>step, <1>inv, <2>1, <2>2 DEF Books
<1>more. /\ IsLine(batch') /\ Rng(batch') = Rng(batch) \cup {claims[at]}
         /\ ~Batch => Len(batch') <= 1
  <2>1. IsLine(batch') /\ Rng(batch') = Rng(batch) \cup {claims[at]} /\ Len(batch') = Len(batch) + 1
    BY <1>step, <1>types, <1>here, AppendLine
  <2>2. ASSUME ~Batch PROVE Len(batch) = 0
    <3>1. at = 1
      BY <1>types, <1>here, <2>2, LineFacts
    <3>2. Before(claims, at) = {}
      BY <3>1 DEF Before
    <3>3. Rng(batch) = {}
      BY <1>here, <3>2
    <3> QED BY <1>types, <3>3, LineFacts
  <2> QED BY <1>types, <2>1, <2>2
<1>typed. Typed'
  BY <1>step, <1>inv, <1>types, <1>more DEF Typed, Pcs
<1>shape. Shape'
  BY <1>step, <1>here, <1>more DEF Shape, Fresh, Batch, HandedBack
<1>open. Open' = Open
  BY <1>step, <1>types, <1>here, <1>more, <1>hand, RestStep DEF Open
<1>books. Books'
  BY <1>step, <1>inv, <1>types, <1>open, BooksStay
<1>verdicts. Verdicts'
  BY <1>step, <1>inv, <1>types, <1>here, OwnStays DEF Verdicts
<1>timers. Timers'
  BY <1>step, <1>inv, <1>here, <1>more DEF Timers, HandedBack
<1>lined. FromList /\ Races = {} =>
        /\ Ordered(queue) /\ Ordered(claims) /\ Ahead(claims, queue)
        /\ PauseLasts /\ Ordered(back) /\ Ahead(batch, back) /\ Ahead(batch, queue)
        /\ back # <<>> => \A n \in DOMAIN reply : n >= at => reply[n] # "hash"
  BY <1>step, <1>inv DEF InOrder
<1>order. ASSUME Races = {} PROVE InOrder'
  <2>1. CASE FromList
    <3>1. back = <<>>
      BY <1>order, <1>step, <1>types, <1>here, <1>lined, <2>1
    <3>2. Ahead(batch', back') /\ Ordered(back')
      BY <1>step, <3>1, EmptyOrder
    <3>3. Ahead(batch', queue)
      BY <1>order, <1>step, <1>here, <1>more, <1>lined, <2>1 DEF Ahead
    <3> QED BY <1>order, <1>step, <1>here, <1>lined, <2>1, <3>1, <3>2, <3>3 DEF InOrder, FromList, PauseLasts
  <2> QED BY <1>step, <2>1 DEF InOrder, FromList
<1> QED BY <1>typed, <1>shape, <1>books, <1>verdicts, <1>timers, <1>order DEF SlotInv

LEMMA ReversedLine ==
  ASSUME NEW s, IsLine(s), NEW t, t = Reversed(s)
  PROVE  /\ IsLine(t) /\ Rng(t) = Rng(s)
         /\ FromList /\ Ordered(s) => Descending(t)
<1>1. CASE FromList
  <2>1. t = Reverse(s)
    BY <1>1 DEF Reversed
  <2>2. /\ IsLine(t) /\ Len(t) = Len(s) /\ Rng(t) = Rng(s)
        /\ \A k \in DOMAIN t : (Len(s) - k) + 1 \in DOMAIN s /\ t[k] = s[(Len(s) - k) + 1]
    BY <2>1, ReverseLine
  <2>3. ASSUME Ordered(s), NEW m \in DOMAIN t, NEW n \in DOMAIN t, m < n PROVE Position(t[n]) < Position(t[m])
    <3>1. m \in Nat /\ n \in Nat /\ Len(s) \in Nat
      BY <2>2, <2>3, LineFacts
    <3>2. (Len(s) - n) + 1 < (Len(s) - m) + 1
      BY <2>3, <3>1
    <3> QED BY <2>2, <2>3, <3>2 DEF Ordered
  <2> QED BY <2>2, <2>3 DEF Descending
<1>2. CASE ~FromList
  BY <1>2 DEF Reversed
<1> QED BY <1>1, <1>2

LEMMA DivertStep ==
  ASSUME SlotInv, Divert
  PROVE  SlotInv'
<1>step. /\ pc = "handle" /\ at <= Len(claims) /\ reply[at] = "hash"
         /\ Put(claims[at], "elsewhere", "none") /\ queue' = queue
         /\ UNCHANGED <<mode, source, revoked, queuePaused, said, heartbeats, controllers, aborted,
            seenPaused, stop, errors>>
  BY DEF Divert, Handling, Return, Goto, Step, Works, server, outside, run, timers
<1>inv. Typed /\ Shape /\ Books /\ Verdicts /\ Timers /\ (Races = {} => InOrder)
  BY SlotFacts
<1>types. /\ IsLine(queue) /\ IsLine(claims) /\ IsLine(batch) /\ IsLine(back) /\ IsLine(done)
          /\ Len(claims) \in Nat /\ Len(batch) \in Nat /\ Len(done) \in Nat
          /\ at \in Nat \ {0} /\ errors \in Nat /\ reply \in Seq(Replies) /\ OwnOutcome
          /\ DOMAIN reply = 1 .. Len(reply) /\ DOMAIN reply \subseteq Nat /\ Len(reply) \in Nat
  BY SlotFacts
<1>here. /\ ~Batch => Len(claims) <= 1 /\ Len(batch) <= 1 /\ done = <<>>
         /\ done = <<>> /\ ~HandedBack /\ Len(reply) = Len(claims) /\ controllers = {}
         /\ at \in DOMAIN claims /\ at \in DOMAIN reply /\ at + 1 <= Len(claims) + 1
         /\ Rng(batch) \cup Rng(back) \subseteq Before(claims, at) /\ Rng(batch) \cap Rng(back) = {}
         /\ Before(claims, at + 1) = Before(claims, at) \cup {claims[at]}
         /\ claims[at] \notin Before(claims, at) /\ claims[at] \in Jobs
         /\ \A n \in DOMAIN reply : n >= at + 1 => n >= at /\ at < n
  BY <1>step, <1>inv, <1>types, LineFacts, BeforeFacts DEF Shape, Timers
<1>hand. claims[at] \in Open /\ claims[at] \in Rest(claims, at, reply, Kept) /\ InHand(claims[at])
  <2>1. claims[at] \in Rest(claims, at, reply, Kept)
    BY <1>step, <1>types, <1>here, RestStep DEF Kept
  <2>2. claims[at] \in Open
    BY <1>step, <2>1 DEF Open
  <2> QED BY <1>step, <1>inv, <2>1, <2>2 DEF Books
<1>out. Outcome(claims[at], {})
  BY <1>step, ParkOutcome
<1>server. /\ state' \in [Jobs -> {"waiting", "claimed", "active", "completed", "failed", "elsewhere"}]
           /\ why' \in [Jobs -> {"none", "value", "error", "revoked"}]
           /\ OwnOutcome'
  <2>1. /\ state' \in [Jobs -> {"waiting", "claimed", "active", "completed", "failed", "elsewhere"}]
        /\ why' \in [Jobs -> {"none", "value", "error", "revoked"}]
    BY <1>inv, <1>here, <1>out, OutcomeFacts
  <2>2. OwnOutcome'
    BY <1>step, <1>inv, <1>types, <1>here, <1>out, OwnEnds
  <2> QED BY <2>1, <2>2
<1>1. CASE Batch
  <2>1. pc' = pc /\ at' = at + 1 /\ UNCHANGED <<claims, reply, batch, kind, back, done>>
    BY <1>1 DEF Divert, Step
  <2>2. Typed'
    BY <1>step, <1>inv, <1>types, <1>server, <2>1 DEF Typed
  <2>3. Shape'
    BY <1>step, <1>here, <2>1 DEF Shape, Batch, HandedBack
  <2>4. Open' \subseteq Open /\ Open \subseteq Open' \cup {claims[at]} /\ claims[at] \notin Open'
    BY <1>step, <1>types, <1>here, <1>hand, <2>1, RestStep DEF Open
  <2>5. Books'
    BY <1>step, <1>inv, <1>types, <1>here, <1>hand, <1>out, <2>1, <2>4, BooksEnd
  <2>6. Verdicts'
    BY <1>step, <1>inv, <1>server, <2>1 DEF Verdicts
  <2>7. Timers'
    BY <1>step, <1>inv, <1>here, <2>1 DEF Timers, HandedBack
  <2>8. ASSUME Races = {} PROVE InOrder'
    BY <1>step, <1>inv, <1>here, <2>1, <2>8 DEF InOrder, FromList, PauseLasts
  <2> QED BY <2>2, <2>3, <2>5, <2>6, <2>7, <2>8 DEF SlotInv
<1>2. CASE ~Batch
  <2>1. Return
    BY <1>2 DEF Divert
  <2>2. at = 1 /\ at + 1 > Len(claims)
    BY <1>types, <1>here, <1>2, LineFacts
  <2>3. Before(claims, at) = {}
    BY <2>2 DEF Before
  <2>4. Rng(batch) = {} /\ Rng(back) = {} /\ heartbeats = {}
    BY <1>inv, <1>here, <2>3 DEF Timers
  <2>5. Rest(claims, at + 1, reply, Kept) = {}
    BY <1>types, <2>2, RestEnd
  <2>6. Open \subseteq {claims[at]}
    BY <1>step, <1>types, <1>here, <2>4, <2>5, RestStep DEF Open
  <2>free. /\ Shape' /\ Timers' /\ Open' = {} /\ (Races = {} => InOrder') /\ (OwnOutcome' => Verdicts')
           /\ IsLine(claims') /\ IsLine(batch') /\ IsLine(back') /\ IsLine(done')
           /\ reply' \in Seq(Replies) /\ at' \in Nat \ {0} /\ pc' \in Pcs /\ pc' = "idle"
    BY <1>step, <1>inv, <1>here, <2>1, <2>4, SlotFrees
  <2>7. Typed'
    BY <1>step, <1>inv, <1>types, <1>server, <2>free DEF Typed
  <2>8. Books'
    BY <1>step, <1>inv, <1>types, <1>here, <1>hand, <1>out, <2>6, <2>free, BooksEnd
  <2> QED BY <1>server, <2>7, <2>8, <2>free DEF SlotInv
<1> QED BY <1>1, <1>2

LEMMA DivertThrowsStep ==
  ASSUME SlotInv, DivertThrows
  PROVE  SlotInv'
<1>step. /\ pc = "handle" /\ at <= Len(claims) /\ reply[at] = "hash"
         /\ Return /\ errors' = errors + 1
         /\ heartbeats' = heartbeats \ Rng(batch)
         /\ UNCHANGED <<mode, source, revoked, queuePaused, said, controllers, aborted, seenPaused,
            stop>>
  BY DEF DivertThrows, Handling, MayHave, Abandoned, Return, Goto, Step, Works, Breaks, server,
         outside, run, timers
<1>inv. Typed /\ Shape /\ Books /\ Verdicts /\ Timers /\ (Races = {} => InOrder)
  BY SlotFacts
<1>types. /\ IsLine(queue) /\ IsLine(claims) /\ IsLine(batch) /\ IsLine(back) /\ IsLine(done)
          /\ Len(claims) \in Nat /\ Len(batch) \in Nat /\ Len(done) \in Nat
          /\ at \in Nat \ {0} /\ errors \in Nat /\ reply \in Seq(Replies) /\ OwnOutcome
          /\ DOMAIN reply = 1 .. Len(reply) /\ DOMAIN reply \subseteq Nat /\ Len(reply) \in Nat
  BY SlotFacts
<1>here. /\ ~Batch => Len(claims) <= 1 /\ Len(batch) <= 1 /\ done = <<>>
         /\ done = <<>> /\ ~HandedBack /\ Len(reply) = Len(claims) /\ controllers = {}
         /\ at \in DOMAIN claims /\ at \in DOMAIN reply /\ at + 1 <= Len(claims) + 1
         /\ Rng(batch) \cup Rng(back) \subseteq Before(claims, at) /\ Rng(batch) \cap Rng(back) = {}
         /\ Before(claims, at + 1) = Before(claims, at) \cup {claims[at]} /\ claims[at] \notin
            Before(claims, at)
         /\ claims[at] \in Jobs /\ claims[at] \in Rng(claims)
         /\ \A n \in DOMAIN reply : n >= at + 1 => n >= at /\ at < n
  BY <1>step, <1>inv, <1>types, LineFacts, BeforeFacts DEF Shape, Fresh, Timers
<1>hand. claims[at] \in Open /\ claims[at] \in Rest(claims, at, reply, Kept) /\ InHand(claims[at])
  <2>1. claims[at] \in Rest(claims, at, reply, Kept)
    BY <1>step, <1>types, <1>here, RestStep DEF Kept
  <2>2. claims[at] \in Open
    BY <1>step, <2>1 DEF Open
  <2> QED BY <1>step, <1>inv, <2>1, <2>2 DEF Books
<1>effect. Outcome(claims[at], {}) \/ (UNCHANGED server /\ errors' = errors + 1)
  <2>1. (Put(claims[at], "elsewhere", "none") /\ queue' = queue) \/ (UNCHANGED server /\ errors' = errors + 1)
    BY DEF DivertThrows, MayHave, Breaks
  <2> QED BY <2>1, ParkOutcome
<1>server. /\ state' \in [Jobs -> {"waiting", "claimed", "active", "completed", "failed", "elsewhere"}]
           /\ why' \in [Jobs -> {"none", "value", "error", "revoked"}] /\ queue' = queue /\ errors' \in Nat
  <2>1. CASE Outcome(claims[at], {})
    BY <1>step, <1>inv, <1>types, <1>here, <2>1, OutcomeFacts
  <2>2. CASE UNCHANGED server
    BY <1>step, <1>inv, <1>types, <2>2 DEF server, Typed
  <2> QED BY <1>effect, <2>1, <2>2
<1>none. heartbeats' = {} /\ controllers' = {}
  BY <1>step, <1>inv, <1>here DEF Timers
<1>free. /\ Shape' /\ Timers' /\ Open' = {} /\ (Races = {} => InOrder') /\ (OwnOutcome' => Verdicts')
         /\ IsLine(claims') /\ IsLine(batch') /\ IsLine(back') /\ IsLine(done')
         /\ reply' \in Seq(Replies) /\ at' \in Nat \ {0} /\ pc' \in Pcs /\ pc' = "idle"
  BY <1>step, <1>inv, <1>server, <1>none, SlotFrees
<1>typed. Typed'
  BY <1>step, <1>inv, <1>types, <1>server, <1>free DEF Typed, Pcs
<1>shape. Shape'
  BY <1>step, <1>here, <1>free DEF Shape, Fresh, Batch, HandedBack
<1>open. Open' \subseteq Open /\ claims[at] \notin Open'
  BY <1>step, <1>types, <1>here, <1>free
<1>books. Books'
  <2>1. CASE Outcome(claims[at], {})
    BY <1>step, <1>inv, <1>types, <1>here, <1>open, <2>1, <1>hand, BooksEnd
  <2>2. CASE UNCHANGED server /\ errors' = errors + 1
    BY <1>step, <1>inv, <1>types, <1>open, <2>2, BooksStay DEF server
  <2> QED BY <1>effect, <2>1, <2>2
<1>verdicts. Verdicts'
  <2>1. OwnOutcome'
    <3>1. CASE Outcome(claims[at], {})
      BY <1>step, <1>inv, <1>types, <1>here, <3>1, OwnEnds
    <3>2. CASE UNCHANGED server
      BY <1>step, <1>types, <3>2, OwnStays DEF server
    <3> QED BY <1>effect, <3>1, <3>2
  <2> QED BY <2>1, <1>free
<1>timers. Timers'
  BY <1>step, <1>inv, <1>here, <1>free DEF Timers, HandedBack
<1>order. ASSUME Races = {} PROVE InOrder'
  BY <1>order, <1>step, <1>inv, <1>here, <1>free DEF InOrder, FromList, HandedBack
<1> QED BY <1>typed, <1>shape, <1>books, <1>verdicts, <1>timers, <1>order DEF SlotInv

LEMMA HandledStep ==
  ASSUME SlotInv, Handled
  PROVE  SlotInv'
<1>step. /\ pc = "handle" /\ at > Len(claims)
         /\ pc' = "restore" /\ at' = 1
         /\ back' = Reversed(back)
         /\ UNCHANGED <<mode, source, state, why, queue, revoked, queuePaused, claims, reply, batch,
            kind, said, done, heartbeats, controllers, aborted, seenPaused, stop, errors>>
  BY DEF Handled, Goto, Step, Works, Breaks, server, outside, run, timers
<1>inv. Typed /\ Shape /\ Books /\ Verdicts /\ Timers /\ (Races = {} => InOrder)
  BY SlotFacts
<1>types. /\ IsLine(queue) /\ IsLine(claims) /\ IsLine(batch) /\ IsLine(back) /\ IsLine(done)
          /\ Len(claims) \in Nat /\ Len(batch) \in Nat /\ Len(done) \in Nat
          /\ at \in Nat \ {0} /\ errors \in Nat /\ reply \in Seq(Replies) /\ OwnOutcome
          /\ DOMAIN reply = 1 .. Len(reply) /\ DOMAIN reply \subseteq Nat /\ Len(reply) \in Nat
  BY SlotFacts
<1>here. /\ ~Batch => Len(claims) <= 1 /\ Len(batch) <= 1 /\ done = <<>>
         /\ done = <<>> /\ ~HandedBack /\ Rng(batch) \cap Rng(back) = {}
         /\ at = Len(claims) + 1 /\ at \in Nat /\ at > Len(claims)
         /\ Rng(back) \subseteq Rng(claims)
  BY <1>step, <1>inv, <1>types, BeforeEnd DEF Shape
<1>more. IsLine(back') /\ Rng(back') = Rng(back)
  BY <1>step, <1>types, ReversedLine
<1>typed. Typed'
  BY <1>step, <1>inv, <1>types, <1>more DEF Typed, Pcs
<1>shape. Shape'
  BY <1>step, <1>here, <1>more DEF Shape, Fresh, Batch, HandedBack
<1>open. Open' = Open
  BY <1>step, <1>types, <1>here, <1>more, RestEnd DEF Open, HandedBack
<1>books. Books'
  BY <1>step, <1>inv, <1>types, <1>open, BooksStay
<1>verdicts. Verdicts'
  BY <1>step, <1>inv, <1>types, <1>here, OwnStays DEF Verdicts
<1>timers. Timers'
  BY <1>step, <1>inv, <1>here DEF Timers, HandedBack
<1>lined. FromList /\ Races = {} =>
        /\ Ordered(back) /\ Ahead(batch, back) /\ Ahead(batch, queue)
        /\ Ordered(queue) /\ Ordered(claims) /\ Ahead(claims, queue)
  BY <1>step, <1>inv DEF InOrder
<1>order. ASSUME Races = {} PROVE InOrder'
  <2>1. CASE FromList
    <3>1. Descending(back')
      BY <1>order, <1>step, <1>types, <1>lined, <2>1, ReversedLine
    <3>2. Ahead(back', queue) /\ Ahead(batch, back')
      BY <1>order, <1>here, <1>more, <1>lined, <2>1 DEF Ahead
    <3> QED BY <1>order, <1>step, <1>lined, <2>1, <3>1, <3>2 DEF InOrder, FromList
  <2> QED BY <1>step, <2>1 DEF InOrder, FromList
<1> QED BY <1>typed, <1>shape, <1>books, <1>verdicts, <1>timers, <1>order DEF SlotInv

LEMMA CutOrder ==
  ASSUME NEW s, IsLine(s), Ordered(s), NEW n \in Nat, NEW t, IsLine(t), NEW u, IsLine(u),
         \A k \in DOMAIN t : k \in DOMAIN s /\ k <= n /\ t[k] = s[k],
         \A k \in DOMAIN u : k + n \in DOMAIN s /\ k >= 1 /\ u[k] = s[k + n]
  PROVE  Ordered(t) /\ Ordered(u) /\ Ahead(t, u)
<1>1. /\ IsLine(t) /\ IsLine(u)
      /\ \A k \in DOMAIN t : k \in DOMAIN s /\ k <= n /\ t[k] = s[k]
      /\ \A k \in DOMAIN u : k + n \in DOMAIN s /\ k >= 1 /\ u[k] = s[k + n]
  OBVIOUS
<1>2. DOMAIN t \subseteq Nat /\ DOMAIN u \subseteq Nat
  BY <1>1, LineFacts
<1>3. Ordered(t)
  BY <1>1 DEF Ordered
<1>4. Ordered(u)
  <2> SUFFICES ASSUME NEW k \in DOMAIN u, NEW l \in DOMAIN u, k < l PROVE Position(u[k]) < Position(u[l])
    BY DEF Ordered
  <2>1. k + n < l + n
    BY <1>2
  <2> QED BY <1>1, <2>1 DEF Ordered
<1>5. Ahead(t, u)
  <2>1. \A k \in DOMAIN t, l \in DOMAIN u : Position(t[k]) < Position(u[l])
    <3> SUFFICES ASSUME NEW k \in DOMAIN t, NEW l \in DOMAIN u PROVE Position(t[k]) < Position(u[l])
      OBVIOUS
    <3>1. k < l + n
      BY <1>1, <1>2
    <3> QED BY <1>1, <3>1 DEF Ordered
  <2> QED BY <2>1 DEF Ahead, Rng
<1> QED BY <1>3, <1>4, <1>5

LEMMA ConsOrder ==
  ASSUME NEW s, IsLine(s), Ordered(s), NEW j \in Jobs, j \notin Rng(s),
         \A k \in Rng(s) : Position(j) < Position(k), NEW t, IsLine(t), t[1] = j,
         \A k \in DOMAIN t : k = 1 \/ (k - 1 \in DOMAIN s /\ t[k] = s[k - 1])
  PROVE  Ordered(t)
<1>1. /\ t[1] = j /\ IsLine(t)
      /\ \A k \in DOMAIN t : k = 1 \/ (k - 1 \in DOMAIN s /\ t[k] = s[k - 1])
  OBVIOUS
<1>2. DOMAIN t \subseteq Nat \ {0}
  BY <1>1, LineFacts
<1> SUFFICES ASSUME NEW m \in DOMAIN t, NEW n \in DOMAIN t, m < n PROVE Position(t[m]) < Position(t[n])
  BY DEF Ordered
<1>3. n - 1 \in DOMAIN s /\ t[n] = s[n - 1] /\ s[n - 1] \in Rng(s)
  BY <1>1, <1>2, LineFacts
<1>4. CASE m = 1
  BY <1>1, <1>3, <1>4
<1>5. CASE m # 1
  <2>1. m - 1 \in DOMAIN s /\ t[m] = s[m - 1] /\ m - 1 < n - 1
    BY <1>1, <1>2, <1>5
  <2> QED BY <1>3, <2>1 DEF Ordered
<1> QED BY <1>4, <1>5

LEMMA TailOrder ==
  ASSUME NEW s, IsLine(s), s # <<>>, NEW t, IsLine(t),
         \A k \in DOMAIN t : k + 1 \in DOMAIN s /\ t[k] = s[k + 1]
  PROVE  /\ Descending(s) => Descending(t) /\ \A k \in Rng(t) : Position(k) < Position(Head(s))
         /\ Ordered(s) => Ordered(t) /\ \A k \in Rng(t) : Position(Head(s)) < Position(k)
<1>1. /\ Head(s) = s[1] /\ IsLine(t)
      /\ \A k \in DOMAIN t : k + 1 \in DOMAIN s /\ t[k] = s[k + 1]
  BY DEF IsLine
<1>2. DOMAIN t \subseteq Nat \ {0} /\ 1 \in DOMAIN s
  BY <1>1, LineFacts
<1>3. \A m, n \in DOMAIN t : m < n => m + 1 < n + 1
  BY <1>2
<1>4. \A k \in DOMAIN t : 1 < k + 1
  BY <1>2
<1>5. ASSUME Descending(s) PROVE Descending(t) /\ \A k \in Rng(t) : Position(k) < Position(Head(s))
  <2>1. Descending(t)
    BY <1>1, <1>3, <1>5 DEF Descending
  <2>2. \A k \in DOMAIN t : Position(t[k]) < Position(Head(s))
    BY <1>1, <1>2, <1>4, <1>5 DEF Descending
  <2> QED BY <2>1, <2>2 DEF Rng
<1>6. ASSUME Ordered(s) PROVE Ordered(t) /\ \A k \in Rng(t) : Position(Head(s)) < Position(k)
  <2>1. Ordered(t)
    BY <1>1, <1>3, <1>6 DEF Ordered
  <2>2. \A k \in DOMAIN t : Position(Head(s)) < Position(t[k])
    BY <1>1, <1>2, <1>4, <1>6 DEF Ordered
  <2> QED BY <2>1, <2>2 DEF Rng
<1> QED BY <1>5, <1>6

(* Jobs that waited come into hand. *)
LEMMA BooksTake ==
  ASSUME Typed, Shape, Books, NEW T, T \subseteq Rng(queue), Rng(queue)' = Rng(queue) \ T,
         UNCHANGED <<why, said, errors, stop>>, pc \notin {"run", "ended", "settle"},
         \A i \in Jobs : state'[i] = IF i \in T THEN "claimed" ELSE state[i],
         Open' = Open \cup T
  PROVE  Books'
<1>1. Rng(queue) \subseteq Jobs /\ Open \subseteq Jobs /\ \A i \in T : i \in Jobs /\ state[i] = "waiting"
  BY OpenFacts, LineFacts DEF Typed, Books
<1>2. \A i \in Rng(queue)' : state'[i] = "waiting"
  BY <1>1 DEF Books
<1>3. \A i \in Jobs : state'[i] = "waiting" \/ InHand(i)' => why'[i] = "none"
  BY <1>1 DEF Books, InHand
<1>4. \A i \in Jobs : said'[i] = "moved" => state'[i] \in {"failed", "elsewhere"}
  BY <1>1 DEF Books
<1>5. \A i \in Open' : InHand(i)'
  BY <1>1 DEF Books, InHand
<1>6. errors' = 0 /\ stop' # "force" => \A i \in Jobs : InHand(i)' => i \in Open'
  BY <1>1 DEF Books, InHand
<1> QED BY <1>2, <1>3, <1>4, <1>5, <1>6 DEF Books

(* A job in hand goes back to the queue. *)
LEMMA BooksBack ==
  ASSUME Typed, Shape, Books, NEW j \in Open, Put(j, "waiting", "none"), Rng(queue)' = Rng(queue) \cup {j},
         said' = said, stop' = stop, errors' = 0 => errors = 0, pc \notin {"run", "ended", "settle"},
         Open' = Open \ {j}
  PROVE  Books'
<1>1. Rng(queue) \subseteq Jobs /\ Open \subseteq Jobs /\ j \in Jobs /\ InHand(j)
  BY OpenFacts, LineFacts DEF Typed, Books
<1>2. \A i \in Jobs : /\ state'[i] = IF i = j THEN "waiting" ELSE state[i]
                      /\ why'[i] = IF i = j THEN "none" ELSE why[i]
  BY <1>1 DEF Put, Typed
<1>3. \A i \in Rng(queue)' : state'[i] = "waiting"
  BY <1>1, <1>2 DEF Books
<1>4. \A i \in Jobs : state'[i] = "waiting" \/ InHand(i)' => why'[i] = "none"
  BY <1>1, <1>2 DEF Books, InHand
<1>5. \A i \in Jobs : said'[i] = "moved" => state'[i] \in {"failed", "elsewhere"}
  BY <1>1, <1>2 DEF Books, InHand
<1>6. \A i \in Open' : InHand(i)'
  BY <1>1, <1>2 DEF Books, InHand
<1>7. errors' = 0 /\ stop' # "force" => \A i \in Jobs : InHand(i)' => i \in Open'
  BY <1>1, <1>2 DEF Books, InHand
<1> QED BY <1>3, <1>4, <1>5, <1>6, <1>7 DEF Books

LEMMA ClaimStep ==
  ASSUME SlotInv, Claim
  PROVE  SlotInv'
<1>step. /\ pc = "idle" /\ queue # <<>>
         /\ pc' = "claimed" /\ at' = 1
         /\ UNCHANGED <<mode, source, why, revoked, queuePaused, reply, batch, kind, said, back,
            done, heartbeats, controllers, aborted, seenPaused, stop, errors>>
  BY DEF Claim, Goto, Step, Works, Breaks, server, outside, run, timers
<1>inv. Typed /\ Shape /\ Books /\ Verdicts /\ Timers /\ (Races = {} => InOrder)
  BY SlotFacts
<1>types. /\ IsLine(queue) /\ IsLine(claims) /\ IsLine(batch) /\ IsLine(back) /\ IsLine(done)
          /\ Len(claims) \in Nat /\ Len(batch) \in Nat /\ Len(done) \in Nat
          /\ at \in Nat \ {0} /\ errors \in Nat /\ reply \in Seq(Replies) /\ OwnOutcome
          /\ DOMAIN reply = 1 .. Len(reply) /\ DOMAIN reply \subseteq Nat /\ Len(reply) \in Nat
  BY SlotFacts
<1>here. /\ ~Batch => Len(claims) <= 1 /\ Len(batch) <= 1 /\ done = <<>>
         /\ Fresh /\ reply = <<>> /\ claims = <<>>
         /\ heartbeats = {} /\ controllers = {}
  BY <1>step, <1>inv, <1>types, LineFacts DEF Shape, Timers
<1>pick. PICK n \in 1 .. (IF Batch THEN Size ELSE 1) :
        /\ n <= Len(queue)
        /\ claims' = SubSeq(queue, 1, n) /\ queue' = SubSeq(queue, n + 1, Len(queue))
        /\ state' = [j \in Jobs |-> IF j \in Rng(claims') THEN "claimed" ELSE state[j]]
  BY DEF Claim
<1>n. n \in Nat /\ (~Batch => n <= 1)
  BY SlotAssumption DEF SlotAssumption
<1>cut. /\ IsLine(claims') /\ IsLine(queue') /\ Len(claims') = n
        /\ Rng(claims') \cap Rng(queue') = {} /\ Rng(claims') \cup Rng(queue') = Rng(queue)
        /\ \A k \in DOMAIN claims' : k \in DOMAIN queue /\ k <= n /\ claims'[k] = queue[k]
        /\ \A k \in DOMAIN queue' : k + n \in DOMAIN queue /\ k >= 1 /\ queue'[k] = queue[k + n]
  <2>1. n <= Len(queue) /\ n \in Nat /\ IsLine(queue)
    BY <1>pick, <1>n, <1>types
  <2>2. Cut(queue, n, claims', queue')
    BY <1>pick DEF Cut
  <2> QED BY <2>1, <2>2, CutLine
<1>more. /\ IsLine(claims') /\ IsLine(queue') /\ Len(claims') = n
         /\ Rng(claims') \subseteq Rng(queue) /\ Rng(queue') = Rng(queue) \ Rng(claims')
  BY <1>cut
<1>server. state' \in [Jobs -> {"waiting", "claimed", "active", "completed", "failed", "elsewhere"}]
  BY <1>pick, <1>inv DEF Typed
<1>typed. Typed'
  BY <1>step, <1>inv, <1>types, <1>more, <1>server DEF Typed, Pcs
<1>shape. Shape'
  BY <1>step, <1>here, <1>more, <1>n DEF Shape, Fresh, Batch, HandedBack
<1>open. Open = {} /\ Open' = Rng(claims')
  BY <1>step, <1>types, <1>here DEF Open, HandedBack
<1>books. Books'
  <2>1. \A i \in Jobs : state'[i] = IF i \in Rng(claims') THEN "claimed" ELSE state[i]
    BY <1>pick
  <2>2. Rng(queue)' = Rng(queue) \ Rng(claims') /\ Rng(claims') \subseteq Rng(queue)
    BY <1>more
  <2>3. Open' = Open \cup Rng(claims')
    BY <1>open
  <2> QED BY <1>step, <1>inv, <2>1, <2>2, <2>3, BooksTake
<1>verdicts. Verdicts'
  BY <1>step, <1>inv, <1>types, <1>here, EmptyLine, OwnStays DEF Verdicts
<1>timers. Timers'
  BY <1>step, <1>inv, <1>here DEF Timers, HandedBack
<1>lined. FromList /\ Races = {} =>
        /\ Ordered(queue)
  BY <1>step, <1>inv DEF InOrder
<1>order. ASSUME Races = {} PROVE InOrder'
  <2>1. CASE FromList
    <3>1. Ordered(claims') /\ Ordered(queue') /\ Ahead(claims', queue')
      BY <1>order, <1>cut, <1>n, <1>types, <1>lined, <2>1, CutOrder
    <3> QED BY <1>step, <3>1 DEF InOrder
  <2> QED BY <1>step, <2>1 DEF InOrder, FromList
<1> QED BY <1>typed, <1>shape, <1>books, <1>verdicts, <1>timers, <1>order DEF SlotInv

LEMMA RefillStep ==
  ASSUME SlotInv, Refill
  PROVE  SlotInv'
<1>step. /\ pc = "claimed" /\ queue # <<>> /\ Batch /\ ~FromList
         /\ claims' = Append(claims, Head(queue)) /\ queue' = Tail(queue)
         /\ state' = [state EXCEPT ![Head(queue)] = "claimed"]
         /\ UNCHANGED <<mode, source, why, revoked, queuePaused, pc, reply, at, batch, kind, said,
            back, done, heartbeats, controllers, aborted, seenPaused, stop, errors>>
  BY DEF Refill, Goto, Step, Works, Breaks, server, outside, run, timers
<1>inv. Typed /\ Shape /\ Books /\ Verdicts /\ Timers /\ (Races = {} => InOrder)
  BY SlotFacts
<1>types. /\ IsLine(queue) /\ IsLine(claims) /\ IsLine(batch) /\ IsLine(back) /\ IsLine(done)
          /\ Len(claims) \in Nat /\ Len(batch) \in Nat /\ Len(done) \in Nat
          /\ at \in Nat \ {0} /\ errors \in Nat /\ reply \in Seq(Replies) /\ OwnOutcome
          /\ DOMAIN reply = 1 .. Len(reply) /\ DOMAIN reply \subseteq Nat /\ Len(reply) \in Nat
  BY SlotFacts
<1>here. /\ ~Batch => Len(claims) <= 1 /\ Len(batch) <= 1 /\ done = <<>>
         /\ Fresh /\ reply = <<>>
         /\ heartbeats = {} /\ controllers = {}
  BY <1>step, <1>inv, <1>types, LineFacts DEF Shape, Timers
<1>head. /\ Head(queue) \in Jobs /\ Head(queue) \in Rng(queue)
         /\ IsLine(queue') /\ Rng(queue') = Rng(queue) \ {Head(queue)}
  BY <1>step, <1>types, TailLine
<1>more. IsLine(claims') /\ Rng(claims') = Rng(claims) \cup {Head(queue)}
  <2>1. Open = Rng(claims)
    BY <1>step DEF Open
  <2>2. Head(queue) \notin Rng(claims)
    BY <1>inv, <1>head, <2>1, OpenFacts
  <2> QED BY <1>step, <1>types, <1>head, <2>2, AppendLine
<1>server. state' \in [Jobs -> {"waiting", "claimed", "active", "completed", "failed", "elsewhere"}]
  BY <1>step, <1>head, <1>inv DEF Typed
<1>typed. Typed'
  BY <1>step, <1>inv, <1>types, <1>head, <1>more, <1>server DEF Typed, Pcs
<1>shape. Shape'
  BY <1>step, <1>here DEF Shape, Fresh, Batch, HandedBack
<1>open. Open' = Open \cup {Head(queue)}
  BY <1>step, <1>types, <1>here, <1>more DEF Open, HandedBack
<1>books. Books'
  <2>1. \A i \in Jobs : state'[i] = IF i \in {Head(queue)} THEN "claimed" ELSE state[i]
    BY <1>step, <1>inv DEF Typed
  <2>2. Rng(queue)' = Rng(queue) \ {Head(queue)} /\ {Head(queue)} \subseteq Rng(queue)
    BY <1>head
  <2> QED BY <1>step, <1>inv, <1>open, <2>1, <2>2, BooksTake
<1>verdicts. Verdicts'
  BY <1>step, <1>inv, <1>types, <1>here, EmptyLine, OwnStays DEF Verdicts
<1>timers. Timers'
  BY <1>step, <1>inv, <1>here DEF Timers, HandedBack
<1>order. ASSUME Races = {} PROVE InOrder'
  BY <1>step DEF InOrder, FromList
<1> QED BY <1>typed, <1>shape, <1>books, <1>verdicts, <1>timers, <1>order DEF SlotInv

LEMMA BeginStep ==
  ASSUME SlotInv, Begin
  PROVE  SlotInv'
<1>step. /\ pc = "claimed"
         /\ at' = 1
         /\ UNCHANGED <<mode, source, state, why, queue, revoked, queuePaused, claims, reply, batch,
            kind, said, done, heartbeats, controllers, aborted, seenPaused, stop, errors>>
  BY DEF Begin, Goto, Step, Works, Breaks, server, outside, run, timers
<1>inv. Typed /\ Shape /\ Books /\ Verdicts /\ Timers /\ (Races = {} => InOrder)
  BY SlotFacts
<1>types. /\ IsLine(queue) /\ IsLine(claims) /\ IsLine(batch) /\ IsLine(back) /\ IsLine(done)
          /\ Len(claims) \in Nat /\ Len(batch) \in Nat /\ Len(done) \in Nat
          /\ at \in Nat \ {0} /\ errors \in Nat /\ reply \in Seq(Replies) /\ OwnOutcome
          /\ DOMAIN reply = 1 .. Len(reply) /\ DOMAIN reply \subseteq Nat /\ Len(reply) \in Nat
  BY SlotFacts
<1>here. /\ ~Batch => Len(claims) <= 1 /\ Len(batch) <= 1 /\ done = <<>>
         /\ batch = <<>> /\ back = <<>> /\ done = <<>> /\ ~HandedBack /\ reply = <<>>
         /\ heartbeats = {} /\ controllers = {} /\ Open = Rng(claims)
  BY <1>step, <1>inv DEF Shape, Fresh, Timers, Open
<1>own. OwnOutcome'
  BY <1>step, <1>types, OwnStays
<1>timers. Timers'
  BY <1>step, <1>here DEF Timers
<1>lined. Races = {} /\ FromList => Ordered(queue) /\ Ordered(claims) /\ Ahead(claims, queue)
  BY <1>step, <1>inv DEF InOrder
<1>1. CASE Paused \/ Closing
  <2>1. back' = Reversed(claims) /\ pc' = "restore"
    BY <1>1 DEF Begin, Goto
  <2>2. /\ IsLine(back') /\ Rng(back') = Rng(claims)
        /\ FromList /\ Ordered(claims) => Descending(back')
    BY <1>types, <2>1, ReversedLine
  <2>3. Typed'
    BY <1>step, <1>inv, <1>types, <2>1, <2>2 DEF Typed, Pcs
  <2>4. Shape'
    BY <1>step, <1>here, <2>1, <2>2, EmptyLine DEF Shape, Batch, HandedBack
  <2>5. Open' = Open
    BY <1>step, <1>here, <2>1, <2>2, EmptyLine DEF Open, HandedBack
  <2>6. Books'
    BY <1>step, <1>inv, <1>types, <2>1, <2>5, BooksStay
  <2>7. Verdicts'
    BY <1>step, <1>own, <1>here, <2>1, EmptyLine DEF Verdicts
  <2>8. ASSUME Races = {} PROVE InOrder'
    <3>1. CASE FromList
      <4>1. Descending(back') /\ Ahead(back', queue)
        BY <1>lined, <2>2, <2>8, <3>1 DEF Ahead
      <4> QED BY <1>step, <1>here, <1>lined, <2>1, <2>8, <3>1, <4>1, EmptyOrder DEF InOrder
    <3>2. CASE ~FromList
      BY <1>step, <3>2 DEF InOrder, FromList
    <3> QED BY <3>1, <3>2
  <2> QED BY <1>timers, <2>3, <2>4, <2>6, <2>7, <2>8 DEF SlotInv
<1>2. CASE ~(Paused \/ Closing)
  <2>1. back' = back /\ pc' = "activate"
    BY <1>2 DEF Begin, Goto
  <2>2. Len(reply) = 0 /\ DOMAIN reply = {}
    BY <1>here
  <2>3. Typed'
    BY <1>step, <1>inv, <1>types, <2>1 DEF Typed, Pcs
  <2>4. Shape'
    <3>1. Len(reply) = 1 - 1 /\ 1 <= Len(claims) + 1
      BY <1>types, <2>2
    <3> QED BY <1>step, <1>here, <2>1, <3>1 DEF Shape, Fresh, Batch, HandedBack
  <2>5. Open' = Open
    <3>1. Rest(claims, 1, <<>>, Kept) = Rng(claims)
      BY <1>types, RestAll
    <3> QED BY <1>step, <1>here, <2>1, <3>1 DEF Open
  <2>6. Books'
    BY <1>step, <1>inv, <1>types, <2>1, <2>5, BooksStay
  <2>7. Verdicts'
    BY <1>step, <1>own, <1>here, <2>1, <2>2, EmptyLine DEF Verdicts
  <2>8. ASSUME Races = {} PROVE InOrder'
    BY <1>step, <1>lined, <2>1, <2>2, <2>8 DEF InOrder, FromList, PauseLasts
  <2> QED BY <1>timers, <2>3, <2>4, <2>6, <2>7, <2>8 DEF SlotInv
<1> QED BY <1>1, <1>2

LEMMA FreesAlone ==
  ASSUME SlotInv, Return, UNCHANGED <<server, mode, source, said, revoked, stop>>,
         heartbeats' = {}, controllers' = {}, errors' \in Nat,
         errors' = 0 /\ stop # "force" => errors = 0 /\ \A i \in Open : ~InHand(i)
  PROVE  SlotInv'
<1>inv. Typed /\ Shape /\ Books /\ Verdicts /\ Timers /\ (Races = {} => InOrder)
  BY SlotFacts
<1>types. /\ IsLine(queue) /\ IsLine(claims) /\ IsLine(batch) /\ IsLine(back) /\ IsLine(done)
          /\ Len(claims) \in Nat /\ Len(batch) \in Nat /\ Len(done) \in Nat
          /\ at \in Nat \ {0} /\ errors \in Nat /\ reply \in Seq(Replies) /\ OwnOutcome
          /\ DOMAIN reply = 1 .. Len(reply) /\ DOMAIN reply \subseteq Nat /\ Len(reply) \in Nat
  BY SlotFacts
<1>free. /\ Shape' /\ Timers' /\ Open' = {} /\ (Races = {} => InOrder') /\ (OwnOutcome' => Verdicts')
         /\ IsLine(claims') /\ IsLine(batch') /\ IsLine(back') /\ IsLine(done')
         /\ reply' \in Seq(Replies) /\ at' \in Nat \ {0} /\ pc' \in Pcs /\ pc' = "idle"
  BY <1>inv, SlotFrees DEF server
<1>1. Typed'
  BY <1>inv, <1>types, <1>free DEF Typed, server
<1>2. Books'
  BY <1>inv, <1>types, <1>free, BooksStay DEF server
<1>3. OwnOutcome'
  BY <1>types, OwnStays DEF server
<1> QED BY <1>free, <1>1, <1>2, <1>3 DEF SlotInv

LEMMA FreesWith ==
  ASSUME SlotInv, Return, UNCHANGED <<mode, source, said, revoked, stop>>,
         heartbeats' = {}, controllers' = {}, errors' \in Nat,
         NEW j \in Open, NEW W, Outcome(j, W),
         said[j] = "moved" => "value" \notin W,
         "value" \in W => said[j] = "value",
         "error" \in W => said[j] \in {"error", "aborted", "bad", "park", "moved"},
         "revoked" \in W => j \in revoked,
         errors' = 0 /\ stop # "force" => errors = 0 /\ Open \subseteq {j}
  PROVE  SlotInv'
<1>inv. Typed /\ Shape /\ Books /\ Verdicts /\ Timers /\ (Races = {} => InOrder)
  BY SlotFacts
<1>types. /\ IsLine(queue) /\ IsLine(claims) /\ IsLine(batch) /\ IsLine(back) /\ IsLine(done)
          /\ Len(claims) \in Nat /\ Len(batch) \in Nat /\ Len(done) \in Nat
          /\ at \in Nat \ {0} /\ errors \in Nat /\ reply \in Seq(Replies) /\ OwnOutcome
          /\ DOMAIN reply = 1 .. Len(reply) /\ DOMAIN reply \subseteq Nat /\ Len(reply) \in Nat
  BY SlotFacts
<1>server. /\ state' \in [Jobs -> {"waiting", "claimed", "active", "completed", "failed", "elsewhere"}]
           /\ why' \in [Jobs -> {"none", "value", "error", "revoked"}] /\ queue' = queue /\ j \in Jobs
  BY <1>inv, OpenFacts, OutcomeFacts
<1>free. /\ Shape' /\ Timers' /\ Open' = {} /\ (Races = {} => InOrder') /\ (OwnOutcome' => Verdicts')
         /\ IsLine(claims') /\ IsLine(batch') /\ IsLine(back') /\ IsLine(done')
         /\ reply' \in Seq(Replies) /\ at' \in Nat \ {0} /\ pc' \in Pcs /\ pc' = "idle"
  BY <1>inv, <1>server, SlotFrees
<1>1. Typed'
  BY <1>inv, <1>types, <1>server, <1>free DEF Typed
<1>2. Books'
  BY <1>inv, <1>types, <1>free, BooksEnd
<1>3. OwnOutcome'
  BY <1>inv, <1>types, <1>server, OwnEnds
<1> QED BY <1>free, <1>1, <1>2, <1>3 DEF SlotInv

-----------------------------------------------------------------------------
(* What must not run goes back *)

LEMMA HandBackStep ==
  ASSUME SlotInv, HandBack
  PROVE  SlotInv'
<1>step. /\ pc = "restore" /\ back # <<>>
         /\ back' = Tail(back)
         /\ errors' \in {errors, errors + 1}
         /\ Restore(Head(back)) \/ (UNCHANGED server /\ errors' = errors + 1)
         /\ UNCHANGED <<mode, source, revoked, queuePaused, pc, claims, reply, at, batch, kind,
            said, done, heartbeats, controllers, aborted, seenPaused, stop>>
  BY DEF HandBack, MayHave, Goto, Step, Works, Breaks, server, outside, run, timers
<1>inv. Typed /\ Shape /\ Books /\ Verdicts /\ Timers /\ (Races = {} => InOrder)
  BY SlotFacts
<1>types. /\ IsLine(queue) /\ IsLine(claims) /\ IsLine(batch) /\ IsLine(back) /\ IsLine(done)
          /\ Len(claims) \in Nat /\ Len(batch) \in Nat /\ Len(done) \in Nat
          /\ at \in Nat \ {0} /\ errors \in Nat /\ reply \in Seq(Replies) /\ OwnOutcome
          /\ DOMAIN reply = 1 .. Len(reply) /\ DOMAIN reply \subseteq Nat /\ Len(reply) \in Nat
  BY SlotFacts
<1>here. /\ ~Batch => Len(claims) <= 1 /\ Len(batch) <= 1 /\ done = <<>>
         /\ done = <<>> /\ Rng(back) \subseteq Rng(claims) \cup Rng(batch)
         /\ ~HandedBack => Rng(batch) \cap Rng(back) = {}
         /\ controllers = {}
  BY <1>step, <1>inv DEF Shape, Timers
<1>head. /\ Head(back) \in Jobs /\ Head(back) \in Rng(back) /\ IsLine(back')
         /\ Rng(back') = Rng(back) \ {Head(back)}
         /\ \A k \in DOMAIN back' : k + 1 \in DOMAIN back /\ back'[k] = back[k + 1]
  <2>1. back # <<>> /\ IsLine(back) /\ back' = Tail(back)
    BY <1>step, <1>types
  <2>2. Head(back) \in Jobs /\ Head(back) \in Rng(back) /\ IsLine(back') /\ Rng(back') = Rng(back) \ {Head(back)}
    BY <2>1, TailLine
  <2>3. \A k \in DOMAIN back' : k + 1 \in DOMAIN back /\ back'[k] = back[k + 1]
    BY <2>1, LineFacts DEF IsLine
  <2> QED BY <2>2, <2>3
<1>open. Open' = Open \ {Head(back)} /\ Head(back) \in Open
  BY <1>step, <1>here, <1>head DEF Open, HandedBack
<1>out. Head(back) \notin Rng(queue)
  BY <1>inv, <1>open, OpenFacts
<1>shape. Shape'
  BY <1>step, <1>here, <1>head DEF Shape, Fresh, Batch, HandedBack
<1>timers. Timers'
  BY <1>step, <1>inv, <1>here DEF Timers, HandedBack
<1>1. CASE UNCHANGED server /\ errors' = errors + 1
  <2>1. Typed'
    BY <1>step, <1>inv, <1>types, <1>head, <1>1 DEF Typed, server
  <2>2. Books'
    BY <1>step, <1>inv, <1>types, <1>open, <1>1, BooksStay DEF server
  <2>3. OwnOutcome'
    BY <1>step, <1>types, <1>1, OwnStays DEF server
  <2>4. Verdicts'
    BY <1>step, <1>inv, <2>3 DEF Verdicts
  <2>5. ASSUME Races = {} PROVE InOrder'
    <3>1. FromList => /\ Ordered(queue) /\ Descending(back) /\ Ahead(back, queue)
                      /\ ~HandedBack => Ahead(batch, back) /\ Ahead(batch, queue)
      BY <1>step, <1>inv, <2>5 DEF InOrder
    <3>2. FromList => Descending(back')
      BY <1>step, <1>types, <1>head, <3>1, TailOrder
    <3>3. FromList => Ahead(back', queue) /\ (~HandedBack => Ahead(batch, back') /\ Ahead(batch, queue))
      BY <1>head, <3>1 DEF Ahead
    <3> QED BY <1>step, <1>1, <3>1, <3>2, <3>3 DEF InOrder, FromList, HandedBack, server
  <2> QED BY <1>shape, <1>timers, <2>1, <2>2, <2>4, <2>5 DEF SlotInv
<1>2. CASE Restore(Head(back))
  <2>put. /\ Put(Head(back), "waiting", "none")
          /\ FromList => Pushed(queue, Head(back), queue')
          /\ ~FromList => queue' = Append(queue, Head(back))
    BY <1>2 DEF Restore, Pushed
  <2>queue. IsLine(queue') /\ Rng(queue') = Rng(queue) \cup {Head(back)}
    <3>1. CASE FromList
      BY <1>types, <1>head, <1>out, <2>put, <3>1, ConsLine
    <3>2. CASE ~FromList
      BY <1>types, <1>head, <1>out, <2>put, <3>2, AppendLine
    <3> QED BY <3>1, <3>2
  <2>1. Typed'
    <3>1. /\ state' \in [Jobs -> {"waiting", "claimed", "active", "completed", "failed", "elsewhere"}]
          /\ why' \in [Jobs -> {"none", "value", "error", "revoked"}]
      BY <1>inv, <2>put DEF Put, Typed
    <3>2. errors' \in Nat
      BY <1>step, <1>types
    <3> QED BY <1>step, <1>inv, <1>types, <1>head, <2>queue, <3>1, <3>2 DEF Typed
  <2>2. Books'
    <3>1. errors' = 0 => errors = 0
      BY <1>step, <1>types
    <3> QED BY <1>step, <1>inv, <1>open, <2>put, <2>queue, <3>1, BooksBack
  <2>3. OwnOutcome'
    BY <1>step, <1>inv, <1>types, <1>head, <2>put, OwnBack
  <2>4. Verdicts'
    BY <1>step, <1>inv, <2>3 DEF Verdicts
  <2>5. ASSUME Races = {}, FromList PROVE InOrder'
    <3>1. /\ Ordered(queue) /\ Descending(back) /\ Ahead(back, queue)
          /\ ~HandedBack => Ahead(batch, back) /\ Ahead(batch, queue)
      BY <1>step, <1>inv, <2>5 DEF InOrder
    <3>2. Descending(back') /\ \A k \in Rng(back') : Position(k) < Position(Head(back))
      BY <1>step, <1>types, <1>head, <3>1, TailOrder
    <3>3. /\ queue'[1] = Head(back)
          /\ \A k \in DOMAIN queue' : k = 1 \/ (k - 1 \in DOMAIN queue /\ queue'[k] = queue[k - 1])
      BY <1>types, <1>head, <1>out, <2>put, <2>5, ConsLine
    <3>4. \A k \in Rng(queue) : Position(Head(back)) < Position(k)
      BY <1>head, <3>1 DEF Ahead
    <3>5. Ordered(queue')
      BY <1>types, <1>head, <1>out, <2>queue, <3>1, <3>3, <3>4, ConsOrder
    <3>6. Ahead(back', queue') /\ (~HandedBack => Ahead(batch, back') /\ Ahead(batch, queue'))
      BY <1>head, <2>queue, <3>1, <3>2 DEF Ahead
    <3> QED BY <1>step, <3>2, <3>5, <3>6 DEF InOrder, HandedBack
  <2>6. ASSUME ~FromList PROVE InOrder'
    BY <1>step, <2>6 DEF InOrder, FromList
  <2> QED BY <1>shape, <1>timers, <2>1, <2>2, <2>4, <2>5, <2>6 DEF SlotInv
<1> QED BY <1>step, <1>1, <1>2

LEMMA RestoredStep ==
  ASSUME SlotInv, Restored
  PROVE  SlotInv'
<1>inv. Typed /\ Shape /\ Books /\ Verdicts /\ Timers /\ (Races = {} => InOrder)
  BY SlotFacts
<1>types. /\ IsLine(queue) /\ IsLine(claims) /\ IsLine(batch) /\ IsLine(back) /\ IsLine(done)
          /\ Len(claims) \in Nat /\ Len(batch) \in Nat /\ Len(done) \in Nat
          /\ at \in Nat \ {0} /\ errors \in Nat /\ reply \in Seq(Replies) /\ OwnOutcome
          /\ DOMAIN reply = 1 .. Len(reply) /\ DOMAIN reply \subseteq Nat /\ Len(reply) \in Nat
  BY SlotFacts
<1>step. pc = "restore" /\ back = <<>> /\ UNCHANGED <<server, mode, source, revoked, stop, said, errors, heartbeats>>
  BY DEF Restored, Works, outside
<1>here. /\ ~Batch => Len(claims) <= 1 /\ Len(batch) <= 1 /\ done = <<>>
         /\ done = <<>> /\ controllers = {} /\ Rng(back) = {}
         /\ Open = IF HandedBack THEN {} ELSE Rng(batch)
         /\ HandedBack => heartbeats = {}
         /\ heartbeats \subseteq Rng(batch)
  BY <1>step, <1>inv, EmptyLine DEF Shape, Timers, Open
<1>1. CASE batch = <<>> \/ HandedBack
  <2>1. Return /\ controllers' = controllers
    BY <1>1 DEF Restored, HandedBack
  <2>2. heartbeats = {} /\ Open = {}
    BY <1>here, <1>1, EmptyLine
  <2> QED BY <1>step, <1>types, <1>here, <2>1, <2>2, FreesAlone
<1>2. CASE ~(batch = <<>> \/ HandedBack)
  <2>1. /\ pc' = "limit" /\ at' = 1 /\ controllers' = controllers \cup Rng(batch)
        /\ UNCHANGED <<claims, reply, batch, kind, back, done>>
        /\ UNCHANGED <<state, why, queue, mode, source, revoked, stop, said, errors, heartbeats>>
    BY <1>step, <1>2 DEF Restored, Goto, HandedBack, server
  <2>2. Typed'
    BY <1>inv, <1>types, <2>1 DEF Typed, Pcs
  <2>3. Shape'
    BY <1>step, <1>here, <1>2, <2>1 DEF Shape, Batch, HandedBack
  <2>4. Open' = Open
    BY <1>here, <1>2, <2>1 DEF Open
  <2>5. Books'
    BY <1>step, <1>inv, <1>types, <2>1, <2>4, BooksStay
  <2>6. Verdicts'
    BY <1>step, <1>inv, <1>types, <1>here, <2>1, EmptyLine, OwnStays DEF Verdicts
  <2>7. Timers'
    BY <1>here, <1>2, <2>1 DEF Timers, HandedBack
  <2>8. ASSUME Races = {} PROVE InOrder'
    BY <1>step, <1>inv, <1>2, <2>1, <2>8 DEF InOrder, FromList
  <2> QED BY <2>2, <2>3, <2>5, <2>6, <2>7, <2>8 DEF SlotInv
<1> QED BY <1>1, <1>2

-----------------------------------------------------------------------------
(* The processor *)

LEMMA LimitStep ==
  ASSUME SlotInv, Limit
  PROVE  SlotInv'
<1>step. /\ pc = "limit" /\ at' = 1
         /\ CutShort /\ FromList /\ Len(batch) > 1 => "limiter" \in Races
         /\ UNCHANGED <<mode, source, state, why, queue, revoked, stop, claims, reply, batch, said, done, errors>>
  BY DEF Limit, Goto, Works, server, outside
<1>inv. Typed /\ Shape /\ Books /\ Verdicts /\ Timers /\ (Races = {} => InOrder)
  BY SlotFacts
<1>types. /\ IsLine(queue) /\ IsLine(claims) /\ IsLine(batch) /\ IsLine(back) /\ IsLine(done)
          /\ Len(claims) \in Nat /\ Len(batch) \in Nat /\ Len(done) \in Nat
          /\ at \in Nat \ {0} /\ errors \in Nat /\ reply \in Seq(Replies) /\ OwnOutcome
          /\ DOMAIN reply = 1 .. Len(reply) /\ DOMAIN reply \subseteq Nat /\ Len(reply) \in Nat
  BY SlotFacts
<1>here. /\ ~Batch => Len(claims) <= 1 /\ Len(batch) <= 1 /\ done = <<>>
         /\ done = <<>> /\ back = <<>> /\ ~HandedBack
         /\ Open = Rng(batch) /\ heartbeats \cup controllers \subseteq Rng(batch)
  BY <1>step, <1>inv DEF Shape, Timers, Open
<1>order. Races = {} /\ FromList => Ordered(queue) /\ Ahead(batch, queue)
  BY <1>step, <1>inv DEF InOrder
<1>verdicts. pc' \notin {"ended", "settle", "activate", "handle", "chained", "complete", "follow"} => Verdicts'
  <2>1. OwnOutcome'
    BY <1>step, <1>types, OwnStays
  <2> QED BY <1>step, <1>inv, <2>1 DEF Verdicts
<1>1. CASE CutShort
  <2>1. /\ back' = batch /\ pc' = "restore"
        /\ heartbeats' = heartbeats \ Rng(batch) /\ controllers' = controllers \ Rng(batch)
    BY <1>1 DEF Limit, Goto, Free
  <2>back. HandedBack'
    BY <1>1 DEF Limit, HandedBack
  <2>2. Typed'
    <3>1. pc' \in Pcs /\ at' \in Nat \ {0}
      BY <1>step, <2>1 DEF Pcs
    <3>2. IsLine(batch) /\ back' = batch
      BY <1>types, <2>1
    <3>3. IsLine(back')
      BY <3>2
    <3>4. IsLine(queue') /\ IsLine(claims') /\ IsLine(batch') /\ IsLine(done')
      BY <1>step, <1>types
    <3> QED BY <1>step, <1>inv, <1>types, <3>1, <3>3, <3>4 DEF Typed
  <2>3. Shape'
    BY <1>step, <1>here, <2>1, <2>back DEF Shape, Batch
  <2>4. Open' = Open
    BY <1>step, <1>here, <2>1, <2>back DEF Open
  <2>5. Books'
    BY <1>step, <1>inv, <1>types, <2>1, <2>4, BooksStay
  <2>6. heartbeats' = {} /\ controllers' = {}
    BY <1>here, <2>1
  <2>7. Timers'
    BY <2>6 DEF Timers
  <2>8. ASSUME Races = {} PROVE InOrder'
    <3>1. CASE FromList
      <4>1. Len(batch) <= 1 /\ DOMAIN batch = 1 .. Len(batch)
        BY <1>step, <1>types, <1>1, <2>8, <3>1, LineFacts
      <4>2. \A m, n \in DOMAIN batch : ~(m < n)
        BY <1>types, <4>1
      <4>3. Descending(back')
        BY <2>1, <4>2 DEF Descending
      <4> QED BY <1>step, <1>order, <2>1, <2>8, <3>1, <2>back, <4>3 DEF InOrder
    <3>2. CASE ~FromList
      BY <1>step, <3>2 DEF InOrder, FromList
    <3> QED BY <3>1, <3>2
  <2> QED BY <1>verdicts, <2>1, <2>2, <2>3, <2>5, <2>7, <2>8 DEF SlotInv
<1>2. CASE ~CutShort
  <2>1. pc' = "run" /\ UNCHANGED <<back, kind, heartbeats, controllers>>
    BY <1>2 DEF Limit, Goto, timers
  <2>2. Typed'
    BY <1>step, <1>inv, <1>types, <2>1 DEF Typed, Pcs
  <2>3. Shape'
    BY <1>step, <1>here, <2>1 DEF Shape, Batch, HandedBack
  <2>4. Open' = Open
    BY <1>step, <1>here, <2>1 DEF Open
  <2>5. Books'
    BY <1>step, <1>inv, <1>types, <2>1, <2>4, BooksStay
  <2>6. Timers'
    BY <1>step, <1>here, <2>1 DEF Timers, HandedBack
  <2>7. ASSUME Races = {} PROVE InOrder'
    BY <1>step, <1>order, <2>1, <2>7 DEF InOrder, FromList
  <2> QED BY <1>verdicts, <2>1, <2>2, <2>3, <2>5, <2>6, <2>7 DEF SlotInv
<1> QED BY <1>1, <1>2

(* The processor has ended, and has spoken of the jobs of the batch alone. *)
LEMMA EndedFacts ==
  ASSUME SlotInv, pc \in {"limit", "run"}, pc' = "ended", at' = 1,
         UNCHANGED <<mode, source, state, why, queue, revoked, stop, claims, reply, batch, back, done>>,
         heartbeats' = heartbeats \ Rng(batch), controllers' = controllers \ Rng(batch),
         errors' \in Nat, errors' = 0 => errors = 0,
         said' \in [Jobs -> {"none", "value", "bad", "park", "error", "aborted", "moved"}],
         \A i \in Jobs : said'[i] = "moved" <=> said[i] = "moved",
         \A i \in Jobs : i \notin Rng(batch) \/ said[i] = "moved" => said'[i] = said[i],
         \A i \in Rng(batch) : said'[i] # "none",
         mode = "batch" => \A i \in Jobs : said'[i] # "park"
  PROVE  SlotInv'
<1>inv. Typed /\ Shape /\ Books /\ Verdicts /\ Timers /\ (Races = {} => InOrder)
  BY SlotFacts
<1>types. /\ IsLine(queue) /\ IsLine(claims) /\ IsLine(batch) /\ IsLine(back) /\ IsLine(done)
          /\ Len(claims) \in Nat /\ Len(batch) \in Nat /\ Len(done) \in Nat
          /\ at \in Nat \ {0} /\ errors \in Nat /\ reply \in Seq(Replies) /\ OwnOutcome
          /\ DOMAIN reply = 1 .. Len(reply) /\ DOMAIN reply \subseteq Nat /\ Len(reply) \in Nat
  BY SlotFacts
<1>here. /\ ~Batch => Len(claims) <= 1 /\ Len(batch) <= 1 /\ done = <<>>
         /\ done = <<>> /\ back = <<>>
         /\ Open = Rng(batch) /\ heartbeats \cup controllers \subseteq Rng(batch)
  BY <1>inv DEF Shape, Timers, Open
<1>1. Typed'
  BY <1>inv, <1>types DEF Typed, Pcs
<1>2. Shape'
  BY <1>here DEF Shape, Batch
<1>3. Open' = Open
  BY <1>here DEF Open
<1>4. Books'
  BY <1>inv, <1>3, BooksSaid DEF server
<1>5. \A i \in Jobs : said'[i] = said[i] \/ why[i] = "none"
  <2> SUFFICES ASSUME NEW i \in Rng(batch), i \in Jobs, said[i] # "moved" PROVE why[i] = "none"
    OBVIOUS
  <2>1. InHand(i)
    BY <1>inv, <1>here DEF Books
  <2> QED BY <1>inv, <2>1 DEF Books
<1>6. OwnOutcome'
  BY <1>types, <1>5, OwnSaid
<1>7. Verdicts'
  BY <1>here, <1>6, EmptyLine DEF Verdicts
<1>8. heartbeats' = {} /\ controllers' = {}
  BY <1>here
<1>9. Timers'
  BY <1>8 DEF Timers
<1>10. ASSUME Races = {} PROVE InOrder'
  BY <1>inv, <1>10 DEF InOrder, FromList
<1> QED BY <1>1, <1>2, <1>4, <1>7, <1>9, <1>10 DEF SlotInv

LEMMA BlamedFacts ==
  ASSUME Typed, NEW s, s = Blamed
  PROVE  /\ s \in [Jobs -> {"none", "value", "bad", "park", "error", "aborted", "moved"}]
         /\ \A i \in Jobs : s[i] = "moved" <=> said[i] = "moved"
         /\ \A i \in Jobs : i \notin Rng(batch) \/ said[i] = "moved" => s[i] = said[i]
         /\ \A i \in Rng(batch) : s[i] # "none"
         /\ mode = "batch" => \A i \in Jobs : s[i] # "park"
<1>1. Rng(batch) \subseteq Jobs
  BY LineFacts DEF Typed
<1> QED BY <1>1 DEF Blamed, Typed

LEMMA LimitThrowsStep ==
  ASSUME SlotInv, LimitThrows
  PROVE  SlotInv'
<1>step. /\ pc = "limit" /\ errors' = errors + 1
         /\ heartbeats' = heartbeats \ Rng(batch) /\ controllers' = controllers \ Rng(batch)
         /\ UNCHANGED <<mode, source, state, why, queue, revoked, stop>>
  BY DEF LimitThrows, Free, Breaks, server, outside
<1>inv. Typed /\ Shape /\ Books /\ Verdicts /\ Timers /\ (Races = {} => InOrder)
  BY SlotFacts
<1>types. /\ IsLine(queue) /\ IsLine(claims) /\ IsLine(batch) /\ IsLine(back) /\ IsLine(done)
          /\ Len(claims) \in Nat /\ Len(batch) \in Nat /\ Len(done) \in Nat
          /\ at \in Nat \ {0} /\ errors \in Nat /\ reply \in Seq(Replies) /\ OwnOutcome
          /\ DOMAIN reply = 1 .. Len(reply) /\ DOMAIN reply \subseteq Nat /\ Len(reply) \in Nat
  BY SlotFacts
<1>1. errors' \in Nat /\ errors' # 0
  BY <1>step, <1>types
<1>2. CASE Batch
  <2>1. pc' = "ended" /\ at' = 1 /\ said' = Blamed /\ UNCHANGED <<claims, reply, batch, back, done>>
    BY <1>2 DEF LimitThrows, Goto
  <2> QED BY <1>step, <1>inv, <1>1, <2>1, BlamedFacts, EndedFacts
<1>3. CASE ~Batch
  <2>1. Return /\ said' = said
    BY <1>3 DEF LimitThrows
  <2>2. heartbeats' = {} /\ controllers' = {}
    BY <1>step, <1>inv DEF Timers
  <2> QED BY <1>step, <1>1, <2>1, <2>2, FreesAlone DEF server
<1> QED BY <1>2, <1>3

LEMMA TimeoutStep ==
  ASSUME SlotInv, Timeout
  PROVE  SlotInv'
<1>step. /\ pc = "run" /\ pc' = "ended" /\ at' = 1 /\ said' = Blamed
         /\ heartbeats' = heartbeats \ Rng(batch) /\ controllers' = controllers \ Rng(batch)
         /\ UNCHANGED <<mode, source, state, why, queue, revoked, stop, claims, reply, batch, back, done, errors>>
  BY DEF Timeout, Goto, Works, server, outside
<1>inv. Typed /\ Shape /\ Books /\ Verdicts /\ Timers /\ (Races = {} => InOrder)
  BY SlotFacts
<1>types. /\ IsLine(queue) /\ IsLine(claims) /\ IsLine(batch) /\ IsLine(back) /\ IsLine(done)
          /\ Len(claims) \in Nat /\ Len(batch) \in Nat /\ Len(done) \in Nat
          /\ at \in Nat \ {0} /\ errors \in Nat /\ reply \in Seq(Replies) /\ OwnOutcome
          /\ DOMAIN reply = 1 .. Len(reply) /\ DOMAIN reply \subseteq Nat /\ Len(reply) \in Nat
  BY SlotFacts
<1> QED BY <1>step, <1>inv, <1>types, BlamedFacts, EndedFacts

LEMMA EndRunStep ==
  ASSUME SlotInv, EndRun
  PROVE  SlotInv'
<1>step. /\ pc = "run" /\ pc' = "ended" /\ at' = 1
         /\ heartbeats' = heartbeats \ Rng(batch) /\ controllers' = controllers \ Rng(batch)
         /\ UNCHANGED <<mode, source, state, why, queue, revoked, stop, claims, reply, batch, back, done, errors>>
  BY DEF EndRun, Goto, Works, server, outside
<1>inv. Typed /\ Shape /\ Books /\ Verdicts /\ Timers /\ (Races = {} => InOrder)
  BY SlotFacts
<1>types. /\ IsLine(queue) /\ IsLine(claims) /\ IsLine(batch) /\ IsLine(back) /\ IsLine(done)
          /\ Len(claims) \in Nat /\ Len(batch) \in Nat /\ Len(done) \in Nat
          /\ at \in Nat \ {0} /\ errors \in Nat /\ reply \in Seq(Replies) /\ OwnOutcome
          /\ DOMAIN reply = 1 .. Len(reply) /\ DOMAIN reply \subseteq Nat /\ Len(reply) \in Nat
  BY SlotFacts
<1>1. PICK k \in Kinds : \E w \in [Rng(batch) -> Words(k)] :
        said' = [j \in Jobs |->
                    IF j \notin Rng(batch) \/ said[j] = "moved" THEN said[j]
                    ELSE IF ~Batch /\ j \in aborted /\ w[j] \in {"value", "bad"} THEN "aborted"
                    ELSE w[j]]
  BY DEF EndRun
<1>pick. PICK w \in [Rng(batch) -> Words(k)] :
        said' = [j \in Jobs |->
                    IF j \notin Rng(batch) \/ said[j] = "moved" THEN said[j]
                    ELSE IF ~Batch /\ j \in aborted /\ w[j] \in {"value", "bad"} THEN "aborted"
                    ELSE w[j]]
  BY <1>1
<1>2. Words(k) \subseteq {"value", "bad", "park", "error"}
  BY DEF Kinds, Words
<1>3. \A j \in Rng(batch) : j \in Jobs /\ w[j] \in {"value", "bad", "park", "error"}
  BY <1>types, <1>pick, <1>2, LineFacts
<1>4. /\ said' \in [Jobs -> {"none", "value", "bad", "park", "error", "aborted", "moved"}]
      /\ \A i \in Jobs : said'[i] = "moved" <=> said[i] = "moved"
      /\ \A i \in Jobs : i \notin Rng(batch) \/ said[i] = "moved" => said'[i] = said[i]
      /\ \A i \in Rng(batch) : said'[i] # "none"
  <2>1. \A i \in Jobs : /\ i \notin Rng(batch) \/ said[i] = "moved" => said'[i] = said[i]
                        /\ i \in Rng(batch) /\ said[i] # "moved" =>
                              said'[i] \in {"aborted", "value", "bad", "park", "error"}
    BY <1>pick, <1>3
  <2>2. \A i \in Jobs : said[i] \in {"none", "value", "bad", "park", "error", "aborted", "moved"}
    BY <1>inv DEF Typed
  <2>3. said' = [i \in Jobs |-> said'[i]]
    BY <1>pick
  <2> QED BY <1>3, <2>1, <2>2, <2>3
<1>5. mode = "batch" => \A i \in Jobs : said'[i] # "park"
  <2>1. mode = "batch" => Words(k) \subseteq {"value", "bad", "error"}
    BY DEF Kinds, Words, Batch
  <2>2. mode = "batch" => \A j \in Rng(batch) : w[j] # "park"
    BY <1>pick, <2>1
  <2> QED BY <1>inv, <1>pick, <2>2 DEF Typed
<1> QED BY <1>step, <1>types, <1>4, <1>5, EndedFacts

LEMMA MoveToFailedStep ==
  ASSUME SlotInv, MoveToFailed
  PROVE  SlotInv'
<1>step. /\ pc = "run"
         /\ queue' = queue
         /\ UNCHANGED <<mode, source, revoked, queuePaused, pc, claims, reply, at, batch, kind,
            back, done, heartbeats, controllers, aborted, seenPaused, stop, errors>>
  BY DEF MoveToFailed, FailJob, Goto, Step, Works, Breaks, server, outside, run, timers
<1>inv. Typed /\ Shape /\ Books /\ Verdicts /\ Timers /\ (Races = {} => InOrder)
  BY SlotFacts
<1>types. /\ IsLine(queue) /\ IsLine(claims) /\ IsLine(batch) /\ IsLine(back) /\ IsLine(done)
          /\ Len(claims) \in Nat /\ Len(batch) \in Nat /\ Len(done) \in Nat
          /\ at \in Nat \ {0} /\ errors \in Nat /\ reply \in Seq(Replies) /\ OwnOutcome
          /\ DOMAIN reply = 1 .. Len(reply) /\ DOMAIN reply \subseteq Nat /\ Len(reply) \in Nat
  BY SlotFacts
<1>pick. PICK j \in Rng(batch) : /\ said[j] # "moved" /\ FailJob(j, "error")
                                 /\ said' = [said EXCEPT ![j] = "moved"]
  BY DEF MoveToFailed
<1>1. j \in Jobs /\ j \in Open /\ Outcome(j, {"error"})
  BY <1>step, <1>types, <1>pick, LineFacts, FailJobOutcome DEF Open
<1>2. /\ state' \in [Jobs -> {"waiting", "claimed", "active", "completed", "failed", "elsewhere"}]
      /\ why' \in [Jobs -> {"none", "value", "error", "revoked"}]
      /\ \A i \in Jobs : i # j => state'[i] = state[i] /\ why'[i] = why[i]
      /\ state'[j] \in {"failed", "elsewhere"} /\ why'[j] \in {"error", "none"}
  <2>1. /\ state' \in [Jobs -> {"waiting", "claimed", "active", "completed", "failed", "elsewhere"}]
        /\ why' \in [Jobs -> {"none", "value", "error", "revoked"}]
        /\ \A i \in Jobs : i # j => state'[i] = state[i] /\ why'[i] = why[i]
        /\ state'[j] \in {"completed", "failed", "elsewhere"}
        /\ state'[j] = "completed" => why'[j] = "value"
        /\ why'[j] \in {"error"} \cup {"none"}
    BY <1>inv, <1>1, OutcomeFacts
  <2> QED BY <2>1
<1>3. said'[j] = "moved" /\ \A i \in Jobs : i # j => said'[i] = said[i]
  BY <1>inv, <1>pick, <1>1 DEF Typed
<1>4. said' \in [Jobs -> {"none", "value", "bad", "park", "error", "aborted", "moved"}]
  BY <1>inv, <1>pick DEF Typed
<1>typed. Typed'
  BY <1>step, <1>inv, <1>types, <1>2, <1>3, <1>4 DEF Typed
<1>shape. Shape'
  BY <1>step, <1>inv DEF Shape, Batch, HandedBack
<1>open. Open' = Open /\ Open \subseteq Jobs /\ Rng(queue) \subseteq Jobs /\ j \notin Rng(queue)
  BY <1>step, <1>inv, <1>types, <1>1, OpenFacts, LineFacts DEF Open
<1>books. Books'
  <2>1. \A i \in Rng(queue)' : state'[i] = "waiting"
    BY <1>step, <1>inv, <1>2, <1>open DEF Books, Rng
  <2>2. \A i \in Jobs : state'[i] = "waiting" \/ InHand(i)' => why'[i] = "none"
    BY <1>inv, <1>2 DEF Books, InHand
  <2>3. \A i \in Jobs : said'[i] = "moved" => state'[i] \in {"failed", "elsewhere"}
    BY <1>inv, <1>2, <1>3 DEF Books
  <2>4. \A i \in Open' : InHand(i)' \/ (said'[i] = "moved" /\ pc' \in {"run", "ended", "settle"})
    BY <1>step, <1>inv, <1>2, <1>3, <1>open DEF Books, InHand
  <2>5. errors' = 0 /\ stop' # "force" => \A i \in Jobs : InHand(i)' => i \in Open'
    BY <1>step, <1>inv, <1>2, <1>open DEF Books, InHand
  <2> QED BY <2>1, <2>2, <2>3, <2>4, <2>5 DEF Books
<1>verdicts. Verdicts'
  <2>1. OwnOutcome'
    BY <1>step, <1>types, <1>2, <1>3 DEF OwnOutcome
  <2>2. done = <<>>
    BY <1>step, <1>inv DEF Shape
  <2> QED BY <1>step, <2>1, <2>2, EmptyLine DEF Verdicts
<1>timers. Timers'
  BY <1>step, <1>inv DEF Timers, HandedBack
<1>order. ASSUME Races = {} PROVE InOrder'
  BY <1>order, <1>step, <1>inv DEF InOrder, FromList
<1> QED BY <1>typed, <1>shape, <1>books, <1>verdicts, <1>timers, <1>order DEF SlotInv

LEMMA EndedStep ==
  ASSUME SlotInv, Ended
  PROVE  SlotInv'
<1>step. pc = "ended" /\ UNCHANGED <<server, mode, source, revoked, stop, said, errors, heartbeats, controllers>>
  BY DEF Ended, Works, outside
<1>inv. Typed /\ Shape /\ Books /\ Verdicts /\ Timers /\ (Races = {} => InOrder)
  BY SlotFacts
<1>types. /\ IsLine(queue) /\ IsLine(claims) /\ IsLine(batch) /\ IsLine(back) /\ IsLine(done)
          /\ Len(claims) \in Nat /\ Len(batch) \in Nat /\ Len(done) \in Nat
          /\ at \in Nat \ {0} /\ errors \in Nat /\ reply \in Seq(Replies) /\ OwnOutcome
          /\ DOMAIN reply = 1 .. Len(reply) /\ DOMAIN reply \subseteq Nat /\ Len(reply) \in Nat
  BY SlotFacts
<1>here. /\ ~Batch => Len(claims) <= 1 /\ Len(batch) <= 1 /\ done = <<>>
         /\ done = <<>> /\ back = <<>>
         /\ heartbeats = {} /\ controllers = {}
         /\ \A i \in Rng(batch) : said[i] # "none"
  BY <1>step, <1>inv DEF Shape, Timers, Verdicts
<1>1. CASE Forced
  <2>1. Return
    BY <1>1 DEF Ended
  <2>2. stop = "force"
    BY <1>1 DEF Forced
  <2> QED BY <1>step, <1>types, <1>here, <2>1, <2>2, FreesAlone
<1>2. CASE ~Forced
  <2>1. /\ pc' = "settle" /\ at' = 1 /\ UNCHANGED <<claims, reply, batch, kind, back, done>>
        /\ UNCHANGED <<state, why, queue, mode, source, revoked, stop, said, errors, heartbeats, controllers>>
    BY <1>step, <1>2 DEF Ended, Goto, server
  <2>2. Typed'
    BY <1>inv, <1>types, <2>1 DEF Typed, Pcs
  <2>3. Shape'
    BY <1>types, <1>here, <2>1, EmptyLine DEF Shape, Batch
  <2>4. Open' = Open
    <3>1. Rest(batch, 1, <<>>, {}) = Rng(batch) /\ Rng(done) = {}
      BY <1>types, <1>here, RestAll, EmptyLine
    <3> QED BY <1>step, <2>1, <3>1 DEF Open
  <2>5. Books'
    BY <1>step, <1>inv, <1>types, <2>1, <2>4, BooksStay
  <2>6. Verdicts'
    <3>1. OwnOutcome'
      BY <1>types, <2>1, OwnStays
    <3> QED BY <1>here, <2>1, <3>1, EmptyLine DEF Verdicts
  <2>7. Timers'
    BY <1>here, <2>1 DEF Timers
  <2>8. ASSUME Races = {} PROVE InOrder'
    BY <1>step, <1>inv, <2>1, <2>8 DEF InOrder, FromList
  <2> QED BY <2>2, <2>3, <2>5, <2>6, <2>7, <2>8 DEF SlotInv
<1> QED BY <1>1, <1>2

-----------------------------------------------------------------------------
(* The jobs are settled one after the other *)

LEMMA SettleFacts ==
  ASSUME SlotInv, Settling
  PROVE  /\ This \in Jobs /\ This \in Open /\ This \in Rng(batch) /\ said[This] # "none" /\ This \notin Rng(done)
         /\ heartbeats = {} /\ controllers = {} /\ back = <<>>
         /\ at \in DOMAIN batch /\ at + 1 <= Len(batch) + 1
         /\ Before(batch, at + 1) = Before(batch, at) \cup {This} /\ Rng(done) \subseteq Before(batch, at)
         /\ ~Batch => Open = {This} /\ done = <<>>
<1>inv. Typed /\ Shape /\ Books /\ Verdicts /\ Timers /\ (Races = {} => InOrder)
  BY SlotFacts
<1>types. /\ IsLine(queue) /\ IsLine(claims) /\ IsLine(batch) /\ IsLine(back) /\ IsLine(done)
          /\ Len(claims) \in Nat /\ Len(batch) \in Nat /\ Len(done) \in Nat
          /\ at \in Nat \ {0} /\ errors \in Nat /\ reply \in Seq(Replies) /\ OwnOutcome
          /\ DOMAIN reply = 1 .. Len(reply) /\ DOMAIN reply \subseteq Nat /\ Len(reply) \in Nat
  BY SlotFacts
<1>here. /\ ~Batch => Len(batch) <= 1 /\ done = <<>>
         /\ back = <<>> /\ at <= Len(batch) + 1 /\ Rng(done) \subseteq Before(batch, at)
         /\ heartbeats = {} /\ controllers = {} /\ at \in DOMAIN batch /\ pc = "settle"
         /\ \A i \in Rng(batch) : said[i] # "none"
  BY <1>inv, <1>types, LineFacts DEF Shape, Timers, Verdicts, Settling
<1>1. /\ Before(batch, at + 1) = Before(batch, at) \cup {This} /\ This \notin Before(batch, at)
      /\ This \in Jobs /\ This \in Rng(batch)
  BY <1>types, <1>here, BeforeFacts, LineFacts DEF This
<1>2. This \in Rest(batch, at, <<>>, {}) /\ Rest(batch, at, <<>>, {}) \subseteq Rest(batch, at + 1, <<>>, {}) \cup {This}
  <2>1. at \notin DOMAIN <<>>
    BY EmptyLine
  <2> QED BY <1>types, <1>here, <2>1, RestStep DEF This
<1>3. Open = Rest(batch, at, <<>>, {}) \cup Rng(done)
  BY <1>here DEF Open
<1>4. ASSUME ~Batch PROVE Open = {This}
  <2>1. at + 1 > Len(batch) /\ at + 1 \in Nat
    BY <1>types, <1>here, <1>4
  <2>2. Rest(batch, at + 1, <<>>, {}) = {}
    BY <1>types, <2>1, RestEnd
  <2> QED BY <1>here, <1>2, <1>3, <1>4, <2>2, EmptyLine
<1>5. at + 1 <= Len(batch) + 1
  BY <1>types, <1>here, LineFacts
<1> QED BY <1>here, <1>1, <1>2, <1>3, <1>4, <1>5

Fits(j, W) ==
    /\ said[j] = "moved" => "value" \notin W
    /\ "value" \in W => said[j] = "value"
    /\ "error" \in W => said[j] \in {"error", "aborted", "bad", "park", "moved"}
    /\ "revoked" \in W => j \in revoked

(* One job is settled and the loop goes on; one that succeeded stays in hand. *)
LEMMA SettleOn ==
  ASSUME SlotInv, Settling, OnToNext, errors' = errors, done' = done,
         \/ UNCHANGED server /\ said[This] = "moved"
         \/ \E W : Outcome(This, W) /\ Fits(This, W)
  PROVE  SlotInv'
<1>step. /\ pc = "settle" /\ pc' = pc /\ at' = at + 1
         /\ UNCHANGED <<mode, source, revoked, stop, claims, reply, batch, kind, said, back, done, heartbeats,
                        controllers, errors>>
  BY DEF Settling, OnToNext, Step, outside, timers
<1>inv. Typed /\ Shape /\ Books /\ Verdicts /\ Timers /\ (Races = {} => InOrder)
  BY SlotFacts
<1>types. /\ IsLine(queue) /\ IsLine(claims) /\ IsLine(batch) /\ IsLine(back) /\ IsLine(done)
          /\ Len(claims) \in Nat /\ Len(batch) \in Nat /\ Len(done) \in Nat
          /\ at \in Nat \ {0} /\ errors \in Nat /\ reply \in Seq(Replies) /\ OwnOutcome
          /\ DOMAIN reply = 1 .. Len(reply) /\ DOMAIN reply \subseteq Nat /\ Len(reply) \in Nat
  BY SlotFacts
<1>here. /\ This \in Jobs /\ This \in Open /\ This \notin Rng(done)
         /\ heartbeats = {} /\ controllers = {} /\ back = <<>>
         /\ at \in DOMAIN batch /\ at + 1 <= Len(batch) + 1
         /\ Rng(done) \subseteq Before(batch, at + 1)
  BY SettleFacts
<1>mode. ~Batch => Len(claims) <= 1 /\ Len(batch) <= 1 /\ done = <<>>
  BY <1>inv DEF Shape
<1>server. /\ state' \in [Jobs -> {"waiting", "claimed", "active", "completed", "failed", "elsewhere"}]
           /\ why' \in [Jobs -> {"none", "value", "error", "revoked"}] /\ queue' = queue
  <2>1. CASE UNCHANGED server
    BY <1>inv, <2>1 DEF server, Typed
  <2>2. CASE \E W : Outcome(This, W) /\ Fits(This, W)
    BY <1>inv, <1>here, <2>2, OutcomeFacts
  <2> QED BY <2>1, <2>2
<1>open. Open' \subseteq Open /\ Open \subseteq Open' \cup {This} /\ This \notin Open'
  BY <1>step, <1>types, <1>here, RestStep DEF Open, This
<1>typed. Typed'
  BY <1>step, <1>inv, <1>types, <1>server DEF Typed
<1>shape. Shape'
  BY <1>step, <1>here, <1>mode DEF Shape, Batch
<1>books. Books'
  <2>1. CASE UNCHANGED server /\ said[This] = "moved"
    <3>1. ~InHand(This)
      BY <1>inv, <1>here, <2>1 DEF Books, InHand
    <3> QED BY <1>step, <1>inv, <1>open, <2>1, <3>1, BooksStay DEF server
  <2>2. CASE \E W : Outcome(This, W) /\ Fits(This, W)
    <3>1. PICK W : Outcome(This, W) /\ Fits(This, W)
      BY <2>2
    <3>2. said[This] = "moved" => "value" \notin W
      BY <3>1 DEF Fits
    <3> QED BY <1>step, <1>inv, <1>here, <1>open, <3>1, <3>2, BooksEnd
  <2> QED BY <2>1, <2>2
<1>verdicts. Verdicts'
  <2>1. OwnOutcome'
    <3>1. CASE UNCHANGED server
      BY <1>step, <1>types, <3>1, OwnStays DEF server
    <3>2. CASE \E W : Outcome(This, W) /\ Fits(This, W)
      BY <1>step, <1>inv, <1>types, <1>here, <3>2, OwnEnds DEF Fits
    <3> QED BY <3>1, <3>2
  <2> QED BY <1>step, <1>inv, <2>1 DEF Verdicts
<1>timers. Timers'
  BY <1>step, <1>here DEF Timers
<1>order. ASSUME Races = {} PROVE InOrder'
  BY <1>order, <1>step, <1>inv, <1>server DEF InOrder, FromList
<1> QED BY <1>typed, <1>shape, <1>books, <1>verdicts, <1>timers, <1>order DEF SlotInv

(* The job was the last one, or the others are left to recovery. *)
LEMMA SettleOver ==
  ASSUME SlotInv, Settling, Over,
         \/ errors' = errors /\ ~Batch
         \/ errors' = errors + 1,
         \/ UNCHANGED server /\ (said[This] = "moved" \/ errors' = errors + 1)
         \/ \E W : Outcome(This, W) /\ Fits(This, W)
  PROVE  SlotInv'
<1>step. Return /\ UNCHANGED <<mode, source, revoked, stop, said, heartbeats, controllers>>
  BY DEF Over, outside
<1>inv. Typed /\ Shape /\ Books /\ Verdicts /\ Timers /\ (Races = {} => InOrder)
  BY SlotFacts
<1>types. /\ IsLine(queue) /\ IsLine(claims) /\ IsLine(batch) /\ IsLine(back) /\ IsLine(done)
          /\ Len(claims) \in Nat /\ Len(batch) \in Nat /\ Len(done) \in Nat
          /\ at \in Nat \ {0} /\ errors \in Nat /\ reply \in Seq(Replies) /\ OwnOutcome
          /\ DOMAIN reply = 1 .. Len(reply) /\ DOMAIN reply \subseteq Nat /\ Len(reply) \in Nat
  BY SlotFacts
<1>here. /\ This \in Jobs /\ This \in Open /\ heartbeats = {} /\ controllers = {}
         /\ ~Batch => Open = {This}
  BY SettleFacts
<1>1. errors' \in Nat /\ (errors' = 0 => errors = 0 /\ errors' = errors /\ ~Batch)
  BY <1>types
<1>2. CASE UNCHANGED server /\ (said[This] = "moved" \/ errors' = errors + 1)
  <2>1. said[This] = "moved" => ~InHand(This)
    BY <1>inv, <1>here DEF Books, InHand
  <2>2. errors' = 0 /\ stop # "force" => errors = 0 /\ \A i \in Open : ~InHand(i)
    BY <1>types, <1>here, <1>1, <1>2, <2>1
  <2> QED BY <1>step, <1>here, <1>1, <1>2, <2>2, FreesAlone
<1>3. CASE \E W : Outcome(This, W) /\ Fits(This, W)
  <2>1. PICK W : Outcome(This, W) /\ Fits(This, W)
    BY <1>3
  <2>2. /\ said[This] = "moved" => "value" \notin W
        /\ "value" \in W => said[This] = "value"
        /\ "error" \in W => said[This] \in {"error", "aborted", "bad", "park", "moved"}
        /\ "revoked" \in W => This \in revoked
    BY <2>1 DEF Fits
  <2>3. errors' = 0 /\ stop # "force" => errors = 0 /\ Open \subseteq {This}
    BY <1>here, <1>1
  <2> QED BY <1>step, <1>here, <1>1, <2>1, <2>2, <2>3, FreesWith
<1> QED BY <1>2, <1>3

LEMMA SkipMovedStep ==
  ASSUME SlotInv, SkipMoved
  PROVE  SlotInv'
<1>1. Settling /\ UNCHANGED server /\ said[This] = "moved" /\ errors' = errors
  BY DEF SkipMoved, Works
<1>2. CASE Batch
  BY <1>1, <1>2, SettleOn DEF SkipMoved
<1>3. CASE ~Batch
  BY <1>1, <1>3, SettleOver DEF SkipMoved
<1> QED BY <1>2, <1>3

LEMMA VerdictFits ==
  ASSUME SlotInv, Settling, Fails(This)
  PROVE  Verdict(This) \in {"error", "revoked"} /\ Fits(This, {Verdict(This)})
BY DEF Verdict, Fits, Fails

LEMMA SettleFailedStep ==
  ASSUME SlotInv, SettleFailed
  PROVE  SlotInv'
<1>1. Settling /\ Fails(This) /\ FailJob(This, Verdict(This)) /\ errors' = errors
  BY DEF SettleFailed, Works
<1>2. \E W : Outcome(This, W) /\ Fits(This, W)
  <2>1. Verdict(This) \in {"error", "revoked"} /\ Fits(This, {Verdict(This)})
    BY <1>1, VerdictFits
  <2>2. Outcome(This, {Verdict(This)})
    BY <1>1, <2>1, FailJobOutcome
  <2> QED BY <2>1, <2>2
<1>3. CASE Batch
  BY <1>1, <1>2, <1>3, SettleOn DEF SettleFailed
<1>4. CASE ~Batch
  BY <1>1, <1>2, <1>4, SettleOver DEF SettleFailed
<1> QED BY <1>3, <1>4

LEMMA SettleBadStep ==
  ASSUME SlotInv, SettleBad
  PROVE  SlotInv'
<1>1. Settling /\ said[This] = "bad" /\ FailJob(This, "error") /\ errors' = errors
  BY DEF SettleBad, Works
<1>2. \E W : Outcome(This, W) /\ Fits(This, W)
  <2>1. Fits(This, {"error"})
    BY <1>1 DEF Fits
  <2>2. Outcome(This, {"error"})
    BY <1>1, FailJobOutcome
  <2> QED BY <2>1, <2>2
<1>3. CASE Batch
  BY <1>1, <1>2, <1>3, SettleOn DEF SettleBad
<1>4. CASE ~Batch
  BY <1>1, <1>2, <1>4, SettleOver DEF SettleBad
<1> QED BY <1>3, <1>4

LEMMA SettleParkedStep ==
  ASSUME SlotInv, SettleParked
  PROVE  SlotInv'
<1>1. /\ Settling /\ said[This] = "park" /\ Over /\ errors' = errors
      /\ (Put(This, "elsewhere", "none") /\ queue' = queue) \/ FailJob(This, "error")
  BY DEF SettleParked, Works
<1>2. \E W : Outcome(This, W) /\ Fits(This, W)
  <2>1. Fits(This, {"error"}) /\ Fits(This, {})
    BY <1>1 DEF Fits
  <2>2. Outcome(This, {"error"}) \/ Outcome(This, {})
    BY <1>1, FailJobOutcome, ParkOutcome
  <2> QED BY <2>1, <2>2
<1>3. ~Batch
  BY <1>1, SettleFacts, SlotFacts DEF Typed, Batch
<1> QED BY <1>1, <1>2, <1>3, SettleOver

LEMMA SettleThrowsStep ==
  ASSUME SlotInv, SettleThrows
  PROVE  SlotInv'
<1>1. /\ Settling /\ said[This] # "moved" /\ said[This] # "none" /\ Over /\ errors' = errors + 1
      /\ \/ UNCHANGED server
         \/ said[This] = "value" /\ Complete(This)
         \/ said[This] # "value" /\ FailJob(This, "error")
  BY SettleFacts DEF SettleThrows, MayHave, Breaks
<1>2. said[This] \in {"none", "value", "bad", "park", "error", "aborted", "moved"}
  BY <1>1, SettleFacts, SlotFacts DEF Typed
<1>3. CASE UNCHANGED server
  BY <1>1, <1>3, SettleOver
<1>4. CASE ~(UNCHANGED server) /\ said[This] = "value" /\ Complete(This)
  <2>1. Outcome(This, {"value"}) /\ Fits(This, {"value"})
    BY <1>4, CompleteOutcome DEF Fits
  <2> QED BY <1>1, <2>1, SettleOver
<1>5. CASE said[This] # "value" /\ FailJob(This, "error")
  <2>1. Outcome(This, {"error"}) /\ Fits(This, {"error"})
    BY <1>1, <1>2, <1>5, FailJobOutcome DEF Fits
  <2> QED BY <1>1, <2>1, SettleOver
<1> QED BY <1>1, <1>3, <1>4, <1>5

LEMMA SettleValueStep ==
  ASSUME SlotInv, SettleValue
  PROVE  SlotInv'
<1>step. /\ Settling /\ said[This] = "value"
         /\ pc' = pc /\ at' = at + 1 /\ done' = Append(done, This)
         /\ pc = "settle" /\ Batch
         /\ UNCHANGED <<mode, source, state, why, queue, revoked, queuePaused, claims, reply, batch,
            kind, said, back, heartbeats, controllers, aborted, seenPaused, stop, errors>>
  BY DEF SettleValue, Settling, Collected, OnToNext, Goto, Step, Works, Breaks, server, outside,
         run, timers
<1>inv. Typed /\ Shape /\ Books /\ Verdicts /\ Timers /\ (Races = {} => InOrder)
  BY SlotFacts
<1>types. /\ IsLine(queue) /\ IsLine(claims) /\ IsLine(batch) /\ IsLine(back) /\ IsLine(done)
          /\ Len(claims) \in Nat /\ Len(batch) \in Nat /\ Len(done) \in Nat
          /\ at \in Nat \ {0} /\ errors \in Nat /\ reply \in Seq(Replies) /\ OwnOutcome
          /\ DOMAIN reply = 1 .. Len(reply) /\ DOMAIN reply \subseteq Nat /\ Len(reply) \in Nat
  BY SlotFacts
<1>here. /\ This \in Jobs /\ This \in Open /\ This \notin Rng(done)
         /\ heartbeats = {} /\ controllers = {} /\ back = <<>>
         /\ at \in DOMAIN batch /\ at + 1 <= Len(batch) + 1
         /\ Before(batch, at + 1) = Before(batch, at) \cup {This} /\ Rng(done) \subseteq Before(batch, at)
  BY <1>step, SettleFacts
<1>more. IsLine(done') /\ Rng(done') = Rng(done) \cup {This}
  BY <1>step, <1>types, <1>here, AppendLine
<1>open. Open' = Open
  <2>1. This \in Rest(batch, at, <<>>, {})
    BY <1>step, <1>here DEF Open
  <2> QED BY <1>step, <1>types, <1>here, <1>more, <2>1, RestStep DEF Open, This
<1>typed. Typed'
  BY <1>step, <1>inv, <1>types, <1>more DEF Typed
<1>shape. Shape'
  BY <1>step, <1>here, <1>more DEF Shape, Batch
<1>books. Books'
  BY <1>step, <1>inv, <1>open, BooksStay
<1>verdicts. Verdicts'
  <2>1. OwnOutcome'
    BY <1>step, <1>types, OwnStays
  <2> QED BY <1>step, <1>inv, <1>more, <2>1 DEF Verdicts
<1>timers. Timers'
  BY <1>step, <1>here DEF Timers
<1>order. ASSUME Races = {} PROVE InOrder'
  BY <1>order, <1>step, <1>inv DEF InOrder, FromList
<1> QED BY <1>typed, <1>shape, <1>books, <1>verdicts, <1>timers, <1>order DEF SlotInv

LEMMA SettledStep ==
  ASSUME SlotInv, Settled
  PROVE  SlotInv'
<1>step. /\ pc = "settle" /\ at > Len(batch)
         /\ pc' = "complete" /\ at' = 1 /\ reply' = <<>>
         /\ UNCHANGED <<mode, source, state, why, queue, revoked, queuePaused, claims, batch, kind,
            said, back, done, heartbeats, controllers, aborted, seenPaused, stop, errors>>
  BY DEF Settled, Goto, Step, Works, Breaks, server, outside, run, timers
<1>inv. Typed /\ Shape /\ Books /\ Verdicts /\ Timers /\ (Races = {} => InOrder)
  BY SlotFacts
<1>types. /\ IsLine(queue) /\ IsLine(claims) /\ IsLine(batch) /\ IsLine(back) /\ IsLine(done)
          /\ Len(claims) \in Nat /\ Len(batch) \in Nat /\ Len(done) \in Nat
          /\ at \in Nat \ {0} /\ errors \in Nat /\ reply \in Seq(Replies) /\ OwnOutcome
          /\ DOMAIN reply = 1 .. Len(reply) /\ DOMAIN reply \subseteq Nat /\ Len(reply) \in Nat
  BY SlotFacts
<1>here. /\ ~Batch => Len(claims) <= 1 /\ Len(batch) <= 1 /\ done = <<>>
         /\ back = <<>> /\ at <= Len(batch) + 1 /\ Rng(done) \subseteq Rng(batch)
         /\ heartbeats = {} /\ controllers = {}
         /\ Rest(batch, at, <<>>, {}) = {} /\ \A i \in Rng(done) : said[i] = "value"
  <2>1. at <= Len(batch) + 1 /\ Rng(done) \subseteq Before(batch, at)
    BY <1>step, <1>inv DEF Shape
  <2>2. Before(batch, at) = Rng(batch)
    <3>1. at = Len(batch) + 1
      BY <1>step, <1>types, <2>1
    <3> QED BY <1>types, <3>1, BeforeEnd
  <2>3. Rest(batch, at, <<>>, {}) = {}
    BY <1>step, <1>types, RestEnd
  <2> QED BY <1>step, <1>inv, <2>1, <2>2, <2>3 DEF Shape, Timers, Verdicts
<1>empty. Len(reply') = 0 /\ DOMAIN reply' = {} /\ reply' \in Seq(Replies)
  BY <1>step
<1>open. Open' = Open
  <2>1. Rest(done, 1, <<>>, Denied) = Rng(done)
    BY <1>types, RestAll
  <2> QED BY <1>step, <1>here, <2>1 DEF Open
<1>typed. Typed'
  BY <1>step, <1>inv, <1>types, <1>empty DEF Typed, Pcs
<1>shape. Shape'
  <2>1. 1 <= Len(done) + 1
    BY <1>types
  <2> QED BY <1>step, <1>here, <1>empty, <2>1 DEF Shape, Batch
<1>books. Books'
  <2>1. \A i \in Open' : said[i] # "moved"
    BY <1>step, <1>here, <1>open DEF Open
  <2> QED BY <1>step, <1>inv, <1>open, <2>1, BooksStay
<1>verdicts. Verdicts'
  <2>1. OwnOutcome'
    BY <1>step, <1>types, OwnStays
  <2> QED BY <1>step, <1>inv, <1>empty, <2>1 DEF Verdicts
<1>timers. Timers'
  BY <1>step, <1>here DEF Timers
<1>order. ASSUME Races = {} PROVE InOrder'
  BY <1>order, <1>step, <1>inv DEF InOrder, FromList
<1> QED BY <1>typed, <1>shape, <1>books, <1>verdicts, <1>timers, <1>order DEF SlotInv

(* The pipeline of completions. *)
LEMMA CompleteEntryStep ==
  ASSUME SlotInv, CompleteEntry
  PROVE  SlotInv'
<1>step. /\ pc = "complete" /\ at <= Len(done)
         /\ pc' = pc /\ at' = at + 1
         /\ UNCHANGED <<mode, source, revoked, queuePaused, claims, batch, kind, said, back, done,
            heartbeats, controllers, aborted, seenPaused, stop>>
  BY DEF CompleteEntry, MayHave, Complete, Goto, Step, Works, Breaks, server, outside, run,
         timers
<1>inv. Typed /\ Shape /\ Books /\ Verdicts /\ Timers /\ (Races = {} => InOrder)
  BY SlotFacts
<1>types. /\ IsLine(queue) /\ IsLine(claims) /\ IsLine(batch) /\ IsLine(back) /\ IsLine(done)
          /\ Len(claims) \in Nat /\ Len(batch) \in Nat /\ Len(done) \in Nat
          /\ at \in Nat \ {0} /\ errors \in Nat /\ reply \in Seq(Replies) /\ OwnOutcome
          /\ DOMAIN reply = 1 .. Len(reply) /\ DOMAIN reply \subseteq Nat /\ Len(reply) \in Nat
  BY SlotFacts
<1>here. /\ ~Batch => Len(claims) <= 1 /\ Len(batch) <= 1 /\ done = <<>>
         /\ back = <<>> /\ Rng(done) \subseteq Rng(batch) /\ Len(reply) = at - 1
         /\ heartbeats = {} /\ controllers = {}
         /\ at \in DOMAIN done /\ at \notin DOMAIN reply /\ done[at] \in Jobs /\ done[at] \in Rng(done)
         /\ said[done[at]] = "value" /\ at + 1 <= Len(done) + 1
  <2>1. /\ ~Batch => Len(claims) <= 1 /\ Len(batch) <= 1 /\ done = <<>>
        /\ back = <<>> /\ Rng(done) \subseteq Rng(batch) /\ Len(reply) = at - 1
        /\ heartbeats = {} /\ controllers = {} /\ \A j \in Rng(done) : said[j] = "value"
    BY <1>step, <1>inv DEF Shape, Timers, Verdicts
  <2>2. at \in DOMAIN done /\ at \notin DOMAIN reply /\ at + 1 <= Len(done) + 1
    BY <1>step, <1>types, <2>1, LineFacts
  <2> QED BY <1>types, <2>1, <2>2, LineFacts
<1>pick. PICK r \in {"REVOKED", "ok", "error"} :
        /\ reply' = Append(reply, r)
        /\ r = "REVOKED" => done[at] \in revoked /\ UNCHANGED server /\ errors' = errors
        /\ r = "ok" => done[at] \notin revoked /\ Complete(done[at]) /\ errors' = errors
        /\ r = "error" => (Complete(done[at]) \/ UNCHANGED server) /\ errors' = errors + 1
  <2>1. CASE /\ Complete(done[at]) /\ errors' = errors
             /\ reply' = Append(reply, IF done[at] \in revoked THEN "REVOKED" ELSE "ok")
    BY <2>1 DEF Complete
  <2>2. CASE (Complete(done[at]) \/ UNCHANGED server) /\ errors' = errors + 1 /\ reply' = Append(reply, "error")
    BY <2>2
  <2> QED BY <2>1, <2>2 DEF CompleteEntry, MayHave, Breaks, Works
<1>reply. /\ reply' \in Seq(Replies) /\ Len(reply') = at /\ DOMAIN reply' = 1 .. at /\ reply'[at] = r
          /\ \A k \in DOMAIN reply' : k # at => k \in DOMAIN reply /\ reply'[k] = reply[k]
          /\ \A k \in DOMAIN reply : k \in DOMAIN reply' /\ k # at /\ reply'[k] = reply[k]
  <2>1. r \in Replies /\ at \in Nat /\ Len(reply) = at - 1 /\ reply \in Seq(Replies) /\ reply' = Append(reply, r)
    BY <1>pick, <1>types, <1>here DEF Replies
  <2> QED BY <2>1, AnswerFacts
<1>open. /\ Open' \subseteq Open /\ Open \subseteq Open' \cup {done[at]} /\ done[at] \in Open
         /\ done[at] \in Open' <=> r = "REVOKED"
  <2>1. at \in DOMAIN reply'
    BY <1>types, <1>reply
  <2>2. /\ Rest(done, 1, reply', Denied) \subseteq Rest(done, 1, reply, Denied)
        /\ Rest(done, 1, reply, Denied) \subseteq Rest(done, 1, reply', Denied) \cup {done[at]}
        /\ done[at] \in Rest(done, 1, reply, Denied)
        /\ done[at] \in Rest(done, 1, reply', Denied) <=> reply'[at] \in Denied
    <3>1. IsLine(done) /\ at \in DOMAIN done /\ at \notin DOMAIN reply
      BY <1>types, <1>here
    <3>2. /\ \A k \in DOMAIN reply' : k # at => k \in DOMAIN reply /\ reply'[k] = reply[k]
          /\ \A k \in DOMAIN reply : k \in DOMAIN reply' /\ k # at /\ reply'[k] = reply[k]
      BY <1>reply
    <3> QED BY <2>1, <3>1, <3>2, RestAnswer
  <2> QED BY <1>step, <1>reply, <2>2 DEF Open, Denied
<1>effect. \/ UNCHANGED server /\ (r = "REVOKED" \/ errors' = errors + 1)
           \/ Outcome(done[at], {"value"}) /\ r # "REVOKED"
  <2>1. CASE r = "REVOKED"
    BY <1>pick, <2>1
  <2>2. CASE r = "ok"
    BY <1>pick, <2>2 DEF Complete, Outcome
  <2>3. CASE r = "error"
    BY <1>pick, <2>3, CompleteOutcome
  <2> QED BY <2>1, <2>2, <2>3
<1>server. /\ state' \in [Jobs -> {"waiting", "claimed", "active", "completed", "failed", "elsewhere"}]
           /\ why' \in [Jobs -> {"none", "value", "error", "revoked"}] /\ queue' = queue /\ errors' \in Nat
  <2>1. CASE Outcome(done[at], {"value"})
    BY <1>step, <1>pick, <1>inv, <1>types, <1>here, <2>1, OutcomeFacts
  <2>2. CASE UNCHANGED server
    BY <1>step, <1>pick, <1>inv, <1>types, <2>2 DEF server, Typed
  <2> QED BY <1>effect, <2>1, <2>2
<1>errors. errors' = 0 => errors = 0 /\ errors' = errors
  BY <1>pick, <1>types
<1>typed. Typed'
  BY <1>step, <1>inv, <1>types, <1>server, <1>reply DEF Typed
<1>shape. Shape'
  <2>1. Len(reply') = at' - 1 /\ at' <= Len(done) + 1
    BY <1>step, <1>types, <1>here, <1>reply
  <2> QED BY <1>step, <1>here, <2>1 DEF Shape, Batch
<1>books. Books'
  <2>1. CASE UNCHANGED server /\ (r = "REVOKED" \/ errors' = errors + 1)
    <3>1. errors' = 0 => Open \subseteq Open'
      BY <1>types, <1>open, <1>errors, <2>1
    <3> QED BY <1>step, <1>inv, <1>open, <1>errors, <2>1, <3>1, BooksStay DEF server
  <2>2. CASE Outcome(done[at], {"value"}) /\ r # "REVOKED"
    BY <1>step, <1>inv, <1>here, <1>open, <1>errors, <2>2, BooksEnd
  <2> QED BY <1>effect, <2>1, <2>2
<1>verdicts. Verdicts'
  <2>1. OwnOutcome'
    <3>1. CASE UNCHANGED server
      BY <1>step, <1>types, <3>1, OwnStays DEF server
    <3>2. CASE Outcome(done[at], {"value"})
      BY <1>step, <1>inv, <1>types, <1>here, <3>2, OwnEnds
    <3> QED BY <1>effect, <3>1, <3>2
  <2>2. \A k \in DOMAIN reply' : reply'[k] = "REVOKED" => done[k] \in revoked
    BY <1>step, <1>inv, <1>pick, <1>reply DEF Verdicts
  <2> QED BY <1>step, <1>inv, <2>1, <2>2 DEF Verdicts
<1>timers. Timers'
  BY <1>step, <1>here DEF Timers
<1>order. ASSUME Races = {} PROVE InOrder'
  BY <1>order, <1>step, <1>inv, <1>server DEF InOrder, FromList
<1> QED BY <1>typed, <1>shape, <1>books, <1>verdicts, <1>timers, <1>order DEF SlotInv

LEMMA CompleteThrowsStep ==
  ASSUME SlotInv, CompleteThrows
  PROVE  SlotInv'
<1>1. /\ pc = "complete" /\ Return /\ errors' = errors + 1
      /\ UNCHANGED <<server, mode, source, revoked, stop, said, heartbeats, controllers>>
  BY DEF CompleteThrows, Breaks, Over, outside
<1>2. heartbeats = {} /\ controllers = {} /\ errors \in Nat
  BY <1>1, SlotFacts DEF Timers
<1> QED BY <1>1, <1>2, FreesAlone

LEMMA CompletedStep ==
  ASSUME SlotInv, Completed
  PROVE  SlotInv'
<1>step. /\ pc = "complete" /\ at > Len(done)
         /\ pc' = "follow" /\ at' = 1
         /\ UNCHANGED <<mode, source, state, why, queue, revoked, queuePaused, claims, reply, batch,
            kind, said, back, done, heartbeats, controllers, aborted, seenPaused, stop, errors>>
  BY DEF Completed, Goto, Step, Works, Breaks, server, outside, run, timers
<1>inv. Typed /\ Shape /\ Books /\ Verdicts /\ Timers /\ (Races = {} => InOrder)
  BY SlotFacts
<1>types. /\ IsLine(queue) /\ IsLine(claims) /\ IsLine(batch) /\ IsLine(back) /\ IsLine(done)
          /\ Len(claims) \in Nat /\ Len(batch) \in Nat /\ Len(done) \in Nat
          /\ at \in Nat \ {0} /\ errors \in Nat /\ reply \in Seq(Replies) /\ OwnOutcome
          /\ DOMAIN reply = 1 .. Len(reply) /\ DOMAIN reply \subseteq Nat /\ Len(reply) \in Nat
  BY SlotFacts
<1>here. /\ ~Batch => Len(claims) <= 1 /\ Len(batch) <= 1 /\ done = <<>>
         /\ back = <<>> /\ Rng(done) \subseteq Rng(batch) /\ Len(reply) = Len(done)
         /\ heartbeats = {} /\ controllers = {}
  <2>1. Len(reply) = at - 1 /\ at <= Len(done) + 1
    BY <1>step, <1>inv DEF Shape
  <2>2. Len(reply) = Len(done)
    BY <1>step, <1>types, <2>1
  <2> QED BY <1>step, <1>inv, <2>2 DEF Shape, Timers
<1>open. Open' = Open
  BY <1>step DEF Open
<1>typed. Typed'
  BY <1>step, <1>inv, <1>types DEF Typed, Pcs
<1>shape. Shape'
  BY <1>step, <1>here DEF Shape, Batch
<1>books. Books'
  BY <1>step, <1>inv, <1>open, BooksStay
<1>verdicts. Verdicts'
  <2>1. OwnOutcome'
    BY <1>step, <1>types, OwnStays
  <2> QED BY <1>step, <1>inv, <2>1 DEF Verdicts
<1>timers. Timers'
  BY <1>step, <1>here DEF Timers
<1>order. ASSUME Races = {} PROVE InOrder'
  BY <1>order, <1>step, <1>inv DEF InOrder, FromList
<1> QED BY <1>typed, <1>shape, <1>books, <1>verdicts, <1>timers, <1>order DEF SlotInv

(* What follows each completion. *)
LEMMA FollowFacts ==
  ASSUME SlotInv, Following
  PROVE  /\ ~Batch => Len(claims) <= 1 /\ Len(batch) <= 1 /\ done = <<>>
         /\ back = <<>> /\ Rng(done) \subseteq Rng(batch) /\ Len(reply) = Len(done)
         /\ heartbeats = {} /\ controllers = {}
         /\ at \in DOMAIN done /\ at \in DOMAIN reply /\ done[at] \in Jobs /\ said[done[at]] = "value"
         /\ reply[at] = "REVOKED" => done[at] \in Open /\ done[at] \in revoked
         /\ Rest(done, at + 1, reply, Denied) \subseteq Open
         /\ Open \subseteq Rest(done, at + 1, reply, Denied) \cup {done[at]}
         /\ done[at] \notin Rest(done, at + 1, reply, Denied)
         /\ reply[at] # "REVOKED" => done[at] \notin Open
<1>inv. Typed /\ Shape /\ Books /\ Verdicts /\ Timers /\ (Races = {} => InOrder)
  BY SlotFacts
<1>types. /\ IsLine(queue) /\ IsLine(claims) /\ IsLine(batch) /\ IsLine(back) /\ IsLine(done)
          /\ Len(claims) \in Nat /\ Len(batch) \in Nat /\ Len(done) \in Nat
          /\ at \in Nat \ {0} /\ errors \in Nat /\ reply \in Seq(Replies) /\ OwnOutcome
          /\ DOMAIN reply = 1 .. Len(reply) /\ DOMAIN reply \subseteq Nat /\ Len(reply) \in Nat
  BY SlotFacts
<1>step. pc = "follow" /\ at <= Len(done)
  BY DEF Following
<1>1. /\ ~Batch => Len(claims) <= 1 /\ Len(batch) <= 1 /\ done = <<>>
      /\ back = <<>> /\ Rng(done) \subseteq Rng(batch) /\ Len(reply) = Len(done)
      /\ heartbeats = {} /\ controllers = {}
      /\ \A k \in DOMAIN reply : reply[k] = "REVOKED" => done[k] \in revoked
      /\ \A j \in Rng(done) : said[j] = "value"
  BY <1>step, <1>inv DEF Shape, Timers, Verdicts
<1>2. at \in DOMAIN done /\ at \in DOMAIN reply
  BY <1>step, <1>types, <1>1, LineFacts
<1>3. done[at] \in Jobs /\ said[done[at]] = "value"
  BY <1>types, <1>1, <1>2, LineFacts
<1>4. Open = Rest(done, at, reply, Denied)
  BY <1>step DEF Open
<1>5. /\ Rest(done, at + 1, reply, Denied) \subseteq Open
      /\ Open \subseteq Rest(done, at + 1, reply, Denied) \cup {done[at]}
      /\ done[at] \in Open <=> reply[at] \in Denied
      /\ done[at] \notin Rest(done, at + 1, reply, Denied)
  BY <1>types, <1>2, <1>4, RestStep
<1> QED BY <1>1, <1>2, <1>3, <1>5 DEF Denied

LEMMA FollowOn ==
  ASSUME SlotInv, Following, OnToNext, errors' = errors, done' = done,
         \/ reply[at] # "REVOKED" /\ UNCHANGED server
         \/ reply[at] = "REVOKED" /\ Outcome(done[at], {"revoked"})
  PROVE  SlotInv'
<1>step. /\ pc = "follow" /\ pc' = pc /\ at' = at + 1
         /\ UNCHANGED <<mode, source, revoked, stop, claims, reply, batch, kind, said, back, done, heartbeats,
                        controllers, errors>>
  BY DEF Following, OnToNext, Step, outside, timers
<1>inv. Typed /\ Shape /\ Books /\ Verdicts /\ Timers /\ (Races = {} => InOrder)
  BY SlotFacts
<1>types. /\ IsLine(queue) /\ IsLine(claims) /\ IsLine(batch) /\ IsLine(back) /\ IsLine(done)
          /\ Len(claims) \in Nat /\ Len(batch) \in Nat /\ Len(done) \in Nat
          /\ at \in Nat \ {0} /\ errors \in Nat /\ reply \in Seq(Replies) /\ OwnOutcome
          /\ DOMAIN reply = 1 .. Len(reply) /\ DOMAIN reply \subseteq Nat /\ Len(reply) \in Nat
  BY SlotFacts
<1>here. /\ ~Batch => Len(claims) <= 1 /\ Len(batch) <= 1 /\ done = <<>>
         /\ back = <<>> /\ Rng(done) \subseteq Rng(batch) /\ Len(reply) = Len(done)
         /\ heartbeats = {} /\ controllers = {}
         /\ at \in DOMAIN done /\ at \in DOMAIN reply /\ done[at] \in Jobs /\ said[done[at]] = "value"
         /\ reply[at] = "REVOKED" => done[at] \in Open /\ done[at] \in revoked
  BY FollowFacts
<1>open. /\ Open' \subseteq Open /\ Open \subseteq Open' \cup {done[at]} /\ done[at] \notin Open'
         /\ reply[at] # "REVOKED" => done[at] \notin Open
  <2>1. Open' = Rest(done, at + 1, reply, Denied)
    BY <1>step DEF Open
  <2> QED BY <2>1, FollowFacts
<1>server. /\ state' \in [Jobs -> {"waiting", "claimed", "active", "completed", "failed", "elsewhere"}]
           /\ why' \in [Jobs -> {"none", "value", "error", "revoked"}] /\ queue' = queue
  <2>1. CASE UNCHANGED server
    BY <1>inv, <2>1 DEF server, Typed
  <2>2. CASE Outcome(done[at], {"revoked"})
    BY <1>inv, <1>here, <2>2, OutcomeFacts
  <2> QED BY <2>1, <2>2
<1>typed. Typed'
  BY <1>step, <1>inv, <1>types, <1>server DEF Typed
<1>shape. Shape'
  BY <1>step, <1>here DEF Shape, Batch
<1>books. Books'
  <2>1. CASE reply[at] # "REVOKED" /\ UNCHANGED server
    <3>1. Open \subseteq Open'
      BY <1>open, <2>1
    <3> QED BY <1>step, <1>inv, <1>open, <2>1, <3>1, BooksStay DEF server
  <2>2. CASE reply[at] = "REVOKED" /\ Outcome(done[at], {"revoked"})
    BY <1>step, <1>inv, <1>here, <1>open, <2>2, BooksEnd
  <2> QED BY <2>1, <2>2
<1>verdicts. Verdicts'
  <2>1. OwnOutcome'
    <3>1. CASE UNCHANGED server
      BY <1>step, <1>types, <3>1, OwnStays DEF server
    <3>2. CASE reply[at] = "REVOKED" /\ Outcome(done[at], {"revoked"})
      BY <1>step, <1>inv, <1>types, <1>here, <3>2, OwnEnds
    <3> QED BY <3>1, <3>2
  <2> QED BY <1>step, <1>inv, <2>1 DEF Verdicts
<1>timers. Timers'
  BY <1>step, <1>here DEF Timers
<1>order. ASSUME Races = {} PROVE InOrder'
  BY <1>order, <1>step, <1>inv, <1>server DEF InOrder, FromList
<1> QED BY <1>typed, <1>shape, <1>books, <1>verdicts, <1>timers, <1>order DEF SlotInv

LEMMA FollowUpStep ==
  ASSUME SlotInv, FollowUp
  PROVE  SlotInv'
<1>1. Following /\ reply[at] # "REVOKED" /\ OnToNext /\ errors' = errors /\ UNCHANGED server /\ done' = done
  BY DEF FollowUp, Works
<1> QED BY <1>1, FollowOn

LEMMA FailRevokedStep ==
  ASSUME SlotInv, FailRevoked
  PROVE  SlotInv'
<1>1. Following /\ reply[at] = "REVOKED"
  BY DEF FailRevoked
<1>2. CASE FailJob(done[at], "revoked") /\ errors' = errors /\ OnToNext /\ done' = done
  <2>1. Outcome(done[at], {"revoked"})
    BY <1>2, FailJobOutcome
  <2> QED BY <1>1, <1>2, <2>1, FollowOn
<1>3. CASE MayHave(FailJob(done[at], "revoked")) /\ Over
  <2>1. /\ Return /\ errors' = errors + 1 /\ UNCHANGED <<mode, source, revoked, stop, said, heartbeats, controllers>>
        /\ FailJob(done[at], "revoked") \/ UNCHANGED server
    BY <1>3 DEF MayHave, Breaks, Over, outside
  <2>2. /\ heartbeats = {} /\ controllers = {} /\ done[at] \in Open /\ done[at] \in revoked
        /\ said[done[at]] = "value"
    BY <1>1, FollowFacts
  <2>3. errors' \in Nat /\ errors' # 0
    BY <2>1, SlotFacts
  <2>4. CASE UNCHANGED server
    BY <2>1, <2>2, <2>3, <2>4, FreesAlone
  <2>5. CASE FailJob(done[at], "revoked")
    <3>1. Outcome(done[at], {"revoked"})
      BY <2>5, FailJobOutcome
    <3> QED BY <2>1, <2>2, <2>3, <3>1, FreesWith
  <2> QED BY <2>1, <2>4, <2>5
<1> QED BY <1>2, <1>3 DEF FailRevoked, Works

LEMMA BatchEndsStep ==
  ASSUME SlotInv, BatchEnds
  PROVE  SlotInv'
<1>1. /\ pc = "follow" /\ at > Len(done) /\ Return /\ errors' = errors
      /\ UNCHANGED <<server, mode, source, revoked, stop, said, heartbeats, controllers>>
  BY DEF BatchEnds, Works, Over, outside
<1>2. heartbeats = {} /\ controllers = {} /\ errors \in Nat /\ at \in Nat /\ IsLine(done)
      /\ \A i \in Open : state[i] # "waiting"
  BY <1>1, SlotFacts, OpenFacts DEF Timers
<1>3. Open = {}
  BY <1>1, <1>2, RestEnd DEF Open
<1>4. errors' = 0 /\ stop # "force" => errors = 0 /\ \A i \in Open : ~InHand(i)
  BY <1>1, <1>3
<1> QED BY <1>1, <1>2, <1>4, FreesAlone

-----------------------------------------------------------------------------
(* A single job *)

LEMMA CompleteOnlyStep ==
  ASSUME SlotInv, CompleteOnly
  PROVE  SlotInv'
<1>1. /\ Settling /\ ~Batch /\ said[This] = "value" /\ Over /\ errors' = errors
      /\ This \in revoked => FailJob(This, "revoked")
      /\ This \notin revoked => Complete(This)
  BY DEF CompleteOnly, SingleValue, Works
<1>2. \E W : Outcome(This, W) /\ Fits(This, W)
  <2>1. CASE This \in revoked
    <3>1. Outcome(This, {"revoked"}) /\ Fits(This, {"revoked"})
      BY <1>1, <2>1, FailJobOutcome DEF Fits
    <3> QED BY <3>1
  <2>2. CASE This \notin revoked
    <3>1. Outcome(This, {"value"}) /\ Fits(This, {"value"})
      BY <1>1, <2>2 DEF Complete, Outcome, Fits
    <3> QED BY <3>1
  <2> QED BY <2>1, <2>2
<1> QED BY <1>1, <1>2, SettleOver

LEMMA CurrentRevokedStep ==
  ASSUME SlotInv, CurrentRevoked
  PROVE  SlotInv'
<1>1. /\ Settling /\ ~Batch /\ said[This] = "value" /\ Over /\ errors' = errors
      /\ This \in revoked /\ FailJob(This, "revoked")
  BY DEF CurrentRevoked, SingleValue, Works
<1>2. Outcome(This, {"revoked"}) /\ Fits(This, {"revoked"})
  BY <1>1, FailJobOutcome DEF Fits
<1> QED BY <1>1, <1>2, SettleOver

(* The server claims the next job in the call that ends this one. *)
LEMMA ChainStep ==
  ASSUME SlotInv, Settling, ~Batch, Chains, NEW s, NEW w, Ends(This, s, w),
         \/ s = "completed" /\ w = "value"
         \/ s = "failed" /\ w \in {"error", "revoked"}
         \/ s = "elsewhere" /\ w = "none",
         Fits(This, {w})
  PROVE  SlotInv'
<1>step. /\ pc = "settle" /\ pc' = "chained" /\ at' = 1
         /\ batch' = <<>> /\ kind' = "none" /\ back' = <<>> /\ done' = <<>>
         /\ UNCHANGED <<mode, source, revoked, stop, said, heartbeats, controllers, errors>>
  BY DEF Settling, Chains, Goto, Works, outside
<1>inv. Typed /\ Shape /\ Books /\ Verdicts /\ Timers /\ (Races = {} => InOrder)
  BY SlotFacts
<1>types. /\ IsLine(queue) /\ IsLine(claims) /\ IsLine(batch) /\ IsLine(back) /\ IsLine(done)
          /\ Len(claims) \in Nat /\ Len(batch) \in Nat /\ Len(done) \in Nat
          /\ at \in Nat \ {0} /\ errors \in Nat /\ reply \in Seq(Replies) /\ OwnOutcome
          /\ DOMAIN reply = 1 .. Len(reply) /\ DOMAIN reply \subseteq Nat /\ Len(reply) \in Nat
  BY SlotFacts
<1>here. /\ This \in Jobs /\ This \in Open /\ Open = {This}
         /\ heartbeats = {} /\ controllers = {}
  BY SettleFacts
<1>out. This \notin Rng(queue) /\ Rng(queue) \subseteq Jobs
  BY <1>inv, <1>types, <1>here, OpenFacts, LineFacts
<1>next. /\ IsLine(claims') /\ IsLine(queue') /\ Len(claims') \in Nat /\ Len(claims') <= 1
         /\ Rng(claims') \subseteq Rng(queue) /\ Rng(queue') = Rng(queue) \ Rng(claims')
         /\ Ordered(queue) => Ordered(claims') /\ Ordered(queue') /\ Ahead(claims', queue')
  <2>1. CASE queue = <<>> \/ queuePaused
    <3>1. claims' = <<>> /\ queue' = queue
      BY <2>1 DEF Ends
    <3>2. IsLine(claims') /\ Rng(claims') = {} /\ Len(claims') = 0
      BY <3>1, EmptyLine
    <3>3. Ordered(claims') /\ Ahead(claims', queue')
      BY <3>1, EmptyOrder
    <3> QED BY <1>types, <3>1, <3>2, <3>3
  <2>2. CASE ~(queue = <<>> \/ queuePaused)
    <3>1. claims' = <<Head(queue)>> /\ queue' = Tail(queue)
      BY <2>2 DEF Ends
    <3>2. /\ Head(queue) \in Jobs /\ Head(queue) \in Rng(queue)
          /\ IsLine(queue') /\ Rng(queue') = Rng(queue) \ {Head(queue)}
      BY <1>types, <2>2, <3>1, TailLine
    <3>3. \A k \in DOMAIN queue' : k + 1 \in DOMAIN queue /\ queue'[k] = queue[k + 1]
      BY <1>types, <2>2, <3>1, LineFacts DEF IsLine
    <3>4. IsLine(claims') /\ Rng(claims') = {Head(queue)} /\ Len(claims') = 1
      BY <3>1, <3>2, OneLine
    <3>5. ASSUME Ordered(queue) PROVE Ordered(claims') /\ Ordered(queue') /\ Ahead(claims', queue')
      <4>1. Ordered(queue') /\ \A k \in Rng(queue') : Position(Head(queue)) < Position(k)
        BY <1>types, <2>2, <3>2, <3>3, <3>5, TailOrder
      <4>2. \A m, n \in DOMAIN claims' : ~(m < n)
        <5>1. DOMAIN claims' = 1 .. 1
          BY <3>4, LineFacts
        <5> QED BY <5>1
      <4> QED BY <3>4, <4>1, <4>2 DEF Ordered, Ahead
    <3> QED BY <3>2, <3>4, <3>5
  <2> QED BY <2>1, <2>2
<1>reply. /\ reply' \in Seq(Replies) /\ Len(reply') = Len(claims') /\ DOMAIN reply' = DOMAIN claims'
          /\ \A k \in DOMAIN reply' : /\ reply'[k] = "REVOKED" => claims'[k] \in revoked
                                      /\ reply'[k] \in {"hash", "REVOKED"}
  <2>1. reply' = [i \in DOMAIN claims' |-> IF claims'[i] \in revoked THEN "REVOKED" ELSE "hash"]
    BY DEF Ends
  <2>2. DOMAIN claims' = 1 .. Len(claims')
    BY <1>next, LineFacts
  <2>3. reply' \in [1 .. Len(claims') -> Replies]
    BY <2>1, <2>2 DEF Replies
  <2>4. reply' \in Seq(Replies)
    BY <1>next, <2>3
  <2>5. Len(reply') = Len(claims')
    BY <1>next, <2>3, <2>4
  <2> QED BY <2>1, <2>2, <2>3, <2>4, <2>5
<1>jobs. /\ state' \in [Jobs -> {"waiting", "claimed", "active", "completed", "failed", "elsewhere"}]
         /\ why' \in [Jobs -> {"none", "value", "error", "revoked"}]
         /\ state'[This] = s /\ why'[This] = w
         /\ \A i \in Jobs : i # This => why'[i] = why[i]
         /\ \A i \in Rng(claims') : InHand(i)'
         /\ \A i \in Jobs : i # This /\ i \notin Rng(claims') => state'[i] = state[i]
  <2>1. /\ state' = [i \in Jobs |-> CASE i = This -> s
                                      [] i \in Rng(claims') -> IF i \in revoked THEN "claimed" ELSE "active"
                                      [] OTHER -> state[i]]
        /\ why' = [why EXCEPT ![This] = w]
    BY DEF Ends
  <2>2. \A i \in Rng(claims') : i \in Jobs /\ i # This
    BY <1>next, <1>out
  <2>3. /\ state'[This] = s
        /\ \A i \in Rng(claims') : state'[i] \in {"claimed", "active"}
        /\ \A i \in Jobs : i # This /\ i \notin Rng(claims') => state'[i] = state[i]
    BY <1>here, <2>1, <2>2
  <2>4. state' \in [Jobs -> {"waiting", "claimed", "active", "completed", "failed", "elsewhere"}]
    <3>1. \A i \in Jobs : state'[i] \in {"waiting", "claimed", "active", "completed", "failed", "elsewhere"}
      BY <1>inv, <2>3 DEF Typed
    <3>2. state' = [i \in Jobs |-> state'[i]]
      BY <2>1
    <3> QED BY <3>1, <3>2
  <2>5. /\ why' \in [Jobs -> {"none", "value", "error", "revoked"}] /\ why'[This] = w
        /\ \A i \in Jobs : i # This => why'[i] = why[i]
    BY <1>inv, <1>here, <2>1 DEF Typed
  <2> QED BY <2>3, <2>4, <2>5 DEF InHand
<1>lines. /\ IsLine(batch') /\ IsLine(back') /\ IsLine(done') /\ Rng(batch') = {} /\ Rng(done') = {}
          /\ Len(batch') = 0 /\ pc' \in Pcs /\ at' \in Nat \ {0} /\ ~HandedBack'
  BY <1>step, EmptyLine DEF Pcs, HandedBack
<1>typed. Typed'
  BY <1>step, <1>inv, <1>types, <1>next, <1>reply, <1>jobs, <1>lines DEF Typed
<1>shape. Shape'
  BY <1>step, <1>next, <1>reply, <1>lines DEF Shape, Fresh, Batch
<1>open. Open' = Rng(claims')
  BY <1>step DEF Open
<1>books. Books'
  <2>1. \A i \in Rng(queue)' : state'[i] = "waiting"
    BY <1>inv, <1>next, <1>jobs, <1>out DEF Books
  <2>2. \A i \in Rng(claims') : i # This /\ i \in Jobs /\ state[i] = "waiting" /\ why'[i] = "none"
    BY <1>inv, <1>next, <1>jobs, <1>out DEF Books
  <2>3. \A i \in Jobs : state'[i] = "waiting" \/ InHand(i)' => why'[i] = "none"
    <3> SUFFICES ASSUME NEW i \in Jobs, state'[i] = "waiting" \/ InHand(i)' PROVE why'[i] = "none"
      OBVIOUS
    <3>1. i # This
      BY <1>jobs DEF InHand
    <3>2. CASE i \in Rng(claims')
      BY <2>2, <3>2
    <3>3. CASE i \notin Rng(claims')
      BY <1>inv, <1>jobs, <3>1, <3>3 DEF Books, InHand
    <3> QED BY <3>2, <3>3
  <2>4. \A i \in Jobs : said'[i] = "moved" => state'[i] \in {"failed", "elsewhere"}
    <3> SUFFICES ASSUME NEW i \in Jobs, said[i] = "moved" PROVE state'[i] \in {"failed", "elsewhere"}
      BY <1>step
    <3>1. CASE i = This
      BY <1>jobs, <3>1 DEF Fits
    <3>2. CASE i # This
      BY <1>inv, <1>jobs, <2>2, <3>2 DEF Books
    <3> QED BY <3>1, <3>2
  <2>5. \A i \in Open' : InHand(i)'
    BY <1>jobs, <1>open
  <2>6. errors' = 0 /\ stop' # "force" => \A i \in Jobs : InHand(i)' => i \in Open'
    <3> SUFFICES ASSUME errors = 0, stop # "force", NEW i \in Jobs, InHand(i)', i \notin Rng(claims') PROVE FALSE
      BY <1>step, <1>open
    <3>1. i # This
      BY <1>jobs DEF InHand
    <3>2. InHand(i)
      BY <1>jobs, <3>1 DEF InHand
    <3> QED BY <1>inv, <1>here, <3>1, <3>2 DEF Books
  <2> QED BY <2>1, <2>3, <2>4, <2>5, <2>6 DEF Books
<1>verdicts. Verdicts'
  <2>1. OwnOutcome'
    BY <1>step, <1>types, <1>jobs DEF OwnOutcome, Fits
  <2> QED BY <1>step, <1>reply, <1>lines, <2>1 DEF Verdicts
<1>timers. Timers'
  BY <1>step, <1>here DEF Timers
<1>order. ASSUME Races = {} PROVE InOrder'
  <2>1. CASE FromList
    <3>1. Ordered(queue)
      BY <1>order, <1>inv, <2>1 DEF InOrder
    <3> QED BY <1>step, <1>next, <3>1 DEF InOrder
  <2>2. CASE ~FromList
    BY <1>step, <2>2 DEF InOrder, FromList
  <2> QED BY <2>1, <2>2
<1> QED BY <1>typed, <1>shape, <1>books, <1>verdicts, <1>timers, <1>order DEF SlotInv

LEMMA CompleteAndFetchNextStep ==
  ASSUME SlotInv, CompleteAndFetchNext
  PROVE  SlotInv'
<1>1. Settling /\ ~Batch /\ said[This] = "value" /\ Ends(This, "completed", "value") /\ Chains
  BY DEF CompleteAndFetchNext, SingleValue
<1>2. Fits(This, {"value"})
  BY <1>1 DEF Fits
<1> QED BY <1>1, <1>2, ChainStep

LEMMA FailAndFetchNextStep ==
  ASSUME SlotInv, FailAndFetchNext
  PROVE  SlotInv'
<1>1. Settling /\ ~Batch /\ Fails(This) /\ Chains
  BY DEF FailAndFetchNext
<1>2. CASE Ends(This, "failed", Verdict(This))
  BY <1>1, <1>2, VerdictFits, ChainStep
<1>3. CASE Ends(This, "elsewhere", "none")
  <2>1. Fits(This, {"none"})
    BY DEF Fits
  <2> QED BY <1>1, <1>3, <2>1, ChainStep
<1> QED BY <1>2, <1>3 DEF FailAndFetchNext

LEMMA FetchNextLostStep ==
  ASSUME SlotInv, FetchNextLost
  PROVE  SlotInv'
<1> DEFINE n == Head(queue)
           s == IF Fails(This) THEN "failed" ELSE "completed"
           w == IF Fails(This) THEN "error" ELSE "value"
<1>step. /\ Settling /\ Return /\ queue # <<>> /\ queue' = Tail(queue) /\ errors' = errors + 1
         /\ Fails(This) \/ said[This] = "value"
         /\ state' = [state EXCEPT ![n] = "active", ![This] = s] /\ why' = [why EXCEPT ![This] = w]
         /\ UNCHANGED <<mode, source, revoked, stop, said, heartbeats, controllers>>
  BY DEF FetchNextLost, Over, Breaks, outside
<1>inv. Typed /\ Shape /\ Books /\ Verdicts /\ Timers /\ (Races = {} => InOrder)
  BY SlotFacts
<1>types. /\ IsLine(queue) /\ IsLine(claims) /\ IsLine(batch) /\ IsLine(back) /\ IsLine(done)
          /\ Len(claims) \in Nat /\ Len(batch) \in Nat /\ Len(done) \in Nat
          /\ at \in Nat \ {0} /\ errors \in Nat /\ reply \in Seq(Replies) /\ OwnOutcome
          /\ DOMAIN reply = 1 .. Len(reply) /\ DOMAIN reply \subseteq Nat /\ Len(reply) \in Nat
  BY SlotFacts
<1>here. /\ This \in Jobs /\ This \in Open /\ heartbeats = {} /\ controllers = {}
  BY <1>step, SettleFacts
<1>head. /\ n \in Jobs /\ n \in Rng(queue) /\ IsLine(queue') /\ Rng(queue') = Rng(queue) \ {n}
  BY <1>step, <1>types, TailLine
<1>tail. \A k \in DOMAIN queue' : k + 1 \in DOMAIN queue /\ queue'[k] = queue[k + 1]
  BY <1>step, <1>types, LineFacts DEF IsLine
<1>out. This \notin Rng(queue) /\ Rng(queue) \subseteq Jobs
  BY <1>inv, <1>types, <1>here, OpenFacts, LineFacts
<1>jobs. /\ state' \in [Jobs -> {"waiting", "claimed", "active", "completed", "failed", "elsewhere"}]
         /\ why' \in [Jobs -> {"none", "value", "error", "revoked"}]
         /\ state'[This] = s /\ why'[This] = w /\ state'[n] = "active"
         /\ \A i \in Jobs : i # This => why'[i] = why[i]
         /\ \A i \in Jobs : i # This /\ i # n => state'[i] = state[i]
  BY <1>step, <1>inv, <1>here, <1>head, <1>out DEF Typed
<1>said. \/ w = "value" /\ s = "completed" /\ said[This] = "value"
         \/ w = "error" /\ s = "failed" /\ said[This] \in {"error", "aborted"}
  BY <1>step DEF Fails
<1> HIDE DEF n, s, w
<1>free. /\ Shape' /\ Timers' /\ Open' = {} /\ (OwnOutcome' => Verdicts')
         /\ IsLine(claims') /\ IsLine(batch') /\ IsLine(back') /\ IsLine(done')
         /\ reply' \in Seq(Replies) /\ at' \in Nat \ {0} /\ pc' \in Pcs /\ pc' = "idle"
  BY <1>step, <1>inv, <1>here, SlotFrees
<1>typed. Typed'
  BY <1>step, <1>inv, <1>types, <1>head, <1>jobs, <1>free DEF Typed
<1>books. Books'
  <2>1. \A i \in Rng(queue)' : state'[i] = "waiting"
    BY <1>inv, <1>head, <1>jobs, <1>out DEF Books
  <2>2. n # This /\ state[n] = "waiting" /\ why[n] = "none"
    BY <1>inv, <1>head, <1>out DEF Books
  <2>3. \A i \in Jobs : state'[i] = "waiting" \/ InHand(i)' => why'[i] = "none"
    <3> SUFFICES ASSUME NEW i \in Jobs, state'[i] = "waiting" \/ InHand(i)' PROVE why'[i] = "none"
      OBVIOUS
    <3>1. i # This
      BY <1>jobs, <1>said DEF InHand
    <3> QED BY <1>inv, <1>jobs, <2>2, <3>1 DEF Books, InHand
  <2>4. \A i \in Jobs : said'[i] = "moved" => state'[i] \in {"failed", "elsewhere"}
    BY <1>step, <1>inv, <1>jobs, <1>said, <2>2 DEF Books
  <2>5. ~(errors' = 0)
    BY <1>step, <1>types
  <2> QED BY <1>free, <2>1, <2>3, <2>4, <2>5 DEF Books
<1>own. OwnOutcome'
  BY <1>step, <1>types, <1>jobs, <1>said DEF OwnOutcome
<1>order. ASSUME Races = {} PROVE InOrder'
  <2>1. CASE FromList
    <3>1. Ordered(queue)
      BY <1>order, <1>inv, <2>1 DEF InOrder
    <3>2. Ordered(queue')
      BY <1>step, <1>types, <1>head, <1>tail, <3>1, TailOrder
    <3> QED BY <1>free, <3>2 DEF InOrder
  <2>2. CASE ~FromList
    BY <1>step, <2>2 DEF InOrder, FromList
  <2> QED BY <2>1, <2>2
<1> QED BY <1>typed, <1>free, <1>books, <1>own, <1>order DEF SlotInv

LEMMA ChainThrowsStep ==
  ASSUME SlotInv, ChainThrows
  PROVE  SlotInv'
<1>1. /\ pc = "chained" /\ Return /\ errors' = errors + 1
      /\ UNCHANGED <<server, mode, source, revoked, stop, said, heartbeats, controllers>>
  BY DEF ChainThrows, Breaks, Over, outside
<1>2. heartbeats = {} /\ controllers = {} /\ errors \in Nat
  BY <1>1, SlotFacts, EmptyLine DEF Timers, Shape, Fresh
<1> QED BY <1>1, <1>2, FreesAlone

LEMMA ChainedStep ==
  ASSUME SlotInv, Chained
  PROVE  SlotInv'
<1>step. /\ pc = "chained"
         /\ UNCHANGED <<state, why, queue, mode, source, revoked, stop, said, heartbeats, controllers, errors>>
  BY DEF Chained, Works, server, outside, timers
<1>inv. Typed /\ Shape /\ Books /\ Verdicts /\ Timers /\ (Races = {} => InOrder)
  BY SlotFacts
<1>types. /\ IsLine(queue) /\ IsLine(claims) /\ IsLine(batch) /\ IsLine(back) /\ IsLine(done)
          /\ Len(claims) \in Nat /\ Len(batch) \in Nat /\ Len(done) \in Nat
          /\ at \in Nat \ {0} /\ errors \in Nat /\ reply \in Seq(Replies) /\ OwnOutcome
          /\ DOMAIN reply = 1 .. Len(reply) /\ DOMAIN reply \subseteq Nat /\ Len(reply) \in Nat
  BY SlotFacts
<1>here. /\ ~Batch /\ Len(claims) <= 1 /\ batch = <<>> /\ done = <<>> /\ back = <<>> /\ Len(reply) = Len(claims)
         /\ heartbeats = {} /\ controllers = {}
         /\ \A k \in DOMAIN reply : reply[k] = "REVOKED" => claims[k] \in revoked
         /\ \A k \in DOMAIN reply : reply[k] \in {"hash", "REVOKED"}
         /\ Open = Rng(claims)
  BY <1>step, <1>inv, EmptyLine DEF Shape, Fresh, Timers, Verdicts, Open
<1>order. Races = {} /\ FromList => Ordered(queue) /\ Ordered(claims) /\ Ahead(claims, queue)
  BY <1>step, <1>inv DEF InOrder
<1>own. OwnOutcome'
  BY <1>step, <1>types, OwnStays
<1>1. CASE claims = <<>>
  <2>1. Return
    BY <1>1 DEF Chained
  <2>2. Open = {}
    BY <1>here, <1>1, EmptyLine
  <2> QED BY <1>step, <1>types, <1>here, <2>1, <2>2, FreesAlone DEF server
<1>2. CASE claims # <<>> /\ StoppedSince
  <2>1. /\ back' = claims /\ pc' = "restore" /\ at' = 1 /\ UNCHANGED <<claims, reply, batch, done>>
    BY <1>2 DEF Chained, Goto
  <2>back. HandedBack'
    BY <1>2 DEF Chained, HandedBack
  <2>2. Typed'
    <3>1. IsLine(back') /\ pc' \in Pcs /\ at' \in Nat \ {0}
      BY <1>types, <2>1 DEF Pcs
    <3> QED BY <1>step, <1>inv, <1>types, <2>1, <3>1 DEF Typed
  <2>3. Shape'
    BY <1>step, <1>here, <2>1, <2>back, EmptyLine DEF Shape, Batch
  <2>4. Open' = Open
    BY <1>here, <2>1, <2>back DEF Open
  <2>5. Books'
    BY <1>step, <1>inv, <1>types, <2>1, <2>4, BooksStay
  <2>6. Verdicts'
    BY <1>own, <1>here, <2>1, EmptyLine DEF Verdicts
  <2>7. Timers'
    BY <1>step, <1>here DEF Timers
  <2>8. ASSUME Races = {} PROVE InOrder'
    <3>1. \A m, n \in DOMAIN claims : ~(m < n)
      <4>1. DOMAIN claims = 1 .. Len(claims)
        BY <1>types, LineFacts
      <4> QED BY <1>types, <1>here, <4>1
    <3>2. Descending(back')
      BY <2>1, <3>1 DEF Descending
    <3> QED BY <1>step, <1>order, <2>1, <2>8, <2>back, <3>2 DEF InOrder, FromList
  <2> QED BY <2>2, <2>3, <2>5, <2>6, <2>7, <2>8 DEF SlotInv
<1>3. CASE claims # <<>> /\ ~StoppedSince
  <2>1. /\ back' = <<>> /\ kind' = "none" /\ pc' = "handle" /\ at' = 1 /\ UNCHANGED <<claims, reply, batch, done>>
    BY <1>3 DEF Chained, Goto, StoppedSince
  <2>2. Typed'
    BY <1>step, <1>inv, <1>types, <2>1, EmptyLine DEF Typed, Pcs
  <2>3. Shape'
    <3>1. 1 <= Len(claims) + 1 /\ ~HandedBack'
      BY <1>types, <2>1 DEF HandedBack
    <3> QED BY <1>step, <1>here, <2>1, <3>1, EmptyLine DEF Shape, Batch
  <2>4. Open' = Open
    <3>1. \A k \in DOMAIN claims : k >= 1 /\ (k \in DOMAIN reply => reply[k] \in Kept)
      BY <1>types, <1>here, LineFacts DEF Kept
    <3>2. Rest(claims, 1, reply, Kept) = Rng(claims)
      BY <3>1 DEF Rest, Rng
    <3> QED BY <1>here, <2>1, <3>2, EmptyLine DEF Open
  <2>5. Books'
    BY <1>step, <1>inv, <1>types, <2>1, <2>4, BooksStay
  <2>6. Verdicts'
    BY <1>step, <1>own, <1>here, <2>1, EmptyLine DEF Verdicts
  <2>7. Timers'
    BY <1>step, <1>here DEF Timers
  <2>8. ASSUME Races = {} PROVE InOrder'
    <3>1. \A m \in DOMAIN reply : reply[m] # "PAUSED"
      BY <1>here
    <3> QED BY <1>step, <1>here, <1>order, <2>1, <2>8, <3>1, EmptyOrder DEF InOrder, FromList, PauseLasts
  <2> QED BY <2>2, <2>3, <2>5, <2>6, <2>7, <2>8 DEF SlotInv
<1> QED BY <1>1, <1>2, <1>3

-----------------------------------------------------------------------------
(* Clients, the owner of the worker, heartbeats and stalled recovery *)

(* Nothing that the slot holds changes; a revoked job stays revoked. *)
LEMMA OutsideFacts ==
  ASSUME SlotInv,
         UNCHANGED <<mode, source, state, why, queue, pc, claims, reply, at, batch, kind, said, back, done,
                     heartbeats, controllers, errors>>,
         revoked \subseteq revoked', revoked' \subseteq Jobs, queuePaused => queuePaused',
         stop' # "force" => stop # "force"
  PROVE  SlotInv'
<1>inv. Typed /\ Shape /\ Books /\ Verdicts /\ Timers /\ (Races = {} => InOrder)
  BY SlotFacts
<1>types. /\ IsLine(queue) /\ IsLine(claims) /\ IsLine(batch) /\ IsLine(back) /\ IsLine(done)
          /\ Len(claims) \in Nat /\ Len(batch) \in Nat /\ Len(done) \in Nat
          /\ at \in Nat \ {0} /\ errors \in Nat /\ reply \in Seq(Replies) /\ OwnOutcome
          /\ DOMAIN reply = 1 .. Len(reply) /\ DOMAIN reply \subseteq Nat /\ Len(reply) \in Nat
  BY SlotFacts
<1>1. Typed'
  BY <1>inv, <1>types DEF Typed
<1>2. Shape'
  BY <1>inv DEF Shape, Fresh, Batch, HandedBack
<1>3. Open' = Open
  BY DEF Open, HandedBack
<1>4. Books'
  BY <1>inv, <1>3, BooksStay
<1>5. Verdicts'
  <2>1. OwnOutcome'
    BY <1>types, OwnStays
  <2>2. \A k \in DOMAIN reply : (reply[k] = "REVOKED" => claims[k] \in revoked) =>
                                (reply'[k] = "REVOKED" => claims'[k] \in revoked')
    OBVIOUS
  <2>3. \A k \in DOMAIN reply : (reply[k] = "REVOKED" => done[k] \in revoked) =>
                                (reply'[k] = "REVOKED" => done'[k] \in revoked')
    OBVIOUS
  <2> QED BY <1>inv, <2>1, <2>2, <2>3 DEF Verdicts
<1>6. Timers'
  BY <1>inv DEF Timers, HandedBack
<1>7. ASSUME Races = {} PROVE InOrder'
  BY <1>inv, <1>7 DEF InOrder, FromList, HandedBack, PauseLasts
<1> QED BY <1>1, <1>2, <1>4, <1>5, <1>6, <1>7 DEF SlotInv

LEMMA PauseQueueStep ==
  ASSUME SlotInv, PauseQueue
  PROVE  SlotInv'
<1>1. /\ UNCHANGED <<mode, source, state, why, queue, pc, claims, reply, at, batch, kind, said, back, done,
                     heartbeats, controllers, errors>>
      /\ revoked' = revoked /\ stop' = stop /\ queuePaused' = TRUE
  BY DEF PauseQueue, Client, server, run, timers
<1>2. revoked \subseteq Jobs
  BY SlotFacts DEF Typed
<1> QED BY <1>1, <1>2, OutsideFacts

LEMMA StopStep ==
  ASSUME SlotInv, NEW s \in Stops, Stop(s)
  PROVE  SlotInv'
<1>1. /\ UNCHANGED <<mode, source, state, why, queue, pc, claims, reply, at, batch, kind, said, back, done,
                     heartbeats, controllers, errors>>
      /\ revoked' = revoked /\ queuePaused' = queuePaused /\ stop # "force"
  BY DEF Stop, server, run
<1>2. revoked \subseteq Jobs
  BY SlotFacts DEF Typed
<1> QED BY <1>1, <1>2, OutsideFacts

LEMMA RevokeStep ==
  ASSUME SlotInv, NEW j \in Jobs, Revoke(j)
  PROVE  SlotInv'
<1>1. /\ UNCHANGED <<mode, source, state, why, queue, pc, claims, reply, at, batch, kind, said, back, done,
                     heartbeats, controllers, errors>>
      /\ revoked' = revoked \cup {j} /\ queuePaused' = queuePaused /\ stop' = stop
  BY DEF Revoke, Client, server, run, timers
<1>2. revoked \subseteq Jobs
  BY SlotFacts DEF Typed
<1> QED BY <1>1, <1>2, OutsideFacts

LEMMA HeartbeatStep ==
  ASSUME SlotInv, NEW j \in Jobs, Heartbeat(j)
  PROVE  SlotInv'
<1>1. /\ UNCHANGED <<mode, source, state, why, queue, pc, claims, reply, at, batch, kind, said, back, done,
                     heartbeats, controllers, errors>>
      /\ revoked' = revoked /\ queuePaused' = queuePaused /\ stop' = stop
  BY DEF Heartbeat, server, run, outside
<1>2. revoked \subseteq Jobs
  BY SlotFacts DEF Typed
<1> QED BY <1>1, <1>2, OutsideFacts

(* Recovery takes no job that the slot still has in hand. *)
LEMMA RecoverStep ==
  ASSUME SlotInv, NEW j \in Jobs, Recover(j)
  PROVE  SlotInv'
<1>step. /\ InHand(j) /\ j \notin Rng(claims) /\ j \notin Rng(batch) /\ Put(j, "elsewhere", "none")
         /\ UNCHANGED <<mode, source, queue, revoked, queuePaused, pc, claims, reply, at, batch, kind, said, back,
                        done, heartbeats, controllers, stop, errors>>
  BY DEF Recover, Held, InHand, run, outside, timers
<1>inv. Typed /\ Shape /\ Books /\ Verdicts /\ Timers /\ (Races = {} => InOrder)
  BY SlotFacts
<1>types. /\ IsLine(queue) /\ IsLine(claims) /\ IsLine(batch) /\ IsLine(back) /\ IsLine(done)
          /\ Len(claims) \in Nat /\ Len(batch) \in Nat /\ Len(done) \in Nat
          /\ at \in Nat \ {0} /\ errors \in Nat /\ reply \in Seq(Replies) /\ OwnOutcome
          /\ DOMAIN reply = 1 .. Len(reply) /\ DOMAIN reply \subseteq Nat /\ Len(reply) \in Nat
  BY SlotFacts
<1>jobs. /\ state' \in [Jobs -> {"waiting", "claimed", "active", "completed", "failed", "elsewhere"}]
         /\ why' \in [Jobs -> {"none", "value", "error", "revoked"}]
         /\ state'[j] = "elsewhere" /\ why'[j] = "none"
         /\ \A i \in Jobs : i # j => state'[i] = state[i] /\ why'[i] = why[i]
  BY <1>step, <1>inv DEF Put, Typed
<1>1. Typed'
  BY <1>step, <1>inv, <1>types, <1>jobs DEF Typed
<1>2. Shape'
  BY <1>step, <1>inv DEF Shape, Fresh, Batch, HandedBack
<1>open. Open' = Open /\ Open \subseteq Jobs
  BY <1>step, <1>inv, OpenFacts DEF Open, HandedBack
<1>3. j \notin Open
  <2>1. Rest(claims, 1, reply, Kept) \subseteq Rng(claims) /\ Rest(claims, at, reply, Kept) \subseteq Rng(claims)
    BY RestIn
  <2>2. /\ Rest(batch, at, <<>>, {}) \subseteq Rng(batch)
        /\ Rest(done, 1, reply, Denied) \subseteq Rng(done) /\ Rest(done, at, reply, Denied) \subseteq Rng(done)
    BY RestIn
  <2>3. pc = "handle" => Rng(back) \subseteq Rng(claims)
    <3> SUFFICES ASSUME pc = "handle" PROVE Rng(back) \subseteq Rng(claims)
      OBVIOUS
    <3>1. at <= Len(claims) + 1 /\ Rng(back) \subseteq Before(claims, at)
      BY <1>inv DEF Shape
    <3>2. \A k \in 1 .. (at - 1) : k \in DOMAIN claims
      BY <1>types, <3>1, LineFacts
    <3> QED BY <3>1, <3>2 DEF Before, Rng
  <2>4. pc = "restore" => Rng(back) \subseteq Rng(claims) \cup Rng(batch)
    BY <1>inv DEF Shape
  <2>5. pc \in {"complete", "follow"} => Rng(done) \subseteq Rng(batch)
    BY <1>inv DEF Shape
  <2>6. pc = "settle" => Rng(done) \subseteq Rng(batch)
    <3> SUFFICES ASSUME pc = "settle" PROVE Rng(done) \subseteq Rng(batch)
      OBVIOUS
    <3>1. at <= Len(batch) + 1 /\ Rng(done) \subseteq Before(batch, at)
      BY <1>inv DEF Shape
    <3>2. \A k \in 1 .. (at - 1) : k \in DOMAIN batch
      BY <1>types, <3>1, LineFacts
    <3> QED BY <3>1, <3>2 DEF Before, Rng
  <2> QED BY <1>step, <2>1, <2>2, <2>3, <2>4, <2>5, <2>6 DEF Open
<1>4. Books'
  <2>1. state[j] # "waiting" /\ Rng(queue) \subseteq Jobs
    BY <1>step, <1>types, LineFacts DEF InHand
  <2>2. \A i \in Rng(queue)' : state'[i] = "waiting"
    BY <1>step, <1>inv, <1>jobs, <2>1 DEF Books, Rng
  <2>3. \A i \in Jobs : state'[i] = "waiting" \/ InHand(i)' => why'[i] = "none"
    BY <1>inv, <1>jobs DEF Books, InHand
  <2>4. \A i \in Jobs : said'[i] = "moved" => state'[i] \in {"failed", "elsewhere"}
    BY <1>step, <1>inv, <1>jobs DEF Books
  <2>5. \A i \in Open' : InHand(i)' \/ (said'[i] = "moved" /\ pc' \in {"run", "ended", "settle"})
    BY <1>step, <1>inv, <1>jobs, <1>open, <1>3 DEF Books, InHand
  <2>6. errors' = 0 /\ stop' # "force" => \A i \in Jobs : InHand(i)' => i \in Open'
    BY <1>step, <1>inv, <1>jobs, <1>open DEF Books, InHand
  <2> QED BY <2>2, <2>3, <2>4, <2>5, <2>6 DEF Books
<1>5. Verdicts'
  <2>1. OwnOutcome'
    BY <1>step, <1>inv, <1>types, OwnBack
  <2> QED BY <1>step, <1>inv, <2>1 DEF Verdicts
<1>6. Timers'
  BY <1>step, <1>inv DEF Timers, HandedBack
<1>7. ASSUME Races = {} PROVE InOrder'
  BY <1>step, <1>inv, <1>7 DEF InOrder, FromList, HandedBack, PauseLasts
<1> QED BY <1>1, <1>2, <1>4, <1>5, <1>6, <1>7 DEF SlotInv

LEMMA StutterStep ==
  ASSUME SlotInv, UNCHANGED vars
  PROVE  SlotInv'
<1>1. /\ UNCHANGED <<mode, source, state, why, queue, pc, claims, reply, at, batch, kind, said, back, done,
                     heartbeats, controllers, errors>>
      /\ revoked' = revoked /\ queuePaused' = queuePaused /\ stop' = stop
  BY DEF vars, server, outside, run, timers
<1>2. revoked \subseteq Jobs
  BY SlotFacts DEF Typed
<1> QED BY <1>1, <1>2, OutsideFacts

-----------------------------------------------------------------------------
(* The theorems *)

LEMMA PlaceOf ==
  ASSUME NEW m \in DOMAIN Line
  PROVE  Position(Line[m]) = m
<1>1. \A n \in DOMAIN Line : Line[n] = Line[m] => n = m
  BY SlotAssumption DEF SlotAssumption, IsInjective
<1> QED BY <1>1 DEF Position

LEMMA InitInv ==
  ASSUME Init
  PROVE  SlotInv
<1>line. Line \in Seq(Jobs) /\ IsInjective(Line) /\ IsLine(Line)
  BY SlotAssumption DEF SlotAssumption, IsLine
<1>1. /\ mode \in Modes /\ source \in Sources /\ queue = Line /\ revoked = {} /\ pc = "idle"
      /\ claims = <<>> /\ reply = <<>> /\ at = 1 /\ batch = <<>> /\ kind = "none" /\ back = <<>> /\ done = <<>>
      /\ heartbeats = {} /\ controllers = {} /\ stop = "no" /\ errors = 0
      /\ state = [j \in Jobs |-> IF j \in Rng(Line) THEN "waiting" ELSE "elsewhere"]
      /\ why = [j \in Jobs |-> "none"] /\ said = [j \in Jobs |-> "none"]
  BY DEF Init
<1>2. /\ IsLine(claims) /\ IsLine(batch) /\ IsLine(back) /\ IsLine(done) /\ reply \in Seq(Replies)
      /\ Len(claims) = 0 /\ Len(batch) = 0 /\ Len(reply) = 0 /\ DOMAIN reply = {} /\ Rng(done) = {} /\ Rng(batch) = {}
      /\ ~HandedBack /\ Open = {}
  BY <1>1, EmptyLine DEF HandedBack, Open
<1>3. Typed
  BY <1>line, <1>1, <1>2 DEF Typed, Pcs
<1>4. Shape
  BY <1>1, <1>2 DEF Shape, Fresh
<1>5. Books
  <2>1. Rng(Line) \subseteq Jobs
    BY <1>line, LineFacts
  <2> QED BY <1>1, <1>2, <2>1 DEF Books, InHand
<1>6. Verdicts
  BY <1>1, <1>2 DEF Verdicts, OwnOutcome
<1>7. Timers
  BY <1>1 DEF Timers
<1>8. InOrder
  <2>1. Ordered(Line)
    BY PlaceOf DEF Ordered
  <2> QED BY <1>1, <2>1 DEF InOrder
<1> QED BY <1>3, <1>4, <1>5, <1>6, <1>7, <1>8 DEF SlotInv

LEMMA NextInv ==
  ASSUME SlotInv, Next
  PROVE  SlotInv'
<1>1. CASE Slot
  <2>1. CASE \/ Begin \/ Activate \/ ActivateRefused \/ Answered \/ ActivateThrows
             \/ Skip \/ KeepPaused \/ HandleRevoked \/ Ready \/ Divert \/ DivertThrows \/ Handled
    BY <2>1, BeginStep, ActivateStep, ActivateRefusedStep, AnsweredStep, ActivateThrowsStep, SkipStep,
       KeepPausedStep, HandleRevokedStep, ReadyStep, DivertStep, DivertThrowsStep, HandledStep
  <2>2. CASE \/ HandBack \/ Restored \/ Limit \/ LimitThrows
             \/ MoveToFailed \/ Timeout \/ EndRun \/ Ended
    BY <2>2, HandBackStep, RestoredStep, LimitStep, LimitThrowsStep, MoveToFailedStep, TimeoutStep, EndRunStep,
       EndedStep
  <2>3. CASE \/ SkipMoved \/ SettleFailed \/ SettleBad \/ SettleParked \/ SettleThrows \/ SettleValue \/ Settled
             \/ CompleteEntry \/ CompleteThrows \/ Completed \/ FollowUp \/ FailRevoked \/ BatchEnds
    BY <2>3, SkipMovedStep, SettleFailedStep, SettleBadStep, SettleParkedStep, SettleThrowsStep, SettleValueStep,
       SettledStep, CompleteEntryStep, CompleteThrowsStep, CompletedStep, FollowUpStep, FailRevokedStep,
       BatchEndsStep
  <2>4. CASE \/ CompleteOnly \/ CurrentRevoked \/ CompleteAndFetchNext \/ FailAndFetchNext \/ FetchNextLost
             \/ ChainThrows \/ Chained
    BY <2>4, CompleteOnlyStep, CurrentRevokedStep, CompleteAndFetchNextStep, FailAndFetchNextStep,
       FetchNextLostStep, ChainThrowsStep, ChainedStep
  <2> QED BY <1>1, <2>1, <2>2, <2>3, <2>4 DEF Slot
<1>2. CASE Claim \/ Refill \/ PauseQueue
  BY <1>2, ClaimStep, RefillStep, PauseQueueStep
<1>3. CASE \E s \in Stops : Stop(s)
  BY <1>3, StopStep
<1>4. CASE \E j \in Jobs : Revoke(j) \/ Heartbeat(j) \/ Recover(j)
  BY <1>4, RevokeStep, HeartbeatStep, RecoverStep
<1> QED BY <1>1, <1>2, <1>3, <1>4 DEF Next

(* The invariant holds of every behaviour of the slot. *)
THEOREM SlotInvHolds == Spec => []SlotInv
<1>1. Init => SlotInv
  BY InitInv
<1>2. SlotInv /\ [Next]_vars => SlotInv'
  BY NextInv, StutterStep
<1> QED BY <1>1, <1>2, PTL DEF Spec

(* OwnOutcome: whatever fails, breaks, is revoked or stopped between two calls, a job
   ends with a value only if the processor gave it one, with an error only if the
   processor said so of it, and as revoked only if it was revoked. *)
THEOREM SpecOwnOutcome == Spec => []OwnOutcome
<1>1. SlotInv => OwnOutcome
  BY DEF SlotInv, Verdicts
<1> QED BY <1>1, SlotInvHolds, PTL

(* NothingLeft: no timer outlives the batch it serves, and while no call broke and the
   close was not forced a slot that is free has left no job claimed or active. *)
THEOREM SpecNothingLeft == Spec => []NothingLeft
<1>1. SlotInv => NothingLeft
  <2> SUFFICES ASSUME SlotInv PROVE NothingLeft
    OBVIOUS
  <2>1. NoHeartbeatLeft
    BY DEF SlotInv, Timers, NoHeartbeatLeft
  <2>2. NoClaimLeft
    BY DEF SlotInv, Books, Open, InHand, NoClaimLeft
  <2> QED BY <2>1, <2>2 DEF NothingLeft
<1> QED BY <1>1, SlotInvHolds, PTL

(* OrderKept: the list jobs that go back, because the queue or the worker was paused or
   the worker closed, stand in their list in the order they had, unless the limiter wait
   of several of them is cut short (Races). *)
THEOREM SpecOrderKept == ASSUME Races = {} PROVE Spec => []OrderKept
<1>1. SlotInv => OrderKept
  BY DEF SlotInv, InOrder, Ordered, OrderKept
<1> QED BY <1>1, SlotInvHolds, PTL

=============================================================================
