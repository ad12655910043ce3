--------------------------- MODULE MCGroupOrdering ---------------------------
(* TLC instances of GroupOrdering. *)
EXTENDS GroupOrdering

Ordering(concurrency, rateMax, ttl, maxSeq, maxCount) ==
  [concurrency |-> concurrency, rateMax |-> rateMax, ttl |-> ttl, maxSeq |-> maxSeq, maxCount |-> maxCount]

\* one slot, strict order, ttl; two slots; both with a sliding window of one start
OneAndTwo == {Ordering(1, 1, TRUE, 2, 2), Ordering(1, 0, TRUE, 3, 0), Ordering(2, 1, FALSE, 2, 1)}
=============================================================================
