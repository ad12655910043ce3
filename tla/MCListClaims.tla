---------------------------- MODULE MCListClaims ----------------------------
(* The instances of ListClaims that are checked. *)
EXTENDS ListClaims

Profile(n, cap, slots, kinds, calls, maxEvents) ==
  [jobs |-> CHOOSE js \in SUBSET Jobs : Cardinality(js) = n,
   cap |-> cap, slots |-> slots, kinds |-> kinds, calls |-> calls, events |-> maxEvents,
   retries |-> 1, stalls |-> 1]

MCProfiles == {
  \* crashes and pauses, with a cap that every kind of job is counted against
  Profile(2, 1, 1, Kinds, {"crash", "pause"}, 2),
  Profile(2, 2, 2, Kinds, {"crash", "handBack"}, 2),
  \* clients that move a job while a worker has popped it
  Profile(2, 1, 1, Kinds, {"remove", "revoke", "changePriority"}, 2),
  \* a cap below the number of workers and jobs
  Profile(3, 2, 1, {"lifo"}, {"crash"}, 1),
  \* no cap: pops reserve without looking
  Profile(2, 0, 2, {"lifo", "priority"}, {"pause", "expire", "crash"}, 2),
  \* a slot whose worker dies before it releases it
  Profile(2, 1, 1, {"lifo"}, {"remove", "expire", "crash"}, 2)}
=============================================================================
