---------------------------- MODULE MCWorkerLoop ----------------------------
(* The options and call sequences under which WorkerLoop is checked.        *)
EXTENDS WorkerLoop

Profile(lists, prefetch, batch, limited, shared, calls, maxPauses, maxErrs) ==
  [lists |-> lists, prefetch |-> prefetch, batch |-> batch, limited |-> limited, shared |-> shared,
   calls |-> calls, pauses |-> maxPauses, errs |-> maxErrs]

AJob == CHOOSE j \in Jobs : TRUE

MCProfiles == {
  \* a concurrent worker on both sources
  Profile({AJob}, 2, FALSE, FALSE, FALSE, {"pause", "close", "force"}, 1, 1),
  \* an inline worker with a limiter
  Profile({}, 1, FALSE, TRUE, FALSE, {"pause", "close", "force"}, 1, 1),
  \* reconnects that fail, own client and injected client
  Profile({}, 1, FALSE, FALSE, FALSE, {"close", "force"}, 0, 2),
  Profile({}, 2, FALSE, FALSE, TRUE, {"pause", "close"}, 1, 2),
  \* batches
  Profile({AJob}, 2, TRUE, TRUE, FALSE, {"pause", "close", "force"}, 1, 1),
  \* drain
  Profile({}, 2, FALSE, FALSE, FALSE, {"pause", "drain", "close"}, 1, 0)}
=============================================================================
