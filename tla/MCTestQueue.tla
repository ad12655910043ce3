---------------------------- MODULE MCTestQueue ----------------------------
EXTENDS TestQueue

CONSTANTS boss, kid, twin, extra, solo, pair, batcher

\* kid and twin carry the same custom id; boss waits for kid
MCId    == [r \in Recs |-> CASE r = boss -> "b" [] r = extra -> "e" [] OTHER -> "k"]
MCUp    == [r \in Recs |-> IF r = kid THEN <<boss>> ELSE <<>>]
MCBatch == [w \in Workers |-> IF w = batcher THEN 2 ELSE 0]
MCSlots == [w \in Workers |-> IF w = pair THEN 2 ELSE 1]

Profile(jobs, workers, calls, ends) ==
  [jobs |-> jobs, workers |-> workers, calls |-> calls \cup {"add"}, ends |-> ends]

MCProfiles == {
  \* a flow, whose jobs are retried, moved to failed and cleaned
  Profile({boss, kid}, {pair}, {"addFlow", "retry", "moveToFailed", "clean"},
          {"ok", "error", "wait", "swallowed wait"}),
  \* a batch worker beside a single one, and jobs whose place changes
  Profile({boss, twin}, {solo, batcher},
          {"delay", "priority", "changePriority", "changeDelay", "promote", "revoke", "drain", "close"},
          {"ok", "error"}),
  \* suspended jobs, and an id that is used again
  Profile({kid, twin}, {pair}, {"remove", "obliterate", "clean", "signal", "waitForJobs"},
          {"ok", "fatal", "suspend", "delay"}),
  \* a client that waits, while jobs are removed, revoked, retried and drained
  Profile({boss, kid}, {solo}, {"remove", "revoke", "retry", "drain", "waitForJobs"}, {"ok", "error"}),
  \* a paused queue, paused workers and rate limits
  Profile({boss, twin}, {solo, batcher}, {"pause", "pauseWorker"}, {"ok"}),
  Profile({boss, kid}, {pair}, {"priority", "pause", "rateLimit"}, {"ok", "limit"}),
  \* a job scheduler: its jobs are retried, suspended and signalled, or a client
  \* revokes, removes, drains or obliterates jobs
  Profile({boss, kid, extra}, {solo}, {"upsert", "close", "retry"}, {"ok", "fatal"}),
  Profile({boss, extra}, {solo}, {"upsert", "signal", "moveToFailed", "close"}, {"ok", "error", "suspend"}),
  Profile({boss, extra}, {solo}, {"upsert", "revoke", "drain", "remove"}, {"ok", "error"}),
  Profile({boss, kid}, {solo}, {"upsert", "remove", "obliterate", "revoke"}, {"ok", "suspend"}),
  \* jobs that share a budget
  Profile({boss, twin, extra}, {solo}, {"budget", "promote"}, {"ok", "error"})
  }
=============================================================================
