--------------------------- MODULE MCSandboxPool ---------------------------
EXTENDS SandboxPool, TLC

CONSTANTS j1, j2, j3

P(a, b, c, aborted, callBound, crashBound, closeIt) ==
  [manner |-> j1 :> a @@ j2 :> b @@ j3 :> c, aborts |-> aborted,
   calls |-> callBound, crashes |-> crashBound, closes |-> closeIt]

MCProfiles ==
  { P("works", "works", "works", {j1}, 1, 0, FALSE),
    P("hangs", "waits", "works", {j1, j2}, 0, 1, FALSE),
    P("works", "hangs", "works", {j2}, 1, 0, TRUE),
    P("works", "works", "works", {j1}, 0, 1, TRUE) }
=============================================================================
