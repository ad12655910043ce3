--------------------------- MODULE MCProxyServer ---------------------------
EXTENDS ProxyServer, TLC

CONSTANTS r1, r2, r3

(* Which routes are requested at the same time, and what else happens. *)
P(a, b, c, faultBound, closeIt, chunkBound) ==
  [kind |-> r1 :> a @@ r2 :> b @@ r3 :> c, faults |-> faultBound, closes |-> closeIt, chunks |-> chunkBound]

MCProfiles ==
  { P("broadcast", "broadcast", "broadcast", 1, TRUE, 0),
    P("broadcast", "broadcast", "summary", 1, FALSE, 0),
    P("wait", "jobEvents", "none", 2, FALSE, 0),
    P("wait", "events", "none", 1, TRUE, 0),
    P("jobEvents", "summary", "none", 1, TRUE, 0),
    P("wait", "summary", "add", 0, TRUE, 0),
    P("stream", "broadcast", "none", 1, TRUE, 2) }
=============================================================================
