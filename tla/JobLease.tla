------------------------------ MODULE JobLease ------------------------------
(***************************************************************************)
(* What the queue promises about one job: it is leased to one worker at a  *)
(* time, only a leased job finishes, only its owner finishes it, an        *)
(* abandoned lease is taken back, and a completed job is never queued      *)
(* again.  A removal does not end the lease: until the owner lets go, it   *)
(* may still record an outcome or a retry.  Several jobs may take a step   *)
(* at once: a worker finishes one job and starts the next in a single call.*)
(***************************************************************************)
CONSTANTS Jobs, Workers
VARIABLES phase, owner   \* owner[j]: the workers running job j
vars == <<phase, owner>>

Init == /\ phase = [j \in Jobs |-> "absent"]
        /\ owner = [j \in Jobs |-> {}]

Becomes(j, p, ws) == phase'[j] = p /\ owner'[j] = ws

Submit(j)  == phase[j] = "absent" /\ Becomes(j, "queued", {})
Begin(j)   == phase[j] = "queued" /\ \E w \in Workers : Becomes(j, "running", {w})
Cancel(j)  == phase[j] = "queued" /\ Becomes(j, "failed", {})
Leased(j)  == phase[j] \in {"running", "removed"} /\ owner[j] /= {}
Finish(j)  == Leased(j) /\ \E p \in {"completed", "failed", "queued", "removed"} : Becomes(j, p, {})
Abandon(j) == Leased(j) /\ Becomes(j, phase[j], {})
Recover(j) == /\ phase[j] = "running" /\ owner[j] = {}
              /\ \E p \in {"queued", "failed"} : Becomes(j, p, {})
Retry(j)   == phase[j] = "failed" /\ Becomes(j, "queued", {})
Remove(j)  == phase[j] /= "absent" /\ Becomes(j, "removed", owner[j])

Step(j) == \/ Submit(j) \/ Begin(j) \/ Cancel(j) \/ Finish(j) \/ Abandon(j)
           \/ Recover(j) \/ Retry(j) \/ Remove(j)

Next == /\ \A j \in Jobs : Becomes(j, phase[j], owner[j]) \/ Step(j)
        /\ \A i, j \in Jobs : i /= j => owner'[i] \cap owner'[j] = {}

Spec == Init /\ [][Next]_vars
=============================================================================
