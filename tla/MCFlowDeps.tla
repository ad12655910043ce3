---------------------------- MODULE MCFlowDeps ----------------------------
(* The flows that are checked. *)
EXTENDS FlowDeps

CONSTANTS top, mid, kid, low, home, away   \* jobs and queues, as model values

Lookup(pairs, else) ==
  [j \in Jobs |-> IF \E x \in pairs : x[1] = j THEN (CHOOSE x \in pairs : x[1] = j)[2] ELSE else]

\* top waits for mid and kid, mid for low, which lives in another queue
Chain == [up    |-> Lookup({<<mid, {top}>>, <<kid, {top}>>, <<low, {mid}>>}, {}),
          queue |-> Lookup({<<low, away>>}, home),
          level |-> Lookup({<<top, 2>>, <<mid, 1>>}, 0), late |-> {}, dag |-> FALSE]

\* top waits for kid and mid, and its processor adds low in another queue
Added == [Chain EXCEPT !.up = Lookup({<<mid, {top}>>, <<kid, {top}>>, <<low, {top}>>}, {}),
                       !.level = Lookup({<<top, 1>>}, 0), !.late = {low}]

\* top waits for mid and kid, both of these for low; kid lives in another queue
Diamond == [up    |-> Lookup({<<mid, {top}>>, <<kid, {top}>>, <<low, {mid, kid}>>}, {}),
            queue |-> Lookup({<<kid, away>>}, home),
            level |-> Lookup({<<top, 2>>, <<mid, 1>>, <<kid, 1>>}, 0), late |-> {}, dag |-> TRUE]

\* the chain, written as a DAG
Ladder == [Chain EXCEPT !.dag = TRUE]

\* top waits for mid, mid for low, and the processor of top adds kid in another queue
Grown == [Chain EXCEPT !.queue = Lookup({<<low, away>>, <<kid, away>>}, home), !.late = {kid}]

MCFlows == {Chain, Added, Diamond, Ladder, Grown}
=============================================================================
