---------------------------- MODULE MCQueueSmokes ----------------------------
(* Five casts: two workers of one run key; a worker beside the stale-lock   *)
(* smoke of its run key; the queue smoke, whose claims have no prefix,      *)
(* beside that smoke and beside a benchmark; two benchmarks of one run key, *)
(* one of them with more connections than there are jobs.  j1 and j2 are    *)
(* the jobs of the run key, j2 with one attempt only; f1 and f2 are the     *)
(* queue smoke's fixture.                                                   *)
EXTENDS QueueSmokes, TLC

CONSTANTS j1, j2, f1, f2, w1, w2, staleSmoke, queueSmoke, b1, b2, c1, c2, d1, d2, d3

MCPriority    == j1 :> 20 @@ j2 :> 10 @@ f1 :> 10 @@ f2 :> 5
MCMaxAttempts == j1 :> 2 @@ j2 :> 1 @@ f1 :> 2 @@ f2 :> 2
MCIdOf        == [w \in Workers |-> w]
MCSeedOrder   == [w \in Workers |-> <<j1, j2>>]
MCReach       == [w \in Workers |-> {j1, j2}]
MCSweep       == [m \in Janitors |-> {j1, j2}]
MCPlays       == staleSmoke :> "stale" @@ queueSmoke :> "queue"
MCLine        == b1 :> <<c1, c2>> @@ b2 :> <<d1, d2, d3>>
MCSeeds       == [a \in Actors |-> IF a = queueSmoke THEN <<f1, f2>> ELSE <<j1, j2>>]
MCPrefixed    == [a \in Actors |-> IF a = queueSmoke THEN Jobs ELSE {j1, j2}]
MCCasts       == {{w1, w2}, {w1, staleSmoke}, {staleSmoke, queueSmoke}, {b1, queueSmoke},
                  {b1, b2}}

\* A benchmark and one other start.
MCTwo         == {{b1, queueSmoke}}
=============================================================================
