--------------------------- MODULE MCQueueWorkers ---------------------------
(* Two workers of one run key, each with a worker id of its own.  What     *)
(* their claims and the recovery can match is what LIKE makes of the       *)
(* prefix of that run key, which holds a wildcard.                         *)
EXTENDS QueueWorkers, RunKeys, TLC

CONSTANTS j1, j2, w1, w2, m1

MCJobs        == {j1, j2}
MCPriority    == j1 :> 20 @@ j2 :> 10
MCMaxAttempts == [j \in MCJobs |-> 2]
MCIdOf        == [w \in Workers |-> w]
MCSeedOrder   == [w \in Workers |-> <<j1, j2>>]

RunKey  == <<"a", "_", "b">>
KeyOf   == j1 :> JobKey(RunKey, "binance") @@ j2 :> JobKey(RunKey, "bnb:block-timestamp")
Matched == IF ValidRunKey(RunKey)
           THEN {j \in MCJobs : LikePrefix(KeyOf[j], WorkerPrefix(RunKey))}
           ELSE {}

MCReach       == [w \in Workers |-> Matched]
MCSweep       == [m \in Janitors |-> Matched]

\* What the theorem on WorkersDrain asks of the constants.
ASSUME InstanceHasOneRunKey == OneRunKey

WorkerSymmetry == Permutations(Workers)
=============================================================================
