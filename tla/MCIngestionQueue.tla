-------------------------- MODULE MCIngestionQueue --------------------------
(* IngestionQueue with three jobs of different priorities, one of them     *)
(* with a single attempt, and two clients.                                 *)
EXTENDS IngestionQueue, TLC

CONSTANTS high, mid, low, c1, c2

MCJobs        == {high, mid, low}
MCPriority    == high :> 20 @@ mid :> 10 @@ low :> 5
MCMaxAttempts == high :> 2 @@ mid :> 1 @@ low :> 1

ClientSymmetry == Permutations(Clients)
=============================================================================
