---------------------------- MODULE JobLifecycle ----------------------------
(***************************************************************************)
(* What the ingestion queue promises about one job, whatever its clients,  *)
(* locks, clocks and transactions do.  A job waits, is leased for one try, *)
(* and every lease ends in one of three ways: the job is finished, goes    *)
(* back to waiting while it has tries left, or is buried when it has none. *)
(* Only enqueueing it again gives a finished or buried job a new life.     *)
(*                                                                         *)
(* One commit of the queue may move several jobs (a seeding transaction, a *)
(* recovery of stale locks), so a step moves any number of jobs at once.   *)
(* IngestionQueue is shown to implement this module.                       *)
(***************************************************************************)
EXTENDS Naturals

CONSTANTS
    Jobs,          \* the idempotency keys of the queue
    MaxTries       \* how many leases a job has: a function from Jobs to Nat

VARIABLES
    phase,         \* phase[j]: where job j stands
    tries          \* tries[j]: leases of j since it was last enqueued

vars == <<phase, tries>>

Phases == {"absent", "waiting", "leased", "finished", "buried"}

TypeOK ==
    /\ phase \in [Jobs -> Phases]
    /\ tries \in [Jobs -> Nat]

Init ==
    /\ phase = [j \in Jobs |-> "absent"]
    /\ tries = [j \in Jobs |-> 0]

Enqueue(j) ==
    /\ phase'[j] = "waiting"
    /\ tries'[j] = 0

Lease(j) ==
    /\ phase[j] = "waiting"
    /\ tries[j] < MaxTries[j]
    /\ phase'[j] = "leased"
    /\ tries'[j] = tries[j] + 1

Finish(j) ==
    /\ phase[j] = "leased"
    /\ phase'[j] = "finished"
    /\ tries'[j] = tries[j]

Return(j) ==
    /\ phase[j] = "leased"
    /\ tries[j] < MaxTries[j]
    /\ phase'[j] = "waiting"
    /\ tries'[j] = tries[j]

Bury(j) ==
    /\ phase[j] = "leased"
    /\ tries[j] = MaxTries[j]
    /\ phase'[j] = "buried"
    /\ tries'[j] = tries[j]

Keep(j) ==
    /\ phase'[j] = phase[j]
    /\ tries'[j] = tries[j]

Move(j) ==
    \/ Enqueue(j)
    \/ Lease(j)
    \/ Finish(j)
    \/ Return(j)
    \/ Bury(j)
    \/ Keep(j)

Next ==
    /\ phase' \in [Jobs -> Phases]
    /\ tries' \in [Jobs -> Nat]
    /\ \A j \in Jobs : Move(j)

Spec == Init /\ [][Next]_vars
=============================================================================
