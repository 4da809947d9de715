--------------------------- MODULE IngestionQueue ---------------------------
(***************************************************************************)
(* The table queue.ingestion_jobs and the transactions that experiments/   *)
(* queue_jobs.py runs on it.  Every helper of that file opens a connection *)
(* of its own, so an operation is one transaction: a statement that locks  *)
(* and rewrites rows, then a commit or a rollback.                         *)
(*                                                                         *)
(*   job[j]    the committed version of row j                              *)
(*   held[j]   the client whose open transaction has locked row j          *)
(*   draft[j]  the version that transaction has written, not yet committed *)
(*                                                                         *)
(* A statement reads committed rows (READ COMMITTED).  An UPDATE or an     *)
(* upsert that meets a locked row waits for it and looks at the row again, *)
(* which is the guard of Write; a claim or a recovery skips it (SKIP       *)
(* LOCKED).  No transaction here has two statements for one row; the       *)
(* benchmark's, which has, is in QueueSmokes.                              *)
(*                                                                         *)
(* Time is relative.  lock_age is now() - locked_at, counted up to         *)
(* Timeout + 1, beyond which every lock is as stale; due_in is the time    *)
(* left until available_at, 0 once that has passed.  Tick ages them all.   *)
(* Of two due rows of equal priority either may be claimed: the tie-break  *)
(* on available_at and job_id is left open.  job_kind, payload, last_error *)
(* and updated_at are data no property here depends on.                    *)
(*                                                                         *)
(* The clients here are the most general ones: any client may run any      *)
(* operation on any job at any time.  QueueWorkers restricts them to the   *)
(* programs the repository has.                                            *)
(***************************************************************************)
EXTENDS Integers, FiniteSets

CONSTANTS
    Jobs,          \* the idempotency keys that can be enqueued
    Priority,      \* the priority each job is seeded with
    MaxAttempts,   \* the max_attempts each job is seeded with
    Clients,       \* processes that open transactions
    WorkerIds,     \* what they put into locked_by
    Timeout,       \* timeout_seconds of recover_stale_jobs, in ticks
    RetryDelays,   \* the retry_delay_seconds fail_job is called with, in ticks
    Limits,        \* the limits recover_stale_jobs is called with
    Null           \* SQL NULL, and the holder of an unlocked row

ASSUME PriorityAssumption    == Priority \in [Jobs -> Int]
ASSUME MaxAttemptsAssumption == MaxAttempts \in [Jobs -> Nat \ {0}]
ASSUME TimeoutAssumption     == Timeout \in Nat \ {0}
ASSUME RetryDelaysAssumption == RetryDelays \subseteq Nat
ASSUME LimitsAssumption      == Limits \subseteq Nat \ {0}
ASSUME NullAssumption        == Null \notin Clients \cup WorkerIds \cup Nat

VARIABLES job, held, draft

queueVars == <<job, held, draft>>

Statuses == {"absent", "available", "running", "completed", "failed", "dead_letter"}

LockAges == 0 .. Timeout + 1

Row == [status       : Statuses,
        attempts     : Nat,
        locked_by    : WorkerIds \cup {Null},
        lock_age     : LockAges \cup {Null},
        due_in       : Nat,
        completed_at : BOOLEAN]

TypeOK ==
    /\ job \in [Jobs -> Row]
    /\ held \in [Jobs -> Clients \cup {Null}]
    /\ draft \in [Jobs -> Row]

-----------------------------------------------------------------------------
(* What the statements write into a row.                                   *)

Fresh(status) ==
    [status |-> status, attempts |-> 0, locked_by |-> Null, lock_age |-> Null,
     due_in |-> 0, completed_at |-> FALSE]

\* A row no seeding has inserted yet.
Absent == Fresh("absent")

\* The row SEED_JOB_SQL inserts, and what its ON CONFLICT branch resets the
\* existing row to, whatever that row's status is.
Seeded == Fresh("available")

\* Faulty claims: the attempt is not counted; the worker id is not recorded.
ClaimedUncounted(r, id) ==
    [r EXCEPT !.status = "running", !.locked_by = id, !.lock_age = 0]

ClaimedAnonymously(r, id) ==
    [r EXCEPT !.status = "running", !.attempts = r.attempts + 1, !.lock_age = 0]

Claimed(r, id) ==
    [r EXCEPT !.status = "running", !.attempts = r.attempts + 1,
              !.locked_by = id, !.lock_age = 0]

\* Faulty completion: the lock columns are left as they are.
CompletedLocked(r) == [r EXCEPT !.status = "completed", !.completed_at = TRUE]

Completed(r) ==
    [r EXCEPT !.status = "completed", !.completed_at = TRUE,
              !.locked_by = Null, !.lock_age = Null]

\* Faulty bound: one attempt too many.
SpentLate(j, r) == r.attempts > MaxAttempts[j]

Spent(j, r) == r.attempts >= MaxAttempts[j]

\* Faulty release: the attempt of an abandoned run is given back.
ReleasedRefunding(j, r, delay) ==
    [r EXCEPT !.status = "failed", !.attempts = r.attempts - 1, !.due_in = delay,
              !.locked_by = Null, !.lock_age = Null]

\* The end of a failed or abandoned run: buried when its attempts are spent,
\* else due again after the delay.
Released(j, r, delay) ==
    [r EXCEPT !.status = IF Spent(j, r) THEN "dead_letter" ELSE "failed",
              !.due_in = IF Spent(j, r) THEN r.due_in ELSE delay,
              !.locked_by = Null, !.lock_age = Null]

\* Faulty ageing: the seconds are added, so that locked_at lies ahead of now().
RelockedAhead(r, age) == [r EXCEPT !.lock_age = 0 - age]

Relocked(r, age) == [r EXCEPT !.lock_age = age]

Aged(r) ==
    [r EXCEPT !.lock_age = IF @ \in {Null, Timeout + 1} THEN @ ELSE @ + 1,
              !.due_in = IF r.due_in = 0 THEN 0 ELSE r.due_in - 1]

-----------------------------------------------------------------------------
(* Which rows a statement's WHERE clause selects.                          *)

\* Faulty claim: failed jobs are not looked at again.
ClaimableOnce(j) ==
    /\ job[j].status = "available"
    /\ job[j].due_in = 0
    /\ job[j].attempts < MaxAttempts[j]

Claimable(j) ==
    /\ job[j].status \in {"available", "failed"}
    /\ job[j].due_in = 0
    /\ job[j].attempts < MaxAttempts[j]

\* Faulty WHERE: the job_id alone.
Present(j) == job[j].status # "absent"

Running(j) == job[j].status = "running"

\* Faulty recovery: a lock of the last attempt is not recovered.
StaleWithRoom(j) ==
    /\ Running(j)
    /\ job[j].lock_age # Null
    /\ job[j].lock_age > Timeout
    /\ job[j].attempts < MaxAttempts[j]

Stale(j) ==
    /\ Running(j)
    /\ job[j].lock_age # Null
    /\ job[j].lock_age > Timeout

\* Faulty claim and recovery: without SKIP LOCKED, so that they wait for the row.
LockedOrNot(K) == K

Unlocked(K) == {j \in K : held[j] = Null}

\* The rows a claim with this reach (the keys its LIKE prefix matches, all of
\* Jobs for claim_job) may take: the first of its ORDER BY that is not locked.
ClaimChoices(reach) ==
    LET candidates == {j \in Unlocked(reach) : Claimable(j)}
    IN  {j \in candidates : \A k \in candidates : Priority[k] <= Priority[j]}

\* The sets of rows one recovery may take: the oldest locks first, at most limit.
RecoverChoices(reach, limit) ==
    LET stale == {j \in Unlocked(reach) : Stale(j)}
    IN  {S \in SUBSET stale :
            /\ \/ S = stale /\ Cardinality(S) <= limit
               \/ Cardinality(S) = limit
            /\ \A j \in S, k \in stale \ S : job[j].lock_age >= job[k].lock_age}

-----------------------------------------------------------------------------
(* The statements, each run by a client c inside its open transaction.     *)

\* c locks the rows of DOMAIN new, once nobody else has them locked any more,
\* and writes their new versions.
Write(c, new) ==
    /\ \A j \in DOMAIN new : held[j] = Null
    /\ held'  = [j \in Jobs |-> IF j \in DOMAIN new THEN c ELSE held[j]]
    /\ draft' = [j \in Jobs |-> IF j \in DOMAIN new THEN new[j] ELSE draft[j]]
    /\ UNCHANGED job

WriteRow(c, j, d) == Write(c, [k \in {j} |-> d])

SeedRow(c, j) == WriteRow(c, j, Seeded)

ClaimRow(c, id, reach, j) ==
    /\ j \in ClaimChoices(reach)
    /\ WriteRow(c, j, Claimed(job[j], id))

CompleteRow(c, j) ==
    /\ Running(j)
    /\ WriteRow(c, j, Completed(job[j]))

FailRow(c, j, delay) ==
    /\ Running(j)
    /\ WriteRow(c, j, Released(j, job[j], delay))

HeartbeatRow(c, id, j) ==
    /\ Running(j)
    /\ job[j].locked_by = id
    /\ WriteRow(c, j, Relocked(job[j], 0))

\* age_running_job_lock backdates the lock of whoever runs the job.
AgeRow(c, j, age) ==
    /\ Running(j)
    /\ WriteRow(c, j, Relocked(job[j], age))

RecoverRows(c, reach, limit, S) ==
    /\ S # {}
    /\ S \in RecoverChoices(reach, limit)
    /\ Write(c, [k \in S |-> Released(k, job[k], 0)])

\* Leaving the `with connect()` block: its commit, or the rollback that an
\* exception, a lost connection or the death of the client brings.
Holds(c) == \E j \in Jobs : held[j] = c

EndTransaction(c) ==
    held' = [j \in Jobs |-> IF held[j] = c THEN Null ELSE held[j]]

Commit(c) ==
    /\ Holds(c)
    /\ EndTransaction(c)
    /\ job' = [j \in Jobs |-> IF held[j] = c THEN draft[j] ELSE job[j]]
    /\ UNCHANGED draft

Rollback(c) ==
    /\ EndTransaction(c)
    /\ draft' = [j \in Jobs |-> IF held[j] = c THEN job[j] ELSE draft[j]]
    /\ UNCHANGED job

Tick ==
    /\ job'   = [j \in Jobs |-> Aged(job[j])]
    /\ draft' = [j \in Jobs |-> Aged(draft[j])]
    /\ UNCHANGED held

-----------------------------------------------------------------------------
Init ==
    /\ job   = [j \in Jobs |-> Absent]
    /\ held  = [j \in Jobs |-> Null]
    /\ draft = [j \in Jobs |-> Absent]

Statement(c) ==
    \/ \E j \in Jobs : SeedRow(c, j)
    \/ \E j \in Jobs, id \in WorkerIds, reach \in SUBSET Jobs : ClaimRow(c, id, reach, j)
    \/ \E j \in Jobs : CompleteRow(c, j)
    \/ \E j \in Jobs, delay \in RetryDelays : FailRow(c, j, delay)
    \/ \E j \in Jobs, id \in WorkerIds : HeartbeatRow(c, id, j)
    \/ \E j \in Jobs, age \in LockAges \ {0} : AgeRow(c, j, age)
    \/ \E reach, S \in SUBSET Jobs, limit \in Limits : RecoverRows(c, reach, limit, S)

Next ==
    \/ \E c \in Clients : Statement(c) \/ Commit(c) \/ Rollback(c)
    \/ Tick

Spec == Init /\ [][Next]_queueVars

-----------------------------------------------------------------------------
(* Properties.                                                             *)

\* The columns of one row agree: the lock columns are set exactly while the job
\* runs, completed_at exactly when it is completed, and the attempts fit the
\* status.  The schema's CHECKs ask for part of this; the statements, each
\* assigning some columns only, have to keep all of it together.
RowAgrees(j, r) ==
    /\ r.status = "running" <=> r.locked_by # Null
    /\ r.status = "running" <=> r.lock_age # Null
    /\ r.completed_at <=> r.status = "completed"
    /\ r.attempts <= MaxAttempts[j]
    /\ r.status \in {"absent", "available"} => r.attempts = 0
    /\ r.status \in {"running", "completed"} => r.attempts > 0
    /\ r.status # "failed" => r.due_in = 0

RowsAgree == \A j \in Jobs : RowAgrees(j, job[j])

\* No job is lost between the claim's `attempts < max_attempts` and the
\* release's `attempts >= max_attempts`: a job that failed can be claimed
\* again, a dead letter has had every attempt it was given.
Lossless(j, r) ==
    /\ r.status = "failed" => r.attempts < MaxAttempts[j]
    /\ r.status = "dead_letter" => r.attempts = MaxAttempts[j]

NoJobLost == \A j \in Jobs : Lossless(j, job[j])

\* A settled job stays settled: once a row is completed or dead_letter nothing
\* but a new seeding changes it, however late a worker that lost its lock, a
\* recovery or a heartbeat comes back to it.
SettledUntilSeeded ==
    [][\A j \in Jobs :
          job[j].status \in {"completed", "dead_letter"} =>
              job'[j] = job[j] \/ job'[j] = Seeded]_queueVars

\* A run that is over costs its attempt: attempts never go down except by a
\* seeding, and go up only when the row enters running, one at a time.
AttemptsCountClaims ==
    [][\A j \in Jobs :
          \/ job'[j] = Seeded
          \/ /\ job'[j].attempts = job[j].attempts
             /\ job'[j].status = "running" => job[j].status = "running"
          \/ /\ job'[j].attempts = job[j].attempts + 1
             /\ job[j].status # "running"
             /\ job'[j].status = "running"]_queueVars

\* The queue implements the lifecycle.
PhaseOf == [absent |-> "absent", available |-> "waiting", failed |-> "waiting",
            running |-> "leased", completed |-> "finished", dead_letter |-> "buried"]

Lifecycle == INSTANCE JobLifecycle WITH
                 MaxTries <- MaxAttempts,
                 phase    <- [j \in Jobs |-> PhaseOf[job[j].status]],
                 tries    <- [j \in Jobs |-> job[j].attempts]

ImplementsLifecycle == Lifecycle!Spec
=============================================================================
