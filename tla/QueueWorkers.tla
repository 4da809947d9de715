---------------------------- MODULE QueueWorkers ----------------------------
(***************************************************************************)
(* The worker processes of experiments/queue_jobs.py on the table of       *)
(* IngestionQueue: run_queue_worker_smoke applies the schema, seeds the    *)
(* jobs of its run key in one transaction and then claims, executes and    *)
(* ends jobs until a claim finds nothing or its cap on executions is       *)
(* reached; run_claimed_job executes one claimed job and reports it.       *)
(* Beside the workers, stale-lock smokes may come to their recovery at any *)
(* time, or never: only that step of theirs is here (Recover); QueueSmokes *)
(* has the program.                                                        *)
(*                                                                         *)
(* The CREATE INDEX IF NOT EXISTS of the schema asks for SHARE on the      *)
(* table, which conflicts with the ROW EXCLUSIVE that every transaction    *)
(* with an open statement has.  PostgreSQL grants the locks of a table in  *)
(* the order they are asked for: while a program is at "preparing",        *)
(* transactions that write already go on, and all others wait behind it.   *)
(*                                                                         *)
(* pc[w] names the place in the program: a statement and its commit are    *)
(* two steps, so a process can die, and other processes act, in between.   *)
(* Executing a payload is one step that succeeds or raises; what it does   *)
(* to the other tables is no part of this module.                          *)
(***************************************************************************)
EXTENDS IngestionQueue, Sequences

CONSTANTS
    Workers,       \* processes that run run_queue_worker_smoke
    Janitors,      \* stale-lock smokes, as far as they recover
    Sweep,         \* the keys the prefix of such a recovery matches
    IdOf,          \* the worker_id each worker is started with
    SeedOrder,     \* the jobs its run key builds, in the order it inserts them
    Reach,         \* the keys its LIKE prefix matches
    MaxStarts      \* bound: how many times a worker is started, all together

ASSUME WorkersAssumption   == Workers \cup Janitors \subseteq Clients /\ Workers \cap Janitors = {}
ASSUME IdOfAssumption      == IdOf \in [Workers -> WorkerIds]
ASSUME SeedOrderAssumption == SeedOrder \in [Workers -> Seq(Jobs) \ {<<>>}]
ASSUME ReachAssumption     == Reach \in [Workers -> SUBSET Jobs]
ASSUME SweepAssumption     == Sweep \in [Janitors -> SUBSET Jobs]
ASSUME MaxStartsAssumption == MaxStarts \in Nat
ASSUME NoDelayAssumption   == 0 \in RetryDelays   \* run_claimed_job's fail_job call

VARIABLES
    pc,            \* where each worker stands
    ticket,        \* the QueueJob its claim returned, Null outside a run
    seeded,        \* how many jobs of SeedOrder its seeding has inserted
    runs,          \* len(executions)
    starts,        \* how many times a worker was started
    epoch          \* history: how often each job has been seeded

progVars == <<pc, ticket, seeded, runs, starts>>
vars == <<job, held, draft, pc, ticket, seeded, runs, starts, epoch>>

Stopped == {"off", "drained", "capped", "dead"}

Places == Stopped \cup {"preparing", "seeding", "polling", "claiming", "executing", "completing",
                        "completed", "failing", "failed"}

Ticket == [job : Jobs, epoch : Nat, attempts : Nat]

\* while len(executions) < seeded_jobs * 2
Cap(w) == 2 * Len(SeedOrder[w])

WorkersTypeOK ==
    /\ TypeOK
    /\ pc \in [Workers -> Places]
    /\ ticket \in [Workers -> Ticket \cup {Null}]
    /\ seeded \in [Workers -> Nat]
    /\ runs \in [Workers -> Nat]
    /\ \A w \in Workers : runs[w] <= Cap(w)
    /\ starts \in 0 .. MaxStarts
    /\ epoch \in [Jobs -> Nat]

-----------------------------------------------------------------------------
Goto(w, from, to) ==
    /\ pc[w] = from
    /\ pc' = [pc EXCEPT ![w] = to]

\* A run is over and the loop comes round.
ReturnFromRun(w, from) ==
    /\ Goto(w, from, "polling")
    /\ ticket' = [ticket EXCEPT ![w] = Null]
    /\ runs' = [runs EXCEPT ![w] = @ + 1]
    /\ UNCHANGED <<seeded, starts, epoch>>

\* The command is run, first ever, or again after it ended or died, and asks for
\* the lock of its schema.
Start(w) ==
    /\ pc[w] \in Stopped
    /\ starts < MaxStarts
    /\ pc' = [pc EXCEPT ![w] = "preparing"]
    /\ starts' = starts + 1
    /\ seeded' = [seeded EXCEPT ![w] = 0]
    /\ runs' = [runs EXCEPT ![w] = 0]
    /\ UNCHANGED <<queueVars, ticket, epoch>>

\* ensure_queue_schema: the lock is granted when no transaction writes to the
\* table.  Everything there is exists, so nothing else happens.
Prepare(w) ==
    /\ Goto(w, "preparing", "seeding")
    /\ \A j \in Jobs : held[j] = Null
    /\ UNCHANGED <<queueVars, ticket, seeded, runs, starts, epoch>>

SchemaAsked == \E w \in Workers : pc[w] = "preparing"

\* What w does next is the first statement of a transaction.
Begins(w) ==
    /\ ~Holds(w)
    /\ \/ pc[w] \in {"seeding", "completing", "failing"}
       \/ pc[w] = "polling" /\ runs[w] < Cap(w)

\* Faulty seeding: the rows are inserted in no particular order.
SeedAny(w) ==
    /\ pc[w] = "seeding"
    /\ seeded[w] < Len(SeedOrder[w])
    /\ \E i \in 1 .. Len(SeedOrder[w]) : SeedRow(w, SeedOrder[w][i])
    /\ seeded' = [seeded EXCEPT ![w] = @ + 1]
    /\ UNCHANGED <<pc, ticket, runs, starts, epoch>>

SeedNext(w) ==
    /\ pc[w] = "seeding"
    /\ seeded[w] < Len(SeedOrder[w])
    /\ SeedRow(w, SeedOrder[w][seeded[w] + 1])
    /\ seeded' = [seeded EXCEPT ![w] = @ + 1]
    /\ UNCHANGED <<pc, ticket, runs, starts, epoch>>

SeedCommit(w) ==
    /\ seeded[w] = Len(SeedOrder[w])
    /\ Goto(w, "seeding", "polling")
    /\ Commit(w)
    /\ epoch' = [j \in Jobs |-> IF held[j] = w THEN epoch[j] + 1 ELSE epoch[j]]
    /\ UNCHANGED <<ticket, seeded, runs, starts>>

\* Faulty loop: it does not count its executions.
ClaimUncapped(w) ==
    /\ Goto(w, "polling", "claiming")
    /\ \E j \in Jobs : ClaimRow(w, IdOf[w], Reach[w], j)
    /\ UNCHANGED <<ticket, seeded, runs, starts, epoch>>

Claim(w) ==
    /\ runs[w] < Cap(w)
    /\ Goto(w, "polling", "claiming")
    /\ \E j \in Jobs : ClaimRow(w, IdOf[w], Reach[w], j)
    /\ UNCHANGED <<ticket, seeded, runs, starts, epoch>>

\* claim_job_by_prefix returns the row, so the run starts with a copy of it.
ClaimCommit(w) ==
    /\ Goto(w, "claiming", "executing")
    /\ Commit(w)
    /\ \E j \in Jobs :
          /\ held[j] = w
          /\ ticket' = [ticket EXCEPT ![w] =
                [job |-> j, epoch |-> epoch[j], attempts |-> draft[j].attempts]]
    /\ UNCHANGED <<seeded, runs, starts, epoch>>

ClaimNothing(w) ==
    /\ runs[w] < Cap(w)
    /\ ClaimChoices(Reach[w]) = {}
    /\ Goto(w, "polling", "drained")
    /\ UNCHANGED <<queueVars, ticket, seeded, runs, starts, epoch>>

ReachCap(w) ==
    /\ runs[w] >= Cap(w)
    /\ Goto(w, "polling", "capped")
    /\ UNCHANGED <<queueVars, ticket, seeded, runs, starts, epoch>>

\* execute_queue_job returns, or raises.
Execute(w) ==
    /\ Goto(w, "executing", "completing") \/ Goto(w, "executing", "failing")
    /\ UNCHANGED <<queueVars, ticket, seeded, runs, starts, epoch>>

\* Faulty completion: it looks for the job, whatever its status.
CompleteAnyway(w) ==
    /\ Goto(w, "completing", "completed")
    /\ WriteRow(w, ticket[w].job, Completed(job[ticket[w].job]))
    /\ UNCHANGED <<ticket, seeded, runs, starts, epoch>>

\* complete_job
CompleteFound(w) ==
    /\ Goto(w, "completing", "completed")
    /\ CompleteRow(w, ticket[w].job)
    /\ UNCHANGED <<ticket, seeded, runs, starts, epoch>>

CompleteCommit(w) ==
    /\ Commit(w)
    /\ ReturnFromRun(w, "completed")

\* No running row: complete_job raises, and run_claimed_job's handler takes it
\* for a failure of the job.
CompleteMissing(w) ==
    /\ Goto(w, "completing", "failing")
    /\ ~Running(ticket[w].job)
    /\ UNCHANGED <<queueVars, ticket, seeded, runs, starts, epoch>>

\* Faulty handler: a broken commit is taken for a completed job.
CompleteAssumed(w) ==
    /\ Commit(w) \/ Rollback(w)
    /\ ReturnFromRun(w, "completed")

\* The connection breaks at the commit: it took effect or it did not, and the
\* same handler runs.
CompleteUnanswered(w) ==
    /\ Goto(w, "completed", "failing")
    /\ Commit(w) \/ Rollback(w)
    /\ UNCHANGED <<ticket, seeded, runs, starts, epoch>>

\* fail_job
FailFound(w) ==
    /\ Goto(w, "failing", "failed")
    /\ FailRow(w, ticket[w].job, 0)
    /\ UNCHANGED <<ticket, seeded, runs, starts, epoch>>

FailCommit(w) ==
    /\ Commit(w)
    /\ ReturnFromRun(w, "failed")

\* No running row: fail_job raises inside the handler and the program ends.
FailMissing(w) ==
    /\ Goto(w, "failing", "dead")
    /\ ~Running(ticket[w].job)
    /\ ticket' = [ticket EXCEPT ![w] = Null]
    /\ UNCHANGED <<queueVars, seeded, runs, starts, epoch>>

\* The process is killed, or loses its connection outside the handler.
Die(w) ==
    /\ pc[w] \notin Stopped
    /\ Rollback(w)
    /\ pc' = [pc EXCEPT ![w] = "dead"]
    /\ ticket' = [ticket EXCEPT ![w] = Null]
    /\ UNCHANGED <<seeded, runs, starts, epoch>>

\* recover_stale_jobs, as run_queue_stale_lock_smoke calls it, with the prefix of
\* its run key.  Each run of that command calls it once; nobody has to run it.
Recover(m) ==
    /\ ~Holds(m)
    /\ ~SchemaAsked
    /\ \E S \in SUBSET Jobs, limit \in Limits : RecoverRows(m, Sweep[m], limit, S)
    /\ UNCHANGED <<progVars, epoch>>

RecoverCommit(m) ==
    /\ Commit(m)
    /\ UNCHANGED <<progVars, epoch>>

TickWorkers == Tick /\ UNCHANGED <<progVars, epoch>>

-----------------------------------------------------------------------------
WorkersInit ==
    /\ Init
    /\ pc = [w \in Workers |-> "off"]
    /\ ticket = [w \in Workers |-> Null]
    /\ seeded = [w \in Workers |-> 0]
    /\ runs = [w \in Workers |-> 0]
    /\ starts = 0
    /\ epoch = [j \in Jobs |-> 0]

\* The steps a running worker takes on its own.
Proceed(w) ==
    /\ Begins(w) => ~SchemaAsked
    /\ \/ Prepare(w)
       \/ SeedNext(w) \/ SeedCommit(w)
       \/ Claim(w) \/ ClaimCommit(w) \/ ClaimNothing(w) \/ ReachCap(w)
       \/ Execute(w)
       \/ CompleteFound(w) \/ CompleteMissing(w) \/ CompleteCommit(w)
       \/ FailFound(w) \/ FailMissing(w) \/ FailCommit(w)

Disturb(w) == Start(w) \/ CompleteUnanswered(w) \/ Die(w)

Clean(m) == Recover(m) \/ RecoverCommit(m)

WorkersNext ==
    \/ \E w \in Workers : Proceed(w) \/ Disturb(w)
    \/ \E m \in Janitors : Clean(m)
    \/ TickWorkers

WorkersSpec == WorkersInit /\ [][WorkersNext]_vars

-----------------------------------------------------------------------------
(* Properties.                                                             *)

InRun(w) == ticket[w] # Null

\* The run a worker is in is the one its row is in.
OwnsRun(w) ==
    LET t == ticket[w]
    IN  /\ Running(t.job)
        /\ t.epoch = epoch[t.job]
        /\ t.attempts = job[t.job].attempts

\* One attempt, one worker: no two workers ever execute the same attempt of the
\* same seeding of a job, whatever the claims, recoveries, reseedings and deaths
\* in between (FOR UPDATE SKIP LOCKED and attempts + 1 in one statement).
AttemptsNotShared ==
    \A v, w \in Workers : InRun(v) /\ InRun(w) /\ v # w => ticket[v] # ticket[w]

\* A row that is running names, in locked_by, the worker that is in that run, if
\* it is still alive: heartbeat_job's and the status listing's reading of it.
LockNamesRunner ==
    \A w \in Workers : InRun(w) /\ OwnsRun(w) =>
        job[ticket[w].job].locked_by = IdOf[w]

\* The jobs of a worker's run key and binance_limit.
RunKeyJobs(w) == {SeedOrder[w][i] : i \in 1 .. Len(SeedOrder[w])}

\* All workers are started with the same two, so that they seed the same jobs, each
\* with two attempts at most as build_worker_jobs has it, and their prefix matches
\* them.  WorkersDrain is about such workers: one started with another limit
\* that dies in a job of the first limit does not seed that job again.
OneRunKey ==
    /\ \A v, w \in Workers : RunKeyJobs(v) = RunKeyJobs(w)
    /\ \A w \in Workers : RunKeyJobs(w) \subseteq Reach[w]
    /\ \A w \in Workers : \A j \in RunKeyJobs(w) : MaxAttempts[j] <= 2

\* Workers that stopped of their own accord leave nothing behind: when every
\* worker has stopped because a claim found nothing, no job they had seeded
\* waits or runs, although each looked only at the rows nobody had locked.
\* A worker stopped by its cap counts too if its start was the only one:
\* twice the number of jobs is enough for all their attempts.
Leftover(j) == job[j].status \in {"available", "running", "failed"}

WorkersDrain ==
    (\A w \in Workers :
        \/ pc[w] \in {"off", "drained"}
        \/ pc[w] = "capped" /\ starts = 1)
    => \A j \in Jobs : ~Leftover(j)

\* Every program here is a client of the queue.
ImplementsQueue == Spec

-----------------------------------------------------------------------------
(* What the documentation says and the code does not do.                   *)

\* docs/queue-ingestion-jobs.md: after a stale lock is recovered "the next worker
\* owns the retry".  Then no other worker ends that retry.
NextWorkerOwnsRetry ==
    \A w \in Workers :
        pc[w] \in {"completed", "failed"} /\ ticket[w].epoch = epoch[ticket[w].job]
            => ticket[w].attempts = job[ticket[w].job].attempts

\* docs/queue-ingestion-jobs.md: idempotency_key "prevents duplicate enqueue for
\* the same target".  Then no job is executed by two workers at once when no
\* lock is ever recovered.
NoDuplicateProcessing ==
    \A v, w \in Workers :
        pc[v] = "executing" /\ pc[w] = "executing" /\ v # w
            => ticket[v].job # ticket[w].job
=============================================================================
