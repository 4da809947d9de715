# Quantgres in TLA+

Quantgres is a set of PostgreSQL experiments: Python programs that fetch candles from Binance and
logs from the BNB chain, keep them in tables, derive other tables from them, and hand work to each
other through a queue that is itself a table. This directory holds TLA+ models of those programs,
the TLC configurations that check them on small instances, and theorems checked by TLAPS.

Every command of `src/src/quantgres/cli.py` is an operating system process. There are no threads
and no shared memory: processes meet in the database only. Almost every helper opens a connection
of its own (`with connect(...)`), so a command is a chain of separate transactions, and another
process, an error or the death of the process can come between any two of them. That is where the
difficulty of this code lies, and it is what the models are about. Prices, amounts, hashes, texts
and vectors are data; where a property depends on what they are computed *from*, the model keeps
exactly that.

## Contents

1. [Inventory](#inventory)
2. [Plan](#plan)
3. [The modules and the code](#the-modules-and-the-code)
4. [The runs](#the-runs)
5. [Fairness](#fairness)
6. [What is proved](#what-is-proved)
7. [Where the documents and the code disagree](#where-the-documents-and-the-code-disagree)
8. [Limits of the models](#limits-of-the-models)

## Inventory

| Component | State | Operations | Meets | Hard behaviour | Correct when |
|---|---|---|---|---|---|
| ingestion queue (`queue_jobs.py`, `sql/queue`) | rows of `queue.ingestion_jobs`: status, attempts, lock, due time | seed, claim, complete, fail, heartbeat, age a lock, recover stale locks | workers, smokes, benchmark | two open transactions on the same rows, SKIP LOCKED against plain waiting, locks that time out | no job lost, settled jobs stay settled, attempts count claims |
| queue workers (`run_queue_worker_smoke`, `run_claimed_job`) | the job in memory, executions so far | claim, execute, complete or fail, stop | the queue; the ingestion commands they execute | death between claim and completion, a commit without an answer, a second start of one run key, a lock recovered under a live worker, a schema applied while others write | one attempt is never shared, locks name their runner, the loop ends and leaves nothing behind |
| swap corpus (`bnb_raw_logs.py`, `bnb_swap_projection.py`, `bnb_block_timestamps.py`, `bnb_swap_corpus.py`) | `onchain.raw_logs`, `defi.swap_events`, `onchain.blocks` | fetch logs by windows, store, project, fetch missing blocks with retries, stamp | RPC node; panel and summary read its result | partial failure, overlapping ranges, a cache never refreshed, reorganisations | tables tell what the chain tells, a finished run left nothing out, nothing is taken back, reruns converge |
| Binance candles (`binance_candles.py`, `time_series_candles.py`, `market_data/binance.py`) | `time_series.candles_1m` | fetch a window or the latest, upsert, fixture | panel, summary, paper trace | the open candle, stale upserts, gaps between fetches | the minute of a swap has its candle |
| return panel and summary (`olap_return_panel.py`, `cache_summary.py`) | two materialized views | drop and create, refresh, count, look up | candles, swaps; feature runs read the panel | views dropped and refreshed under a reader | a reader finds what it brought itself, or an error |
| feature store and batches (`feature_store.py`, `feature_batches.py`) | snapshots, batches, items | load source rows, upsert snapshots, insert batch, insert items, as-of reads | the panel | a batch committed before its items, two runs of one batch id, source rows that age | batches whole and immutable, tied to swaps, no feature looks ahead |
| trading ledger and paper trace (`rdb_trading_ledger.py`, `rdb_paper_trace.py`, `rdb_ledger_benchmark.py`) | orders, fills, ledger entries, positions, one CHECK | schema, fixture, seed, record a decision, probe constraints | candles | table and row locks of multi-statement transactions, one minute decided twice | a minute's rows tell one decision, who can deadlock with whom |
| event store (`event_store.py`) | `event_store.agent_events` | gather the facts of a run, draft four events, append by hash, skip what is stored | panel, batch and memory commands it runs | two audits of the same facts at once, an insert that waits for another's, an append repeated after an unanswered commit | the log is the union of whole audits; audits never wait in a circle |
| queue smokes and benchmark (`run_queue_smoke`, `run_queue_stale_lock_smoke`, `run_queue_benchmark_smoke`) | the last claim; several open connections | a script of transactions; claims held open over several connections, then completed together | the queue and everyone else on it | claims without a prefix, claims paired with connections by position, commits one by one, a start that asks for the table between two claims | a benchmark claims no job twice and leaves none running; only the dead leave rows running; every program stops, or what keeps it is known |
| documents, search, vectors (`jsonb_documents.py`, `search_documents.py`, `vector_memory.py`, `embedding_comparison.py`, `hybrid_retrieval.py`, the refreshes of `jsonb_index_benchmark.py`) | documents, two benchmark copies, search rows, memory chunks, model chunks | project one table into the next with a LIMIT, ask text, chunks, or both | candles, swaps, raw logs; the event store asks them | a slower process writes what it read earlier over what a faster one has just written | what a command has derived or answered is no older than the sources when the database was last at rest |
| connection, settings, RPC client | none | open, commit, roll back; request with timeout | everything | commit or rollback unknown after a broken connection | one transaction per helper |
| command line, reports, benchmark timings | files | parse, print, write | | | |

Calls go one way: a feature run runs the panel command's steps, which run the corpus and then fetch
candles; the event store runs the panel, batch and memory commands; a queue worker runs the candle,
block timestamp or corpus command. Nothing calls back.

The hazards of this code, each with the line where it bites and the properties that watch it, are
listed in `PROJECT.json`.

## Plan

Done, in this order:

1. `JobLifecycle`, `IngestionQueue`: the queue and the abstract lifecycle of a job it implements.
2. `QueueWorkers` on top of it, `RunKeys` beside it.
3. `IngestionQueueProofs`.
4. `SwapCorpus`, `SwapCorpusProofs`.
5. `FeaturePipeline`: candles, views, feature store and batches; takes the corpus as one step,
   which `CorpusComplete` of `SwapCorpus` justifies.
6. `TradingLedger`: statements and locks of ledger smoke and paper trace.
7. `Retrieval`: the tables derived from candles, swaps and logs, and the commands that derive them.
8. `EventStore` on top of it: the audit of a run, and the specification in which the commands of
   both run side by side.
9. `QueueSmokes` on `QueueWorkers`: the two smokes and the benchmark beside workers.

Proofs, in this order: `IngestionQueueProofs`, `SwapCorpusProofs`, `QueueWorkersProofs`,
`EventStoreProofs`, `FeaturePipelineProofs`, `TradingLedgerProofs`, `QueueSmokesProofs`, with
`NaturalBounds` for the lemmas several of them need. Every safety property that a run checks has
its theorem, but for `LeftByTheDeadOnly` and those that are there to fail.

Next:

1. A write-once register per batch id as the abstract specification of the batches, and the step by
   step refinement.
2. `LockNamesRunner` and `AttemptsNotShared` for the workers beside smokes and benchmarks, which
   `QueueSmokes` has and `QueueWorkersProofs` leaves out; from them, `LeftByTheDeadOnly`.

`QueueWorkers` composes with `IngestionQueue` by extending it, `QueueSmokes` with `QueueWorkers`, and
`EventStore` with `Retrieval`, in the same way; `FeaturePipeline` composes with
`SwapCorpus` by using what is shown of it. An abstract specification is worth stating where a
component makes a promise its clients rely on without knowing its tables: `JobLifecycle` for the
queue; for the batches, a write-once register per batch id is the candidate.

## The modules and the code

`PROJECT.json` maps every definition that models code to its lines. Two conventions hold
throughout. A definition that stands just before another one under the comment "Faulty ..." is a
plausible bug of the definition after it; nothing uses it, and replacing the one by the other must
break the property that is about it. A history variable is marked as such where it is declared.

### JobLifecycle

What the queue promises of a job, without locks, transactions and clocks: it waits, is leased for
one try, and each lease ends in finishing, returning or burying. One step moves any number of jobs,
as one commit may.

### IngestionQueue

`job` is the committed row, `held` who has locked it, `draft` what that transaction will commit.
`SeedRow`, `ClaimRow`, `CompleteRow`, `FailRow`, `HeartbeatRow`, `AgeRow` and `RecoverRows` are the
statements of `queue_jobs.py`; `Commit` and `Rollback` end the `with connect()` block. A statement
that would wait for a locked row is disabled until the row is free, and no statement writes a row
that is locked; the claim and the recovery skip locked rows. A client may run any statement at any
time, so that the properties hold for every program that uses these helpers. Time is relative
(`lock_age`, `due_in`) and `Tick` ages it.

### QueueWorkers and RunKeys

Each worker is a process with a place `pc` in `run_queue_worker_smoke` and `run_claimed_job`; a
statement and its commit are two steps. `CompleteMissing` and `CompleteUnanswered` are the two ways
in which `complete_job` raises inside the `try`, so that `fail_job` runs after it; `FailMissing` is
`fail_job` raising, which ends the program. `Die` is the end of the process anywhere. `Recover` is the
one step of a stale-lock smoke that takes a running row from a worker. That smoke is the only caller
of `recover_stale_jobs`: it calls it once, with the prefix of its own run key (`Sweep`), and nobody
has to run it. `epoch` is a history variable: it tells one seeding of a job from the next.
`RunKeys` has the run key pattern, the keys built from it and LIKE's reading of a prefix;
`MCQueueWorkers` takes from it what the workers' claims and the recovery can match.

Every program of the queue begins with `ensure_queue_schema`. Its `CREATE INDEX IF NOT EXISTS` asks
for SHARE on `queue.ingestion_jobs` before it finds the index, so it waits for every transaction that
has written to the table (`Prepare`), and whatever begins a transaction while it waits
(`SchemaAsked`, `Begins`) waits behind it, as PostgreSQL grants the locks of a table in the order in
which they are asked for.

### QueueSmokes

A smoke is a script of scenes (`QueueScript`, `StaleScript`); a scene is one transaction, again a
statement (`SmokeAct`) and a commit (`SmokeCommit`). Where the row it expects is not there the
script ends (`SmokeMiss`), except at the heartbeat, whose answer is only reported; what it has
committed stays. `recover` and `reclaim` raise after their commit when they got other jobs than the
one of the first claim. The last scene of the stale smoke, `run`, is `run_claimed_job` with one of
its two ends; a broken connection inside it is in `QueueWorkers`.

The lock of the schema is the workers' (`SmokePrepare`, `BenchPrepare`), and asks more of everybody:
a benchmark's transactions are open from their claims on, those that found no row included (`Open`,
`TableWritten`), and `LetThrough` is what this adds to the steps of the workers.

A benchmark is one process with the connections of `Line`. `BenchClaim` appends to `claims` while
every transaction stays open; `BenchComplete` takes the i-th claim with the i-th connection, as
`zip(claims, cursors)` does, so the two shift against each other when an earlier connection claimed
nothing. `SeesRunning` is then the question: a connection sees its own uncommitted row or the
committed one, which as a rule is not running, and the benchmark raises (`BenchRaise`) and rolls every
connection back. `Rewrite` is the usual completion, of a row the same transaction has written.
`BenchClose` commits the connections one by one, the last one first. `Caught` is a benchmark between
two claims, with a start of another program waiting for the table: its next claim waits behind that
request, which waits for its first one, and no process of PostgreSQL waits in a circle.

A benchmark's claim and completion reach the committed row as one step from waiting to completed,
which `IngestionQueue` has no transaction for: `ImplementsQueue` is a property of the workers only.

### SwapCorpus

`raw`, `event`, `stamp` and `cached` say, for each swap or block, which block of the chain a row
tells of. A run is the corpus command or the block timestamp command, which differ in their
windows. One action per transaction or request: `GetLogs`, `StoreLogs`, `LoadLogs`, `Project`,
`ListBlocks`, `ReadCache`, `GetBlock`/`MissBlock`/`GiveUp`, `StoreBlocks`, `Enrich`, `Sample`.
`Reorg` gives blocks new versions and moves swaps. `Stop` is any uncaught error or the end of the
process.

### FeaturePipeline

Five commands as processes on one database. A candle is `open`, `final` or `fixture`; a view is
what the tables held at its last refresh, or `Null` while it is unpopulated; the numbers of a panel
row are the closes they were computed from (`basis`), which is what lookahead is about. A batch id
is the hash of its rows and of ingredients that all processes here share, so the model takes the
set of rows. `CreateView`, `Refresh` and the reads are separate transactions, and so are
`InsertBatch` and `InsertItems`.

### TradingLedger

A program is its sequence of statements and commits (`PaperProgram`, `LedgerProgram`), and
`Execute` runs the next one when its locks conflict with nobody's: ACCESS EXCLUSIVE of the ALTER
TABLE, SHARE of `CREATE INDEX IF NOT EXISTS` (taken before it finds the index), ROW EXCLUSIVE of
the upserts and the locks of their rows. The CHECK on `orders` is dropped by one statement and added
by the next: `check` changes with each of them, inside the transaction, and a rollback restores it.
`Commit` applies the rows the transaction has written; `Victim` is
PostgreSQL aborting a transaction in a circle of waits.

### Retrieval

`source[k]` is the version of a candle, swap or raw log, `table[t][k]` the version the row of table
`t` was derived from. A command is a sequence of stages (`SearchProgram`, `MemoryProgram`, ... each
an extension of the one it calls). A projection is two steps: `Take` reads a snapshot of its
`INSERT ... SELECT`, or loads the rows the chunks are made from, `Put` overwrites what is there by
then. Which rows a projection takes is `Selected`: the latest by rank up to the command's LIMIT. What a
query returns is left open but for `ResultLimit` and for where its columns come from: the title of
a hybrid answer is that of the search row, its preview that of the chunk, and the two may be of
different versions. `mix` is which commands run side by side in a behaviour. `floor` is a history
variable: what the sources were when no process ran, last.

### EventStore

`Begin`, `Gather`, `Project`, `Note` are the commands of `Retrieval` with what an audit remembers of
them; `Insert`, `Commit` and `Fail` are `append_events`. An event *is* what it says, since its id is
the hash of that. `INSERT ... ON CONFLICT DO NOTHING` skips a committed event, and is disabled while
another transaction holds the same event uncommitted. `appended` is the history of the audits that
committed.

## The runs

| Run | Instance | What it shows |
|---|---|---|
| `queue` | three jobs of different priority and attempts, two clients, all statements | Rows agree with themselves (`RowsAgree`), no job is lost between the two bounds on attempts (`NoJobLost`), settled rows stay settled, attempts count claims, and the queue implements `JobLifecycle`. |
| `workers` | two workers of one run key, three starts, a stale-lock smoke's recovery at any time, two jobs with two attempts | No attempt is executed by two workers, `locked_by` names the worker in the run, workers that stop of themselves leave nothing behind, and every worker program is a client of the queue (`ImplementsQueue`). |
| `workers_live` | two jobs of a run key with two attempts and one, two of the queue smoke, three starts, and one of five casts: two workers; a worker and the stale smoke; queue smoke and stale smoke; queue smoke and a benchmark; two benchmarks with two and three connections | Only a program that died or raised leaves a row running under its name (`LeftByTheDeadOnly`); a benchmark claims no job twice and leaves none running, wherever it dies or raises; every program stops, unless a start has caught a benchmark between two claims (`EveryoneStops`). |
| `bench_caught` | the cast of queue smoke and benchmark, two starts | That case: the benchmark's claims never all happen, and both programs hang. |
| `corpus` | two swaps, three blocks, a windowed run and an overlapping one, one reorganisation | Tables tell the chain; a run that reached its sample left nothing out; its sample does not raise; nothing is taken back. |
| `corpus_live` | one swap, the same ranges, started again and again | After the chain and the RPC node settle, every swap ends stored, projected and stamped under the number of the block it is in. |
| `features` | two processes, three starts of any of five commands, six minutes | Readers find in the views what they brought; a swap's minute has its row; no feature uses a later close; batches are whole, of one refresh, tied to swaps and immutable. |
| `ledger` | two paper traces and a ledger smoke, three starts, three minutes | A minute's order, fill, entries and position tell one decision; processes wait in a circle in one way only; a probe never runs while the CHECK is away; everything ends. |
| `retrieval` | two processes, four mixes that have every command, an older candle, one that is rewritten twice, a swap and its log; LIMIT 1 for the smokes' candles, 3 for the benchmarks' | What commands have derived or answered is no staler than the last quiet moment, however they overlap; the log is whole audits; audits do not wait in a circle. |
| `retry_owner`, `reseed`, `one_minute` | as above, smaller | Each ends in a counterexample: see below. |

The bounds are where the cases are. Two transactions are enough for a race on one row, a third job
makes order and recovery of several rows matter. A worker is started a third time so that a rerun
meets both a live run and the remains of a dead one; in `workers_live` the third start is a worker's
again, or none, as smokes and benchmarks are started once. The corpus needs three blocks for a window
that ends inside the range, a clipped window and an overlap, and two swaps for rows that disagree.
The six minutes of `features` hold a corpus in the past, a padding around it, a gap, the present
and a minute to come, and `KlineLimit`, `RollingRows` and `SourceLimit` are each smaller than the
rows there are, so that each of them cuts. Three minutes in `ledger` give decisions of the same
minute and of different ones, and a first fetch with too few candles. `MaxStarts`, `MaxReorgs`,
`MaxVersion`, `MaxAudits`, `LastMinute`, `Timeout` and the clocks' caps are the only bounds on counters.

The casts of `workers_live` and the mixes of `retrieval` are the pairs that share rows: two programs
of one run key, and the queue smoke, which shares them with everybody. In `workers_live` the second
job has one attempt, for the lock of a last attempt; a benchmark with more connections than jobs has
one that claims nothing. In `retrieval` one candle with three versions is enough for a writer that
is two versions late; the other candle and the two LIMITs decide which rows a projection reaches.

`TypeOK` of each module is its one type invariant. All symmetry sets are sets of interchangeable
processes, clients or swaps, used in runs without liveness properties only.

`ledger` runs with `CHECK_DEADLOCK FALSE`: when its starts are used up, and its clock has reached
the last minute, the system is at rest.

## Fairness

- `workers_live` and `bench_caught`: weak fairness of the own steps of each worker, smoke and
  benchmark that has been started, and of nothing else: the operating system runs every live process.
  Starts and deaths are not fair (nothing has to be started and nothing has to die), no clock is, and
  nobody recovers stale locks but a stale-lock smoke at its place in its script. So no run claims
  that the row of a dead worker ever stops running: nothing in the repository sees to that. Weak
  fairness is enough although a row can be locked again and again: starts and attempts are finite,
  so what locks the row an actor waits for comes to an end.
- `corpus_live`: weak fairness of each run's own steps, its start included (the operator repeats
  the command), and `Settles`: from some point on there are no reorganisations, no failing blocks
  and no dying processes. Without it the claim is false, and the code does not say otherwise.
- `retrieval` states no fairness and no liveness. That the derived tables come to tell their sources
  is a consequence of `NoStalerThanQuiet`: when the sources have come to rest and the database is
  left alone once, `floor` is the sources, and the next command that gets through a projection has
  them in its table.
- `ledger`: some process that can go on does, and PostgreSQL's deadlock detector runs.

## What is proved

The proofs hold for all values of the constants that satisfy the `ASSUME`s of the module: any sets
of jobs, clients and worker ids, any number of attempts, any block ranges and window sizes, any
number of runs, and in particular for unbounded sets. The assumptions are what the code gives:
`Null` is none of the values it stands beside (`NullAssumption` of each module), the rows of the
retrieval tables are finitely many (`KeysAssumption`), and the ids under which benchmarks claim
(`benchmark-worker-1`, ...) are not those of workers and smokes (`IdsAssumption` of `QueueSmokes`).

`NaturalBounds` has what several of the proofs need of numbers and finite sets: least, greatest and
first elements, which the code gets from `MIN()`, `MAX()` and `ORDER BY ... LIMIT 1`.

In each case the properties that runs check are not inductive. What has to be added is, as a rule,
what a process remembers between two of its transactions, and what the rows it has locked say about
the place it is at.

**The queue** (`IngestionQueueProofs`) rests on `Inv == TypeOK /\ RowsSound /\ DraftsFollow`.
`RowsSound` asks of the *draft* of a row what `RowsAgree` and `NoJobLost` ask of the row: a commit
copies drafts into rows, so the two invariants that runs check are not inductive without it.
`DraftsFollow`, a lemma of this module and no property of a run, says from which row a draft was
computed: with it, a committed change is a
seeding, a claim, the end of a run or a touch of its lock, and the action properties and the
refinement are case distinctions over these. Theorems: `TypeCorrect`, `RowsAlwaysAgree`,
`NoJobEverLost`, `SettledStaysSettled`, `AttemptsAreClaims`, and
`QueueImplementsLifecycle`, which says that the queue with its locks, drafts and clocks refines
`JobLifecycle` step by step.

**The workers** (`QueueWorkersProofs`). First, every step of a worker or a recovery is a step of the
queue (`WorkersImplementQueue`), so the invariant above holds of them. Then `WorkersInv` adds
`TicketsFit` (a worker has a ticket exactly during a run, and a run begins below the cap, which is
what bounds the executions in its type invariant),
`LocksFit` (the rows a worker has locked show its place: a seed is committed by a seeding only, a
claim by a claim only, anything else ends a run) and `TicketsBehind` (the epoch and the attempts in
a worker's memory are never ahead of the row's). With them every step moves a row forward, and the
ticket of the next claim is one that nobody has had: `OneAttemptOneWorker`, `LockNamesItsRunner`.

`NothingIsLeftBehind` proves `WorkersDrain` for workers of one run key and one `binance_limit`
(`OneRunKey`, which holds of the instance of the `workers` run; `MCQueueWorkers` assumes it, so TLC
evaluates it). The condition is needed: a worker with another limit can claim a job of the first by
its prefix, die in it, and come back without seeding that job again. The invariant is `DrainInv`.
`SomebodyLeft` is what is wanted: as long as a job waits or runs, some worker has not come to rest.
The two steps that could break it are a claim that finds nothing and a cap that is reached. For the
first, a job that runs has a worker in that run, or one that has died and cannot rest before it
seeds again (`RunnersThere`), and one that waits is due (`AllDue`), free, among finitely many
(`OnlySeeded`) and therefore, or one of higher priority, claimable (`FirstByRank` of
`NaturalBounds`). For the second, the executions of a worker that is the only one ever started
inject into the attempts its jobs have been given (`TriesCounted`), so when they come to twice the
number of jobs all attempts are spent.

**Smokes and benchmarks** (`QueueSmokesProofs`) rest on `SmokesInv`: beside the types, each
benchmark has locked exactly the rows in its `claims`, nobody sees them run (`BenchFits`), they are
distinct (`Distinct`), and no row that runs, or is written to run by anybody else, names one of its
connections (`NeverNamed`). The order of a benchmark's transactions is what makes this inductive:
it closes a connection only when every claim has been completed in its draft. Theorems:
`SmokesTypeCorrect`, `BenchClaimsStayDistinct`, `BenchNeverLeavesRunning`.

**The corpus** (`SwapCorpusProofs`) rests on `Inv == Shape /\ (reorgs = 0 => TablesTellChain /\
MemoryTellsChain /\ Reached)`. `Shape` has the types, counts versions by reorganisations and says
that a run at rest remembers nothing. `MemoryTellsChain` carries the truth of the tables through the
rows a run holds in memory between two transactions. `Reached` says, for every place of a run, how
much of its range is already stored, projected and listed; the windows make it a statement about the
blocks before `next`, and the `TypeOK` conjunct `next \in From .. To + 1` is what a clipped window is
needed for. Theorems: `TypeCorrect`, `TablesAlwaysTellChain`, `RunsAreComplete` (no window, failure
or overlap makes a run that reached its sample leave out a swap), `NeverTakenBack`. `SampleInv` is a
second invariant, for the time after a reorganisation: a run nobody else has run beside
(`LooksUpAlone`) has each block its events name still to look up, in memory, or stored. With
`Reached`, for the time before, it gives `SamplesAreStamped`.

**The pipeline** (`FeaturePipelineProofs`) rests on `PipelineInv`. For the views, `StoredIsThere`
says that what a run has stored is in the tables and in every view refreshed since, and that the
view a reader finds populated has been refreshed since: `ViewsAlwaysFresh`. `MatchAlwaysShown` needs
`SampleFetched`: the klines a run asked for begin at the first swap of its sample, when the limit
exceeds the padding. For the features, rows in memory are causal, as those in the tables are:
`NeverLooksAhead`. For the batches, `BatchSound`: the id is the hash of the rows, so what two runs
write into one batch is the same, and what is in it is what the run in hand has captured:
`BatchesStayWhole`, `RunsReadTheirBatch`, `BatchesStayTied`, `ItemsNeverChange`.
`RefreshesCounted` (the runs that have yet to refresh, and the refreshes, are no more than the
starts) is what makes the type invariant inductive.

**The ledger** (`TradingLedgerProofs`) rests on `LedgerInv`. `RanFits` gives, for each statement a
program comes to, what its open transaction has run and so which locks it holds; `HeldApart` says
that no two transactions hold locks that conflict. `TracesAlwaysAgree` follows because one commit
records all four rows of a decision and no other commit writes them, and a trace comes to it after
its deposit (`DepositFirst`). The CHECK is away in between, and a rollback brings it back:
`CheckFits` says that whenever it is away some process is between dropping and adding it, and from
there `ProbesAlwaysMeetTheCheck` follows from the locks, since that process has ACCESS EXCLUSIVE on
`orders` and a probe waits for it. `OnlyOneDeadlock` is a statement about all sets of processes. Of
two transactions that have something locked, one waiting for the other, one applies the schema
(`LightPass`: the others meet in the row they lock first, the account or the order of their minute),
so there is one such in every circle. It has ACCESS EXCLUSIVE on `orders`, so whoever else has
anything locked is a trace seeding its account (`SchemaAlone`), the two wait for each other, and a
smallest circle is these two. Where they are follows from what a ledger program still has to lock,
which a seeding may hold (`TheTwoPlaces`).

**The event store** (`EventStoreProofs`) rests on `StoreInv`. For the log, `DraftsKept`: what a run
has gone through is in the log or pending in its own transaction, so that its commit makes the audit
whole, `AuditAlwaysWhole`. `NoAuditDeadlock`: audits insert in the order of their four kinds, so
whoever waits is behind whom it waits for, and in any set of audits the one furthest ahead waits for
none of them. For the tables, `BatchesFresh`: what a projection is about
to write was read since the database was last quiet, from rows that were no staler.
`ProgramOrder` (documents before search rows before chunks before questions, in all programs) carries
that from the sources to the answers: `DerivedNoStaler`.

Model-checked only:

- the liveness properties (`EveryoneStops`, `Converges`, `RunsEnd`): fairness and ENABLED are out of
  reach of the installed provers;
- `LeftByTheDeadOnly`, whose induction needs what each worker and smoke knows of its row while all of
  them share the table, and is left to the next step of the plan;
- the four properties that are there to fail;
- that each module's actions are all taken, and that the cases of the invariants occur.

No module declares a RECURSIVE operator, and nothing here is computed by recursion over data.

## Where the documents and the code disagree

Four runs check what a document says and end in a counterexample.

- `retry_owner`, `NextWorkerOwnsRetry`: after a stale lock is recovered "the next worker owns the
  retry" (`docs/queue-ingestion-jobs.md:87`). `complete_job` and `fail_job` look at the job id and
  at `running` only, so the worker that lost its lock ends the retry of the next one.
- `reseed`, `NoDuplicateProcessing`: the idempotency key "prevents duplicate enqueue for the same
  target" (`docs/queue-ingestion-jobs.md:23`). Seeding a run key again resets a running row, and a
  second worker executes the job beside the first.
- `one_minute`, `OneMinuteReturns`: the feature store holds a "one-minute return"
  (`docs/feature-store-point-in-time.md:49`). `lag()` goes to the candle row before, and candles of
  two fetches leave gaps.

- `bench_caught`, `ClaimsHappen`: the benchmark "lets each worker claim a job, and keeps the
  transactions open until all claims have happened" (`docs/queue-benchmark.md:18-19`). If another
  queue command is started between two of its claims, its `ensure_queue_schema` waits for the first
  and the second waits behind it. The connection of the first is idle and not waiting, so PostgreSQL
  sees no deadlock, and no lock timeout is set: both programs hang until somebody ends one of them.

The `ledger` run shows one more thing without any document to contradict: `rdb-ledger-smoke` or
`benchmark-rdb-ledger` beside a paper trace can deadlock on the instrument's row and the ledger
table (`OneDeadlock`). PostgreSQL aborts one of the two, and what it had not committed is lost.

Four further observations of this kind have no run.

- `docs/queue-ingestion-jobs.md:58-60` says that the run key's alphabet keeps the LIKE prefix of the
  claims from being "widened by wildcard characters". The alphabet has the underscore, which LIKE
  reads as any one character: workers of run key `a_b` may claim the jobs of `axb` (`LikePrefix`).
- `docs/event-store-agent-audit.md:47` says that a rerun "can skip existing events". The payload of
  the corpus event counts the blocks fetched in the run, so the first rerun, which finds them
  cached, skips the other events and appends this one again (`Corpus` in `EventStore`).
- `docs/jsonb-index-benchmark.md:18` has the benchmark copy "that same payload snapshot" into two
  tables. It fills them in two transactions: rows rewritten in between are in one as they were and
  in the other as they are (`RefreshTables` in `Retrieval`).
- The chunks compared by the embedding comparison are loaded once more after those of the memory
  smoke: the two models may have been given different versions of a document (`CompareProgram`).

## Limits of the models

- Rows within one statement are locked in no particular order and at once, except in
  `TradingLedger`; a deadlock inside two multi-row statements would be the `Stop` or `Die` of the
  other models.
- `now()` is the start of a transaction in PostgreSQL; the models' clocks are coarser than that.
- Of two due jobs of equal priority either may be claimed: the order by `available_at` and `job_id`
  is left open, which allows more than the code does.
- After a reorganisation a cached block is not fetched again, so the *version* of the block a swap
  is stamped with is not claimed then; nor is it claimed that swaps of a replaced branch go away,
  since nothing deletes them.
- A partial candle stored late may overwrite a final one, and snapshots of an older panel those of
  a newer one. Nothing in the code or the documents says otherwise, and no property does.
- Decoding of logs, prices, fees and hashes is data; two different hash inputs are taken to have
  different hashes.
- `NoStalerThanQuiet` speaks of the rows that the LIMITs of all commands reach. A command with a
  smaller LIMIT leaves the document of an older row as it is and copies it into the search rows
  again, over the newer copy another command has just made from a document of its own reading.
- `Retrieval` has one symbol, and its queries answer with any rows their tables hold.
- The smokes and the benchmark of `QueueSmokes` are started once each, and each has one worker id.
- The row of a worker that died and is not started again runs for ever, unless somebody runs the
  stale-lock smoke with its run key: the code promises no more, and no property here does.
- A start whose `CREATE INDEX` waits is modelled for a table whose indexes exist; the first start
  ever, which builds them, meets nobody.
- `MatchShown` speaks of runs whose limit of candles exceeds the padding, as the defaults do. With a
  smaller limit the candles may end before the first swap's minute, and the panel then reports no
  match.
- Not modelled: rankings of search, vectors and hybrid retrieval and the query plans and timings of
  the benchmarks (numeric, and evaluated by PostgreSQL); settings, argument parsing and reports,
  which change no state that a later command reads.
