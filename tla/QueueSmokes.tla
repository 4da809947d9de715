----------------------------- MODULE QueueSmokes -----------------------------
(***************************************************************************)
(* The other programs of experiments/queue_jobs.py, beside the workers of  *)
(* QueueWorkers: run_queue_smoke and run_queue_stale_lock_smoke, which go  *)
(* through a script of one transaction after the other, and run_queue_     *)
(* benchmark_smoke, one process that claims over several connections at    *)
(* once, completes what it has claimed in the same transactions and        *)
(* commits them one by one.  The stale-lock smoke is here as a whole, so   *)
(* the janitors of QueueWorkers have no part.                              *)
(*                                                                         *)
(* A script stops with an exception where it does not find the row it      *)
(* expects; what it has committed stays.  Each of these programs is        *)
(* started once.  Which programs run side by side is chosen at the start.  *)
(* MaxStarts bounds the starts of all of them together.                    *)
(*                                                                         *)
(* All of them begin with ensure_queue_schema and its lock on the table.   *)
(* The connections of a benchmark write to the table from their claims on, *)
(* those that got no row included, until they are closed.                  *)
(***************************************************************************)
EXTENDS QueueWorkers

CONSTANTS
    Smokes,       \* processes that go through a script
    Plays,        \* which script: "queue" or "stale"
    Benches,      \* processes that run the benchmark
    Line,         \* the connections of each, in the order it opens them
    Seeds,        \* the jobs a smoke or benchmark inserts, in order
    Prefixed,     \* the keys its claims can match
    Casts         \* the sets of processes that run side by side

Actors == Smokes \cup Benches

Connections(b) == {Line[b][i] : i \in 1 .. Len(Line[b])}

ASSUME PlaysAssumption    == Plays \in [Smokes -> {"queue", "stale"}]
ASSUME LineAssumption     == Line \in [Benches -> Seq(Clients) \ {<<>>}]
ASSUME SeedsAssumption    == Seeds \in [Actors -> Seq(Jobs) \ {<<>>}]
ASSUME PrefixedAssumption == Prefixed \in [Actors -> SUBSET Jobs]
ASSUME CastsAssumption    == Casts \subseteq SUBSET (Workers \cup Actors)
\* Every process, and every connection of a benchmark, is a client of its own; no
\* worker is started with the worker_id of a benchmark's connection.
ASSUME IdsAssumption ==
    /\ Smokes \cap Benches = {}
    /\ Smokes \subseteq (Clients \cap WorkerIds) \ (Workers \cup Janitors)
    /\ \A b \in Benches :
          /\ Connections(b) \subseteq WorkerIds \ (Workers \cup Janitors \cup Smokes)
          /\ \A w \in Workers : IdOf[w] \notin Connections(b)
          /\ \A i, k \in 1 .. Len(Line[b]) : i # k => Line[b][i] # Line[b][k]
    /\ \A a, b \in Benches : a # b => Connections(a) \cap Connections(b) = {}

VARIABLES
    cast,         \* the processes that run
    phase,        \* where a smoke or benchmark stands
    turn,         \* the stage of a script; the connection a benchmark is at
    sown,         \* how many of its Seeds it has inserted
    claims        \* the jobs it has claimed: the last one, and all, in order

smokeVars == <<cast, phase, turn, sown, claims>>
allVars == <<vars, smokeVars>>

Ended == {"ready", "ended", "raised"}

SmokesTypeOK ==
    /\ WorkersTypeOK
    /\ cast \in Casts
    /\ phase \in [Actors -> Ended \cup {"preparing", "playing", "seeding", "claiming", "completing", "closing"}]
    /\ turn \in [Actors -> Nat]
    /\ sown \in [Actors -> Nat]
    /\ claims \in [Actors -> Seq(Jobs)]
    /\ \A s \in Smokes : Len(claims[s]) <= 1
    /\ \A b \in Benches : Len(claims[b]) <= Len(Line[b])

-----------------------------------------------------------------------------
(* The table and the schema's lock on it.                                  *)

Prepares(a) == phase[a] = "preparing"

\* Who has no statement open on the table has to wait behind a request for SHARE.
TableAsked == SchemaAsked \/ \E a \in Actors : Prepares(a)

\* A benchmark with a claim behind it has a transaction open that writes.
Open(b) ==
    \/ phase[b] = "claiming" /\ turn[b] > 1
    \/ phase[b] \in {"completing", "closing"}

TableWritten == (\E j \in Jobs : held[j] # Null) \/ (\E b \in Benches : Open(b))

\* What the smokes and benchmarks ask of a worker's next step.
LetThrough(w) ==
    /\ Begins(w) => ~TableAsked
    /\ pc[w] = "preparing" => ~TableWritten

-----------------------------------------------------------------------------
(* The scripts.                                                            *)

\* run_queue_smoke: its claims have no prefix.
QueueScript == <<"seed", "claim", "complete", "claim", "fail", "claim", "fail">>

\* run_queue_stale_lock_smoke
StaleScript == <<"seed", "claim", "beat", "age", "recover", "reclaim", "run">>

Script(s) == IF Plays[s] = "queue" THEN QueueScript ELSE StaleScript

Scene(s) == IF phase[s] = "playing" THEN Script(s)[turn[s]] ELSE "none"

\* The job of its last claim.
Mine(s) == claims[s][1]

To(a, place) == phase' = [phase EXCEPT ![a] = place]

NextScene(s) ==
    IF turn[s] = Len(Script(s))
    THEN To(s, "ended") /\ UNCHANGED turn
    ELSE turn' = [turn EXCEPT ![s] = @ + 1] /\ UNCHANGED phase

Raise(s) == To(s, "raised") /\ UNCHANGED turn

Begun == Cardinality({a \in Actors : phase[a] # "ready"})

SmokeStart(s) ==
    /\ phase[s] = "ready"
    /\ starts + Begun < MaxStarts
    /\ To(s, "preparing")
    /\ UNCHANGED <<vars, cast, turn, sown, claims>>

\* ensure_queue_schema
SmokePrepare(s) ==
    /\ Prepares(s)
    /\ ~TableWritten
    /\ To(s, "playing")
    /\ turn' = [turn EXCEPT ![s] = 1]
    /\ UNCHANGED <<vars, cast, sown, claims>>

SmokeSeed(s) ==
    /\ Scene(s) = "seed"
    /\ sown[s] < Len(Seeds[s])
    /\ Holds(s) \/ ~TableAsked
    /\ SeedRow(s, Seeds[s][sown[s] + 1])
    /\ sown' = [sown EXCEPT ![s] = @ + 1]
    /\ UNCHANGED <<progVars, epoch, cast, phase, turn, claims>>

\* The statement of each scene; execute_queue_job returns or raises in "run".
Acts(s) ==
    \/ Scene(s) \in {"claim", "reclaim"} /\ \E j \in Jobs : ClaimRow(s, s, Prefixed[s], j)
    \/ Scene(s) = "beat" /\ HeartbeatRow(s, s, Mine(s))
    \/ Scene(s) = "age" /\ AgeRow(s, Mine(s), Timeout + 1)
    \/ Scene(s) = "recover" /\ \E S \in SUBSET Jobs, limit \in Limits :
                                  RecoverRows(s, Prefixed[s], limit, S)
    \/ Scene(s) \in {"complete", "run"} /\ CompleteRow(s, Mine(s))
    \/ Scene(s) \in {"fail", "run"} /\ FailRow(s, Mine(s), 0)

SmokeAct(s) ==
    /\ ~Holds(s)
    /\ ~TableAsked
    /\ Acts(s)
    /\ UNCHANGED <<progVars, epoch, smokeVars>>

\* Faulty script: the first claim stays in front.
KeptClaims(s, j) == Append(claims[s], j)

KeptClaim(s, j) == <<j>>

\* The commit; then a claim is kept, and a recovery without the job, or a
\* reclaim of another one, is an error, after the fact.
SmokeCommit(s) ==
    /\ Scene(s) = "seed" => sown[s] = Len(Seeds[s])
    /\ Commit(s)
    /\ epoch' = [j \in Jobs |-> IF Scene(s) = "seed" /\ held[j] = s THEN epoch[j] + 1 ELSE epoch[j]]
    /\ IF Scene(s) \in {"recover", "reclaim"} /\ held[Mine(s)] # s THEN Raise(s) ELSE NextScene(s)
    /\ claims' = IF Scene(s) = "claim"
                 THEN [claims EXCEPT ![s] = KeptClaim(s, CHOOSE j \in Jobs : held[j] = s)]
                 ELSE claims
    /\ UNCHANGED <<progVars, cast, sown>>

FindsNothing(s) ==
    \/ Scene(s) \in {"claim", "reclaim"} /\ ClaimChoices(Prefixed[s]) = {}
    \/ Scene(s) = "recover" /\ ~\E j \in Unlocked(Prefixed[s]) : Stale(j)
    \/ Scene(s) = "beat" /\ (Running(Mine(s)) => job[Mine(s)].locked_by # s)
    \/ Scene(s) \in {"age", "complete", "fail", "run"} /\ ~Running(Mine(s))

\* Only heartbeat_job's answer may be no.
SmokeMiss(s) ==
    /\ ~Holds(s)
    /\ ~TableAsked
    /\ FindsNothing(s)
    /\ IF Scene(s) = "beat" THEN NextScene(s) ELSE Raise(s)
    /\ UNCHANGED <<vars, cast, sown, claims>>

SmokeDie(s) ==
    /\ phase[s] \notin Ended
    /\ Rollback(s)
    /\ Raise(s)
    /\ UNCHANGED <<progVars, epoch, cast, sown, claims>>

-----------------------------------------------------------------------------
(* The benchmark.  All its connections are open until the last job is      *)
(* completed; an exception rolls every one of them back.                   *)

BenchStart(b) ==
    /\ phase[b] = "ready"
    /\ starts + Begun < MaxStarts
    /\ To(b, "preparing")
    /\ UNCHANGED <<vars, cast, turn, sown, claims>>

\* ensure_queue_schema
BenchPrepare(b) ==
    /\ Prepares(b)
    /\ ~TableWritten
    /\ To(b, "seeding")
    /\ UNCHANGED <<vars, cast, turn, sown, claims>>

\* The seeding uses a connection of its own; the first of the line stands for it.
BenchSeed(b) ==
    /\ phase[b] = "seeding"
    /\ sown[b] < Len(Seeds[b])
    /\ Holds(Line[b][1]) \/ ~TableAsked
    /\ SeedRow(Line[b][1], Seeds[b][sown[b] + 1])
    /\ sown' = [sown EXCEPT ![b] = @ + 1]
    /\ UNCHANGED <<progVars, epoch, cast, phase, turn, claims>>

BenchSeedCommit(b) ==
    /\ phase[b] = "seeding"
    /\ sown[b] = Len(Seeds[b])
    /\ Commit(Line[b][1])
    /\ epoch' = [j \in Jobs |-> IF held[j] = Line[b][1] THEN epoch[j] + 1 ELSE epoch[j]]
    /\ To(b, "claiming")
    /\ turn' = [turn EXCEPT ![b] = 1]
    /\ UNCHANGED <<progVars, cast, sown, claims>>

\* The connection whose cursor is used now.
Conn(b) == Line[b][turn[b]]

\* Its first statement: it waits at the table although other connections of the
\* same process have written to it.
ClaimIsCalled(b) ==
    /\ phase[b] = "claiming"
    /\ ~TableAsked
    /\ turn' = [turn EXCEPT ![b] = IF @ = Len(Line[b]) THEN 1 ELSE @ + 1]
    /\ IF turn[b] = Len(Line[b]) THEN To(b, "completing") ELSE UNCHANGED phase
    /\ UNCHANGED <<progVars, epoch, cast, sown>>

\* Faulty claim: committed at once.
BenchClaimCommitting(b) ==
    /\ ClaimIsCalled(b)
    /\ \E j \in ClaimChoices(Prefixed[b]) :
          /\ job' = [job EXCEPT ![j] = Claimed(job[j], Conn(b))]
          /\ draft' = [draft EXCEPT ![j] = Claimed(job[j], Conn(b))]
          /\ claims' = [claims EXCEPT ![b] = Append(@, j)]
    /\ UNCHANGED held

\* Faulty claim: its connection is not kept, and rolled back at once.
BenchClaimDropped(b) ==
    /\ ClaimIsCalled(b)
    /\ \E j \in ClaimChoices(Prefixed[b]) : claims' = [claims EXCEPT ![b] = Append(@, j)]
    /\ UNCHANGED queueVars

BenchClaim(b) ==
    /\ ClaimIsCalled(b)
    /\ \E j \in Jobs :
          /\ ClaimRow(Conn(b), Conn(b), Prefixed[b], j)
          /\ claims' = [claims EXCEPT ![b] = Append(@, j)]

\* A connection that gets no row adds nothing to claims, so those of the later
\* connections move up.
BenchClaimsNone(b) ==
    /\ ClaimIsCalled(b)
    /\ ClaimChoices(Prefixed[b]) = {}
    /\ UNCHANGED <<queueVars, claims>>

\* What a statement of connection c sees: its own write, else what is committed.
SeesRunning(c, j) == IF held[j] = c THEN draft[j].status = "running" ELSE Running(j)

\* The i-th claim is completed with the i-th cursor: zip(claims, cursors).
ClaimLeft(b) == phase[b] = "completing" /\ turn[b] <= Len(claims[b])

\* Usually the row is the one its connection has claimed, and written.
Rewrite(c, j, d) ==
    /\ held[j] = c
    /\ draft' = [draft EXCEPT ![j] = d]
    /\ UNCHANGED <<job, held>>

BenchComplete(b) ==
    /\ ClaimLeft(b)
    /\ LET j == claims[b][turn[b]]
       IN  /\ SeesRunning(Conn(b), j)
           /\ \/ Rewrite(Conn(b), j, Completed(draft[j]))
              \/ WriteRow(Conn(b), j, Completed(job[j]))
    /\ turn' = [turn EXCEPT ![b] = @ + 1]
    /\ UNCHANGED <<progVars, epoch, cast, phase, sown, claims>>

RollbackAll(b) ==
    /\ held' = [j \in Jobs |-> IF held[j] \in Connections(b) THEN Null ELSE held[j]]
    /\ draft' = [j \in Jobs |-> IF held[j] \in Connections(b) THEN job[j] ELSE draft[j]]
    /\ UNCHANGED job

BenchRaise(b) ==
    /\ ClaimLeft(b)
    /\ ~SeesRunning(Conn(b), claims[b][turn[b]])
    /\ RollbackAll(b)
    /\ Raise(b)
    /\ UNCHANGED <<progVars, epoch, cast, sown, claims>>

\* The ExitStack is left: the last connection commits first.
BenchLeave(b) ==
    /\ phase[b] = "completing"
    /\ turn[b] > Len(claims[b])
    /\ To(b, "closing")
    /\ turn' = [turn EXCEPT ![b] = Len(Line[b])]
    /\ UNCHANGED <<vars, cast, sown, claims>>

BenchClose(b) ==
    /\ phase[b] = "closing"
    /\ IF Holds(Conn(b)) THEN Commit(Conn(b)) ELSE UNCHANGED queueVars
    /\ IF turn[b] = 1
       THEN To(b, "ended") /\ UNCHANGED turn
       ELSE turn' = [turn EXCEPT ![b] = @ - 1] /\ UNCHANGED phase
    /\ UNCHANGED <<progVars, epoch, cast, sown, claims>>

BenchDie(b) ==
    /\ phase[b] \notin Ended
    /\ RollbackAll(b)
    /\ Raise(b)
    /\ UNCHANGED <<progVars, epoch, cast, sown, claims>>

-----------------------------------------------------------------------------
SmokesInit ==
    /\ WorkersInit
    /\ cast \in Casts
    /\ phase = [a \in Actors |-> "ready"]
    /\ turn = [a \in Actors |-> 0]
    /\ sown = [a \in Actors |-> 0]
    /\ claims = [a \in Actors |-> <<>>]

SmokeProceed(s) == SmokePrepare(s) \/ SmokeSeed(s) \/ SmokeAct(s) \/ SmokeCommit(s) \/ SmokeMiss(s)

BenchProceed(b) ==
    \/ BenchPrepare(b) \/ BenchSeed(b) \/ BenchSeedCommit(b)
    \/ BenchClaim(b) \/ BenchClaimsNone(b)
    \/ BenchComplete(b) \/ BenchRaise(b) \/ BenchLeave(b) \/ BenchClose(b)

\* A step of QueueWorkers, by a process that runs.
Beside(A) == A /\ UNCHANGED smokeVars /\ starts' + Begun <= MaxStarts

SmokesNext ==
    \/ \E w \in Workers \cap cast : Beside((LetThrough(w) /\ Proceed(w)) \/ Disturb(w))
    \/ Beside(TickWorkers)
    \/ \E s \in Smokes \cap cast : SmokeStart(s) \/ SmokeProceed(s) \/ SmokeDie(s)
    \/ \E b \in Benches \cap cast : BenchStart(b) \/ BenchProceed(b) \/ BenchDie(b)

\* The operating system runs every live process.  Nothing has to be started, and
\* nothing has to die.
SmokesFairness ==
    /\ \A w \in Workers : WF_allVars(w \in cast /\ Beside(LetThrough(w) /\ Proceed(w)))
    /\ \A s \in Smokes : WF_allVars(s \in cast /\ SmokeProceed(s))
    /\ \A b \in Benches : WF_allVars(b \in cast /\ BenchProceed(b))

SmokesSpec == SmokesInit /\ [][SmokesNext]_allVars

FairSmokesSpec == SmokesSpec /\ SmokesFairness

-----------------------------------------------------------------------------
(* Properties.                                                             *)

\* duplicate_claim_count is 0: the connections of one benchmark never get the
\* same job, although none of them commits before the last one has claimed, and
\* other benchmarks, seedings and deaths go on around it.
BenchClaimsDistinct ==
    \A b \in Benches : \A i, k \in 1 .. Len(claims[b]) :
        i # k => claims[b][i] # claims[b][k]

\* A benchmark never leaves a job running: claim and completion are one
\* transaction, so wherever it dies or raises, between two of its commits too,
\* there is no lock of its to go stale.
BenchNeverRuns ==
    \A b \in Benches, j \in Jobs : Running(j) => job[j].locked_by \notin Connections(b)

\* The name in locked_by, read by the status listing: a row that runs is in a run of
\* the program it names, or that program died or raised over it (a worker that is
\* started again seeds the row again before anything else).  A program that
\* comes to its end leaves no row running, whatever the others claim, recover,
\* reseed and end in between; the rest is for a recovery nobody has to call.
RunsIt(w, j) == InRun(w) /\ ticket[w].job = j

LeftByTheDeadOnly ==
    \A j \in Jobs : Running(j) =>
        \/ \E w \in Workers :
              /\ job[j].locked_by = IdOf[w]
              /\ RunsIt(w, j) \/ pc[w] \in {"dead", "preparing", "seeding"}
        \/ \E s \in Smokes :
              /\ job[j].locked_by = s
              /\ phase[s] = "raised" \/ (phase[s] = "playing" /\ claims[s] = <<j>>)

\* A benchmark between two claims, and a start that waits for it: the start's
\* request for the table is in front of the benchmark's next claim.
Caught(b) == Open(b) /\ phase[b] = "claiming" /\ TableAsked

\* Every program that is started stops: nobody waits in a circle, over the rows
\* of two seedings or over a row another connection of the same process holds,
\* and failing jobs are not retried for ever.  The one thing that keeps
\* programs waiting is a benchmark that a start has caught between two claims.
EveryoneStops ==
    \/ \E b \in Benches : <>[]Caught(b)
    \/ /\ \A w \in Workers : []<>(pc[w] \in Stopped)
       /\ \A a \in Actors : []<>(phase[a] \in Ended)

-----------------------------------------------------------------------------
(* What the documentation says and the code does not do.                   *)

\* docs/queue-benchmark.md: the smoke "lets each worker claim a job, and keeps the
\* transactions open until all claims have happened".  Then they do happen.
ClaimsHappen ==
    \A b \in Benches : phase[b] = "claiming" ~> phase[b] # "claiming"
=============================================================================
