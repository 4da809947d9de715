-------------------------- MODULE QueueSmokesProofs --------------------------
(***************************************************************************)
(* The smokes and benchmarks of the queue, for any number of them beside   *)
(* any workers.                                                            *)
(*                                                                         *)
(* Whatever the others do, the rows a benchmark's connections have locked  *)
(* are the jobs it has claimed (ClaimsHeld), which are not running for     *)
(* anybody else to see; those completed so far are not running in their    *)
(* drafts either (BenchFits).  So when its first commit comes, there is no *)
(* running row left to commit.                                             *)
(***************************************************************************)
EXTENDS QueueSmokes, IngestionQueueProofs

USE NullAssumption, TimeoutAssumption, WorkersAssumption, IdOfAssumption,
    SeedOrderAssumption, ReachAssumption, MaxStartsAssumption, NoDelayAssumption,
    PlaysAssumption, LineAssumption, SeedsAssumption, PrefixedAssumption, IdsAssumption
    DEF NullAssumption, TimeoutAssumption, WorkersAssumption, IdOfAssumption,
    SeedOrderAssumption, ReachAssumption, MaxStartsAssumption, NoDelayAssumption,
    PlaysAssumption, LineAssumption, SeedsAssumption, PrefixedAssumption, IdsAssumption

\* Row j is locked by a connection of b.
HeldBy(b, j) == held[j] \in Connections(b)

\* Nothing that runs, or that another client has written to run, names a
\* connection of b.
NeverNamed(b) ==
    \A j \in Jobs :
        /\ Running(j) => job[j].locked_by \notin Connections(b)
        /\ held[j] # Null /\ ~HeldBy(b, j) /\ draft[j].status = "running" =>
              draft[j].locked_by \notin Connections(b)

ClaimIndices(b) == 1 .. Len(claims[b])

\* The rows b has locked are those it has claimed, and nobody sees them run.
ClaimsHeld(b) ==
    /\ \A i \in ClaimIndices(b) :
          claims[b][i] \in Jobs /\ HeldBy(b, claims[b][i]) /\ ~Running(claims[b][i])
    /\ \A j \in Jobs : HeldBy(b, j) => \E i \in ClaimIndices(b) : claims[b][i] = j

Settled(b) == \A j \in Jobs : HeldBy(b, j) => draft[j].status # "running"

\* What b has locked and written, by the place it is at.
BenchFits(b) ==
    /\ phase[b] \in {"ready", "preparing"} => claims[b] = <<>> /\ \A j \in Jobs : ~HeldBy(b, j)
    /\ phase[b] = "seeding" =>
          /\ claims[b] = <<>> /\ Settled(b)
          /\ \A j \in Jobs : HeldBy(b, j) => held[j] = Line[b][1]
    /\ phase[b] = "claiming" =>
          turn[b] \in 1 .. Len(Line[b]) /\ Len(claims[b]) < turn[b] /\ ClaimsHeld(b)
    /\ phase[b] = "completing" =>
          /\ turn[b] \in Nat \ {0} /\ ClaimsHeld(b)
          /\ \A i \in ClaimIndices(b) : i < turn[b] => draft[claims[b][i]].status # "running"
    /\ phase[b] = "closing" => turn[b] \in 1 .. Len(Line[b]) /\ Settled(b)

\* No job twice among the claims of b.
Distinct(b) == \A i, k \in ClaimIndices(b) : i # k => claims[b][i] # claims[b][k]

BenchInv(b) == NeverNamed(b) /\ BenchFits(b) /\ Distinct(b)

\* A worker's run begins below its cap.
Below == {"claiming", "executing", "completing", "completed", "failing", "failed"}

RunsBelow == \A w \in Workers : pc[w] \in Below => runs[w] < Cap(w)

SmokesInv == SmokesTypeOK /\ RunsBelow /\ \A b \in Benches : BenchInv(b)

-----------------------------------------------------------------------------
(* Rows and their types.                                                   *)

\* A row released is a row that does not run.
LEMMA ReleasedRows ==
    ASSUME NEW r \in Row, NEW j
    PROVE  Released(j, r, 0) \in Row /\ Released(j, r, 0).status # "running"
<1>1. r.due_in \in Nat
  BY DEF Row
<1>2. CASE Spent(j, r)
  BY <1>1, <1>2 DEF Released, Row, Statuses
<1>3. CASE ~Spent(j, r)
  BY <1>1, <1>3 DEF Released, Row, Statuses
<1> QED
  BY <1>2, <1>3

\* A row claimed is a row that runs under the id of the claim.
LEMMA ClaimedRows ==
    ASSUME NEW r \in Row, NEW id \in WorkerIds
    PROVE  /\ Claimed(r, id) \in Row /\ Claimed(r, id).status = "running"
           /\ Claimed(r, id).locked_by = id
<1> DEFINE next == r.attempts + 1
<1>1. next \in Nat
  BY DEF Row
<1>2. Claimed(r, id) = [r EXCEPT !.status = "running", !.attempts = next,
                                 !.locked_by = id, !.lock_age = 0]
  BY DEF Claimed
<1> HIDE DEF next
<1> QED
  BY AgesAreNumbers, <1>1, <1>2 DEF Row, Statuses

\* A row completed does not run; a row relocked stays what it is.
LEMMA WrittenRows ==
    ASSUME NEW r \in Row, NEW age \in LockAges
    PROVE  /\ Completed(r) \in Row /\ Completed(r).status = "completed"
           /\ /\ Relocked(r, age) \in Row /\ Relocked(r, age).status = r.status
              /\ Relocked(r, age).locked_by = r.locked_by
<1>1. Completed(r) \in Row /\ Completed(r).status = "completed"
  BY DEF Completed, Row, Statuses
<1>2. /\ Relocked(r, age) \in Row /\ Relocked(r, age).status = r.status
      /\ Relocked(r, age).locked_by = r.locked_by
  BY DEF Relocked, Row
<1> QED
  BY <1>1, <1>2

\* Client c writes rows nobody else has locked; what it leaves running names id, or the
\* worker that was named before.
Writes(c, id) ==
    /\ job' = job
    /\ held' = [j \in Jobs |-> held'[j]] /\ draft' = [j \in Jobs |-> draft'[j]]
    /\ \A j \in Jobs :
          \/ held'[j] = held[j] /\ draft'[j] = draft[j]
          \/ /\ held[j] \in {Null, c} /\ held'[j] = c /\ draft'[j] \in Row
             /\ draft'[j].status = "running" =>
                   \/ draft'[j].locked_by = id
                   \/ Running(j) /\ draft'[j].locked_by = job[j].locked_by

\* A statement on one row that nobody else has locked.
LEMMA OneWritten ==
    ASSUME NEW c, NEW id, NEW j, NEW d, WriteRow(c, j, d),
           j \in Jobs => /\ d \in Row
                         /\ d.status = "running" =>
                               \/ d.locked_by = id
                               \/ Running(j) /\ d.locked_by = job[j].locked_by
    PROVE  Writes(c, id)
<1>1. job' = job
  BY DEF WriteRow, Write
<1>2. /\ held' = [k \in Jobs |-> IF k = j THEN c ELSE held[k]]
      /\ draft' = [k \in Jobs |-> IF k = j THEN d ELSE draft[k]]
  BY DEF WriteRow, Write
<1>3. j \in Jobs => held[j] = Null
  BY WriteRowFree
<1> QED
  BY <1>1, <1>2, <1>3 DEF Writes

\* Every statement writes rows nobody has locked.
LEMMA StatementWrites ==
    ASSUME TypeOK, NEW c, NEW id \in WorkerIds, NEW reach \in SUBSET Jobs
    PROVE  /\ \A j : SeedRow(c, j) => Writes(c, id)
           /\ \A j : ClaimRow(c, id, reach, j) => Writes(c, id)
           /\ \A j : CompleteRow(c, j) \/ FailRow(c, j, 0) => Writes(c, id)
           /\ \A j, owner : HeartbeatRow(c, owner, j) => Writes(c, id)
           /\ \A j : \A age \in LockAges : AgeRow(c, j, age) => Writes(c, id)
<1>1. \A j \in Jobs : job[j] \in Row
  BY DEF TypeOK
<1>2. \A j \in ClaimChoices(reach) : j \in Jobs
  BY DEF ClaimChoices, Unlocked
<1>3. ASSUME NEW j, SeedRow(c, j) PROVE Writes(c, id)
  <2>1. Seeded \in Row /\ Seeded.status = "available"
    BY DEF Seeded, Fresh, Row, Statuses
  <2> QED
    BY <1>3, <2>1, OneWritten DEF SeedRow
<1>4. ASSUME NEW j, ClaimRow(c, id, reach, j) PROVE Writes(c, id)
  <2>1. j \in Jobs /\ WriteRow(c, j, Claimed(job[j], id))
    BY <1>2, <1>4 DEF ClaimRow
  <2>2. Claimed(job[j], id) \in Row /\ Claimed(job[j], id).locked_by = id
    BY <1>1, <2>1, ClaimedRows
  <2> QED
    BY <2>1, <2>2, OneWritten
<1>5. ASSUME NEW j, CompleteRow(c, j) PROVE Writes(c, id)
  <2>1. j \in Jobs => Completed(job[j]) \in Row /\ Completed(job[j]).status # "running"
    BY <1>1, WrittenRows, AgesAreNumbers
  <2> QED
    BY <1>5, <2>1, OneWritten DEF CompleteRow
<1>6. ASSUME NEW j, FailRow(c, j, 0) PROVE Writes(c, id)
  <2>1. j \in Jobs => Released(j, job[j], 0) \in Row /\ Released(j, job[j], 0).status # "running"
    BY <1>1, ReleasedRows
  <2> QED
    BY <1>6, <2>1, OneWritten DEF FailRow
<1>7. ASSUME NEW j, NEW age \in LockAges, Running(j),
             WriteRow(c, j, Relocked(job[j], age))
      PROVE  Writes(c, id)
  <2>1. j \in Jobs => Relocked(job[j], age) \in Row /\ Relocked(job[j], age).locked_by = job[j].locked_by
    BY <1>1, WrittenRows
  <2> QED
    BY <1>7, <2>1, OneWritten
<1> QED
  BY <1>3, <1>4, <1>5, <1>6, <1>7, AgesAreNumbers DEF HeartbeatRow, AgeRow

\* A recovery writes rows nobody has locked.
LEMMA RecoveryWrites ==
    ASSUME TypeOK, NEW c, NEW id, NEW reach \in SUBSET Jobs, NEW limit, NEW S,
           RecoverRows(c, reach, limit, S)
    PROVE  Writes(c, id)
<1>1. S \in SUBSET Jobs /\ \A k \in S : held[k] = Null
  BY DEF RecoverRows, RecoverChoices, Unlocked
<1>2. PICK new : new = [k \in S |-> Released(k, job[k], 0)]
  OBVIOUS
<1>3. /\ job' = job
      /\ held' = [j \in Jobs |-> IF j \in S THEN c ELSE held[j]]
      /\ draft' = [j \in Jobs |-> IF j \in S THEN new[j] ELSE draft[j]]
  BY <1>2 DEF RecoverRows, Write
<1>4. ASSUME NEW k \in S PROVE new[k] \in Row /\ new[k].status # "running"
  <2>1. job[k] \in Row /\ new[k] = Released(k, job[k], 0)
    BY <1>1, <1>2 DEF TypeOK
  <2> QED
    BY <2>1, ReleasedRows
<1> QED
  BY <1>1, <1>3, <1>4 DEF Writes

\* What a client does to the rows.
Moves(c, id) == Writes(c, id) \/ Commit(c) \/ Rollback(c) \/ UNCHANGED queueVars

\* A client's move keeps the types of the rows.
LEMMA MoveTypes ==
    ASSUME TypeOK, NEW c \in Clients, NEW id, Moves(c, id)
    PROVE  TypeOK'
<1>1. job \in [Jobs -> Row] /\ held \in [Jobs -> Clients \cup {Null}] /\ draft \in [Jobs -> Row]
  BY DEF TypeOK
<1>2. CASE Writes(c, id)
  <2>1. \A j \in Jobs : held'[j] \in Clients \cup {Null} /\ draft'[j] \in Row
    BY <1>1, <1>2 DEF Writes
  <2>2. held' \in [Jobs -> Clients \cup {Null}] /\ draft' \in [Jobs -> Row] /\ job' = job
    BY <1>2, <2>1 DEF Writes
  <2> QED
    BY <1>1, <2>2 DEF TypeOK, Row
<1>3. CASE Commit(c)
  <2>1. held' \in [Jobs -> Clients \cup {Null}] /\ draft' = draft /\ job' \in [Jobs -> Row]
    BY <1>1, <1>3 DEF Commit, EndTransaction
  <2> QED
    BY <1>1, <2>1 DEF TypeOK, Row
<1>4. CASE Rollback(c)
  <2>1. held' \in [Jobs -> Clients \cup {Null}] /\ draft' \in [Jobs -> Row] /\ job' = job
    BY <1>1, <1>4 DEF Rollback, EndTransaction
  <2> QED
    BY <1>1, <2>1 DEF TypeOK, Row
<1>5. CASE UNCHANGED queueVars
  BY <1>1, <1>5 DEF TypeOK, Row, queueVars
<1> QED
  BY <1>2, <1>3, <1>4, <1>5 DEF Moves

-----------------------------------------------------------------------------
(* What the others do to a benchmark: nothing.                             *)

\* The rows b has locked, and no others, stay locked by b as they are.
Spared(b) ==
    \A j \in Jobs :
        /\ held'[j] \in Connections(b) <=> HeldBy(b, j)
        /\ HeldBy(b, j) => /\ held'[j] = held[j]
                           /\ draft'[j].status = draft[j].status
                           /\ job'[j].status = job[j].status

\* A benchmark whose rows are spared stands as it stood.
LEMMA SparedFits ==
    ASSUME NEW b \in Benches, Spared(b), BenchFits(b), Distinct(b),
           phase'[b] = phase[b], turn'[b] = turn[b], claims'[b] = claims[b]
    PROVE  BenchFits(b)' /\ Distinct(b)'
<1>1. Distinct(b)'
  BY DEF Distinct, ClaimIndices
<1>2. \A j \in Jobs : HeldBy(b, j)' <=> HeldBy(b, j)
  BY DEF Spared, HeldBy, Connections
<1>3. Settled(b) => Settled(b)'
  BY <1>2 DEF Settled, Spared
<1>4. ClaimsHeld(b) => ClaimsHeld(b)'
  <2> SUFFICES ASSUME ClaimsHeld(b) PROVE ClaimsHeld(b)'
    OBVIOUS
  <2>1. ASSUME NEW i \in ClaimIndices(b)
        PROVE  /\ claims[b][i] \in Jobs /\ HeldBy(b, claims[b][i])
               /\ job[claims[b][i]].status # "running"
    BY DEF ClaimsHeld, Running
  <2>2. ASSUME NEW i \in ClaimIndices(b)
        PROVE  held'[claims[b][i]] \in Connections(b) /\ job'[claims[b][i]].status # "running"
    BY <2>1 DEF Spared
  <2>3. \A j \in Jobs : held'[j] \in Connections(b) => \E i \in ClaimIndices(b) : claims[b][i] = j
    BY DEF ClaimsHeld, Spared
  <2> QED
    BY <2>1, <2>2, <2>3 DEF ClaimsHeld, ClaimIndices, HeldBy, Running, Connections
<1>5. ASSUME ClaimsHeld(b), NEW i \in ClaimIndices(b)
      PROVE  draft'[claims[b][i]].status = draft[claims[b][i]].status
  BY <1>5 DEF ClaimsHeld, Spared
<1>6. ClaimIndices(b)' = ClaimIndices(b)
  BY DEF ClaimIndices
<1>7. ASSUME phase[b] = "seeding", NEW j \in Jobs, HeldBy(b, j) PROVE held'[j] = Line[b][1]
  BY <1>7 DEF BenchFits, Spared
<1>8. ASSUME phase[b] = "completing", NEW i \in ClaimIndices(b), i < turn[b]
      PROVE  draft'[claims[b][i]].status # "running"
  BY <1>5, <1>8 DEF BenchFits
<1> QED
  BY <1>1, <1>2, <1>3, <1>4, <1>6, <1>7, <1>8 DEF BenchFits

\* The connections of a benchmark are clients with an id, none of them NULL.
LEMMA ConnectionsAre ==
    ASSUME NEW b \in Benches
    PROVE  /\ Connections(b) \subseteq Clients \cap WorkerIds
           /\ Null \notin Connections(b)
           /\ Len(Line[b]) \in Nat \ {0}
           /\ \A i \in 1 .. Len(Line[b]) : Line[b][i] \in Connections(b)
<1>1. Line[b] \in Seq(Clients) /\ Line[b] # <<>>
  OBVIOUS
<1>2. Len(Line[b]) \in Nat \ {0}
  BY <1>1
<1>3. \A i \in 1 .. Len(Line[b]) : Line[b][i] \in Clients
  BY <1>1
<1>4. Connections(b) \subseteq Clients
  BY <1>3 DEF Connections
<1>5. Connections(b) \subseteq WorkerIds
  OBVIOUS
<1>6. \A i \in 1 .. Len(Line[b]) : Line[b][i] \in Connections(b)
  BY DEF Connections
<1>7. Null \notin Connections(b)
  BY <1>5
<1> QED
  BY <1>2, <1>4, <1>5, <1>6, <1>7, Zenon

\* Another client's move spares b and names none of its connections.
LEMMA ForeignMove ==
    ASSUME TypeOK, NEW b \in Benches, NeverNamed(b), NEW c, NEW id,
           c \notin Connections(b) \cup {Null}, id \notin Connections(b), Moves(c, id)
    PROVE  Spared(b) /\ NeverNamed(b)'
<1>1. Null \notin Connections(b) /\ DOMAIN held = Jobs /\ DOMAIN draft = Jobs /\ DOMAIN job = Jobs
  BY ConnectionsAre DEF TypeOK
<1>2. CASE Writes(c, id)
  <2>1. Spared(b)
    BY <1>1, <1>2 DEF Writes, Spared, HeldBy
  <2>2. ASSUME NEW j \in Jobs
        PROVE  /\ Running(j)' => job'[j].locked_by \notin Connections(b)
               /\ held'[j] # Null /\ held'[j] \notin Connections(b) /\ draft'[j].status = "running" =>
                     draft'[j].locked_by \notin Connections(b)
    <3>1. Running(j)' => job'[j].locked_by \notin Connections(b)
      BY <1>2 DEF Writes, NeverNamed, Running
    <3>2. CASE held'[j] = held[j] /\ draft'[j] = draft[j]
      BY <3>1, <3>2 DEF NeverNamed, HeldBy
    <3>3. CASE /\ held'[j] = c
               /\ draft'[j].status = "running" =>
                     \/ draft'[j].locked_by = id
                     \/ Running(j) /\ draft'[j].locked_by = job[j].locked_by
      BY <3>1, <3>3 DEF NeverNamed
    <3> QED
      BY <1>2, <3>2, <3>3 DEF Writes
  <2> QED
    BY <2>1, <2>2 DEF NeverNamed, HeldBy, Connections
<1>3. CASE Commit(c)
  <2>1. \A j \in Jobs : /\ held'[j] = IF held[j] = c THEN Null ELSE held[j]
                        /\ job'[j] = IF held[j] = c THEN draft[j] ELSE job[j]
                        /\ draft'[j] = draft[j]
    BY <1>3 DEF Commit, EndTransaction
  <2>2. Spared(b)
    BY <1>1, <2>1 DEF Spared, HeldBy
  <2>3. ASSUME NEW j \in Jobs
        PROVE  /\ job'[j].status = "running" => job'[j].locked_by \notin Connections(b)
               /\ held'[j] # Null /\ held'[j] \notin Connections(b) /\ draft'[j].status = "running" =>
                     draft'[j].locked_by \notin Connections(b)
    <3>1. CASE held[j] = c
      BY <2>1, <3>1 DEF NeverNamed, HeldBy
    <3>2. CASE held[j] # c
      BY <2>1, <3>2 DEF NeverNamed, HeldBy, Running
    <3> QED
      BY <3>1, <3>2
  <2> QED
    BY <2>2, <2>3 DEF NeverNamed, HeldBy, Connections, Running
<1>4. CASE Rollback(c)
  <2>1. \A j \in Jobs : /\ held'[j] = IF held[j] = c THEN Null ELSE held[j]
                        /\ draft'[j] = IF held[j] = c THEN job[j] ELSE draft[j]
                        /\ job'[j] = job[j]
    BY <1>4 DEF Rollback, EndTransaction
  <2>2. Spared(b)
    BY <1>1, <2>1 DEF Spared, HeldBy
  <2>3. ASSUME NEW j \in Jobs
        PROVE  /\ job'[j].status = "running" => job'[j].locked_by \notin Connections(b)
               /\ held'[j] # Null /\ held'[j] \notin Connections(b) /\ draft'[j].status = "running" =>
                     draft'[j].locked_by \notin Connections(b)
    BY <2>1 DEF NeverNamed, HeldBy, Running
  <2> QED
    BY <2>2, <2>3 DEF NeverNamed, HeldBy, Connections, Running
<1>5. CASE UNCHANGED queueVars
  BY <1>5 DEF queueVars, Spared, NeverNamed, HeldBy, Running, Connections
<1> QED
  BY <1>2, <1>3, <1>4, <1>5 DEF Moves

\* The rollback of another benchmark, of all its connections at once.
LEMMA ForeignRollback ==
    ASSUME TypeOK, NEW b \in Benches, NeverNamed(b), NEW a \in Benches \ {b}, RollbackAll(a)
    PROVE  Spared(b) /\ NeverNamed(b)'
<1>1. Null \notin Connections(b) /\ Connections(a) \cap Connections(b) = {}
  BY ConnectionsAre
<1>2. \A j \in Jobs : /\ held'[j] = IF held[j] \in Connections(a) THEN Null ELSE held[j]
                      /\ draft'[j] = IF held[j] \in Connections(a) THEN job[j] ELSE draft[j]
                      /\ job'[j] = job[j]
  BY DEF RollbackAll
<1>3. Spared(b)
  BY <1>1, <1>2 DEF Spared, HeldBy
<1>4. ASSUME NEW j \in Jobs
      PROVE  /\ job'[j].status = "running" => job'[j].locked_by \notin Connections(b)
             /\ held'[j] # Null /\ held'[j] \notin Connections(b) /\ draft'[j].status = "running" =>
                   draft'[j].locked_by \notin Connections(b)
  BY <1>2 DEF NeverNamed, HeldBy, Running
<1> QED
  BY <1>3, <1>4 DEF NeverNamed, HeldBy, Connections, Running

\* The clock changes no status, no name and no lock.
LEMMA TickSpares ==
    ASSUME TypeOK, NEW b \in Benches, NeverNamed(b), Tick
    PROVE  Spared(b) /\ NeverNamed(b)'
<1>1. \A j \in Jobs : job[j] \in Row /\ draft[j] \in Row
  BY DEF TypeOK
<1>2. \A j \in Jobs : job'[j] = Aged(job[j]) /\ draft'[j] = Aged(draft[j]) /\ held'[j] = held[j]
  BY DEF Tick
<1>3. \A j \in Jobs : /\ held'[j] = held[j]
                      /\ job'[j].status = job[j].status /\ job'[j].locked_by = job[j].locked_by
                      /\ draft'[j].status = draft[j].status
                      /\ draft'[j].locked_by = draft[j].locked_by
  BY <1>1, <1>2, AgedRow
<1>4. Spared(b)
  BY <1>3 DEF Spared, HeldBy
<1> QED
  BY <1>3, <1>4 DEF NeverNamed, HeldBy, Connections, Running

\* Both keep the types of the rows.
LEMMA OtherMoveTypes ==
    ASSUME TypeOK, Tick \/ \E a : RollbackAll(a)
    PROVE  TypeOK'
<1>1. job \in [Jobs -> Row] /\ held \in [Jobs -> Clients \cup {Null}] /\ draft \in [Jobs -> Row]
  BY DEF TypeOK
<1>2. CASE Tick
  <2>1. \A j \in Jobs : Aged(job[j]) \in Row /\ Aged(draft[j]) \in Row
    BY <1>1, AgedRow
  <2>2. job' \in [Jobs -> Row] /\ held' = held /\ draft' \in [Jobs -> Row]
    BY <1>2, <2>1 DEF Tick
  <2> QED
    BY <1>1, <2>2 DEF TypeOK, Row
<1>3. ASSUME NEW a, RollbackAll(a) PROVE TypeOK'
  <2>1. held' \in [Jobs -> Clients \cup {Null}] /\ draft' \in [Jobs -> Row] /\ job' = job
    BY <1>1, <1>3 DEF RollbackAll
  <2> QED
    BY <1>1, <2>1 DEF TypeOK, Row
<1> QED
  BY <1>2, <1>3

-----------------------------------------------------------------------------
(* Who moves rows.                                                         *)

\* A worker moves rows as a client of its own, under the id it was started with.
LEMMA WorkerMoves ==
    ASSUME TypeOK, NEW w \in Workers, Proceed(w) \/ Disturb(w)
    PROVE  Moves(w, IdOf[w])
<1>1. IdOf[w] \in WorkerIds /\ Reach[w] \in SUBSET Jobs
  OBVIOUS
<1>2. CASE SeedNext(w)
  BY <1>1, <1>2, StatementWrites DEF SeedNext, Moves
<1>3. CASE Claim(w)
  BY <1>1, <1>3, StatementWrites DEF Claim, Moves
<1>4. CASE CompleteFound(w) \/ FailFound(w)
  BY <1>1, <1>4, StatementWrites DEF CompleteFound, FailFound, Moves
<1>5. CASE SeedCommit(w) \/ ClaimCommit(w) \/ CompleteCommit(w) \/ FailCommit(w)
  BY <1>5 DEF SeedCommit, ClaimCommit, CompleteCommit, FailCommit, Moves
<1>6. CASE CompleteUnanswered(w) \/ Die(w)
  BY <1>6 DEF CompleteUnanswered, Die, Moves
<1>7. CASE \/ Prepare(w) \/ ClaimNothing(w) \/ ReachCap(w) \/ Execute(w)
           \/ CompleteMissing(w) \/ FailMissing(w) \/ Start(w)
  BY <1>7 DEF Prepare, ClaimNothing, ReachCap, Execute, CompleteMissing, FailMissing, Start, Moves
<1> QED
  BY <1>2, <1>3, <1>4, <1>5, <1>6, <1>7 DEF Proceed, Disturb

\* A smoke moves rows as a client of its own, under its own id.
LEMMA SmokeMoves ==
    ASSUME TypeOK, NEW s \in Smokes, SmokeStart(s) \/ SmokeProceed(s) \/ SmokeDie(s)
    PROVE  Moves(s, s)
<1>1. s \in WorkerIds /\ Prefixed[s] \in SUBSET Jobs
  BY DEF Actors
<1>2. CASE SmokeSeed(s)
  BY <1>1, <1>2, StatementWrites DEF SmokeSeed, Moves
<1>3. CASE SmokeAct(s)
  <2>1. Timeout + 1 \in LockAges
    BY DEF LockAges
  <2>2. Acts(s)
    BY <1>3 DEF SmokeAct
  <2>3. CASE \E S \in SUBSET Jobs, limit \in Limits : RecoverRows(s, Prefixed[s], limit, S)
    BY <1>1, <2>3, RecoveryWrites DEF Moves
  <2>4. CASE \E j \in Jobs : ClaimRow(s, s, Prefixed[s], j)
    BY <1>1, <2>4, StatementWrites DEF Moves
  <2>5. CASE HeartbeatRow(s, s, Mine(s))
    BY <1>1, <2>5, StatementWrites DEF Moves
  <2>6. CASE AgeRow(s, Mine(s), Timeout + 1)
    BY <1>1, <2>1, <2>6, StatementWrites DEF Moves
  <2>7. CASE CompleteRow(s, Mine(s)) \/ FailRow(s, Mine(s), 0)
    BY <1>1, <2>7, StatementWrites DEF Moves
  <2> QED
    BY <2>2, <2>3, <2>4, <2>5, <2>6, <2>7 DEF Acts
<1>4. CASE SmokeCommit(s) \/ SmokeDie(s)
  BY <1>4 DEF SmokeCommit, SmokeDie, Moves
<1>5. CASE SmokeStart(s) \/ SmokePrepare(s) \/ SmokeMiss(s)
  BY <1>5 DEF SmokeStart, SmokePrepare, SmokeMiss, vars, queueVars, Moves
<1> QED
  BY <1>2, <1>3, <1>4, <1>5 DEF SmokeProceed

\* The connection a benchmark is at is one of its own.
LEMMA ConnIsOwn ==
    ASSUME SmokesTypeOK, NEW b \in Benches, BenchFits(b),
           phase[b] \in {"claiming", "closing"} \/ ClaimLeft(b)
    PROVE  turn[b] \in 1 .. Len(Line[b]) /\ Conn(b) \in Connections(b)
<1>1. Len(Line[b]) \in Nat /\ \A i \in 1 .. Len(Line[b]) : Line[b][i] \in Connections(b)
  BY ConnectionsAre
<1>2. turn[b] \in 1 .. Len(Line[b])
  <2>1. CASE phase[b] \in {"claiming", "closing"}
    BY <2>1 DEF BenchFits
  <2>2. CASE ClaimLeft(b)
    <3>1. turn[b] \in Nat \ {0} /\ turn[b] <= Len(claims[b])
      BY <2>2 DEF ClaimLeft, BenchFits
    <3>2. Len(claims[b]) <= Len(Line[b]) /\ Len(claims[b]) \in Nat
      BY DEF SmokesTypeOK, Actors
    <3> QED
      BY <1>1, <3>1, <3>2
  <2> QED
    BY <2>1, <2>2
<1> QED
  BY <1>1, <1>2 DEF Conn

\* A benchmark moves rows through one of its connections, or rolls all of them back.
LEMMA BenchMoves ==
    ASSUME SmokesTypeOK, NEW b \in Benches, BenchFits(b),
           BenchStart(b) \/ BenchProceed(b) \/ BenchDie(b)
    PROVE  RollbackAll(b) \/ \E c \in Connections(b) : Moves(c, c)
<1>1. /\ TypeOK /\ Prefixed[b] \in SUBSET Jobs
      /\ Connections(b) \subseteq WorkerIds /\ Line[b][1] \in Connections(b)
  <2>1. 1 \in 1 .. Len(Line[b])
    BY ConnectionsAre
  <2> QED
    BY <2>1, ConnectionsAre DEF SmokesTypeOK, WorkersTypeOK, Actors
<1>2. CASE BenchSeed(b)
  BY <1>1, <1>2, StatementWrites DEF BenchSeed, Moves
<1>3. CASE BenchSeedCommit(b)
  BY <1>1, <1>3 DEF BenchSeedCommit, Moves
<1>4. CASE BenchClaim(b)
  <2>1. Conn(b) \in Connections(b)
    BY <1>4, ConnIsOwn DEF BenchClaim, ClaimIsCalled
  <2>2. \E j \in Jobs : ClaimRow(Conn(b), Conn(b), Prefixed[b], j)
    BY <1>4 DEF BenchClaim
  <2>3. Writes(Conn(b), Conn(b))
    BY <1>1, <2>1, <2>2, StatementWrites
  <2> QED
    BY <2>1, <2>3 DEF Moves
<1>5. CASE BenchComplete(b)
  <2>1. Conn(b) \in Connections(b)
    BY <1>5, ConnIsOwn DEF BenchComplete
  <2>2. PICK j : \/ Rewrite(Conn(b), j, Completed(draft[j]))
                 \/ WriteRow(Conn(b), j, Completed(job[j]))
    BY <1>5 DEF BenchComplete
  <2>3. \A r \in Row : Completed(r) \in Row /\ Completed(r).status = "completed"
    BY WrittenRows, AgesAreNumbers
  <2>4. CASE WriteRow(Conn(b), j, Completed(job[j]))
    <3>1. j \in Jobs => Completed(job[j]) \in Row /\ Completed(job[j]).status # "running"
      BY <1>1, <2>3 DEF TypeOK
    <3>2. Writes(Conn(b), Conn(b))
      BY <2>4, <3>1, OneWritten
    <3> QED
      BY <2>1, <3>2 DEF Moves
  <2>5. CASE Rewrite(Conn(b), j, Completed(draft[j]))
    <3>1. /\ held[j] = Conn(b) /\ job' = job /\ held' = held
          /\ draft' = [draft EXCEPT ![j] = Completed(draft[j])]
      BY <2>5 DEF Rewrite
    <3>2. j \in Jobs => Completed(draft[j]) \in Row /\ Completed(draft[j]).status # "running"
      BY <1>1, <2>3 DEF TypeOK
    <3>3. \A k \in Jobs : draft'[k] = IF k = j THEN Completed(draft[j]) ELSE draft[k]
      BY <1>1, <3>1 DEF TypeOK
    <3>4. Writes(Conn(b), Conn(b))
      BY <1>1, <3>1, <3>2, <3>3 DEF Writes, TypeOK
    <3> QED
      BY <2>1, <3>4 DEF Moves
  <2> QED
    BY <2>2, <2>4, <2>5
<1>6. CASE BenchClose(b)
  <2>1. Conn(b) \in Connections(b)
    BY <1>6, ConnIsOwn DEF BenchClose
  <2> QED
    BY <1>6, <2>1 DEF BenchClose, Moves
<1>7. CASE BenchStart(b) \/ BenchPrepare(b) \/ BenchClaimsNone(b) \/ BenchLeave(b)
  BY <1>1, <1>7 DEF BenchStart, BenchPrepare, BenchClaimsNone, BenchLeave, vars, queueVars, Moves
<1>8. CASE BenchRaise(b) \/ BenchDie(b)
  BY <1>8 DEF BenchRaise, BenchDie
<1> QED
  BY <1>2, <1>3, <1>4, <1>5, <1>6, <1>7, <1>8 DEF BenchProceed

-----------------------------------------------------------------------------
(* Types.                                                                  *)

\* The variables of the workers' programs, and those of the others', have their types.
ProgTypes ==
    /\ pc \in [Workers -> Places]
    /\ ticket \in [Workers -> Ticket \cup {Null}]
    /\ seeded \in [Workers -> Nat]
    /\ runs \in [Workers -> Nat]
    /\ \A w \in Workers : runs[w] <= Cap(w) /\ (pc[w] \in Below => runs[w] < Cap(w))
    /\ starts \in 0 .. MaxStarts
    /\ epoch \in [Jobs -> Nat]

SmokePlaces == Ended \cup {"preparing", "playing", "seeding", "claiming", "completing", "closing"}

ClaimsFit ==
    /\ claims \in [Actors -> Seq(Jobs)]
    /\ \A s \in Smokes : Len(claims[s]) <= 1
    /\ \A b \in Benches : Len(claims[b]) <= Len(Line[b])

SmokeTypes ==
    /\ cast \in Casts
    /\ phase \in [Actors -> SmokePlaces]
    /\ turn \in [Actors -> Nat]
    /\ sown \in [Actors -> Nat]
    /\ ClaimsFit

\* A cap is a number of executions.
LEMMA CapsAreNumbers == \A w \in Workers : Cap(w) \in Nat
<1> SUFFICES ASSUME NEW w \in Workers PROVE Cap(w) \in Nat
  OBVIOUS
<1>1. SeedOrder[w] \in Seq(Jobs)
  OBVIOUS
<1>2. Len(SeedOrder[w]) \in Nat
  BY <1>1
<1> QED
  BY <1>2 DEF Cap

\* A worker's step keeps the types of the workers' programs.
LEMMA WorkerTypes ==
    ASSUME TypeOK, ProgTypes, NEW w \in Workers, Proceed(w) \/ Disturb(w)
    PROVE  ProgTypes'
<1> USE DEF ProgTypes, Places, Stopped, Below
<1>0. \A v \in Workers : Cap(v) \in Nat
  BY CapsAreNumbers
<1>1. CASE SeedNext(w)
  BY <1>1 DEF SeedNext
<1>11. CASE Prepare(w)
  BY <1>11 DEF Prepare, Goto
<1>9. CASE SeedCommit(w)
  BY <1>9 DEF SeedCommit, Goto
<1>2. CASE Claim(w) \/ ClaimNothing(w) \/ ReachCap(w) \/ Execute(w)
  BY <1>2 DEF Claim, ClaimNothing, ReachCap, Execute, Goto
<1>3. CASE ClaimCommit(w)
  <2>1. PICK j \in Jobs : ticket' = [ticket EXCEPT ![w] =
                [job |-> j, epoch |-> epoch[j], attempts |-> draft[j].attempts]]
    BY <1>3 DEF ClaimCommit
  <2>2. [job |-> j, epoch |-> epoch[j], attempts |-> draft[j].attempts] \in Ticket
    BY DEF Ticket, TypeOK, Row
  <2> QED
    BY <1>3, <2>1, <2>2 DEF ClaimCommit, Goto
<1>4. CASE CompleteFound(w) \/ CompleteMissing(w) \/ FailFound(w) \/ FailMissing(w)
  BY <1>4 DEF CompleteFound, CompleteMissing, FailFound, FailMissing, Goto
<1>5. CASE CompleteCommit(w)
  BY <1>0, <1>5 DEF CompleteCommit, ReturnFromRun, Goto
<1>10. CASE FailCommit(w)
  BY <1>0, <1>10 DEF FailCommit, ReturnFromRun, Goto
<1>6. CASE Start(w)
  BY <1>0, <1>6 DEF Start
<1>7. CASE CompleteUnanswered(w) \/ Die(w)
  BY <1>7 DEF CompleteUnanswered, Die, Goto
<1> QED
  BY <1>1, <1>2, <1>3, <1>4, <1>5, <1>6, <1>7, <1>9, <1>10, <1>11 DEF Proceed, Disturb

\* One of the others goes to a place or stays, and counts its turn or does not.
Steps(a) ==
    /\ UNCHANGED cast
    /\ UNCHANGED phase \/ \E place \in SmokePlaces : phase' = [phase EXCEPT ![a] = place]
    /\ UNCHANGED turn \/ \E n \in Nat : turn' = [turn EXCEPT ![a] = n]
    /\ UNCHANGED sown \/ \E n \in Nat : sown' = [sown EXCEPT ![a] = n]

\* Such a step keeps the types.
LEMMA StepTypes ==
    ASSUME SmokeTypes, ClaimsFit', NEW a \in Actors, Steps(a)
    PROVE  SmokeTypes'
<1>1. phase' \in [Actors -> SmokePlaces]
  BY DEF Steps, SmokeTypes
<1>2. turn' \in [Actors -> Nat]
  BY DEF Steps, SmokeTypes
<1>3. sown' \in [Actors -> Nat]
  BY DEF Steps, SmokeTypes
<1> QED
  BY <1>1, <1>2, <1>3 DEF Steps, SmokeTypes, SmokePlaces, Ended

\* A smoke claims one job at a time.
LEMMA SmokeClaims ==
    ASSUME SmokeTypes, NEW s \in Smokes, SmokeCommit(s)
    PROVE  ClaimsFit'
<1>1. s \in Actors /\ s \notin Benches
  BY DEF Actors
<1>2. (CHOOSE j \in Jobs : held[j] = s) \in Jobs
  BY DEF SmokeCommit, Commit, Holds
<1>3. CASE claims' = claims
  BY <1>3 DEF ClaimsFit, SmokeTypes
<1>4. ASSUME NEW k \in Jobs, claims' = [claims EXCEPT ![s] = <<k>>]
      PROVE  ClaimsFit'
  <2>1. <<k>> \in Seq(Jobs) /\ Len(<<k>>) = 1
    OBVIOUS
  <2>2. PICK q \in Seq(Jobs) : Len(q) = 1 /\ claims' = [claims EXCEPT ![s] = q]
    BY <1>4, <2>1, Zenon
  <2>3. claims' \in [Actors -> Seq(Jobs)]
    BY <1>1, <2>2 DEF ClaimsFit, SmokeTypes
  <2>4. ASSUME NEW r \in Smokes PROVE Len(claims'[r]) <= 1
    <3>1. r \in Actors /\ Len(claims[r]) <= 1
      BY DEF Actors, ClaimsFit, SmokeTypes
    <3>2. claims'[r] = IF r = s THEN q ELSE claims[r]
      BY <2>2, <3>1 DEF ClaimsFit, SmokeTypes
    <3>3. CASE r = s
      <4>1. claims'[r] = q
        BY <3>2, <3>3
      <4>2. Len(q) <= 1
        BY <2>2
      <4> QED
        BY <4>1, <4>2, Zenon
    <3>4. CASE r # s
      BY <3>1, <3>2, <3>4
    <3> QED
      BY <3>3, <3>4
  <2>5. ASSUME NEW b \in Benches PROVE Len(claims'[b]) <= Len(Line[b])
    <3>1. b \in Actors /\ b # s
      BY <1>1 DEF Actors
    <3> QED
      BY <1>1, <2>2, <3>1 DEF ClaimsFit, SmokeTypes
  <2> QED
    BY <2>3, <2>4, <2>5 DEF ClaimsFit
<1>5. claims' = claims \/ claims' = [claims EXCEPT ![s] = <<CHOOSE j \in Jobs : held[j] = s>>]
  BY DEF SmokeCommit, KeptClaim
<1> QED
  BY <1>2, <1>3, <1>4, <1>5, Zenon

\* The next scene, or an exception.
LEMMA ScenesStep ==
    ASSUME SmokeTypes, NEW s \in Smokes, NextScene(s) \/ Raise(s), UNCHANGED <<cast, sown>>
    PROVE  Steps(s)
<1>1. s \in Actors /\ turn[s] \in Nat
  BY DEF Actors, SmokeTypes
<1>2. "ended" \in SmokePlaces /\ "raised" \in SmokePlaces
  BY DEF SmokePlaces, Ended
<1>3. CASE Raise(s)
  BY <1>2, <1>3 DEF Raise, To, Steps
<1>4. CASE NextScene(s)
  <2>1. turn[s] + 1 \in Nat
    BY <1>1
  <2>2. CASE To(s, "ended") /\ UNCHANGED turn
    BY <1>2, <2>2 DEF To, Steps
  <2>3. CASE turn' = [turn EXCEPT ![s] = @ + 1] /\ UNCHANGED phase
    <3>1. turn' = [turn EXCEPT ![s] = turn[s] + 1]
      BY <2>3
    <3> QED
      BY <2>1, <2>3, <3>1 DEF Steps
  <2> QED
    BY <1>4, <2>2, <2>3 DEF NextScene
<1> QED
  BY <1>3, <1>4

\* A smoke's step keeps the types.
LEMMA SmokeTypesKept ==
    ASSUME ProgTypes, SmokeTypes, NEW s \in Smokes,
           SmokeStart(s) \/ SmokeProceed(s) \/ SmokeDie(s)
    PROVE  ProgTypes' /\ SmokeTypes' /\ Steps(s)
<1>1. s \in Actors /\ "preparing" \in SmokePlaces /\ "playing" \in SmokePlaces
  BY DEF Actors, SmokePlaces
<1>2. ClaimsFit' \/ claims' # claims
  BY DEF ClaimsFit, SmokeTypes
<1>3. CASE SmokeStart(s)
  <2>1. Steps(s) /\ claims' = claims
    BY <1>1, <1>3 DEF SmokeStart, To, Steps
  <2> QED
    BY <1>1, <1>2, <1>3, <2>1, StepTypes DEF SmokeStart, vars, ProgTypes
<1>9. CASE SmokePrepare(s)
  <2>1. (\E n \in Nat : turn' = [turn EXCEPT ![s] = n]) /\ claims' = claims
    BY <1>9 DEF SmokePrepare
  <2>2. Steps(s)
    BY <1>1, <1>9, <2>1 DEF SmokePrepare, To, Steps
  <2> QED
    BY <1>1, <1>2, <1>9, <2>1, <2>2, StepTypes DEF SmokePrepare, vars, ProgTypes
<1>4. CASE SmokeSeed(s)
  <2>1. sown' = [sown EXCEPT ![s] = sown[s] + 1] /\ sown[s] + 1 \in Nat
    BY <1>1, <1>4 DEF SmokeSeed, SmokeTypes
  <2>2. Steps(s) /\ claims' = claims
    BY <1>4, <2>1 DEF SmokeSeed, Steps
  <2> QED
    BY <1>1, <1>2, <1>4, <2>2, StepTypes DEF SmokeSeed, progVars, ProgTypes
<1>5. CASE SmokeAct(s)
  <2>1. Steps(s) /\ claims' = claims
    BY <1>5 DEF SmokeAct, smokeVars, Steps
  <2> QED
    BY <1>1, <1>2, <1>5, <2>1, StepTypes DEF SmokeAct, progVars, ProgTypes
<1>6. CASE SmokeCommit(s)
  <2>1. Steps(s) /\ ClaimsFit'
    BY <1>6, ScenesStep, SmokeClaims DEF SmokeCommit
  <2>2. ProgTypes'
    BY <1>6 DEF SmokeCommit, progVars, ProgTypes
  <2> QED
    BY <1>1, <2>1, <2>2, StepTypes
<1>7. CASE SmokeMiss(s)
  <2>1. Steps(s) /\ claims' = claims
    BY <1>7, ScenesStep DEF SmokeMiss
  <2> QED
    BY <1>1, <1>2, <1>7, <2>1, StepTypes DEF SmokeMiss, vars, ProgTypes
<1>8. CASE SmokeDie(s)
  <2>1. Steps(s) /\ claims' = claims
    BY <1>8, ScenesStep DEF SmokeDie
  <2> QED
    BY <1>1, <1>2, <1>8, <2>1, StepTypes DEF SmokeDie, progVars, ProgTypes
<1> QED
  BY <1>3, <1>4, <1>5, <1>6, <1>7, <1>8, <1>9 DEF SmokeProceed

\* A benchmark claims at most once a connection.
LEMMA BenchClaims ==
    ASSUME SmokeTypes, NEW b \in Benches, BenchFits(b), NEW j \in Jobs,
           phase[b] = "claiming", claims' = [claims EXCEPT ![b] = Append(@, j)]
    PROVE  ClaimsFit'
<1>1. b \in Actors /\ b \notin Smokes /\ Len(Line[b]) \in Nat \ {0}
  BY ConnectionsAre DEF Actors
<1>2. claims[b] \in Seq(Jobs) /\ Len(claims[b]) < Len(Line[b])
  BY <1>1 DEF BenchFits, SmokeTypes, ClaimsFit
<1>3. Append(claims[b], j) \in Seq(Jobs) /\ Len(Append(claims[b], j)) <= Len(Line[b])
  BY <1>1, <1>2
<1>4. claims' = [claims EXCEPT ![b] = Append(claims[b], j)]
  OBVIOUS
<1>5. PICK q \in Seq(Jobs) : Len(q) <= Len(Line[b]) /\ claims' = [claims EXCEPT ![b] = q]
  BY <1>3, <1>4, Zenon
<1>6. claims' \in [Actors -> Seq(Jobs)]
  BY <1>1, <1>5 DEF ClaimsFit, SmokeTypes
<1>7. ASSUME NEW r \in Smokes PROVE Len(claims'[r]) <= 1
  <2>1. r \in Actors /\ r # b
    BY <1>1 DEF Actors
  <2> QED
    BY <1>1, <1>5, <2>1 DEF ClaimsFit, SmokeTypes
<1>8. ASSUME NEW a \in Benches PROVE Len(claims'[a]) <= Len(Line[a])
  <2>1. a \in Actors
    BY DEF Actors
  <2> QED
    BY <1>1, <1>5, <2>1 DEF ClaimsFit, SmokeTypes
<1> QED
  BY <1>6, <1>7, <1>8 DEF ClaimsFit

\* A benchmark goes from place to place and from connection to connection.
LEMMA BenchSteps ==
    ASSUME SmokeTypes, NEW b \in Benches, BenchFits(b),
           BenchStart(b) \/ BenchProceed(b) \/ BenchDie(b)
    PROVE  Steps(b) /\ UNCHANGED progVars
<1>1. b \in Actors /\ Len(Line[b]) \in Nat \ {0} /\ turn[b] \in Nat
  BY ConnectionsAre DEF Actors, SmokeTypes
<1>2. \A p \in {"preparing", "seeding", "claiming", "completing", "closing", "ended", "raised"} : p \in SmokePlaces
  BY DEF SmokePlaces, Ended
<1>3. CASE BenchStart(b) \/ BenchPrepare(b)
  BY <1>2, <1>3 DEF BenchStart, BenchPrepare, To, vars, progVars, Steps
<1>4. CASE BenchSeed(b)
  <2>1. sown' = [sown EXCEPT ![b] = sown[b] + 1] /\ sown[b] + 1 \in Nat
    BY <1>1, <1>4 DEF BenchSeed, SmokeTypes
  <2> QED
    BY <1>4, <2>1 DEF BenchSeed, Steps
<1>5. CASE BenchSeedCommit(b)
  <2>1. \E n \in Nat : turn' = [turn EXCEPT ![b] = n]
    BY <1>5 DEF BenchSeedCommit
  <2> QED
    BY <1>2, <1>5, <2>1 DEF BenchSeedCommit, To, Steps
<1>6. CASE BenchClaim(b) \/ BenchClaimsNone(b)
  <2>1. ClaimIsCalled(b)
    BY <1>6 DEF BenchClaim, BenchClaimsNone
  <2>2. turn' = [turn EXCEPT ![b] = 1] \/ turn' = [turn EXCEPT ![b] = turn[b] + 1]
    BY <2>1 DEF ClaimIsCalled
  <2>3. \E n \in Nat : turn' = [turn EXCEPT ![b] = n]
    BY <1>1, <2>2
  <2> QED
    BY <1>2, <2>1, <2>3 DEF ClaimIsCalled, To, Steps
<1>7. CASE BenchComplete(b)
  <2>1. turn' = [turn EXCEPT ![b] = turn[b] + 1]
    BY <1>7 DEF BenchComplete
  <2>2. UNCHANGED <<cast, phase, sown>> /\ UNCHANGED progVars
    BY <1>7 DEF BenchComplete, progVars
  <2>3. turn[b] + 1 \in Nat
    BY <1>1
  <2>4. \E n \in Nat : turn' = [turn EXCEPT ![b] = n]
    BY <2>1, <2>3, Zenon
  <2> QED
    BY <2>2, <2>4 DEF Steps
<1>8. CASE BenchLeave(b)
  BY <1>1, <1>2, <1>8 DEF BenchLeave, To, vars, progVars, Steps
<1>9. CASE BenchClose(b)
  <2>1. turn[b] \in 1 .. Len(Line[b])
    BY <1>9 DEF BenchClose, BenchFits
  <2>2. CASE To(b, "ended") /\ UNCHANGED turn
    <3>1. \E place \in SmokePlaces : phase' = [phase EXCEPT ![b] = place]
      BY <1>2, <2>2 DEF To
    <3>2. UNCHANGED <<turn, sown, cast>> /\ UNCHANGED progVars
      BY <1>9, <2>2 DEF BenchClose, progVars
    <3> QED
      BY <3>1, <3>2 DEF Steps
  <2>3. CASE turn' = [turn EXCEPT ![b] = @ - 1] /\ UNCHANGED phase
    <3>1. turn' = [turn EXCEPT ![b] = turn[b] - 1] /\ turn[b] - 1 \in Nat
      BY <1>1, <2>1, <2>3
    <3>2. \E n \in Nat : turn' = [turn EXCEPT ![b] = n]
      BY <3>1
    <3>3. UNCHANGED <<phase, sown, cast>> /\ UNCHANGED progVars
      BY <1>9, <2>3 DEF BenchClose, progVars
    <3> QED
      BY <3>2, <3>3 DEF Steps
  <2> QED
    BY <1>9, <2>2, <2>3 DEF BenchClose
<1>10. CASE BenchRaise(b) \/ BenchDie(b)
  BY <1>2, <1>10 DEF BenchRaise, BenchDie, Raise, To, Steps
<1> QED
  BY <1>3, <1>4, <1>5, <1>6, <1>7, <1>8, <1>9, <1>10 DEF BenchProceed

\* A benchmark's step keeps the types.
LEMMA BenchTypesKept ==
    ASSUME ProgTypes, SmokeTypes, NEW b \in Benches, BenchFits(b),
           BenchStart(b) \/ BenchProceed(b) \/ BenchDie(b)
    PROVE  ProgTypes' /\ SmokeTypes'
<1>1. b \in Actors
  BY DEF Actors
<1>2. Steps(b) /\ UNCHANGED progVars
  BY BenchSteps
<1>3. epoch' \in [Jobs -> Nat]
  <2>1. epoch \in [Jobs -> Nat]
    BY DEF ProgTypes
  <2>2. CASE BenchSeedCommit(b)
    BY <2>1, <2>2 DEF BenchSeedCommit
  <2>3. CASE ~BenchSeedCommit(b)
    BY <2>1, <2>3 DEF BenchStart, BenchProceed, BenchDie, BenchPrepare, BenchSeed, BenchClaim, BenchClaimsNone,
           ClaimIsCalled, BenchComplete, BenchRaise, BenchLeave, BenchClose, vars
  <2> QED
    BY <2>2, <2>3
<1>4. ClaimsFit'
  <2>1. CASE BenchClaim(b)
    BY <2>1, BenchClaims DEF BenchClaim, ClaimIsCalled
  <2>2. CASE ~BenchClaim(b)
    <3>1. claims' = claims
      BY <2>2 DEF BenchStart, BenchProceed, BenchDie, BenchPrepare, BenchSeed, BenchSeedCommit, BenchClaimsNone,
             BenchComplete, BenchRaise, BenchLeave, BenchClose, vars
    <3> QED
      BY <3>1 DEF SmokeTypes, ClaimsFit
  <2> QED
    BY <2>1, <2>2
<1>5. ProgTypes'
  BY <1>2, <1>3 DEF ProgTypes, progVars
<1> QED
  BY <1>1, <1>2, <1>4, <1>5, StepTypes

-----------------------------------------------------------------------------
(* What a benchmark does itself.                                           *)

\* A benchmark that commits only what does not run leaves nothing running in its name.
LEMMA OwnMove ==
    ASSUME NEW b \in Benches, NeverNamed(b),
           \/ \E c \in Connections(b) :
                 \/ Writes(c, c)
                 \/ Commit(c) /\ \A j \in Jobs : held[j] = c => draft[j].status # "running"
           \/ RollbackAll(b)
           \/ UNCHANGED queueVars
    PROVE  NeverNamed(b)'
<1> DEFINE Names(j) ==
              /\ job'[j].status = "running" => job'[j].locked_by \notin Connections(b)
              /\ held'[j] # Null /\ held'[j] \notin Connections(b) /\ draft'[j].status = "running" =>
                    draft'[j].locked_by \notin Connections(b)
<1>1. ASSUME NEW j \in Jobs PROVE Names(j)
  <2>1. ASSUME NEW c \in Connections(b), Writes(c, c) PROVE Names(j)
    BY <2>1 DEF Writes, NeverNamed, HeldBy, Running
  <2>2. ASSUME NEW c \in Connections(b), Commit(c), held[j] = c => draft[j].status # "running"
        PROVE  Names(j)
    <3>1. /\ held'[j] = IF held[j] = c THEN Null ELSE held[j]
          /\ job'[j] = IF held[j] = c THEN draft[j] ELSE job[j]
          /\ draft'[j] = draft[j]
      BY <2>2 DEF Commit, EndTransaction
    <3> QED
      BY <2>2, <3>1 DEF NeverNamed, HeldBy, Running
  <2>3. CASE RollbackAll(b)
    <3>1. /\ held'[j] = IF held[j] \in Connections(b) THEN Null ELSE held[j]
          /\ draft'[j] = IF held[j] \in Connections(b) THEN job[j] ELSE draft[j]
          /\ job'[j] = job[j]
      BY <2>3 DEF RollbackAll
    <3> QED
      BY <3>1 DEF NeverNamed, HeldBy, Running
  <2>4. CASE UNCHANGED queueVars
    BY <2>4 DEF queueVars, NeverNamed, HeldBy, Running
  <2> QED
    BY <2>1, <2>2, <2>3, <2>4
<1> QED
  BY <1>1 DEF NeverNamed, HeldBy, Connections, Running

\* It seeds on its first connection, which commits before the first claim.
LEMMA OwnSeeding ==
    ASSUME SmokesTypeOK, NEW b \in Benches, BenchInv(b),
           BenchStart(b) \/ BenchPrepare(b) \/ BenchSeed(b) \/ BenchSeedCommit(b)
    PROVE  BenchInv(b)'
<1>1. /\ b \in Actors /\ phase \in [Actors -> SmokePlaces] /\ turn \in [Actors -> Nat]
      /\ NeverNamed(b) /\ BenchFits(b) /\ Distinct(b)
  BY DEF Actors, SmokesTypeOK, SmokePlaces, Ended, BenchInv
<1>2. Len(Line[b]) \in Nat \ {0} /\ Line[b][1] \in Connections(b) /\ Null \notin Connections(b)
  BY ConnectionsAre
<1>3. claims' = claims
  BY DEF BenchStart, BenchPrepare, BenchSeed, BenchSeedCommit, vars
<1>4. Distinct(b)'
  BY <1>1, <1>3 DEF Distinct, ClaimIndices
<1>5. CASE BenchStart(b) \/ BenchPrepare(b)
  <2>1. /\ phase[b] \in {"ready", "preparing"} /\ phase'[b] \in {"preparing", "seeding"}
        /\ UNCHANGED queueVars
    BY <1>1, <1>5 DEF BenchStart, BenchPrepare, Prepares, To, vars, queueVars
  <2>2. BenchFits(b)'
    BY <1>1, <1>3, <2>1 DEF BenchFits, queueVars, HeldBy, Settled, Connections
  <2> QED
    BY <1>1, <1>4, <2>1, <2>2, OwnMove DEF BenchInv
<1>6. CASE BenchSeed(b)
  <2>1. phase'[b] = "seeding" /\ phase[b] = "seeding"
    BY <1>6 DEF BenchSeed
  <2>2. PICK s : SeedRow(Line[b][1], s)
    BY <1>6 DEF BenchSeed
  <2>3. /\ held' = [j \in Jobs |-> IF j = s THEN Line[b][1] ELSE held[j]]
        /\ draft' = [j \in Jobs |-> IF j = s THEN Seeded ELSE draft[j]]
    BY <2>2 DEF SeedRow, WriteRow, Write
  <2>4. Seeded.status # "running"
    BY DEF Seeded, Fresh
  <2>5. \A j \in Jobs : held'[j] \in Connections(b) =>
           held'[j] = Line[b][1] /\ draft'[j].status # "running"
    BY <1>1, <2>1, <2>3, <2>4 DEF BenchFits, Settled, HeldBy
  <2>6. BenchFits(b)'
    BY <1>1, <1>3, <2>1, <2>5 DEF BenchFits, Settled, HeldBy, Connections
  <2>7. Writes(Line[b][1], Line[b][1])
    BY <1>2, <2>2, StatementWrites, ConnectionsAre DEF SmokesTypeOK, WorkersTypeOK
  <2> QED
    BY <1>1, <1>2, <1>4, <2>6, <2>7, OwnMove DEF BenchInv
<1>7. CASE BenchSeedCommit(b)
  <2>1. phase'[b] = "claiming" /\ phase[b] = "seeding" /\ turn'[b] = 1 /\ Commit(Line[b][1])
    BY <1>1, <1>7 DEF BenchSeedCommit, To
  <2>2. claims[b] = <<>> /\ Settled(b) /\ \A j \in Jobs : HeldBy(b, j) => held[j] = Line[b][1]
    BY <1>1, <2>1 DEF BenchFits
  <2>3. \A j \in Jobs : held'[j] \notin Connections(b)
    BY <1>2, <2>1, <2>2 DEF Commit, EndTransaction, HeldBy
  <2>4. claims'[b] = <<>> /\ Len(claims'[b]) = 0
    BY <1>3, <2>2
  <2>5. ClaimsHeld(b)'
    BY <2>3, <2>4 DEF ClaimsHeld, ClaimIndices, HeldBy, Connections
  <2>6. BenchFits(b)'
    BY <1>2, <2>1, <2>4, <2>5 DEF BenchFits
  <2>7. NeverNamed(b)'
    BY <1>1, <1>2, <2>1, <2>2, OwnMove DEF Settled, HeldBy
  <2> QED
    BY <1>4, <2>6, <2>7 DEF BenchInv
<1> QED
  BY <1>5, <1>6, <1>7

\* What a claim finds is unlocked, so it is none of those it has, and does not run.
LEMMA OwnClaim ==
    ASSUME SmokesTypeOK, NEW b \in Benches, BenchInv(b), BenchClaim(b)
    PROVE  BenchInv(b)'
<1>1. /\ b \in Actors /\ phase \in [Actors -> SmokePlaces] /\ turn \in [Actors -> Nat]
      /\ claims \in [Actors -> Seq(Jobs)] /\ NeverNamed(b) /\ BenchFits(b) /\ Distinct(b)
  BY DEF Actors, SmokesTypeOK, SmokePlaces, Ended, BenchInv
<1>2. Len(Line[b]) \in Nat \ {0} /\ Null \notin Connections(b)
  BY ConnectionsAre
<1>3. phase[b] = "claiming" /\ turn[b] \in 1 .. Len(Line[b]) /\ Conn(b) \in Connections(b)
  BY <1>1, ConnIsOwn DEF BenchClaim, ClaimIsCalled
<1>4. PICK j \in Jobs : /\ ClaimRow(Conn(b), Conn(b), Prefixed[b], j)
                        /\ claims' = [claims EXCEPT ![b] = Append(claims[b], j)]
  BY DEF BenchClaim
<1>5. /\ held[j] = Null /\ job[j].status # "running"
      /\ job' = job /\ held' = [k \in Jobs |-> IF k = j THEN Conn(b) ELSE held[k]]
  <2>1. j \in ClaimChoices(Prefixed[b]) /\ WriteRow(Conn(b), j, Claimed(job[j], Conn(b)))
    BY <1>4 DEF ClaimRow
  <2>2. j \in Unlocked(Prefixed[b]) /\ Claimable(j)
    BY <2>1 DEF ClaimChoices
  <2> QED
    BY <2>1, <2>2 DEF Unlocked, Claimable, WriteRow, Write
<1>6. PICK n \in Nat : n = Len(claims[b])
  BY <1>1
<1>7. /\ claims[b] \in Seq(Jobs) /\ Len(claims'[b]) = n + 1 /\ claims'[b][n + 1] = j
      /\ \A i \in 1 .. n : claims'[b][i] = claims[b][i]
  BY <1>1, <1>4, <1>6
<1>8. ClaimsHeld(b) /\ n < turn[b]
  BY <1>1, <1>3, <1>6 DEF BenchFits
<1>9. ASSUME NEW i \in 1 .. n
      PROVE  /\ claims[b][i] \in Jobs /\ claims[b][i] # j /\ HeldBy(b, claims[b][i])
             /\ job[claims[b][i]].status # "running"
  BY <1>2, <1>5, <1>6, <1>8 DEF ClaimsHeld, ClaimIndices, HeldBy, Running
<1>10. ClaimsHeld(b)'
  <2>1. ASSUME NEW i \in 1 .. n + 1
        PROVE  /\ claims'[b][i] \in Jobs /\ held'[claims'[b][i]] \in Connections(b)
               /\ job'[claims'[b][i]].status # "running"
    <3>1. CASE i = n + 1
      BY <1>3, <1>5, <1>7, <3>1
    <3>2. CASE i \in 1 .. n
      BY <1>5, <1>7, <1>9, <3>2 DEF HeldBy
    <3> QED
      BY <1>6, <3>1, <3>2
  <2>2. ASSUME NEW k \in Jobs, held'[k] \in Connections(b)
        PROVE  \E i \in 1 .. n + 1 : claims'[b][i] = k
    <3>1. CASE k = j
      <4>1. n + 1 \in 1 .. n + 1
        BY <1>6
      <4>2. claims'[b][n + 1] = k
        BY <1>7, <3>1
      <4> QED
        BY <4>1, <4>2, Zenon
    <3>2. CASE k # j
      <4>1. PICK i \in 1 .. n : claims[b][i] = k
        BY <1>5, <1>6, <1>8, <2>2, <3>2 DEF ClaimsHeld, ClaimIndices, HeldBy
      <4>2. i \in 1 .. n + 1 /\ claims'[b][i] = k
        BY <1>6, <1>7, <4>1
      <4> QED
        BY <4>2, Zenon
    <3> QED
      BY <3>1, <3>2
  <2> QED
    BY <1>7, <2>1, <2>2 DEF ClaimsHeld, ClaimIndices, HeldBy, Running, Connections
<1>11. Distinct(b)'
  <2>1. ASSUME NEW i \in 1 .. n + 1, NEW k \in 1 .. n + 1, i # k
        PROVE  claims'[b][i] # claims'[b][k]
    <3>1. CASE i \in 1 .. n /\ k \in 1 .. n
      <4>1. claims[b][i] # claims[b][k]
        BY <1>1, <1>6, <2>1, <3>1 DEF Distinct, ClaimIndices
      <4>2. claims'[b][i] = claims[b][i] /\ claims'[b][k] = claims[b][k]
        BY <1>7, <3>1
      <4> QED
        BY <4>1, <4>2, Zenon
    <3>2. CASE i = n + 1 /\ k \in 1 .. n
      <4>1. claims'[b][k] = claims[b][k] /\ claims[b][k] # j
        BY <1>7, <1>9, <3>2
      <4>2. claims'[b][i] = j
        BY <1>7, <3>2
      <4> QED
        BY <4>1, <4>2
    <3>3. CASE k = n + 1 /\ i \in 1 .. n
      <4>1. claims'[b][i] = claims[b][i] /\ claims[b][i] # j
        BY <1>7, <1>9, <3>3
      <4>2. claims'[b][k] = j
        BY <1>7, <3>3
      <4> QED
        BY <4>1, <4>2
    <3>4. \A m \in 1 .. n + 1 : m \in 1 .. n \/ m = n + 1
      BY <1>6
    <3> QED
      BY <2>1, <3>1, <3>2, <3>3, <3>4
  <2> QED
    BY <1>7, <2>1 DEF Distinct, ClaimIndices
<1>12. BenchFits(b)'
  <2>1. CASE turn[b] = Len(Line[b])
    <3>1. phase'[b] = "completing" /\ turn'[b] = 1
      BY <1>1, <2>1 DEF BenchClaim, ClaimIsCalled, To
    <3> QED
      BY <1>10, <3>1 DEF BenchFits, ClaimIndices
  <2>2. CASE turn[b] # Len(Line[b])
    <3>1. phase'[b] = "claiming" /\ turn'[b] = turn[b] + 1
      BY <1>1, <1>3, <2>2 DEF BenchClaim, ClaimIsCalled
    <3>2. turn'[b] \in 1 .. Len(Line[b]) /\ n + 1 < turn'[b]
      BY <1>2, <1>3, <1>6, <1>8, <2>2, <3>1
    <3> QED
      BY <1>7, <1>10, <3>1, <3>2 DEF BenchFits
  <2> QED
    BY <2>1, <2>2
<1>13. NeverNamed(b)'
  <2>1. Writes(Conn(b), Conn(b))
    BY <1>3, <1>4, StatementWrites, ConnectionsAre DEF SmokesTypeOK, WorkersTypeOK, Actors
  <2> QED
    BY <1>1, <1>3, <2>1, OwnMove
<1> QED
  BY <1>11, <1>12, <1>13 DEF BenchInv

\* A claim that finds nothing adds nothing.
LEMMA OwnMiss ==
    ASSUME SmokesTypeOK, NEW b \in Benches, BenchInv(b), BenchClaimsNone(b)
    PROVE  BenchInv(b)'
<1>1. /\ b \in Actors /\ phase \in [Actors -> SmokePlaces] /\ turn \in [Actors -> Nat]
      /\ claims[b] \in Seq(Jobs) /\ NeverNamed(b) /\ BenchFits(b) /\ Distinct(b)
  BY DEF Actors, SmokesTypeOK, SmokePlaces, Ended, BenchInv
<1>2. UNCHANGED queueVars /\ claims' = claims
  BY DEF BenchClaimsNone
<1>3. Distinct(b)' /\ NeverNamed(b)'
  BY <1>1, <1>2, OwnMove DEF Distinct, ClaimIndices
<1>4. phase[b] = "claiming" /\ turn[b] \in 1 .. Len(Line[b])
  BY <1>1 DEF BenchClaimsNone, ClaimIsCalled, BenchFits
<1>5. Len(Line[b]) \in Nat /\ Len(claims[b]) \in Nat
  BY <1>1, ConnectionsAre
<1>6. ClaimsHeld(b)' /\ Len(claims[b]) < turn[b]
  BY <1>1, <1>2, <1>4 DEF BenchFits, ClaimsHeld, ClaimIndices, HeldBy, Connections, Running, queueVars
<1>7. CASE turn[b] = Len(Line[b])
  <2>1. phase'[b] = "completing" /\ turn'[b] = 1
    BY <1>1, <1>7 DEF BenchClaimsNone, ClaimIsCalled, To
  <2> QED
    BY <1>3, <1>6, <2>1 DEF BenchInv, BenchFits, ClaimIndices
<1>8. CASE turn[b] # Len(Line[b])
  <2>1. phase'[b] = "claiming" /\ turn'[b] = turn[b] + 1
    BY <1>1, <1>4, <1>8 DEF BenchClaimsNone, ClaimIsCalled
  <2>2. turn'[b] \in 1 .. Len(Line[b]) /\ Len(claims'[b]) < turn'[b]
    BY <1>2, <1>4, <1>5, <1>6, <1>8, <2>1
  <2> QED
    BY <1>3, <1>6, <2>1, <2>2 DEF BenchInv, BenchFits
<1> QED
  BY <1>7, <1>8

\* What it completes is locked by the cursor it completes with.
LEMMA OwnCompletion ==
    ASSUME SmokesTypeOK, NEW b \in Benches, BenchInv(b), BenchComplete(b)
    PROVE  BenchInv(b)'
<1>1. /\ b \in Actors /\ turn \in [Actors -> Nat] /\ claims[b] \in Seq(Jobs)
      /\ NeverNamed(b) /\ BenchFits(b) /\ Distinct(b) /\ Null \notin Connections(b)
  BY ConnectionsAre DEF Actors, SmokesTypeOK, BenchInv
<1>2. Conn(b) \in Connections(b) /\ phase[b] = "completing" /\ turn[b] \in Nat \ {0}
  BY <1>1, ConnIsOwn DEF BenchComplete, ClaimLeft, BenchFits
<1>3. /\ phase'[b] = "completing" /\ turn'[b] = turn[b] + 1 /\ claims' = claims
      /\ turn[b] \in ClaimIndices(b)
  BY <1>1, <1>2 DEF BenchComplete, ClaimLeft, ClaimIndices
<1>4. PICK j : j = claims[b][turn[b]]
  OBVIOUS
<1>6. ClaimsHeld(b)
  BY <1>1, <1>2 DEF BenchFits
<1>5. Rewrite(Conn(b), j, Completed(draft[j]))
  <2>1. \/ Rewrite(Conn(b), j, Completed(draft[j]))
        \/ WriteRow(Conn(b), j, Completed(job[j]))
    BY <1>4 DEF BenchComplete
  <2>2. j \in Jobs /\ held[j] # Null
    BY <1>1, <1>3, <1>4, <1>6 DEF ClaimsHeld, HeldBy
  <2> QED
    BY <2>1, <2>2, WriteRowFree
<1>7. j \in Jobs /\ held[j] = Conn(b)
  BY <1>3, <1>4, <1>5, <1>6 DEF ClaimsHeld, Rewrite
<1>8. draft[j] \in Row /\ Completed(draft[j]) \in Row /\ Completed(draft[j]).status = "completed"
  BY <1>7, WrittenRows, AgesAreNumbers DEF SmokesTypeOK, WorkersTypeOK, TypeOK
<1>9. /\ job' = job /\ \A k \in Jobs : held'[k] = held[k]
      /\ \A k \in Jobs : draft'[k] = IF k = j THEN Completed(draft[j]) ELSE draft[k]
  BY <1>5, <1>7 DEF Rewrite, SmokesTypeOK, WorkersTypeOK, TypeOK
<1>10. ClaimsHeld(b)'
  <2>1. \A i \in ClaimIndices(b) :
           /\ claims[b][i] \in Jobs /\ held'[claims[b][i]] \in Connections(b)
           /\ job'[claims[b][i]].status # "running"
    BY <1>6, <1>9 DEF ClaimsHeld, HeldBy, Running
  <2>2. \A k \in Jobs : held'[k] \in Connections(b) => \E i \in ClaimIndices(b) : claims[b][i] = k
    BY <1>6, <1>9 DEF ClaimsHeld, HeldBy
  <2> QED
    BY <1>3, <2>1, <2>2 DEF ClaimsHeld, ClaimIndices, HeldBy, Running, Connections
<1>11. ASSUME NEW i \in ClaimIndices(b), i < turn[b] + 1
       PROVE  draft'[claims[b][i]].status # "running"
  <2>1. claims[b][i] \in Jobs
    BY <1>6 DEF ClaimsHeld
  <2>2. CASE claims[b][i] = j
    BY <1>8, <1>9, <2>1, <2>2
  <2>3. CASE claims[b][i] # j
    <3>1. i \in Nat /\ i # turn[b]
      BY <1>4, <2>3 DEF ClaimIndices
    <3>2. i < turn[b]
      BY <1>2, <1>11, <3>1
    <3>3. draft[claims[b][i]].status # "running"
      BY <1>1, <1>2, <3>2 DEF BenchFits
    <3> QED
      BY <1>9, <2>1, <2>3, <3>3
  <2> QED
    BY <2>2, <2>3
<1>12. BenchFits(b)'
  <2>1. turn'[b] \in Nat \ {0} /\ ClaimIndices(b)' = ClaimIndices(b)
    BY <1>2, <1>3 DEF ClaimIndices
  <2>2. \A i \in ClaimIndices(b) : i < turn'[b] => draft'[claims'[b][i]].status # "running"
    BY <1>3, <1>11
  <2> QED
    BY <1>3, <1>10, <2>1, <2>2 DEF BenchFits
<1>13. NeverNamed(b)'
  <2>1. held' = held /\ DOMAIN held = Jobs /\ draft' = [k \in Jobs |-> draft'[k]]
    BY <1>5 DEF Rewrite, SmokesTypeOK, WorkersTypeOK, TypeOK
  <2>2. Writes(Conn(b), Conn(b))
    BY <1>7, <1>8, <1>9, <2>1 DEF Writes, SmokesTypeOK, WorkersTypeOK, TypeOK
  <2> QED
    BY <1>1, <1>2, <2>2, OwnMove
<1>14. Distinct(b)'
  BY <1>1, <1>3 DEF Distinct, ClaimIndices
<1> QED
  BY <1>12, <1>13, <1>14 DEF BenchInv

\* When the last claim is completed nothing it has locked runs, and the commits come.
LEMMA OwnEnd ==
    ASSUME SmokesTypeOK, NEW b \in Benches, BenchInv(b),
           BenchRaise(b) \/ BenchLeave(b) \/ BenchClose(b) \/ BenchDie(b)
    PROVE  BenchInv(b)'
<1>1. /\ b \in Actors /\ phase \in [Actors -> SmokePlaces] /\ turn \in [Actors -> Nat]
      /\ claims[b] \in Seq(Jobs) /\ NeverNamed(b) /\ BenchFits(b) /\ Distinct(b)
  BY DEF Actors, SmokesTypeOK, SmokePlaces, Ended, BenchInv
<1>2. Len(Line[b]) \in Nat \ {0} /\ Len(claims[b]) \in Nat /\ Null \notin Connections(b)
  BY <1>1, ConnectionsAre
<1>3. Distinct(b)'
  <2>1. claims' = claims
    BY DEF BenchRaise, BenchLeave, BenchClose, BenchDie, vars
  <2> QED
    BY <1>1, <2>1 DEF Distinct, ClaimIndices
<1>4. CASE BenchRaise(b) \/ BenchDie(b)
  <2>1. phase'[b] = "raised" /\ RollbackAll(b)
    BY <1>1, <1>4 DEF BenchRaise, BenchDie, Raise, To
  <2> QED
    BY <1>1, <1>3, <2>1, OwnMove DEF BenchInv, BenchFits
<1>5. CASE BenchLeave(b)
  <2>1. /\ phase[b] = "completing" /\ turn[b] > Len(claims[b]) /\ UNCHANGED queueVars
        /\ phase'[b] = "closing" /\ turn'[b] = Len(Line[b])
    BY <1>1, <1>5 DEF BenchLeave, To, vars, queueVars
  <2>2. ASSUME NEW j \in Jobs, HeldBy(b, j)
        PROVE  draft[j].status # "running"
    <3>1. PICK i \in ClaimIndices(b) : claims[b][i] = j
      BY <1>1, <2>1, <2>2 DEF BenchFits, ClaimsHeld
    <3>2. i < turn[b]
      BY <1>1, <1>2, <2>1 DEF ClaimIndices
    <3> QED
      BY <1>1, <2>1, <3>1, <3>2 DEF BenchFits
  <2>3. Settled(b)'
    BY <2>1, <2>2 DEF Settled, HeldBy, Connections, queueVars
  <2>4. BenchFits(b)'
    BY <1>2, <2>1, <2>3 DEF BenchFits
  <2> QED
    BY <1>1, <1>3, <2>1, <2>4, OwnMove DEF BenchInv
<1>6. CASE BenchClose(b)
  <2>1. /\ phase[b] = "closing" /\ turn[b] \in 1 .. Len(Line[b]) /\ Settled(b)
        /\ Conn(b) \in Connections(b)
    BY <1>1, <1>6, ConnIsOwn DEF BenchClose, BenchFits
  <2>2. Commit(Conn(b)) \/ UNCHANGED queueVars
    BY <1>6 DEF BenchClose
  <2>3. NeverNamed(b)'
    <3>1. \A j \in Jobs : held[j] = Conn(b) => draft[j].status # "running"
      BY <2>1 DEF Settled, HeldBy
    <3> HIDE DEF Conn
    <3> QED
      BY <1>1, <2>1, <2>2, <3>1, OwnMove
  <2>4. \A j \in Jobs : draft'[j] = draft[j] /\ held'[j] \in {held[j], Null}
    BY <2>2 DEF Commit, EndTransaction, queueVars
  <2>5. Settled(b)'
    BY <1>2, <2>1, <2>4 DEF Settled, HeldBy, Connections
  <2>6. BenchFits(b)'
    <3>1. CASE turn[b] = 1
      <4>1. phase'[b] = "ended"
        BY <1>1, <1>6, <3>1 DEF BenchClose, To
      <4> QED
        BY <4>1 DEF BenchFits
    <3>2. CASE turn[b] # 1
      <4>1. phase'[b] = "closing" /\ turn'[b] = turn[b] - 1
        BY <1>1, <1>6, <2>1, <3>2 DEF BenchClose
      <4>2. turn'[b] \in 1 .. Len(Line[b])
        BY <1>2, <2>1, <3>2, <4>1
      <4> QED
        BY <2>5, <4>1, <4>2 DEF BenchFits
    <3> QED
      BY <3>1, <3>2
  <2> QED
    BY <1>3, <2>3, <2>6 DEF BenchInv
<1> QED
  BY <1>4, <1>5, <1>6

-----------------------------------------------------------------------------
(* The invariant.                                                          *)

\* The types, taken apart.
LEMMA TypesApart ==
    SmokesTypeOK /\ RunsBelow <=> TypeOK /\ ProgTypes /\ SmokeTypes
BY DEF RunsBelow, SmokesTypeOK, WorkersTypeOK, ProgTypes, SmokeTypes, ClaimsFit, SmokePlaces, Ended

\* And put together again after a step.
LEMMA InvTogether ==
    ASSUME TypeOK', ProgTypes', SmokeTypes', \A b \in Benches : BenchInv(b)'
    PROVE  SmokesInv'
<1>1. SmokesTypeOK' /\ RunsBelow'
  BY DEF RunsBelow, SmokesTypeOK, WorkersTypeOK, ProgTypes, SmokeTypes, ClaimsFit, SmokePlaces, Ended
<1> QED
  BY <1>1 DEF SmokesInv

\* A smoke or benchmark keeps count of itself only.
LEMMA OthersStay ==
    ASSUME SmokeTypes, NEW a \in Actors, Steps(a), NEW b \in Benches, a # b,
           claims' = claims \/ \E q : claims' = [claims EXCEPT ![a] = q]
    PROVE  phase'[b] = phase[b] /\ turn'[b] = turn[b] /\ claims'[b] = claims[b]
<1>1. b \in Actors
  BY DEF Actors
<1>2. phase'[b] = phase[b] /\ turn'[b] = turn[b]
  BY <1>1 DEF Steps, SmokeTypes
<1>3. claims'[b] = claims[b]
  BY <1>1 DEF SmokeTypes, ClaimsFit
<1> QED
  BY <1>2, <1>3

\* A step of a worker, or of the clock.
LEMMA WorkersStep ==
    ASSUME SmokesInv, UNCHANGED smokeVars,
           \/ \E w \in Workers : Proceed(w) \/ Disturb(w)
           \/ TickWorkers
    PROVE  SmokesInv'
<1>1. TypeOK /\ ProgTypes /\ SmokeTypes /\ \A b \in Benches : BenchInv(b)
  BY TypesApart DEF SmokesInv
<1>2. SmokeTypes' /\ UNCHANGED <<phase, turn, claims>>
  BY <1>1 DEF smokeVars, SmokeTypes, ClaimsFit
<1>3. ASSUME NEW b \in Benches, Spared(b), NeverNamed(b)'
      PROVE  BenchInv(b)'
  BY <1>1, <1>2, <1>3, SparedFits DEF BenchInv
<1>4. ASSUME NEW w \in Workers, Proceed(w) \/ Disturb(w)
      PROVE  SmokesInv'
  <2>1. Moves(w, IdOf[w]) /\ ProgTypes'
    BY <1>1, <1>4, WorkerMoves, WorkerTypes
  <2>2. TypeOK'
    BY <1>1, <2>1, MoveTypes
  <2>3. ASSUME NEW b \in Benches PROVE BenchInv(b)'
    <3>1. w \notin Connections(b) \cup {Null} /\ IdOf[w] \notin Connections(b)
      OBVIOUS
    <3>2. Spared(b) /\ NeverNamed(b)'
      BY <1>1, <2>1, <3>1, ForeignMove DEF BenchInv
    <3> QED
      BY <1>3, <3>2
  <2> QED
    BY <1>2, <2>1, <2>2, <2>3, InvTogether
<1>6. CASE TickWorkers
  <2>1. Tick /\ ProgTypes'
    BY <1>1, <1>6 DEF TickWorkers, progVars, ProgTypes
  <2>2. TypeOK'
    BY <1>1, <2>1, OtherMoveTypes
  <2>3. ASSUME NEW b \in Benches PROVE BenchInv(b)'
    <3>1. Spared(b) /\ NeverNamed(b)'
      BY <1>1, <2>1, TickSpares DEF BenchInv
    <3> QED
      BY <1>3, <3>1
  <2> QED
    BY <1>2, <2>1, <2>2, <2>3, InvTogether
<1> QED
  BY <1>4, <1>6

\* A step of a smoke.
LEMMA SmokeStep ==
    ASSUME SmokesInv, NEW s \in Smokes, SmokeStart(s) \/ SmokeProceed(s) \/ SmokeDie(s)
    PROVE  SmokesInv'
<1>1. TypeOK /\ ProgTypes /\ SmokeTypes /\ \A b \in Benches : BenchInv(b)
  BY TypesApart DEF SmokesInv
<1>2. Moves(s, s) /\ ProgTypes' /\ SmokeTypes' /\ Steps(s)
  BY <1>1, SmokeMoves, SmokeTypesKept
<1>3. TypeOK'
  BY <1>1, <1>2, MoveTypes
<1>4. claims' = claims \/ \E q : claims' = [claims EXCEPT ![s] = q]
  BY DEF SmokeStart, SmokeProceed, SmokePrepare, SmokeSeed, SmokeAct, smokeVars, SmokeCommit, SmokeMiss, SmokeDie
<1>5. ASSUME NEW b \in Benches PROVE BenchInv(b)'
  <2>1. /\ s \in Actors /\ s # b
        /\ s \notin Connections(b) \cup {Null} /\ s \notin Connections(b)
    BY DEF Actors
  <2>2. Spared(b) /\ NeverNamed(b)'
    BY <1>1, <1>2, <2>1, ForeignMove DEF BenchInv
  <2>3. phase'[b] = phase[b] /\ turn'[b] = turn[b] /\ claims'[b] = claims[b]
    BY <1>1, <1>2, <1>4, <2>1, OthersStay
  <2> QED
    BY <1>1, <2>2, <2>3, SparedFits DEF BenchInv
<1> QED
  BY <1>2, <1>3, <1>5, InvTogether

\* A step of a benchmark: its own, and what it is to the other benchmarks.
LEMMA BenchStep ==
    ASSUME SmokesInv, NEW a \in Benches, BenchStart(a) \/ BenchProceed(a) \/ BenchDie(a)
    PROVE  SmokesInv'
<1>1. /\ SmokesTypeOK /\ TypeOK /\ ProgTypes /\ SmokeTypes
      /\ \A b \in Benches : BenchInv(b)
  BY TypesApart DEF SmokesInv
<1>2. BenchFits(a) /\ a \in Actors
  BY <1>1 DEF BenchInv, Actors
<1>3. ProgTypes' /\ SmokeTypes' /\ Steps(a)
  BY <1>1, <1>2, BenchTypesKept, BenchSteps
<1>4. RollbackAll(a) \/ \E c \in Connections(a) : Moves(c, c)
  BY <1>1, <1>2, BenchMoves
<1>5. TypeOK'
  <2>1. Connections(a) \subseteq Clients
    BY ConnectionsAre
  <2> QED
    BY <1>1, <1>4, <2>1, MoveTypes, OtherMoveTypes
<1>6. claims' = claims \/ \E q : claims' = [claims EXCEPT ![a] = q]
  BY DEF BenchStart, BenchProceed, BenchDie, BenchPrepare, BenchSeed, BenchSeedCommit, BenchClaim,
     BenchClaimsNone, BenchComplete, BenchRaise, BenchLeave, BenchClose, vars
<1>7. BenchInv(a)'
  BY <1>1, OwnSeeding, OwnClaim, OwnMiss, OwnCompletion, OwnEnd DEF BenchProceed
<1>8. ASSUME NEW b \in Benches, b # a PROVE BenchInv(b)'
  <2>1. Spared(b) /\ NeverNamed(b)'
    <3>1. CASE RollbackAll(a)
      BY <1>1, <1>8, <3>1, ForeignRollback DEF BenchInv
    <3>2. ASSUME NEW c \in Connections(a), Moves(c, c)
          PROVE  Spared(b) /\ NeverNamed(b)'
      <4>1. c \notin Connections(b) \cup {Null} /\ c \notin Connections(b)
        BY <1>8, ConnectionsAre
      <4> QED
        BY <1>1, <3>2, <4>1, ForeignMove DEF BenchInv
    <3> QED
      BY <1>4, <3>1, <3>2
  <2>2. phase'[b] = phase[b] /\ turn'[b] = turn[b] /\ claims'[b] = claims[b]
    BY <1>1, <1>2, <1>3, <1>6, <1>8, OthersStay
  <2> QED
    BY <1>1, <2>1, <2>2, SparedFits DEF BenchInv
<1> QED
  BY <1>3, <1>5, <1>7, <1>8, InvTogether

\* At the start nothing is locked and nothing is claimed.
LEMMA SmokesInitInv == SmokesInit => SmokesInv
<1> SUFFICES ASSUME SmokesInit PROVE SmokesInv
  OBVIOUS
<1>1. TypeOK
  BY InitInv DEF SmokesInit, WorkersInit, Inv
<1>2. ProgTypes
  BY CapsAreNumbers DEF SmokesInit, WorkersInit, ProgTypes, Places, Stopped, Below
<1>3. SmokeTypes
  <2>1. <<>> \in Seq(Jobs) /\ Len(<<>>) = 0
    OBVIOUS
  <2>2. \A a \in Actors : claims[a] = <<>> /\ phase[a] = "ready"
    BY DEF SmokesInit
  <2>3. ClaimsFit
    BY <2>1, <2>2, ConnectionsAre DEF SmokesInit, ClaimsFit, Actors
  <2> QED
    BY <2>3 DEF SmokesInit, SmokeTypes, SmokePlaces, Ended
<1>4. ASSUME NEW b \in Benches PROVE BenchInv(b)
  <2>1. b \in Actors /\ phase[b] = "ready" /\ claims[b] = <<>> /\ Null \notin Connections(b)
    BY ConnectionsAre DEF Actors, SmokesInit
  <2>2. \A j \in Jobs : held[j] = Null /\ job[j].status = "absent"
    BY DEF SmokesInit, WorkersInit, Init, Absent, Fresh
  <2>3. NeverNamed(b) /\ BenchFits(b)
    BY <2>1, <2>2 DEF NeverNamed, BenchFits, HeldBy, Running
  <2>4. Distinct(b)
    BY <2>1 DEF Distinct, ClaimIndices
  <2> QED
    BY <2>3, <2>4 DEF BenchInv
<1> QED
  BY <1>1, <1>2, <1>3, <1>4, TypesApart DEF SmokesInv

\* The invariant is inductive.
LEMMA SmokesNextInv == SmokesInv /\ [SmokesNext]_allVars => SmokesInv'
<1> SUFFICES ASSUME SmokesInv, [SmokesNext]_allVars PROVE SmokesInv'
  OBVIOUS
<1>1. CASE \/ \E w \in Workers \cap cast : Beside((LetThrough(w) /\ Proceed(w)) \/ Disturb(w))
           \/ Beside(TickWorkers)
  BY <1>1, WorkersStep DEF Beside
<1>2. CASE \E s \in Smokes \cap cast : SmokeStart(s) \/ SmokeProceed(s) \/ SmokeDie(s)
  BY <1>2, SmokeStep
<1>3. CASE \E b \in Benches \cap cast : BenchStart(b) \/ BenchProceed(b) \/ BenchDie(b)
  BY <1>3, BenchStep
<1>4. CASE UNCHANGED allVars
  <2>1. UNCHANGED vars /\ UNCHANGED smokeVars
    BY <1>4 DEF allVars
  <2>2. /\ UNCHANGED <<job, held, draft>> /\ UNCHANGED <<pc, ticket, seeded, runs, starts, epoch>>
        /\ UNCHANGED <<cast, phase, turn, sown, claims>>
    BY <2>1 DEF vars, smokeVars
  <2>3. (TypeOK /\ ProgTypes /\ SmokeTypes)'
    BY <2>2, TypesApart DEF SmokesInv, TypeOK, Row, ProgTypes, SmokeTypes, ClaimsFit
  <2>4. ASSUME NEW b \in Benches PROVE BenchInv(b)'
    <3>1. NeverNamed(b)'
      BY <2>2, OwnMove DEF SmokesInv, BenchInv, queueVars
    <3>2. Spared(b)
      BY <2>2 DEF Spared, HeldBy
    <3> QED
      BY <2>2, <3>1, <3>2, SparedFits DEF SmokesInv, BenchInv
  <2> QED
    BY <2>3, <2>4, InvTogether
<1> QED
  BY <1>1, <1>2, <1>3, <1>4 DEF SmokesNext

\* Whatever workers, smokes and other benchmarks run beside it, the rows a
\* benchmark has locked are those it has claimed, and nobody sees one of them run.
THEOREM SmokesInvariance == SmokesSpec => []SmokesInv
<1>1. SmokesInit => SmokesInv
  BY SmokesInitInv
<1>2. SmokesInv /\ [SmokesNext]_allVars => SmokesInv'
  BY SmokesNextInv
<1> QED
  BY <1>1, <1>2, PTL DEF SmokesSpec

\* Every variable of the smokes, the benchmarks and the processes beside them has its type.
THEOREM SmokesTypeCorrect == SmokesSpec => []SmokesTypeOK
<1>1. SmokesInv => SmokesTypeOK
  BY DEF SmokesInv
<1> QED
  BY <1>1, SmokesInvariance, PTL

\* duplicate_claim_count is 0, for every number of connections, jobs and bystanders.
THEOREM BenchClaimsStayDistinct == SmokesSpec => []BenchClaimsDistinct
<1>1. SmokesInv => BenchClaimsDistinct
  BY DEF SmokesInv, BenchInv, Distinct, ClaimIndices, BenchClaimsDistinct
<1> QED
  BY <1>1, SmokesInvariance, PTL

\* A benchmark never leaves a job running, wherever it stops.
THEOREM BenchNeverLeavesRunning == SmokesSpec => []BenchNeverRuns
<1>1. SmokesInv => BenchNeverRuns
  BY DEF SmokesInv, BenchInv, NeverNamed, BenchNeverRuns
<1> QED
  BY <1>1, SmokesInvariance, PTL
=============================================================================
