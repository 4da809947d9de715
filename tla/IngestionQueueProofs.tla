------------------------ MODULE IngestionQueueProofs ------------------------
(***************************************************************************)
(* The queue's safety properties, for every set of jobs, clients and       *)
(* worker ids and every timeout.                                           *)
(*                                                                         *)
(* The properties speak of committed rows, but what a commit installs was  *)
(* written by an earlier step.  The inductive invariant therefore asks of  *)
(* every draft what it asks of every committed row, and that a draft still *)
(* follows from the row it will replace (DraftsFollow), which the row      *)
(* locks see to.                                                           *)
(***************************************************************************)
EXTENDS IngestionQueue, TLAPS

USE PriorityAssumption, MaxAttemptsAssumption, TimeoutAssumption,
    RetryDelaysAssumption, LimitsAssumption, NullAssumption
    DEF PriorityAssumption, MaxAttemptsAssumption, TimeoutAssumption,
    RetryDelaysAssumption, LimitsAssumption, NullAssumption

\* How a statement may change a row: seed it, claim it, end its run, or touch
\* its lock.
Follows(r, d) ==
    \/ d = Seeded
    \/ /\ r.status \in {"available", "failed"}
       /\ d.status = "running"
       /\ d.attempts = r.attempts + 1
    \/ /\ r.status = "running"
       /\ d.status \in {"running", "completed", "failed", "dead_letter"}
       /\ d.attempts = r.attempts

\* What an open transaction will commit follows from the version that is still
\* committed; an unlocked row has nothing pending.
DraftsFollow ==
    \A j \in Jobs : IF held[j] = Null THEN draft[j] = job[j]
                                      ELSE Follows(job[j], draft[j])

RowSound(j, r) == RowAgrees(j, r) /\ Lossless(j, r)

RowsSound == \A j \in Jobs : RowSound(j, job[j]) /\ RowSound(j, draft[j])

Inv == TypeOK /\ RowsSound /\ DraftsFollow

-----------------------------------------------------------------------------
(* What each statement writes, one lemma per kind of write.                *)

\* A row as its seeding writes it is sound, whatever it was.
LEMMA SeededRow ==
    ASSUME NEW j \in Jobs
    PROVE  Seeded \in Row /\ RowSound(j, Seeded)
BY DEF Seeded, Fresh, Row, Statuses, RowSound, RowAgrees, Lossless

\* The row no seeding has inserted is sound.
LEMMA AbsentRow ==
    ASSUME NEW j \in Jobs
    PROVE  Absent \in Row /\ RowSound(j, Absent)
BY DEF Absent, Fresh, Row, Statuses, RowSound, RowAgrees, Lossless

\* Every lock age is a number, so none is NULL.
LEMMA AgesAreNumbers == LockAges \subseteq Nat /\ Null \notin LockAges /\ 0 \in LockAges
BY DEF LockAges

\* Claiming a claimable row keeps it sound and counts one attempt.
LEMMA ClaimedRow ==
    ASSUME NEW j \in Jobs, NEW r \in Row, RowSound(j, r), NEW id \in WorkerIds,
           r.status \in {"available", "failed"}, r.attempts < MaxAttempts[j],
           r.due_in = 0
    PROVE  /\ Claimed(r, id) \in Row
           /\ RowSound(j, Claimed(r, id))
           /\ Follows(r, Claimed(r, id))
<1>1. r.attempts \in Nat /\ MaxAttempts[j] \in Nat /\ id # Null
  BY DEF Row
<1>2. Claimed(r, id) \in Row
  <2> DEFINE next == r.attempts + 1
  <2>1. next \in Nat
    BY <1>1
  <2>2. Claimed(r, id) = [r EXCEPT !.status = "running", !.attempts = next,
                                   !.locked_by = id, !.lock_age = 0]
    BY DEF Claimed
  <2> HIDE DEF next
  <2> QED
    BY AgesAreNumbers, <2>1, <2>2 DEF Row, Statuses
<1>3. RowSound(j, Claimed(r, id)) /\ Follows(r, Claimed(r, id))
  BY AgesAreNumbers, <1>1 DEF Claimed, Row, RowSound, RowAgrees, Lossless, Follows
<1> QED
  BY <1>2, <1>3

\* Completing a running row keeps it sound.
LEMMA CompletedRow ==
    ASSUME NEW j \in Jobs, NEW r \in Row, RowSound(j, r), r.status = "running"
    PROVE  /\ Completed(r) \in Row
           /\ RowSound(j, Completed(r))
           /\ Follows(r, Completed(r))
BY DEF Completed, Row, Statuses, RowSound, RowAgrees, Lossless, Follows

\* Releasing a running row buries it exactly when its attempts are spent.
LEMMA ReleasedRow ==
    ASSUME NEW j \in Jobs, NEW r \in Row, RowSound(j, r), r.status = "running",
           NEW delay \in Nat
    PROVE  /\ Released(j, r, delay) \in Row
           /\ RowSound(j, Released(j, r, delay))
           /\ Follows(r, Released(j, r, delay))
<1>1. r.attempts \in Nat /\ r.due_in \in Nat /\ MaxAttempts[j] \in Nat
  BY DEF Row
<1>2. CASE Spent(j, r)
  <2>1. Released(j, r, delay) \in Row
    BY <1>1, <1>2 DEF Released, Row, Statuses
  <2>2. r.attempts = MaxAttempts[j]
    BY <1>1, <1>2 DEF Spent, RowSound, RowAgrees
  <2> QED
    BY <1>1, <1>2, <2>1, <2>2 DEF Released, Row, RowSound, RowAgrees, Lossless, Follows
<1>3. CASE ~Spent(j, r)
  <2>1. Released(j, r, delay) \in Row
    BY <1>1, <1>3 DEF Released, Row, Statuses
  <2>2. r.attempts < MaxAttempts[j]
    BY <1>1, <1>3 DEF Spent
  <2> QED
    BY <1>1, <1>3, <2>1, <2>2 DEF Released, Row, RowSound, RowAgrees, Lossless, Follows
<1> QED
  BY <1>2, <1>3

\* Touching the lock of a running row keeps it sound.
LEMMA RelockedRow ==
    ASSUME NEW j \in Jobs, NEW r \in Row, RowSound(j, r), r.status = "running",
           NEW age \in LockAges
    PROVE  /\ Relocked(r, age) \in Row
           /\ RowSound(j, Relocked(r, age))
           /\ Follows(r, Relocked(r, age))
BY AgesAreNumbers DEF Relocked, Row, Statuses, RowSound, RowAgrees, Lossless, Follows

\* Time changes nothing but the ages.
LEMMA AgedRow ==
    ASSUME NEW r \in Row
    PROVE  /\ Aged(r) \in Row
           /\ Aged(r).status = r.status
           /\ Aged(r).attempts = r.attempts
           /\ Aged(r).locked_by = r.locked_by
           /\ Aged(r).completed_at = r.completed_at
           /\ Aged(r).lock_age = Null <=> r.lock_age = Null
           /\ r.due_in = 0 => Aged(r).due_in = 0
           /\ r.lock_age = Null /\ r.due_in = 0 => Aged(r) = r
<1> DEFINE age == IF r.lock_age \in {Null, Timeout + 1} THEN r.lock_age ELSE r.lock_age + 1
           due == IF r.due_in = 0 THEN 0 ELSE r.due_in - 1
<1>1. age \in LockAges \cup {Null} /\ (age = Null <=> r.lock_age = Null)
  <2>1. CASE r.lock_age = Null
    BY <2>1
  <2>2. CASE r.lock_age \in LockAges /\ r.lock_age = Timeout + 1
    BY <2>2, AgesAreNumbers
  <2>3. CASE r.lock_age \in LockAges /\ r.lock_age # Timeout + 1
    <3>1. r.lock_age + 1 \in LockAges
      BY <2>3 DEF LockAges
    <3> QED
      BY <2>3, <3>1, AgesAreNumbers
  <2> QED
    BY <2>1, <2>2, <2>3 DEF Row
<1>2. due \in Nat /\ (r.due_in = 0 => due = 0)
  BY DEF Row
<1>3. r.lock_age = Null => age = r.lock_age
  OBVIOUS
<1>4. Aged(r) = [r EXCEPT !.lock_age = age, !.due_in = due]
  BY DEF Aged
<1> HIDE DEF age, due
<1> QED
  BY <1>1, <1>2, <1>3, <1>4 DEF Row

\* Only an unlocked row is written.
LEMMA WriteRowFree ==
    ASSUME NEW c, NEW j \in Jobs, NEW d, WriteRow(c, j, d)
    PROVE  held[j] = Null
<1> DEFINE new == [k \in {j} |-> d]
<1>1. j \in DOMAIN new
  OBVIOUS
<1>2. Write(c, new)
  BY DEF WriteRow
<1> HIDE DEF new
<1> QED
  BY <1>1, <1>2 DEF Write

-----------------------------------------------------------------------------
(* The invariant.                                                          *)

\* Both versions of every row start absent.
LEMMA InitInv == Init => Inv
BY AbsentRow DEF Init, Inv, TypeOK, RowsSound, DraftsFollow

\* A statement that writes sound successors of the committed versions of its rows
\* keeps the invariant.
LEMMA WriteInv ==
    ASSUME Inv, NEW c \in Clients, NEW K \in SUBSET Jobs, NEW new,
           DOMAIN new = K,
           \A j \in K : /\ new[j] \in Row
                        /\ RowSound(j, new[j])
                        /\ Follows(job[j], new[j]),
           Write(c, new)
    PROVE  Inv'
<1>1. TypeOK'
  BY DEF Inv, TypeOK, Write
<1>2. RowsSound'
  BY DEF Inv, TypeOK, RowsSound, Write
<1>3. DraftsFollow'
  BY DEF Inv, TypeOK, DraftsFollow, Write
<1> QED
  BY <1>1, <1>2, <1>3 DEF Inv

\* The same for a statement that writes one row.
LEMMA WriteRowInv ==
    ASSUME Inv, NEW c \in Clients, NEW j \in Jobs, NEW d \in Row,
           RowSound(j, d), Follows(job[j], d),
           WriteRow(c, j, d)
    PROVE  Inv'
<1> DEFINE new == [k \in {j} |-> d]
<1>1. /\ DOMAIN new = {j}
      /\ \A k \in {j} : new[k] = d
      /\ Write(c, new)
  BY DEF WriteRow
<1> HIDE DEF new
<1> QED
  BY <1>1, WriteInv

\* Every statement is such a write.
LEMMA StatementInv ==
    ASSUME Inv, NEW c \in Clients, Statement(c)
    PROVE  Inv'
<1> USE DEF Inv, TypeOK, RowsSound
<1>1. ASSUME NEW j \in Jobs, SeedRow(c, j)
      PROVE  Inv'
  BY <1>1, SeededRow, WriteRowInv DEF SeedRow, Follows
<1>2. ASSUME NEW j \in Jobs, NEW id \in WorkerIds, NEW reach \in SUBSET Jobs,
             ClaimRow(c, id, reach, j)
      PROVE  Inv'
  BY <1>2, ClaimedRow, WriteRowInv DEF ClaimRow, ClaimChoices, Unlocked, Claimable
<1>3. ASSUME NEW j \in Jobs, CompleteRow(c, j)
      PROVE  Inv'
  BY <1>3, CompletedRow, WriteRowInv DEF CompleteRow, Running
<1>4. ASSUME NEW j \in Jobs, NEW delay \in RetryDelays, FailRow(c, j, delay)
      PROVE  Inv'
  BY <1>4, ReleasedRow, WriteRowInv DEF FailRow, Running
<1>5. ASSUME NEW j \in Jobs, NEW id \in WorkerIds, HeartbeatRow(c, id, j)
      PROVE  Inv'
  BY <1>5, AgesAreNumbers, RelockedRow, WriteRowInv DEF HeartbeatRow, Running
<1>6. ASSUME NEW j \in Jobs, NEW age \in LockAges \ {0}, AgeRow(c, j, age)
      PROVE  Inv'
  BY <1>6, RelockedRow, WriteRowInv DEF AgeRow, Running
<1>7. ASSUME NEW reach \in SUBSET Jobs, NEW S \in SUBSET Jobs, NEW limit \in Limits,
             RecoverRows(c, reach, limit, S)
      PROVE  Inv'
  <2>1. Write(c, [k \in S |-> Released(k, job[k], 0)])
    BY <1>7 DEF RecoverRows
  <2>2. \A j \in S : job[j].status = "running"
    BY <1>7 DEF RecoverRows, RecoverChoices, Unlocked, Stale, Running
  <2> QED
    BY <2>1, <2>2, ReleasedRow, WriteInv
<1> QED
  BY <1>1, <1>2, <1>3, <1>4, <1>5, <1>6, <1>7 DEF Statement

\* A commit installs drafts that were sound already.
LEMMA CommitInv ==
    ASSUME Inv, NEW c \in Clients, Commit(c)
    PROVE  Inv'
<1> USE DEF Inv, Commit, EndTransaction
<1>1. TypeOK'
  BY DEF TypeOK
<1>2. RowsSound'
  BY DEF TypeOK, RowsSound
<1>3. DraftsFollow'
  BY DEF TypeOK, DraftsFollow
<1> QED
  BY <1>1, <1>2, <1>3

\* A rollback forgets them.
LEMMA RollbackInv ==
    ASSUME Inv, NEW c \in Clients, Rollback(c)
    PROVE  Inv'
<1> USE DEF Inv, Rollback, EndTransaction
<1>1. TypeOK'
  BY DEF TypeOK
<1>2. RowsSound'
  BY DEF TypeOK, RowsSound
<1>3. DraftsFollow'
  BY DEF TypeOK, DraftsFollow
<1> QED
  BY <1>1, <1>2, <1>3

\* Time ages a committed row and its draft alike.
LEMMA TickInv ==
    ASSUME Inv, Tick
    PROVE  Inv'
<1> USE DEF Inv, Tick
<1>1. \A j \in Jobs : /\ Aged(job[j]) \in Row
                      /\ Aged(draft[j]) \in Row
  BY AgedRow DEF TypeOK
<1>2. TypeOK'
  BY <1>1 DEF TypeOK
<1>3. ASSUME NEW j \in Jobs, NEW r \in Row, RowSound(j, r)
      PROVE  RowSound(j, Aged(r))
  BY <1>3, AgedRow DEF RowSound, RowAgrees, Lossless
<1>4. RowsSound'
  BY <1>3 DEF TypeOK, RowsSound
<1>5. ASSUME NEW r \in Row, NEW d \in Row, Follows(r, d)
      PROVE  Follows(Aged(r), Aged(d))
  <2>1. CASE d = Seeded
    <3>1. Aged(d) = d
      BY <2>1, AgedRow DEF Seeded, Fresh
    <3> QED
      BY <2>1, <3>1 DEF Follows
  <2>2. CASE d # Seeded
    BY <1>5, <2>2, AgedRow DEF Follows
  <2> QED
    BY <2>1, <2>2
<1>6. DraftsFollow'
  BY <1>5 DEF TypeOK, DraftsFollow
<1> QED
  BY <1>2, <1>4, <1>6

\* The invariant is inductive.
LEMMA NextInv == Inv /\ [Next]_queueVars => Inv'
<1> SUFFICES ASSUME Inv, [Next]_queueVars PROVE Inv'
  OBVIOUS
<1>1. CASE Next
  BY <1>1, StatementInv, CommitInv, RollbackInv, TickInv DEF Next
<1>2. CASE UNCHANGED queueVars
  BY <1>2 DEF queueVars, Inv, TypeOK, RowsSound, DraftsFollow
<1> QED
  BY <1>1, <1>2

\* Every reachable state of the queue satisfies the invariant.
THEOREM Invariance == Spec => []Inv
<1>1. Init => Inv
  BY InitInv
<1>2. Inv /\ [Next]_queueVars => Inv'
  BY NextInv
<1> QED
  BY <1>1, <1>2, PTL DEF Spec

\* The columns keep their types, whatever the clients do.
THEOREM TypeCorrect == Spec => []TypeOK
BY Invariance, PTL DEF Inv

\* The lock columns, completed_at and the attempts of a row always fit its status.
THEOREM RowsAlwaysAgree == Spec => []RowsAgree
<1>1. Inv => RowsAgree
  BY DEF Inv, RowsSound, RowSound, RowsAgree
<1> QED
  BY <1>1, Invariance, PTL

\* A failed job can be claimed again and a dead letter has had all its attempts.
THEOREM NoJobEverLost == Spec => []NoJobLost
<1>1. Inv => NoJobLost
  BY DEF Inv, RowsSound, RowSound, NoJobLost
<1> QED
  BY <1>1, Invariance, PTL

-----------------------------------------------------------------------------
(* Committed rows move only at a commit, to a version that follows from    *)
(* them, and at a tick, which changes ages alone.                          *)

\* What one step may do to a committed row.
LEMMA RowSteps ==
    ASSUME Inv, [Next]_queueVars, NEW j \in Jobs
    PROVE  \/ job'[j] = job[j]
           \/ job'[j] = Aged(job[j])
           \/ Follows(job[j], job'[j])
<1>1. CASE \E c \in Clients : Statement(c)
  BY <1>1 DEF Statement, SeedRow, ClaimRow, CompleteRow, FailRow, HeartbeatRow,
              AgeRow, RecoverRows, WriteRow, Write
<1>2. ASSUME NEW c \in Clients, Commit(c)
      PROVE  job'[j] = job[j] \/ Follows(job[j], job'[j])
  <2>1. CASE held[j] = c
    BY <1>2, <2>1 DEF Commit, Inv, TypeOK, DraftsFollow
  <2>2. CASE held[j] # c
    BY <1>2, <2>2 DEF Commit
  <2> QED
    BY <2>1, <2>2
<1>3. CASE \E c \in Clients : Rollback(c)
  BY <1>3 DEF Rollback
<1>4. CASE Tick
  BY <1>4 DEF Tick
<1>5. CASE UNCHANGED queueVars
  BY <1>5 DEF queueVars
<1> QED
  BY <1>1, <1>2, <1>3, <1>4, <1>5 DEF Next

\* A settled job stays settled until it is seeded again.
THEOREM SettledStaysSettled == Spec => SettledUntilSeeded
<1> DEFINE Settled(j) ==
        job[j].status \in {"completed", "dead_letter"} =>
            job'[j] = job[j] \/ job'[j] = Seeded
<1>1. ASSUME Inv, [Next]_queueVars, NEW j \in Jobs
      PROVE  Settled(j)
  <2> SUFFICES ASSUME job[j].status \in {"completed", "dead_letter"}
               PROVE  job'[j] = job[j] \/ job'[j] = Seeded
    OBVIOUS
  <2>1. Aged(job[j]) = job[j]
    BY <1>1, AgedRow DEF Inv, TypeOK, RowsSound, RowSound, RowAgrees
  <2>2. Follows(job[j], job'[j]) => job'[j] = Seeded
    BY DEF Follows
  <2> QED
    BY <1>1, <2>1, <2>2, RowSteps
<1>2. Inv /\ [Next]_queueVars => [\A j \in Jobs : Settled(j)]_queueVars
  BY <1>1
<1> QED
  BY <1>2, Invariance, PTL DEF Spec, SettledUntilSeeded

\* Attempts are spent by claims, one each, and given back only by a seeding.
THEOREM AttemptsAreClaims == Spec => AttemptsCountClaims
<1> DEFINE Counted(j) ==
        \/ job'[j] = Seeded
        \/ /\ job'[j].attempts = job[j].attempts
           /\ job'[j].status = "running" => job[j].status = "running"
        \/ /\ job'[j].attempts = job[j].attempts + 1
           /\ job[j].status # "running"
           /\ job'[j].status = "running"
<1>1. ASSUME Inv, [Next]_queueVars, NEW j \in Jobs
      PROVE  Counted(j)
  <2>1. Aged(job[j]).attempts = job[j].attempts /\ Aged(job[j]).status = job[j].status
    BY <1>1, AgedRow DEF Inv, TypeOK
  <2>2. Follows(job[j], job'[j]) => Counted(j)
    BY DEF Follows
  <2> QED
    BY <1>1, <2>1, <2>2, RowSteps
<1>2. Inv /\ [Next]_queueVars => [\A j \in Jobs : Counted(j)]_queueVars
  BY <1>1
<1> QED
  BY <1>2, Invariance, PTL DEF Spec, AttemptsCountClaims

-----------------------------------------------------------------------------
(* The queue implements the lifecycle.                                     *)

\* An empty queue is an empty lifecycle.
LEMMA LifecycleInit == Init => Lifecycle!Init
BY DEF Init, Lifecycle!Init, Absent, Fresh, PhaseOf

\* Every step moves every job as the lifecycle allows, or not at all.
LEMMA LifecycleStep ==
    Inv /\ Inv' /\ [Next]_queueVars => [Lifecycle!Next]_(Lifecycle!vars)
<1> SUFFICES ASSUME Inv, Inv', [Next]_queueVars
             PROVE  Lifecycle!Next
  OBVIOUS
<1> USE DEF Inv, TypeOK
<1>1. ASSUME NEW j \in Jobs
      PROVE  Lifecycle!Move(j)
  <2> DEFINE r == job[j]
             d == job'[j]
  <2>1. r \in Row /\ d \in Row /\ RowSound(j, r) /\ RowSound(j, d)
    BY DEF RowsSound
  <2>2. CASE d.status = r.status /\ d.attempts = r.attempts
    BY <2>2 DEF Lifecycle!Move, Lifecycle!Keep
  <2>3. CASE d = Seeded
    BY <2>3 DEF Lifecycle!Move, Lifecycle!Enqueue, Seeded, Fresh, PhaseOf
  <2>4. CASE /\ r.status \in {"available", "failed"}
             /\ d.status = "running"
             /\ d.attempts = r.attempts + 1
    BY <2>1, <2>4 DEF Lifecycle!Move, Lifecycle!Lease, PhaseOf, RowSound, RowAgrees, Row
  <2>5. CASE /\ r.status = "running"
             /\ d.status \in {"completed", "failed", "dead_letter"}
             /\ d.attempts = r.attempts
    BY <2>1, <2>5 DEF Lifecycle!Move, Lifecycle!Finish, Lifecycle!Return, Lifecycle!Bury,
                      PhaseOf, RowSound, Lossless, Row
  <2>6. \/ d = r
        \/ d.status = r.status /\ d.attempts = r.attempts
        \/ Follows(r, d)
    BY <2>1, RowSteps, AgedRow
  <2> QED
    BY <2>2, <2>3, <2>4, <2>5, <2>6 DEF Follows
<1>2. \A j \in Jobs : PhaseOf[job'[j].status] \in Lifecycle!Phases /\ job'[j].attempts \in Nat
  BY DEF Row, Statuses, PhaseOf, Lifecycle!Phases
<1> QED
  BY <1>1, <1>2 DEF Lifecycle!Next

\* Whatever its clients do, the queue shows each job only lifecycle steps.
THEOREM QueueImplementsLifecycle == Spec => ImplementsLifecycle
<1>1. Init => Lifecycle!Init
  BY LifecycleInit
<1>2. Inv /\ Inv' /\ [Next]_queueVars => [Lifecycle!Next]_(Lifecycle!vars)
  BY LifecycleStep
<1> QED
  BY <1>1, <1>2, Invariance, PTL DEF Spec, ImplementsLifecycle, Lifecycle!Spec
=============================================================================
