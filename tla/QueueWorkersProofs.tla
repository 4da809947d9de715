------------------------- MODULE QueueWorkersProofs -------------------------
(***************************************************************************)
(* Workers and recoveries beside them, for any number of them, any jobs,    *)
(* keys and prefixes and any number of starts, deaths and reseedings.      *)
(*                                                                         *)
(* First, each of their steps is a step of the queue (ImplementsQueue), so *)
(* that the invariant of IngestionQueueProofs holds here as well.  Then,   *)
(* the rows a worker has locked show the place it is at (LocksFit): a seed *)
(* is committed by a seeding only, a claim by a claim.  So a commit either *)
(* starts a new epoch of a row or does not lessen its attempts, and every  *)
(* ticket stays behind its row (TicketsBehind): the next claim's ticket is *)
(* one no worker has had.                                                  *)
(*                                                                         *)
(* Last, workers of one run key leave nothing behind (WorkersDrain).  As   *)
(* long as a job waits or runs, some worker has not come to rest           *)
(* (SomebodyLeft), because a running job has a worker in that run, or one  *)
(* that died and has to seed again before it can rest (RunnersThere), and  *)
(* because the executions of an only worker are covered by attempts        *)
(* (TriesCounted).                                                         *)
(***************************************************************************)
EXTENDS QueueWorkers, IngestionQueueProofs, NaturalBounds

USE NullAssumption, WorkersAssumption, IdOfAssumption, SeedOrderAssumption,
    ReachAssumption, MaxStartsAssumption, NoDelayAssumption
    DEF NullAssumption, WorkersAssumption, IdOfAssumption, SeedOrderAssumption,
    ReachAssumption, MaxStartsAssumption, NoDelayAssumption

RunPlaces == {"executing", "completing", "completed", "failing", "failed"}

\* A worker has a ticket exactly while it is in a run, and a run begins below the
\* cap.
TicketsFit ==
    \A w \in Workers :
        /\ pc[w] \in RunPlaces => ticket[w] \in Ticket
        /\ pc[w] \notin RunPlaces => ticket[w] = Null
        /\ pc[w] \in RunPlaces \cup {"claiming"} => runs[w] < Cap(w)

\* What a worker at its place, or a recovery, may have locked and written.
SeedLock(w, j) == pc[w] = "seeding" /\ draft[j] = Seeded

ClaimLock(w, j) ==
    /\ pc[w] = "claiming"
    /\ job[j].status # "running"
    /\ draft[j].status = "running"
    /\ draft[j].attempts = job[j].attempts + 1
    /\ draft[j].locked_by = IdOf[w]

EndLock(j) ==
    /\ job[j].status = "running"
    /\ draft[j].status \in {"completed", "failed", "dead_letter"}
    /\ draft[j].attempts = job[j].attempts

LocksFit ==
    \A j \in Jobs :
        /\ held[j] \in Workers \cup Janitors \cup {Null}
        /\ \A w \in Workers : held[j] = w =>
              \/ SeedLock(w, j)
              \/ ClaimLock(w, j)
              \/ pc[w] \in {"completed", "failed"} /\ EndLock(j)
        /\ held[j] \in Janitors => EndLock(j)

\* No ticket is ahead of its row.
TicketsBehind ==
    \A w \in Workers : InRun(w) =>
        LET t == ticket[w]
        IN  \/ t.epoch < epoch[t.job]
            \/ t.epoch = epoch[t.job] /\ t.attempts <= job[t.job].attempts

WorkersShape == Inv /\ WorkersTypeOK /\ TicketsFit

WorkersInv == WorkersShape /\ LocksFit /\ TicketsBehind /\ AttemptsNotShared /\ LockNamesRunner

-----------------------------------------------------------------------------
(* Every step is a step of the queue.                                      *)

\* The job a seeding inserts next is a job.
LEMMA NextSeed ==
    ASSUME WorkersTypeOK, NEW w \in Workers, seeded[w] < Len(SeedOrder[w])
    PROVE  SeedOrder[w][seeded[w] + 1] \in Jobs
<1>1. SeedOrder[w] \in Seq(Jobs) /\ seeded[w] \in Nat
  BY DEF WorkersTypeOK
<1>2. Len(SeedOrder[w]) \in Nat /\ seeded[w] + 1 \in 1 .. Len(SeedOrder[w])
  BY <1>1
<1> QED
  BY <1>1, <1>2

\* A worker's own steps.
LEMMA ProceedIsQueueStep ==
    ASSUME WorkersShape, NEW w \in Workers, Proceed(w)
    PROVE  [Next]_queueVars
<1> USE DEF WorkersShape
<1>1. CASE SeedNext(w)
  BY <1>1, NextSeed DEF SeedNext, Next, Statement
<1>2. CASE SeedCommit(w) \/ ClaimCommit(w) \/ CompleteCommit(w) \/ FailCommit(w)
  BY <1>2 DEF SeedCommit, ClaimCommit, CompleteCommit, FailCommit, Next
<1>3. CASE Claim(w)
  BY <1>3 DEF Claim, Next, Statement
<1>4. CASE \/ Prepare(w) \/ ClaimNothing(w) \/ ReachCap(w) \/ Execute(w)
           \/ CompleteMissing(w) \/ FailMissing(w)
  BY <1>4 DEF Prepare, ClaimNothing, ReachCap, Execute, CompleteMissing, FailMissing
<1>5. pc[w] \in RunPlaces => ticket[w].job \in Jobs
  BY DEF TicketsFit, Ticket
<1>6. CASE CompleteFound(w)
  BY <1>5, <1>6 DEF CompleteFound, Goto, RunPlaces, Next, Statement
<1>7. CASE FailFound(w)
  BY <1>5, <1>7 DEF FailFound, Goto, RunPlaces, Next, Statement
<1> QED
  BY <1>1, <1>2, <1>3, <1>4, <1>6, <1>7 DEF Proceed

\* The whole of it.
LEMMA WorkersStepIsQueueStep ==
    ASSUME WorkersShape, [WorkersNext]_vars
    PROVE  [Next]_queueVars
<1>1. CASE \E w \in Workers : Proceed(w)
  BY <1>1, ProceedIsQueueStep
<1>2. CASE \E w \in Workers : Disturb(w)
  BY <1>2 DEF Disturb, Start, CompleteUnanswered, Die, Next
<1>3. ASSUME NEW m \in Janitors, Recover(m)
      PROVE  Next
  BY <1>3, SweepAssumption DEF Recover, Next, Statement, SweepAssumption
<1>4. CASE \E m \in Janitors : RecoverCommit(m)
  BY <1>4 DEF RecoverCommit, Next
<1>5. CASE TickWorkers
  BY <1>5 DEF TickWorkers, Next
<1>6. CASE UNCHANGED vars
  BY <1>6 DEF vars, queueVars
<1> QED
  BY <1>1, <1>2, <1>3, <1>4, <1>5, <1>6 DEF WorkersNext, Clean

-----------------------------------------------------------------------------
(* Types, and who has a ticket.                                            *)

\* All variables but the queue's have their types.
ProgTypeOK ==
    /\ pc \in [Workers -> Places]
    /\ ticket \in [Workers -> Ticket \cup {Null}]
    /\ seeded \in [Workers -> Nat]
    /\ runs \in [Workers -> Nat]
    /\ \A w \in Workers : runs[w] <= Cap(w)
    /\ starts \in 0 .. MaxStarts
    /\ epoch \in [Jobs -> Nat]

\* A cap is a number of executions.
LEMMA CapIsNat == ASSUME NEW w \in Workers PROVE Cap(w) \in Nat
<1>1. SeedOrder[w] \in Seq(Jobs)
  OBVIOUS
<1>2. Len(SeedOrder[w]) \in Nat
  BY <1>1
<1> QED
  BY <1>2 DEF Cap

\* Where a worker goes and what it keeps of its ticket.
LEMMA ProceedShape ==
    ASSUME WorkersShape, NEW w \in Workers, Proceed(w)
    PROVE  ProgTypeOK' /\ TicketsFit'
<1> USE DEF WorkersShape, WorkersTypeOK, ProgTypeOK, TicketsFit, Places, Stopped, RunPlaces
<1>0. \A v \in Workers : Cap(v) \in Nat
  BY CapIsNat
<1>1. CASE SeedNext(w)
  BY <1>1 DEF SeedNext
<1>12. CASE Prepare(w)
  BY <1>12 DEF Prepare, Goto
<1>2. CASE SeedCommit(w)
  BY <1>2 DEF SeedCommit, Goto
<1>3. CASE Claim(w)
  BY <1>3 DEF Claim, Goto
<1>4. CASE ClaimCommit(w)
  <2>1. PICK j \in Jobs : ticket' = [ticket EXCEPT ![w] =
                [job |-> j, epoch |-> epoch[j], attempts |-> draft[j].attempts]]
    BY <1>4 DEF ClaimCommit
  <2>2. [job |-> j, epoch |-> epoch[j], attempts |-> draft[j].attempts] \in Ticket
    BY DEF Ticket, TypeOK, Row
  <2> QED
    BY <1>4, <2>1, <2>2 DEF ClaimCommit, Goto
<1>5. CASE ClaimNothing(w) \/ ReachCap(w)
  BY <1>5 DEF ClaimNothing, ReachCap, Goto
<1>6. CASE Execute(w)
  BY <1>6 DEF Execute, Goto
<1>7. CASE CompleteFound(w) \/ CompleteMissing(w)
  BY <1>7 DEF CompleteFound, CompleteMissing, Goto
<1>8. CASE CompleteCommit(w)
  BY <1>0, <1>8 DEF CompleteCommit, ReturnFromRun, Goto
<1>9. CASE FailFound(w)
  BY <1>9 DEF FailFound, Goto
<1>10. CASE FailMissing(w)
  BY <1>10 DEF FailMissing, Goto
<1>11. CASE FailCommit(w)
  BY <1>0, <1>11 DEF FailCommit, ReturnFromRun, Goto
<1> QED
  BY <1>1, <1>2, <1>3, <1>4, <1>5, <1>6, <1>7, <1>8, <1>9, <1>10, <1>11, <1>12 DEF Proceed

\* The shape is inductive.
LEMMA ShapeInv ==
    ASSUME WorkersShape, [WorkersNext]_vars
    PROVE  WorkersShape'
<1>1. Inv'
  BY WorkersStepIsQueueStep, NextInv DEF WorkersShape
<1>2. ProgTypeOK' /\ TicketsFit'
  <2> USE DEF WorkersShape, WorkersTypeOK, ProgTypeOK, TicketsFit, Places, Stopped, RunPlaces
  <2>1. CASE \E w \in Workers : Proceed(w)
    BY <2>1, ProceedShape
  <2>2. ASSUME NEW w \in Workers, Start(w)
        PROVE  ProgTypeOK' /\ TicketsFit'
    BY <2>2, CapIsNat DEF Start
  <2>3. ASSUME NEW w \in Workers, CompleteUnanswered(w)
        PROVE  ProgTypeOK' /\ TicketsFit'
    BY <2>3 DEF CompleteUnanswered, Goto
  <2>4. ASSUME NEW w \in Workers, Die(w)
        PROVE  ProgTypeOK' /\ TicketsFit'
    BY <2>4 DEF Die
  <2>5. CASE \/ \E m \in Janitors : Clean(m)
             \/ TickWorkers
             \/ UNCHANGED vars
    BY <2>5 DEF Clean, Recover, RecoverCommit, TickWorkers, progVars, vars
  <2> QED
    BY <2>1, <2>2, <2>3, <2>4, <2>5 DEF WorkersNext, Disturb
<1> QED
  BY <1>1, <1>2 DEF WorkersShape, WorkersTypeOK, ProgTypeOK, Inv

-----------------------------------------------------------------------------
(* What is locked shows where its holder is.                               *)

\* The effect of writing one row, read off the state after it.
LEMMA RowWritten ==
    ASSUME TypeOK, NEW c \in Clients, NEW j \in Jobs, NEW d, WriteRow(c, j, d)
    PROVE  /\ held'[j] = c
           /\ draft'[j] = d
           /\ job' = job
           /\ \A k \in Jobs \ {j} : held'[k] = held[k] /\ draft'[k] = draft[k]
<1> DEFINE new == [k \in {j} |-> d]
<1>1. DOMAIN new = {j} /\ new[j] = d
  OBVIOUS
<1>2. Write(c, new)
  BY DEF WriteRow
<1> HIDE DEF new
<1> QED
  BY <1>1, <1>2 DEF Write

\* Each end of a run leaves such a draft.
LEMMA EndedRow ==
    ASSUME NEW j \in Jobs, NEW r \in Row
    PROVE  /\ Completed(r).status = "completed" /\ Completed(r).attempts = r.attempts
           /\ Released(j, r, 0).status \in {"failed", "dead_letter"}
           /\ Released(j, r, 0).attempts = r.attempts
BY DEF Completed, Released, Row

\* Time does not touch a seeded row.
LEMMA SeededAges == Seeded \in Row /\ Aged(Seeded) = Seeded
<1>1. Seeded \in Row
  BY DEF Seeded, Fresh, Row, Statuses
<1>2. Seeded.lock_age = Null /\ Seeded.due_in = 0
  BY DEF Seeded, Fresh
<1> QED
  BY <1>1, <1>2, AgedRow

\* A worker that is at none of these places has locked nothing.
LEMMA LockedPlaces ==
    ASSUME LocksFit, NEW w \in Workers, Holds(w)
    PROVE  pc[w] \in {"seeding", "claiming", "completed", "failed"}
BY DEF LocksFit, Holds, SeedLock, ClaimLock

\* The end of a transaction leaves its client nothing and the others theirs.
LEMMA EndFits ==
    ASSUME WorkersShape, LocksFit, NEW c \in Workers \cup Janitors,
           Commit(c) \/ Rollback(c),
           \A w \in Workers \ {c} : pc'[w] = pc[w]
    PROVE  LocksFit'
<1> SUFFICES ASSUME NEW j \in Jobs
             PROVE  /\ held'[j] \in Workers \cup Janitors \cup {Null}
                    /\ \A w \in Workers : held'[j] = w =>
                          \/ SeedLock(w, j)'
                          \/ ClaimLock(w, j)'
                          \/ pc'[w] \in {"completed", "failed"} /\ EndLock(j)'
                    /\ held'[j] \in Janitors => EndLock(j)'
  BY DEF LocksFit
<1>1. c # Null
  BY DEF WorkersShape
<1>2. CASE held[j] = c
  BY <1>1, <1>2 DEF Commit, Rollback, EndTransaction
<1>3. CASE held[j] # c
  <2>1. held'[j] = held[j] /\ draft'[j] = draft[j] /\ job'[j] = job[j]
    BY <1>3 DEF Commit, Rollback, EndTransaction, WorkersShape, Inv, TypeOK
  <2> QED
    BY <1>3, <2>1 DEF LocksFit, SeedLock, ClaimLock, EndLock
<1> QED
  BY <1>2, <1>3

\* A worker that writes one row it finds unlocked.
LEMMA WriteRowFits ==
    ASSUME WorkersShape, LocksFit, NEW w \in Workers, NEW j \in Jobs, NEW d,
           held[j] = Null, WriteRow(w, j, d),
           \A v \in Workers \ {w} : pc'[v] = pc[v],
           ~Holds(w) \/ pc'[w] = pc[w],
           \/ SeedLock(w, j)'
           \/ ClaimLock(w, j)'
           \/ pc'[w] \in {"completed", "failed"} /\ EndLock(j)'
    PROVE  LocksFit'
<1> SUFFICES ASSUME NEW k \in Jobs
             PROVE  /\ held'[k] \in Workers \cup Janitors \cup {Null}
                    /\ \A v \in Workers : held'[k] = v =>
                          \/ SeedLock(v, k)'
                          \/ ClaimLock(v, k)'
                          \/ pc'[v] \in {"completed", "failed"} /\ EndLock(k)'
                    /\ held'[k] \in Janitors => EndLock(k)'
  BY DEF LocksFit
<1>0. /\ held'[j] = w
      /\ job'[k] = job[k]
      /\ k # j => held'[k] = held[k] /\ draft'[k] = draft[k]
  BY RowWritten DEF WorkersShape, Inv
<1>1. CASE k = j
  BY <1>0, <1>1
<1>2. CASE k # j
  <2>1. held'[k] = held[k] /\ draft'[k] = draft[k] /\ job'[k] = job[k]
    BY <1>0, <1>2
  <2>2. EndLock(k)' <=> EndLock(k)
    BY <2>1 DEF EndLock
  <2>3. \A v \in Workers : pc'[v] = pc[v] =>
           (SeedLock(v, k)' <=> SeedLock(v, k)) /\ (ClaimLock(v, k)' <=> ClaimLock(v, k))
    BY <2>1 DEF SeedLock, ClaimLock
  <2>4. \A v \in Workers : held[k] = v => pc'[v] = pc[v]
    BY DEF Holds
  <2> QED
    BY <2>1, <2>2, <2>3, <2>4 DEF LocksFit
<1> QED
  BY <1>1, <1>2

\* Nothing is written, and who moves has locked nothing.
LEMMA MoveFits ==
    ASSUME LocksFit, UNCHANGED queueVars,
           \A w \in Workers : Holds(w) => pc'[w] = pc[w]
    PROVE  LocksFit'
BY DEF LocksFit, queueVars, SeedLock, ClaimLock, EndLock, Holds

\* A worker's own steps.
LEMMA ProceedFits ==
    ASSUME WorkersShape, LocksFit, NEW w \in Workers, Proceed(w)
    PROVE  LocksFit'
<1>1. \A v \in Workers \ {w} : pc'[v] = pc[v]
  BY DEF Proceed, Prepare, SeedNext, SeedCommit, Claim, ClaimCommit, ClaimNothing, ReachCap,
         Execute, CompleteFound, CompleteMissing, CompleteCommit, FailFound, FailMissing, FailCommit,
         ReturnFromRun, Goto, WorkersShape, WorkersTypeOK
<1>2. CASE SeedNext(w)
  <2>1. PICK j \in Jobs : /\ held[j] = Null
                          /\ WriteRow(w, j, Seeded)
                          /\ pc' = pc
                          /\ pc[w] = "seeding"
    BY <1>2, NextSeed, WriteRowFree DEF SeedNext, SeedRow, WorkersShape
  <2>2. SeedLock(w, j)'
    <3>1. w \in Clients /\ TypeOK
      BY DEF WorkersShape, Inv
    <3>2. draft'[j] = Seeded
      BY <2>1, <3>1, RowWritten
    <3> QED
      BY <2>1, <3>2 DEF SeedLock
  <2>3. pc'[w] = pc[w]
    BY <2>1
  <2> QED
    BY <1>1, <2>1, <2>2, <2>3, WriteRowFits
<1>3. CASE Claim(w)
  <2>1. PICK j \in Jobs : ClaimRow(w, IdOf[w], Reach[w], j)
    BY <1>3 DEF Claim
  <2>2. /\ held[j] = Null
        /\ job[j].status # "running"
        /\ WriteRow(w, j, Claimed(job[j], IdOf[w]))
    BY <2>1 DEF ClaimRow, ClaimChoices, Unlocked, Claimable
  <2>3. pc[w] = "polling" /\ pc'[w] = "claiming"
    BY <1>3 DEF Claim, Goto, WorkersShape, WorkersTypeOK
  <2>4. ClaimLock(w, j)'
    <3>1. job[j] \in Row
      BY DEF WorkersShape, Inv, TypeOK
    <3>2. draft'[j] = Claimed(job[j], IdOf[w]) /\ job'[j] = job[j]
      BY <2>2, RowWritten DEF WorkersShape, Inv
    <3> QED
      BY <2>2, <2>3, <3>1, <3>2 DEF ClaimLock, Claimed, Row
  <2> QED
    BY <1>1, <2>2, <2>3, <2>4, WriteRowFits, LockedPlaces
<1>4. CASE CompleteFound(w) \/ FailFound(w)
  <2>1. PICK j \in Jobs : j = ticket[w].job
    BY <1>4 DEF CompleteFound, FailFound, Goto, WorkersShape, TicketsFit, RunPlaces, Ticket
  <2>2. pc[w] \in {"completing", "failing"} /\ pc'[w] \in {"completed", "failed"}
    BY <1>4 DEF CompleteFound, FailFound, Goto, WorkersShape, WorkersTypeOK
  <2>3. /\ held[j] = Null
        /\ job[j].status = "running"
        /\ \/ WriteRow(w, j, Completed(job[j]))
           \/ WriteRow(w, j, Released(j, job[j], 0))
    <3>1. Running(j) /\ (\/ WriteRow(w, j, Completed(job[j]))
                         \/ WriteRow(w, j, Released(j, job[j], 0)))
      BY <1>4, <2>1 DEF CompleteFound, FailFound, CompleteRow, FailRow
    <3> QED
      BY <3>1, WriteRowFree DEF Running
  <2>4. EndLock(j)'
    <3>1. job[j] \in Row
      BY <2>1 DEF WorkersShape, Inv, TypeOK
    <3>2. draft'[j] \in {Completed(job[j]), Released(j, job[j], 0)} /\ job'[j] = job[j]
      BY <2>1, <2>3, RowWritten DEF WorkersShape, Inv
    <3>3. /\ draft'[j].status \in {"completed", "failed", "dead_letter"}
          /\ draft'[j].attempts = job[j].attempts
      BY <2>1, <3>1, <3>2, EndedRow
    <3> QED
      BY <2>3, <3>2, <3>3 DEF EndLock
  <2>5. ~Holds(w)
    BY <2>2, LockedPlaces
  <2>6. PICK d : WriteRow(w, j, d)
    BY <2>3
  <2>7. held[j] = Null
    BY <2>3
  <2> QED
    BY <1>1, <2>1, <2>2, <2>4, <2>5, <2>6, <2>7, WriteRowFits
<1>5. CASE SeedCommit(w) \/ ClaimCommit(w) \/ CompleteCommit(w) \/ FailCommit(w)
  BY <1>1, <1>5, EndFits DEF SeedCommit, ClaimCommit, CompleteCommit, FailCommit
<1>6. CASE \/ Prepare(w) \/ ClaimNothing(w) \/ ReachCap(w) \/ Execute(w)
           \/ CompleteMissing(w) \/ FailMissing(w)
  <2>1. /\ pc[w] \in {"preparing", "polling", "executing", "completing", "failing"}
        /\ UNCHANGED queueVars
    BY <1>6 DEF Prepare, ClaimNothing, ReachCap, Execute, CompleteMissing, FailMissing, Goto
  <2> QED
    BY <1>1, <2>1, MoveFits, LockedPlaces
<1> QED
  BY <1>2, <1>3, <1>4, <1>5, <1>6 DEF Proceed

\* Everything else.
LEMMA LocksFitInv ==
    ASSUME WorkersShape, LocksFit, [WorkersNext]_vars
    PROVE  LocksFit'
<1>1. CASE \E w \in Workers : Proceed(w)
  BY <1>1, ProceedFits
<1>2. ASSUME NEW w \in Workers, Start(w)
      PROVE  LocksFit'
  BY <1>2, MoveFits, LockedPlaces DEF Start, Stopped, WorkersShape, WorkersTypeOK
<1>3. ASSUME NEW w \in Workers, CompleteUnanswered(w) \/ Die(w)
      PROVE  LocksFit'
  BY <1>3, EndFits DEF CompleteUnanswered, Die, Goto, WorkersShape, WorkersTypeOK
<1>4. ASSUME NEW m \in Janitors, Recover(m)
      PROVE  LocksFit'
  <2>1. PICK S \in SUBSET Jobs, limit \in Limits : RecoverRows(m, Sweep[m], limit, S)
    BY <1>4 DEF Recover
  <2>2. \A j \in S : held[j] = Null /\ job[j].status = "running"
    BY <2>1 DEF RecoverRows, RecoverChoices, Unlocked, Stale, Running
  <2>3. /\ held'  = [j \in Jobs |-> IF j \in S THEN m ELSE held[j]]
        /\ draft' = [j \in Jobs |-> IF j \in S THEN Released(j, job[j], 0) ELSE draft[j]]
        /\ job' = job /\ pc' = pc
    BY <1>4, <2>1 DEF RecoverRows, Write, Recover, progVars
  <2>4. ASSUME NEW j \in S
        PROVE  held'[j] = m /\ EndLock(j)'
    <3>1. job[j] \in Row /\ job'[j] = job[j] /\ draft'[j] = Released(j, job[j], 0) /\ held'[j] = m
      BY <2>3 DEF WorkersShape, Inv, TypeOK
    <3> QED
      BY <2>2, <3>1, EndedRow DEF EndLock
  <2>5. ASSUME NEW j \in Jobs \ S
        PROVE  held'[j] = held[j] /\ draft'[j] = draft[j] /\ job'[j] = job[j] /\ pc' = pc
    BY <2>3
  <2>6. m \notin Workers
    OBVIOUS
  <2> QED
    BY <2>4, <2>5, <2>6 DEF LocksFit, SeedLock, ClaimLock, EndLock
<1>5. ASSUME NEW m \in Janitors, RecoverCommit(m)
      PROVE  LocksFit'
  BY <1>5, EndFits DEF RecoverCommit, progVars
<1>6. CASE TickWorkers
  <2>1. \A j \in Jobs : /\ job'[j] = Aged(job[j])
                        /\ draft'[j] = Aged(draft[j])
                        /\ held'[j] = held[j]
    BY <1>6 DEF TickWorkers, Tick
  <2>3. \A j \in Jobs : job[j] \in Row /\ draft[j] \in Row
    BY DEF WorkersShape, Inv, TypeOK
  <2>4. pc' = pc
    BY <1>6 DEF TickWorkers, progVars
  <2> QED
    BY <2>1, <2>3, <2>4, SeededAges, AgedRow DEF LocksFit, SeedLock, ClaimLock, EndLock
<1>7. CASE UNCHANGED vars
  BY <1>7, MoveFits DEF vars, queueVars
<1> QED
  BY <1>1, <1>2, <1>3, <1>4, <1>5, <1>6, <1>7 DEF WorkersNext, Disturb, Clean

-----------------------------------------------------------------------------
(* What a step does to a row, and to a ticket.                             *)

Untouched(j) ==
    epoch'[j] = epoch[j] /\ job'[j] \in {job[j], Aged(job[j])}

Reseeded(j) ==
    epoch'[j] = epoch[j] + 1 /\ job'[j] = Seeded

Started(j) ==
    /\ epoch'[j] = epoch[j]
    /\ job'[j].attempts = job[j].attempts + 1

Ended(j) ==
    /\ epoch'[j] = epoch[j]
    /\ job'[j].attempts = job[j].attempts
    /\ job'[j].status # "running"

RowStep(j) == Untouched(j) \/ Reseeded(j) \/ Started(j) \/ Ended(j)

\* The ticket of a claim is that of the run its row is in.
NewTicket(w) ==
    \E j \in Jobs :
        /\ ticket' = [ticket EXCEPT ![w] =
              [job |-> j, epoch |-> epoch[j], attempts |-> job[j].attempts + 1]]
        /\ epoch' = epoch
        /\ job'[j].attempts = job[j].attempts + 1
        /\ job'[j].locked_by = IdOf[w]

\* A commit that is not a seeding's starts or ends runs.
LEMMA CommitStep ==
    ASSUME WorkersShape, LocksFit, NEW c \in Workers \cup Janitors, Commit(c),
           pc[c] # "seeding" \/ c \in Janitors, UNCHANGED epoch, NEW j \in Jobs
    PROVE  Untouched(j) \/ Started(j) \/ Ended(j)
<1>1. job'[j] = IF held[j] = c THEN draft[j] ELSE job[j]
  BY DEF Commit
<1>2. CASE held[j] # c
  BY <1>1, <1>2 DEF Untouched
<1>3. CASE held[j] = c
  <2>1. c \in Janitors => EndLock(j)
    BY <1>3 DEF LocksFit
  <2>2. c \notin Janitors => ClaimLock(c, j) \/ EndLock(j)
    BY <1>3 DEF LocksFit, SeedLock
  <2>3. CASE EndLock(j)
    BY <1>1, <1>3, <2>3 DEF EndLock, Ended
  <2>4. CASE ClaimLock(c, j)
    BY <1>1, <1>3, <2>4 DEF ClaimLock, Started
  <2> QED
    BY <2>1, <2>2, <2>3, <2>4
<1> QED
  BY <1>2, <1>3

\* The commit of a seeding gives each row it has locked a new epoch.
LEMMA SeedCommitStep ==
    ASSUME WorkersShape, LocksFit, NEW w \in Workers, SeedCommit(w), NEW j \in Jobs
    PROVE  Untouched(j) \/ Reseeded(j)
<1>1. /\ job'[j] = IF held[j] = w THEN draft[j] ELSE job[j]
      /\ epoch'[j] = IF held[j] = w THEN epoch[j] + 1 ELSE epoch[j]
      /\ pc[w] = "seeding"
  BY DEF SeedCommit, Commit, Goto
<1>2. held[j] = w => draft[j] = Seeded
  BY <1>1 DEF LocksFit, SeedLock, ClaimLock
<1> QED
  BY <1>1, <1>2 DEF Untouched, Reseeded

\* Every step moves every row one of the four ways.
LEMMA WorkersRowStep ==
    ASSUME NEW j \in Jobs, WorkersShape, LocksFit, [WorkersNext]_vars
    PROVE  RowStep(j)
<1>1. job' = job /\ epoch' = epoch => RowStep(j)
  BY DEF Untouched, RowStep
<1>2. ASSUME NEW w \in Workers, SeedCommit(w)
      PROVE  RowStep(j)
  BY <1>2, SeedCommitStep DEF RowStep
<1>3. ASSUME NEW w \in Workers,
             \/ ClaimCommit(w) \/ CompleteCommit(w) \/ FailCommit(w)
             \/ CompleteUnanswered(w) /\ Commit(w)
      PROVE  RowStep(j)
  <2>1. Commit(w) /\ pc[w] # "seeding" /\ epoch' = epoch
    BY <1>3 DEF ClaimCommit, CompleteCommit, FailCommit, CompleteUnanswered, ReturnFromRun, Goto
  <2> QED
    BY <2>1, CommitStep DEF RowStep
<1>4. ASSUME NEW m \in Janitors, RecoverCommit(m)
      PROVE  RowStep(j)
  BY <1>4, CommitStep DEF RecoverCommit, RowStep
<1>5. CASE TickWorkers
  BY <1>5 DEF TickWorkers, Tick, Untouched, RowStep
<1>6. ASSUME NEW w \in Workers,
             \/ Prepare(w) \/ SeedNext(w) \/ Claim(w) \/ ClaimNothing(w) \/ ReachCap(w)
             \/ Execute(w) \/ CompleteFound(w) \/ CompleteMissing(w) \/ FailFound(w)
             \/ FailMissing(w) \/ Start(w) \/ Die(w) \/ (CompleteUnanswered(w) /\ Rollback(w))
      PROVE  job' = job /\ epoch' = epoch
  BY <1>6 DEF Prepare, SeedNext, SeedRow, Claim, ClaimRow, ClaimNothing, ReachCap, Execute, CompleteFound,
        CompleteRow, CompleteMissing, FailFound, FailRow, FailMissing, Start, Die,
        CompleteUnanswered, Rollback, WriteRow, Write, queueVars
<1>7. ASSUME NEW m \in Janitors, Recover(m)
      PROVE  job' = job /\ epoch' = epoch
  BY <1>7 DEF Recover, RecoverRows, Write
<1>8. ASSUME NEW w \in Workers, CompleteUnanswered(w)
      PROVE  RowStep(j)
  BY <1>1, <1>3, <1>6, <1>8 DEF CompleteUnanswered
<1>9. ASSUME NEW w \in Workers, Proceed(w) \/ Disturb(w)
      PROVE  RowStep(j)
  <2>1. CASE Proceed(w)
    BY <1>1, <1>2, <1>3, <1>6, <2>1 DEF Proceed
  <2>2. CASE Disturb(w)
    BY <1>1, <1>6, <1>8, <2>2 DEF Disturb
  <2> QED
    BY <1>9, <2>1, <2>2
<1>10. ASSUME NEW m \in Janitors, Clean(m)
       PROVE  RowStep(j)
  BY <1>1, <1>4, <1>7, <1>10 DEF Clean
<1>11. CASE UNCHANGED vars
  BY <1>1, <1>11 DEF vars
<1> QED
  BY <1>5, <1>9, <1>10, <1>11 DEF WorkersNext

\* A step keeps every ticket, or takes one away, or a claim gives one.
LEMMA TicketSteps ==
    ASSUME WorkersShape, LocksFit, [WorkersNext]_vars
    PROVE  \/ \A w \in Workers : ticket'[w] \in {ticket[w], Null}
           \/ \E w \in Workers : NewTicket(w)
<1> DEFINE Kept == \A w \in Workers : ticket'[w] \in {ticket[w], Null}
<1>1. ASSUME NEW w \in Workers, ClaimCommit(w)
      PROVE  NewTicket(w)
  <2>1. PICK j \in Jobs :
           /\ held[j] = w
           /\ ticket' = [ticket EXCEPT ![w] =
                 [job |-> j, epoch |-> epoch[j], attempts |-> draft[j].attempts]]
    BY <1>1 DEF ClaimCommit
  <2>2. pc[w] = "claiming" /\ epoch' = epoch /\ job'[j] = draft[j]
    BY <1>1, <2>1 DEF ClaimCommit, Goto, Commit
  <2>3. ClaimLock(w, j)
    BY <2>1, <2>2 DEF LocksFit, SeedLock
  <2> QED
    BY <2>1, <2>2, <2>3 DEF NewTicket, ClaimLock
<1>2. CASE ticket' = ticket
  BY <1>2
<1>3. ASSUME NEW w \in Workers, CompleteCommit(w) \/ FailCommit(w) \/ FailMissing(w) \/ Die(w)
      PROVE  Kept
  <2>1. ticket' = [ticket EXCEPT ![w] = Null]
    BY <1>3 DEF CompleteCommit, FailCommit, FailMissing, Die, ReturnFromRun
  <2> QED
    BY <2>1 DEF WorkersShape, WorkersTypeOK
<1>4. ASSUME NEW w \in Workers,
             \/ Prepare(w) \/ SeedNext(w) \/ SeedCommit(w) \/ Claim(w) \/ ClaimNothing(w)
             \/ ReachCap(w) \/ Execute(w) \/ CompleteFound(w) \/ CompleteMissing(w) \/ FailFound(w)
             \/ Start(w) \/ CompleteUnanswered(w)
      PROVE  ticket' = ticket
  BY <1>4 DEF Prepare, SeedNext, SeedCommit, Claim, ClaimNothing, ReachCap, Execute,
        CompleteFound, CompleteMissing, FailFound, Start, CompleteUnanswered
<1>5. ASSUME NEW w \in Workers, Proceed(w) \/ Disturb(w)
      PROVE  Kept \/ NewTicket(w)
  BY <1>1, <1>2, <1>3, <1>4, <1>5 DEF Proceed, Disturb
<1>6. ASSUME (\E m \in Janitors : Clean(m)) \/ TickWorkers \/ UNCHANGED vars
      PROVE  Kept
  BY <1>6 DEF Clean, Recover, RecoverCommit, TickWorkers, progVars, vars
<1> HIDE DEF Kept
<1>7. Kept \/ \E w \in Workers : NewTicket(w)
  BY <1>5, <1>6 DEF WorkersNext
<1> QED
  BY <1>7 DEF Kept

-----------------------------------------------------------------------------
(* The tickets.                                                            *)

\* A row never goes back: it starts a new epoch, or keeps or raises its attempts.
LEMMA RowsAdvance ==
    ASSUME WorkersShape, LocksFit, [WorkersNext]_vars, NEW j \in Jobs
    PROVE  \/ epoch'[j] = epoch[j] + 1
           \/ epoch'[j] = epoch[j] /\ job'[j].attempts >= job[j].attempts
<1>1. job[j] \in Row /\ job[j].attempts \in Nat
  BY DEF WorkersShape, Inv, TypeOK, Row
<1>2. Aged(job[j]).attempts = job[j].attempts
  BY <1>1, AgedRow
<1> QED
  BY <1>1, <1>2, WorkersRowStep DEF RowStep, Untouched, Reseeded, Started, Ended

\* What an old ticket says of a row it is behind of.
LEMMA BehindStays ==
    ASSUME WorkersShape, LocksFit, TicketsBehind, [WorkersNext]_vars,
           NEW w \in Workers, InRun(w), ticket'[w] = ticket[w]
    PROVE  LET t == ticket'[w]
           IN  \/ t.epoch < epoch'[t.job]
               \/ t.epoch = epoch'[t.job] /\ t.attempts <= job'[t.job].attempts
<1>1. PICK t \in Ticket : t = ticket[w]
  BY DEF WorkersShape, WorkersTypeOK, InRun
<1>2. t.job \in Jobs /\ t.epoch \in Nat /\ t.attempts \in Nat
  BY DEF Ticket
<1>3. epoch[t.job] \in Nat /\ job[t.job].attempts \in Nat
  BY <1>2 DEF WorkersShape, WorkersTypeOK, Inv, TypeOK, Row
<1>4. \/ t.epoch < epoch[t.job]
      \/ t.epoch = epoch[t.job] /\ t.attempts <= job[t.job].attempts
  BY <1>1 DEF TicketsBehind
<1>5. \/ epoch'[t.job] = epoch[t.job] + 1
      \/ epoch'[t.job] = epoch[t.job] /\ job'[t.job].attempts >= job[t.job].attempts
  BY <1>2, RowsAdvance
<1>6. job'[t.job].attempts \in Nat
  BY <1>2, ShapeInv DEF WorkersShape, Inv, TypeOK, Row
<1>7. \/ t.epoch < epoch'[t.job]
      \/ t.epoch = epoch'[t.job] /\ t.attempts <= job'[t.job].attempts
  BY <1>2, <1>3, <1>4, <1>5, <1>6
<1> QED
  BY <1>1, <1>7

\* A new ticket is one that no worker has.
LEMMA NewTicketIsNew ==
    ASSUME WorkersShape, TicketsBehind, NEW w \in Workers, NewTicket(w),
           NEW v \in Workers, InRun(v)
    PROVE  ticket'[w] # ticket[v]
<1>1. PICK j \in Jobs :
         ticket' = [ticket EXCEPT ![w] =
             [job |-> j, epoch |-> epoch[j], attempts |-> job[j].attempts + 1]]
  BY DEF NewTicket
<1>2. ticket'[w] = [job |-> j, epoch |-> epoch[j], attempts |-> job[j].attempts + 1]
  BY <1>1 DEF WorkersShape, WorkersTypeOK
<1>3. epoch[j] \in Nat /\ job[j].attempts \in Nat
  BY DEF WorkersShape, WorkersTypeOK, Inv, TypeOK, Row
<1> SUFFICES ASSUME ticket'[w] = ticket[v] PROVE FALSE
  OBVIOUS
<1>4. /\ ticket[v].job = j
      /\ ticket[v].epoch = epoch[j]
      /\ ticket[v].attempts = job[j].attempts + 1
  BY <1>2
<1>5. \/ ticket[v].epoch < epoch[j]
      \/ ticket[v].attempts <= job[j].attempts
  BY <1>4 DEF TicketsBehind
<1> QED
  BY <1>3, <1>4, <1>5

\* No ticket gets ahead of its row.
LEMMA TicketsBehindInv ==
    ASSUME WorkersShape, LocksFit, TicketsBehind, [WorkersNext]_vars
    PROVE  TicketsBehind'
<1> SUFFICES ASSUME NEW w \in Workers, ticket'[w] # Null
             PROVE  LET t == ticket'[w]
                    IN  \/ t.epoch < epoch'[t.job]
                        \/ t.epoch = epoch'[t.job] /\ t.attempts <= job'[t.job].attempts
  BY DEF TicketsBehind, InRun
<1>1. CASE ticket'[w] = ticket[w]
  BY <1>1, BehindStays DEF InRun
<1>2. CASE ticket'[w] # ticket[w]
  <2>1. PICK v \in Workers : NewTicket(v)
    BY <1>2, TicketSteps
  <2>2. PICK j \in Jobs :
          /\ ticket' = [ticket EXCEPT ![v] =
                [job |-> j, epoch |-> epoch[j], attempts |-> job[j].attempts + 1]]
          /\ epoch' = epoch
          /\ job'[j].attempts = job[j].attempts + 1
    BY <2>1 DEF NewTicket
  <2>3. ticket'[w] = [job |-> j, epoch |-> epoch[j], attempts |-> job[j].attempts + 1]
    BY <1>2, <2>2 DEF WorkersShape, WorkersTypeOK
  <2>4. job[j].attempts \in Nat
    BY DEF WorkersShape, Inv, TypeOK, Row
  <2> QED
    BY <2>2, <2>3, <2>4
<1> QED
  BY <1>1, <1>2

\* Nor do two workers come to have the same one.
LEMMA AttemptsNotSharedInv ==
    ASSUME WorkersShape, LocksFit, TicketsBehind, AttemptsNotShared, [WorkersNext]_vars
    PROVE  AttemptsNotShared'
<1>1. CASE \A w \in Workers : ticket'[w] \in {ticket[w], Null}
  BY <1>1 DEF AttemptsNotShared, InRun
<1>2. ASSUME NEW u \in Workers, NewTicket(u)
      PROVE  AttemptsNotShared'
  <2>1. \A w \in Workers \ {u} : ticket'[w] = ticket[w]
    BY <1>2 DEF NewTicket, WorkersShape, WorkersTypeOK
  <2>2. \A w \in Workers : InRun(w) => ticket'[u] # ticket[w]
    BY <1>2, NewTicketIsNew
  <2> QED
    BY <2>1, <2>2 DEF AttemptsNotShared, InRun
<1> QED
  BY <1>1, <1>2, TicketSteps

\* The lock names the worker that owns the run.
LEMMA LockNamesRunnerInv ==
    ASSUME WorkersShape, LocksFit, TicketsBehind, LockNamesRunner, [WorkersNext]_vars
    PROVE  LockNamesRunner'
<1> SUFFICES ASSUME NEW w \in Workers, ticket'[w] # Null, OwnsRun(w)'
             PROVE  job'[ticket'[w].job].locked_by = IdOf[w]
  BY DEF LockNamesRunner, InRun
<1>1. CASE ticket'[w] = ticket[w]
  <2>1. PICK t \in Ticket : t = ticket[w] /\ t = ticket'[w]
    BY <1>1 DEF WorkersShape, WorkersTypeOK
  <2>2. t.job \in Jobs /\ t.epoch \in Nat /\ t.attempts \in Nat
    BY DEF Ticket
  <2>3. /\ job'[t.job].status = "running"
        /\ t.epoch = epoch'[t.job]
        /\ t.attempts = job'[t.job].attempts
    BY <2>1 DEF OwnsRun, Running
  <2>4. /\ job[t.job] \in Row /\ job[t.job].attempts \in Nat /\ epoch[t.job] \in Nat
    BY <2>2 DEF WorkersShape, WorkersTypeOK, Inv, TypeOK, Row
  <2>5. \/ t.epoch < epoch[t.job]
        \/ t.epoch = epoch[t.job] /\ t.attempts <= job[t.job].attempts
    BY <2>1 DEF TicketsBehind, InRun
  <2>6. ~Ended(t.job) /\ ~Started(t.job) /\ ~Reseeded(t.job)
    BY <2>2, <2>3, <2>4, <2>5 DEF Ended, Started, Reseeded, Seeded, Fresh
  <2>7. epoch'[t.job] = epoch[t.job] /\ job'[t.job] \in {job[t.job], Aged(job[t.job])}
    BY <2>2, <2>6, WorkersRowStep DEF RowStep, Untouched
  <2>8. /\ job'[t.job].status = job[t.job].status
        /\ job'[t.job].attempts = job[t.job].attempts
        /\ job'[t.job].locked_by = job[t.job].locked_by
    BY <2>4, <2>7, AgedRow
  <2>9. OwnsRun(w) /\ InRun(w)
    BY <2>1, <2>3, <2>7, <2>8 DEF OwnsRun, Running, InRun
  <2> QED
    BY <2>1, <2>8, <2>9 DEF LockNamesRunner
<1>2. CASE ticket'[w] # ticket[w]
  <2>1. PICK v \in Workers : NewTicket(v)
    BY <1>2, TicketSteps
  <2> QED
    BY <1>2, <2>1 DEF NewTicket, WorkersShape, WorkersTypeOK
<1> QED
  BY <1>1, <1>2

-----------------------------------------------------------------------------
(* The invariant, and what it gives.                                       *)

\* Nothing is seeded, nothing is locked and no worker has been started.
LEMMA WorkersInitInv == WorkersInit => WorkersInv
<1> SUFFICES ASSUME WorkersInit PROVE WorkersInv
  OBVIOUS
<1>1. Inv
  BY InitInv DEF WorkersInit
<1>2. WorkersTypeOK /\ TicketsFit
  BY <1>1, CapIsNat DEF Inv, WorkersInit, WorkersTypeOK, TicketsFit, Places, Stopped, RunPlaces
<1>3. LocksFit
  BY DEF WorkersInit, Init, LocksFit
<1>4. TicketsBehind /\ AttemptsNotShared /\ LockNamesRunner
  BY DEF WorkersInit, TicketsBehind, AttemptsNotShared, LockNamesRunner, InRun
<1> QED
  BY <1>1, <1>2, <1>3, <1>4 DEF WorkersInv, WorkersShape

\* It is inductive.
THEOREM WorkersInvariance == WorkersSpec => []WorkersInv
<1>1. WorkersInv /\ [WorkersNext]_vars => WorkersInv'
  BY ShapeInv, LocksFitInv, TicketsBehindInv, AttemptsNotSharedInv, LockNamesRunnerInv
     DEF WorkersInv
<1> QED
  BY <1>1, WorkersInitInv, PTL DEF WorkersSpec

\* Every variable of the programs keeps its type, and a worker has a ticket
\* exactly while it is in a run.
THEOREM WorkersTypeCorrect == WorkersSpec => [](WorkersTypeOK /\ TicketsFit)
<1>1. WorkersInv => WorkersTypeOK /\ TicketsFit
  BY DEF WorkersInv, WorkersShape
<1> QED
  BY <1>1, WorkersInvariance, PTL

\* One attempt, one worker: claims, recoveries, reseedings and deaths in any
\* order never let two workers execute the same attempt of the same seeding.
THEOREM OneAttemptOneWorker == WorkersSpec => []AttemptsNotShared
<1>1. WorkersInv => AttemptsNotShared
  BY DEF WorkersInv
<1> QED
  BY <1>1, WorkersInvariance, PTL

\* locked_by of a running row is the worker that runs it, while it is alive.
THEOREM LockNamesItsRunner == WorkersSpec => []LockNamesRunner
<1>1. WorkersInv => LockNamesRunner
  BY DEF WorkersInv
<1> QED
  BY <1>1, WorkersInvariance, PTL

\* An open transaction of a worker shows the statement it ran: rows written by a
\* seeding, a claim, or the end of a run; a recovery's the end of abandoned runs.
THEOREM LocksShowPlaces == WorkersSpec => []LocksFit
<1>1. WorkersInv => LocksFit
  BY DEF WorkersInv
<1> QED
  BY <1>1, WorkersInvariance, PTL

\* The programs implement the queue, so its theorems hold of them: each of their
\* steps is a step of some client, or leaves the table as it is.
THEOREM WorkersImplementQueue == WorkersSpec => ImplementsQueue
<1>1. WorkersInit => Init
  BY DEF WorkersInit
<1>2. WorkersInv /\ [WorkersNext]_vars => [Next]_queueVars
  BY WorkersStepIsQueueStep DEF WorkersInv
<1> QED
  BY <1>1, <1>2, WorkersInvariance, PTL DEF WorkersSpec, ImplementsQueue, Spec

-----------------------------------------------------------------------------
(* Workers of one run key leave nothing behind.                            *)

\* Workers fail a job without a delay, so what waits is due.
AllDue == \A j \in Jobs : job[j].due_in = 0 /\ draft[j].due_in = 0

OnlySeeded ==
    \A j \in Jobs : job[j].status # "absent" \/ held[j] # Null =>
        \E w \in Workers : j \in RunKeyJobs(w)

\* What a seeding has inserted it has locked; a claim has locked one row, and the
\* end of a run the row of the ticket.
SeedsHeld ==
    \A w \in Workers :
        /\ pc[w] \in {"preparing", "seeding"} => runs[w] = 0
        /\ pc[w] = "preparing" => seeded[w] = 0
        /\ pc[w] = "seeding" =>
              /\ seeded[w] <= Len(SeedOrder[w])
              /\ \A i \in 1 .. seeded[w] : held[SeedOrder[w][i]] = w

RunsHeld ==
    \A w \in Workers :
        /\ pc[w] = "claiming" => \A j, k \in Jobs : held[j] = w /\ held[k] = w => j = k
        /\ pc[w] \in {"completed", "failed"} => held[ticket[w].job] = w

\* A job runs because somebody runs it, or died over it and will not rest before
\* it has seeded again.
RunsIt(w, j) ==
    \/ pc[w] \in RunPlaces /\ ticket[w].job = j
    \/ pc[w] \in {"dead", "preparing", "seeding"}

RunnersThere == \A j \in Jobs : Running(j) => \E w \in Workers : RunsIt(w, j)

\* A worker that has not stopped of its own accord.
Unrested(w) == pc[w] \notin {"off", "drained"} /\ (pc[w] = "capped" => starts > 1)

SomebodyLeft == \A j \in Jobs : Leftover(j) => \E w \in Workers : Unrested(w)

\* Every execution of the one worker that was ever started took an attempt.
Tries(w) == {t \in RunKeyJobs(w) \X {1, 2} : t[2] <= job[t[1]].attempts}

Executions(w) == IF pc[w] \in RunPlaces THEN runs[w] + 1 ELSE runs[w]

TriesCounted ==
    /\ starts = 0 => \A w \in Workers : pc[w] = "off"
    /\ starts <= 1 =>
          \A w \in Workers : pc[w] # "off" =>
              /\ \A v \in Workers \ {w} : pc[v] = "off"
              /\ pc[w] \notin {"preparing", "seeding", "dead"} => Executions(w) <= Cardinality(Tries(w))

DrainInv ==
    /\ AllDue /\ OnlySeeded /\ SeedsHeld /\ RunsHeld
    /\ RunnersThere /\ SomebodyLeft /\ TriesCounted

-----------------------------------------------------------------------------
(* What every step does.                                                   *)

\* A worker's step leaves the other workers where they are.
LEMMA OthersStay ==
    ASSUME WorkersShape, NEW w \in Workers, Proceed(w) \/ Disturb(w)
    PROVE  \A v \in Workers \ {w} : /\ pc'[v] = pc[v] /\ ticket'[v] = ticket[v]
                                    /\ seeded'[v] = seeded[v] /\ runs'[v] = runs[v]
<1> USE DEF WorkersShape, WorkersTypeOK
<1>1. CASE SeedNext(w)
  BY <1>1 DEF SeedNext
<1>2. CASE \/ Prepare(w) \/ SeedCommit(w) \/ Claim(w) \/ ClaimNothing(w) \/ ReachCap(w)
           \/ Execute(w)
  BY <1>2 DEF Prepare, SeedCommit, Claim, ClaimNothing, ReachCap, Execute, Goto
<1>3. CASE ClaimCommit(w)
  BY <1>3 DEF ClaimCommit, Goto
<1>4. CASE CompleteFound(w) \/ CompleteMissing(w) \/ FailFound(w) \/ FailMissing(w)
  BY <1>4 DEF CompleteFound, CompleteMissing, FailFound, FailMissing, Goto
<1>5. CASE CompleteCommit(w) \/ FailCommit(w)
  BY <1>5 DEF CompleteCommit, FailCommit, ReturnFromRun, Goto
<1>6. CASE Start(w) \/ CompleteUnanswered(w) \/ Die(w)
  BY <1>6 DEF Start, CompleteUnanswered, Die, Goto
<1> QED
  BY <1>1, <1>2, <1>3, <1>4, <1>5, <1>6 DEF Proceed, Disturb

\* Recoveries, the clock and stuttering leave the workers alone.
LEMMA WorkersMove ==
    ASSUME [WorkersNext]_vars
    PROVE  \/ \E w \in Workers : Proceed(w) \/ Disturb(w)
           \/ UNCHANGED <<progVars, epoch>>
BY DEF WorkersNext, Clean, Recover, RecoverCommit, TickWorkers, vars, progVars

\* Who moved, and the others did not.
LEMMA Mover ==
    ASSUME WorkersShape, [WorkersNext]_vars, NEW w \in Workers,
           \/ pc'[w] # pc[w] \/ ticket'[w] # ticket[w]
           \/ seeded'[w] # seeded[w] \/ runs'[w] # runs[w]
    PROVE  Proceed(w) \/ Disturb(w)
<1>1. CASE UNCHANGED <<progVars, epoch>>
  BY <1>1 DEF progVars
<1>2. ASSUME NEW v \in Workers, Proceed(v) \/ Disturb(v), v # w
      PROVE  FALSE
  BY <1>2, OthersStay
<1> QED
  BY <1>1, <1>2, WorkersMove

\* What a seeding inserts next is a job of its run key.
LEMMA NextKey ==
    ASSUME WorkersTypeOK, NEW w \in Workers, seeded[w] < Len(SeedOrder[w])
    PROVE  SeedOrder[w][seeded[w] + 1] \in RunKeyJobs(w)
<1>1. SeedOrder[w] \in Seq(Jobs) /\ seeded[w] \in Nat
  BY DEF WorkersTypeOK
<1>2. Len(SeedOrder[w]) \in Nat /\ seeded[w] + 1 \in 1 .. Len(SeedOrder[w])
  BY <1>1
<1> QED
  BY <1>2 DEF RunKeyJobs

\* How a step writes: the row it drafts, and the row it commits.
RowDrafts(j) ==
    {draft[j], job[j], Seeded, Aged(draft[j]), Completed(job[j]), Released(j, job[j], 0)}
        \cup {Claimed(job[j], id) : id \in WorkerIds}

\* A statement that writes one row, of a key that is seeded or present.
LEMMA WriteOne ==
    ASSUME WorkersShape, NEW c \in Clients, NEW k \in Jobs, NEW d, WriteRow(c, k, d),
           d \in RowDrafts(k), NEW j \in Jobs,
           job[k].status # "absent" \/ \E w \in Workers : k \in RunKeyJobs(w)
    PROVE  /\ job'[j] = job[j] /\ draft'[j] \in RowDrafts(j)
           /\ \/ held'[j] = held[j]
              \/ job[j].status # "absent"
              \/ \E w \in Workers : j \in RunKeyJobs(w)
<1>1. /\ held'[k] = c /\ draft'[k] = d /\ job' = job
      /\ \A i \in Jobs \ {k} : held'[i] = held[i] /\ draft'[i] = draft[i]
  BY RowWritten DEF WorkersShape, Inv
<1>2. CASE j = k
  BY <1>1, <1>2
<1>3. CASE j # k
  BY <1>1, <1>3 DEF RowDrafts
<1> QED
  BY <1>2, <1>3

\* What any step drafts, commits and locks.
LEMMA WritesAre ==
    ASSUME WorkersShape, LocksFit, [WorkersNext]_vars, NEW j \in Jobs
    PROVE  /\ draft'[j] \in RowDrafts(j)
           /\ job'[j] \in {job[j], Aged(job[j])} \/ (held[j] # Null /\ job'[j] = draft[j])
           /\ \/ held'[j] \in {held[j], Null}
              \/ job[j].status # "absent"
              \/ \E w \in Workers : j \in RunKeyJobs(w)
<1> DEFINE Goal == /\ draft'[j] \in RowDrafts(j)
                   /\ job'[j] \in {job[j], Aged(job[j])} \/ (held[j] # Null /\ job'[j] = draft[j])
                   /\ \/ held'[j] \in {held[j], Null}
                      \/ job[j].status # "absent"
                      \/ \E w \in Workers : j \in RunKeyJobs(w)
<1>1. ASSUME UNCHANGED queueVars
      PROVE  Goal
  BY <1>1 DEF queueVars, RowDrafts
<1>2. ASSUME NEW c \in Clients, Commit(c) \/ Rollback(c)
      PROVE  Goal
  <2>1. c # Null
    OBVIOUS
  <2>2. /\ held'[j] \in {held[j], Null}
        /\ draft'[j] \in {draft[j], job[j]}
    BY <1>2 DEF Commit, Rollback, EndTransaction, WorkersShape, Inv, TypeOK
  <2>3. job'[j] = job[j] \/ (held[j] # Null /\ job'[j] = draft[j])
    BY <1>2, <2>1 DEF Commit, Rollback
  <2> QED
    BY <2>2, <2>3 DEF RowDrafts
<1>3. ASSUME NEW w \in Workers, SeedNext(w)
      PROVE  Goal
  <2>1. PICK k \in Jobs : /\ k = SeedOrder[w][seeded[w] + 1]
                          /\ WriteRow(w, k, Seeded)
    BY <1>3, NextSeed DEF SeedNext, SeedRow, WorkersShape
  <2>2. k \in RunKeyJobs(w)
    BY <1>3, <2>1, NextKey DEF SeedNext, WorkersShape
  <2>3. Seeded \in RowDrafts(k) /\ w \in Clients
    BY DEF RowDrafts
  <2>4. WriteRow(w, k, Seeded) /\ \E v \in Workers : k \in RunKeyJobs(v)
    BY <2>1, <2>2
  <2>5. PICK d : d \in RowDrafts(k) /\ WriteRow(w, k, d)
    BY <2>3, <2>4
  <2> QED
    BY <2>3, <2>4, <2>5, WriteOne
<1>4. ASSUME NEW w \in Workers, Claim(w)
      PROVE  Goal
  <2>1. PICK k \in Jobs : ClaimRow(w, IdOf[w], Reach[w], k)
    BY <1>4 DEF Claim
  <2>2. job[k].status # "absent" /\ WriteRow(w, k, Claimed(job[k], IdOf[w]))
    BY <2>1 DEF ClaimRow, ClaimChoices, Unlocked, Claimable
  <2> QED
    BY <2>2, WriteOne DEF RowDrafts
<1>5. ASSUME NEW w \in Workers, CompleteFound(w) \/ FailFound(w)
      PROVE  Goal
  <2>1. PICK k \in Jobs : k = ticket[w].job
    BY <1>5 DEF CompleteFound, FailFound, Goto, WorkersShape, TicketsFit, RunPlaces, Ticket
  <2>2. PICK d \in {Completed(job[k]), Released(k, job[k], 0)} :
            job[k].status = "running" /\ WriteRow(w, k, d)
    BY <1>5, <2>1 DEF CompleteFound, FailFound, CompleteRow, FailRow, Running
  <2> QED
    BY <2>2, WriteOne DEF RowDrafts
<1>6. ASSUME NEW m \in Janitors, Recover(m)
      PROVE  Goal
  <2>1. PICK S \in SUBSET Jobs, limit \in Limits : RecoverRows(m, Sweep[m], limit, S)
    BY <1>6 DEF Recover
  <2>2. \A k \in S : job[k].status = "running"
    BY <2>1 DEF RecoverRows, RecoverChoices, Unlocked, Stale, Running
  <2>3. /\ held'  = [k \in Jobs |-> IF k \in S THEN m ELSE held[k]]
        /\ draft' = [k \in Jobs |-> IF k \in S THEN Released(k, job[k], 0) ELSE draft[k]]
        /\ job' = job
    BY <2>1 DEF RecoverRows, Write
  <2> QED
    BY <2>2, <2>3 DEF RowDrafts
<1>7. ASSUME TickWorkers
      PROVE  Goal
  BY <1>7 DEF TickWorkers, Tick, RowDrafts
<1> HIDE DEF Goal
<1>8. ASSUME NEW w \in Workers, Proceed(w) \/ Disturb(w)
      PROVE  Goal
  <2>1. ASSUME \/ SeedCommit(w) \/ ClaimCommit(w) \/ CompleteCommit(w) \/ FailCommit(w)
               \/ CompleteUnanswered(w) \/ Die(w)
        PROVE  Commit(w) \/ Rollback(w)
    BY <2>1 DEF SeedCommit, ClaimCommit, CompleteCommit, FailCommit, CompleteUnanswered, Die
  <2>2. ASSUME \/ Prepare(w) \/ ClaimNothing(w) \/ ReachCap(w) \/ Execute(w)
               \/ CompleteMissing(w) \/ FailMissing(w) \/ Start(w)
        PROVE  UNCHANGED queueVars
    BY <2>2 DEF Prepare, ClaimNothing, ReachCap, Execute, CompleteMissing, FailMissing, Start
  <2>3. w \in Clients
    OBVIOUS
  <2> QED
    BY <1>1, <1>2, <1>3, <1>4, <1>5, <1>8, <2>1, <2>2, <2>3 DEF Proceed, Disturb
<1>9. ASSUME NEW m \in Janitors, Clean(m)
      PROVE  Goal
  <2>1. m \in Clients
    OBVIOUS
  <2>2. Recover(m) \/ Commit(m)
    BY <1>9 DEF Clean, RecoverCommit
  <2> QED
    BY <1>2, <1>6, <2>1, <2>2
<1>10. UNCHANGED vars => UNCHANGED queueVars
  BY DEF vars, queueVars
<1>11. Goal
  BY <1>1, <1>7, <1>8, <1>9, <1>10 DEF WorkersNext
<1> QED
  BY <1>11 DEF Goal

-----------------------------------------------------------------------------
(* The parts that speak about rows and their locks.                        *)

\* No statement of a worker or a recovery puts a row off.
LEMMA AllDueInv ==
    ASSUME WorkersShape, LocksFit, AllDue, [WorkersNext]_vars
    PROVE  AllDue'
<1> SUFFICES ASSUME NEW j \in Jobs
             PROVE  job'[j].due_in = 0 /\ draft'[j].due_in = 0
  BY DEF AllDue
<1>1. /\ job[j] \in Row /\ draft[j] \in Row
      /\ job[j].due_in = 0 /\ draft[j].due_in = 0
  BY DEF AllDue, WorkersShape, Inv, TypeOK
<1>2. Aged(job[j]).due_in = 0 /\ Aged(draft[j]).due_in = 0 /\ Seeded.due_in = 0
  BY <1>1, AgedRow DEF Seeded, Fresh
<1>3. Completed(job[j]).due_in = 0 /\ Released(j, job[j], 0).due_in = 0
  BY <1>1 DEF Completed, Released, Row
<1>4. \A id \in WorkerIds : Claimed(job[j], id).due_in = 0
  BY <1>1 DEF Claimed, Row
<1>5. draft'[j].due_in = 0
  BY <1>1, <1>2, <1>3, <1>4, WritesAre DEF RowDrafts
<1>6. job'[j].due_in = 0
  BY <1>1, <1>2, WritesAre
<1> QED
  BY <1>5, <1>6

\* Rows are inserted by seedings only.
LEMMA OnlySeededInv ==
    ASSUME WorkersShape, LocksFit, OnlySeeded, [WorkersNext]_vars
    PROVE  OnlySeeded'
<1> SUFFICES ASSUME NEW j \in Jobs, job'[j].status # "absent" \/ held'[j] # Null
             PROVE  \E w \in Workers : j \in RunKeyJobs(w)
  BY DEF OnlySeeded
<1>1. Aged(job[j]).status = job[j].status
  BY AgedRow DEF WorkersShape, Inv, TypeOK
<1> QED
  BY <1>1, WritesAre DEF OnlySeeded

\* What a worker has locked stays locked until it moves on, and a worker locks
\* nothing more without moving on, except while it seeds.
LEMMA LocksStay ==
    ASSUME WorkersShape, LocksFit, [WorkersNext]_vars, NEW w \in Workers, pc'[w] = pc[w],
           NEW j \in Jobs
    PROVE  /\ held[j] = w => held'[j] = w
           /\ held'[j] = w /\ held[j] # w => pc[w] = "seeding"
<1> DEFINE Goal == /\ held[j] = w => held'[j] = w
                   /\ held'[j] = w /\ held[j] # w => pc[w] = "seeding"
<1>0. w # Null /\ w \in Clients
  OBVIOUS
<1>1. held' = held => Goal
  OBVIOUS
<1>2. ASSUME NEW c \in Clients, c # w, Commit(c) \/ Rollback(c)
      PROVE  Goal
  BY <1>0, <1>2 DEF Commit, Rollback, EndTransaction
<1>3. ASSUME NEW c \in Clients, NEW k \in Jobs, NEW d, WriteRow(c, k, d),
             c # w \/ pc[w] = "seeding"
      PROVE  Goal
  <2>1. held[k] = Null /\ held'[k] = c /\ \A i \in Jobs \ {k} : held'[i] = held[i]
    BY <1>3, RowWritten, WriteRowFree DEF WorkersShape, Inv
  <2> QED
    BY <1>0, <1>3, <2>1
<1>4. ASSUME NEW m \in Janitors, Recover(m)
      PROVE  Goal
  <2>1. PICK S \in SUBSET Jobs, limit \in Limits : RecoverRows(m, Sweep[m], limit, S)
    BY <1>4 DEF Recover
  <2>2. \A k \in S : held[k] = Null
    BY <2>1 DEF RecoverRows, RecoverChoices, Unlocked
  <2>3. held'  = [k \in Jobs |-> IF k \in S THEN m ELSE held[k]]
    BY <2>1 DEF RecoverRows, Write
  <2>4. m # w
    OBVIOUS
  <2> QED
    BY <1>0, <2>2, <2>3, <2>4
<1>5. ASSUME NEW v \in Workers, SeedNext(v)
      PROVE  Goal
  <2>1. PICK k \in Jobs : WriteRow(v, k, Seeded)
    BY <1>5, NextSeed DEF SeedNext, SeedRow, WorkersShape
  <2>2. pc[v] = "seeding"
    BY <1>5 DEF SeedNext
  <2>3. v \in Clients /\ (v # w \/ pc[w] = "seeding")
    BY <2>2
  <2> HIDE DEF Goal
  <2> QED
    BY <1>3, <2>1, <2>3
<1>6. ASSUME NEW v \in Workers, Claim(v)
      PROVE  Goal
  <2>1. PICK k \in Jobs : WriteRow(v, k, Claimed(job[k], IdOf[v]))
    BY <1>6 DEF Claim, ClaimRow
  <2>2. v \in Clients /\ v # w
    BY <1>6 DEF Claim, Goto, WorkersShape, WorkersTypeOK
  <2> HIDE DEF Goal
  <2> QED
    BY <1>3, <2>1, <2>2
<1>7. ASSUME NEW v \in Workers, CompleteFound(v) \/ FailFound(v)
      PROVE  Goal
  <2>1. PICK k \in Jobs : k = ticket[v].job
    BY <1>7 DEF CompleteFound, FailFound, Goto, WorkersShape, TicketsFit, RunPlaces, Ticket
  <2>2. PICK d \in {Completed(job[k]), Released(k, job[k], 0)} : WriteRow(v, k, d)
    BY <1>7, <2>1 DEF CompleteFound, FailFound, CompleteRow, FailRow
  <2>3. v \in Clients /\ v # w
    BY <1>7 DEF CompleteFound, FailFound, Goto, WorkersShape, WorkersTypeOK
  <2> HIDE DEF Goal
  <2> QED
    BY <1>3, <2>2, <2>3
<1>8. ASSUME NEW v \in Workers,
             \/ SeedCommit(v) \/ ClaimCommit(v) \/ CompleteCommit(v) \/ FailCommit(v)
             \/ CompleteUnanswered(v) \/ Die(v)
      PROVE  Goal
  <2>1. Commit(v) \/ Rollback(v)
    BY <1>8 DEF SeedCommit, ClaimCommit, CompleteCommit, FailCommit, CompleteUnanswered, Die
  <2>2. v # w
    BY <1>8 DEF SeedCommit, ClaimCommit, CompleteCommit, FailCommit, CompleteUnanswered, Die,
           ReturnFromRun, Goto, WorkersShape, WorkersTypeOK, Stopped
  <2>3. v \in Clients
    OBVIOUS
  <2> HIDE DEF Goal
  <2> QED
    BY <1>2, <2>1, <2>2, <2>3
<1>9. ASSUME NEW v \in Workers,
             \/ Prepare(v) \/ ClaimNothing(v) \/ ReachCap(v) \/ Execute(v)
             \/ CompleteMissing(v) \/ FailMissing(v) \/ Start(v)
      PROVE  Goal
  <2>1. held' = held
    BY <1>9 DEF Prepare, ClaimNothing, ReachCap, Execute, CompleteMissing, FailMissing, Start,
           queueVars
  <2> QED
    BY <1>1, <2>1
<1>10. ASSUME NEW m \in Janitors, RecoverCommit(m)
       PROVE  Goal
  <2>1. Commit(m) /\ m \in Clients /\ m # w
    BY <1>10 DEF RecoverCommit
  <2> HIDE DEF Goal
  <2> QED
    BY <1>2, <2>1
<1>11. TickWorkers \/ UNCHANGED vars => held' = held
  BY DEF TickWorkers, Tick, vars
<1> HIDE DEF Goal
<1>12. ASSUME NEW v \in Workers, Proceed(v) \/ Disturb(v)
       PROVE  Goal
  BY <1>5, <1>6, <1>7, <1>8, <1>9, <1>12 DEF Proceed, Disturb
<1>13. Goal
  BY <1>1, <1>4, <1>10, <1>11, <1>12 DEF WorkersNext, Clean
<1> QED
  BY <1>13 DEF Goal

\* One index more.
LEMMA OneMore == \A n \in Nat : \A i \in 1 .. n + 1 : i \in 1 .. n \/ i = n + 1
OBVIOUS

\* What a seeding has inserted it keeps locked.
LEMMA SeedsHeldInv ==
    ASSUME WorkersShape, LocksFit, SeedsHeld, [WorkersNext]_vars
    PROVE  SeedsHeld'
<1> SUFFICES ASSUME NEW w \in Workers
             PROVE  /\ pc'[w] \in {"preparing", "seeding"} => runs'[w] = 0
                    /\ pc'[w] = "preparing" => seeded'[w] = 0
                    /\ pc'[w] = "seeding" =>
                          /\ seeded'[w] <= Len(SeedOrder[w])
                          /\ \A i \in 1 .. seeded'[w] : held'[SeedOrder[w][i]] = w
  BY DEF SeedsHeld
<1> USE DEF WorkersShape, WorkersTypeOK
<1>0. Len(SeedOrder[w]) \in Nat /\ \A i \in 1 .. Len(SeedOrder[w]) : SeedOrder[w][i] \in Jobs
  <2>1. SeedOrder[w] \in Seq(Jobs)
    OBVIOUS
  <2> QED
    BY <2>1
<1>1. ASSUME pc'[w] \in {"preparing", "seeding"}, pc'[w] # pc[w]
      PROVE  /\ runs'[w] = 0 /\ seeded'[w] = 0
  <2>1. Proceed(w) \/ Disturb(w)
    BY <1>1, Mover
  <2>2. Start(w) \/ Prepare(w)
    BY <1>1, <2>1 DEF Proceed, Disturb, SeedNext, SeedCommit, Claim, ClaimCommit, ClaimNothing,
           ReachCap, Execute, CompleteFound, CompleteMissing, CompleteCommit, FailFound,
           FailMissing, FailCommit, ReturnFromRun, Goto, CompleteUnanswered, Die
  <2> QED
    BY <2>2 DEF Start, Prepare, Goto, SeedsHeld
<1>3. ASSUME pc'[w] = "preparing", pc[w] = "preparing"
      PROVE  /\ runs'[w] = 0 /\ seeded'[w] = 0
  <2>1. runs[w] = 0 /\ seeded[w] = 0
    BY <1>3 DEF SeedsHeld
  <2>2. ~(Proceed(w) \/ Disturb(w))
    BY <1>3 DEF Proceed, Disturb, Prepare, SeedNext, SeedCommit, Claim, ClaimCommit, ClaimNothing,
           ReachCap, Execute, CompleteFound, CompleteMissing, CompleteCommit, FailFound,
           FailMissing, FailCommit, ReturnFromRun, Goto, CompleteUnanswered, Die, Start, Stopped
  <2> QED
    BY <2>1, <2>2, Mover
<1>2. ASSUME pc[w] = "seeding", pc'[w] = "seeding"
      PROVE  /\ runs'[w] = 0
             /\ seeded'[w] <= Len(SeedOrder[w])
             /\ \A i \in 1 .. seeded'[w] : held'[SeedOrder[w][i]] = w
  <2>1. runs[w] = 0 /\ \A i \in 1 .. seeded[w] : held[SeedOrder[w][i]] = w
    BY <1>2 DEF SeedsHeld
  <2>2. /\ seeded[w] \in Nat /\ Len(SeedOrder[w]) \in Nat
        /\ \A i \in 1 .. Len(SeedOrder[w]) : SeedOrder[w][i] \in Jobs
    BY <1>0
  <2>3. seeded[w] <= Len(SeedOrder[w])
    BY <1>2 DEF SeedsHeld
  <2>4. \A i \in 1 .. seeded[w] : held'[SeedOrder[w][i]] = w
    <3> SUFFICES ASSUME NEW i \in 1 .. seeded[w]
                 PROVE  held'[SeedOrder[w][i]] = w
      OBVIOUS
    <3>1. PICK k \in Jobs : k = SeedOrder[w][i]
      BY <2>2, <2>3
    <3>2. held[k] = w
      BY <2>1, <3>1
    <3>3. pc'[w] = pc[w]
      BY <1>2
    <3>4. held'[k] = w
      BY <3>2, <3>3, LocksStay
    <3> QED
      BY <3>1, <3>4
  <2>5. CASE seeded'[w] = seeded[w] /\ runs'[w] = runs[w]
    BY <2>1, <2>3, <2>4, <2>5
  <2>6. CASE seeded'[w] # seeded[w] \/ runs'[w] # runs[w]
    <3>1. Proceed(w) \/ Disturb(w)
      BY <2>6, Mover
    <3>2. SeedNext(w)
      BY <1>2, <3>1 DEF Proceed, Disturb, Prepare, SeedCommit, Claim, ClaimCommit, ClaimNothing,
             ReachCap, Execute, CompleteFound, CompleteMissing, CompleteCommit, FailFound, FailMissing,
             FailCommit, ReturnFromRun, Goto, CompleteUnanswered, Die, Start, Stopped
    <3> DEFINE k == SeedOrder[w][seeded[w] + 1]
    <3>3. k \in Jobs /\ WriteRow(w, k, Seeded) /\ w \in Clients
      BY <3>2, NextSeed DEF SeedNext, SeedRow
    <3>4. held'[k] = w
      <4> HIDE DEF k
      <4> QED
        BY <3>3, RowWritten DEF Inv
    <3>5. seeded'[w] = seeded[w] + 1 /\ runs' = runs
      BY <3>2 DEF SeedNext
    <3>7. seeded[w] + 1 <= Len(SeedOrder[w])
      BY <2>2, <3>2 DEF SeedNext
    <3>6. \A i \in 1 .. seeded[w] + 1 : i \in 1 .. seeded[w] \/ i = seeded[w] + 1
      BY <2>2, OneMore, Zenon
    <3> QED
      BY <2>1, <2>4, <3>4, <3>5, <3>6, <3>7
  <2> QED
    BY <2>5, <2>6
<1>4. CASE pc'[w] = pc[w]
  BY <1>2, <1>3, <1>4
<1>5. CASE pc'[w] # pc[w]
  BY <1>0, <1>1, <1>5
<1> QED
  BY <1>4, <1>5

\* A claim has locked one row; the end of a run the row of its ticket.
LEMMA RunsHeldInv ==
    ASSUME WorkersShape, LocksFit, RunsHeld, [WorkersNext]_vars
    PROVE  RunsHeld'
<1> SUFFICES ASSUME NEW w \in Workers
             PROVE  /\ pc'[w] = "claiming" =>
                          \A j, k \in Jobs : held'[j] = w /\ held'[k] = w => j = k
                    /\ pc'[w] \in {"completed", "failed"} => held'[ticket'[w].job] = w
  BY DEF RunsHeld
<1> USE DEF WorkersShape, WorkersTypeOK
<1>1. ASSUME pc'[w] = "claiming", NEW j \in Jobs, NEW k \in Jobs, held'[j] = w, held'[k] = w
      PROVE  j = k
  <2>1. CASE pc[w] = "claiming"
    <3>1. pc'[w] = pc[w] /\ pc[w] # "seeding"
      BY <1>1, <2>1
    <3>2. held[j] = w
      BY <1>1, <3>1, LocksStay
    <3>3. held[k] = w
      BY <1>1, <3>1, LocksStay
    <3> QED
      BY <2>1, <3>2, <3>3 DEF RunsHeld
  <2>2. CASE pc[w] # "claiming"
    <3>1. Proceed(w) \/ Disturb(w)
      BY <1>1, <2>2, Mover
    <3>2. Claim(w)
      BY <1>1, <2>2, <3>1 DEF Proceed, Disturb, Prepare, SeedNext, SeedCommit, ClaimCommit, ClaimNothing,
             ReachCap, Execute, CompleteFound, CompleteMissing, CompleteCommit, FailFound,
             FailMissing, FailCommit, ReturnFromRun, Goto, CompleteUnanswered, Die, Start, Stopped
    <3>3. PICK i \in Jobs : WriteRow(w, i, Claimed(job[i], IdOf[w]))
      BY <3>2 DEF Claim, ClaimRow
    <3>4. \A l \in Jobs \ {i} : held'[l] = held[l]
      BY <3>3, RowWritten DEF Inv
    <3>5. ~Holds(w)
      BY <3>2, LockedPlaces DEF Claim, Goto
    <3>6. \A l \in Jobs : held[l] # w
      BY <3>5 DEF Holds
    <3>7. \A l \in Jobs : held'[l] = w => l = i
      BY <3>4, <3>6
    <3> QED
      BY <1>1, <3>7
  <2> QED
    BY <2>1, <2>2
<1>2. ASSUME pc'[w] \in {"completed", "failed"}
      PROVE  held'[ticket'[w].job] = w
  <2>1. CASE pc'[w] = pc[w]
    <3>1. ticket'[w] = ticket[w]
      <4> SUFFICES ASSUME ticket'[w] # ticket[w] PROVE FALSE
        OBVIOUS
      <4>1. Proceed(w) \/ Disturb(w)
        BY Mover
      <4> QED
        BY <1>2, <2>1, <4>1 DEF Proceed, Disturb, Prepare, SeedNext, SeedCommit, Claim, ClaimCommit,
               ClaimNothing, ReachCap, Execute, CompleteFound, CompleteMissing, CompleteCommit,
               FailFound, FailMissing, FailCommit, ReturnFromRun, Goto, CompleteUnanswered, Die,
               Start
    <3>2. ticket[w].job \in Jobs
      BY <1>2, <2>1 DEF TicketsFit, RunPlaces, Ticket
    <3>3. held[ticket[w].job] = w
      BY <1>2, <2>1 DEF RunsHeld
    <3> QED
      BY <2>1, <3>1, <3>2, <3>3, LocksStay
  <2>2. CASE pc'[w] # pc[w]
    <3>1. Proceed(w) \/ Disturb(w)
      BY <2>2, Mover
    <3>2. CompleteFound(w) \/ FailFound(w)
      BY <1>2, <2>2, <3>1 DEF Proceed, Disturb, Prepare, SeedNext, SeedCommit, Claim, ClaimCommit,
             ClaimNothing, ReachCap, Execute, CompleteMissing, CompleteCommit, FailMissing,
             FailCommit, ReturnFromRun, Goto, CompleteUnanswered, Die, Start
    <3>3. PICK k \in Jobs : k = ticket[w].job
      BY <3>2 DEF CompleteFound, FailFound, Goto, TicketsFit, RunPlaces, Ticket
    <3>4. PICK d \in {Completed(job[k]), Released(k, job[k], 0)} : WriteRow(w, k, d)
      BY <3>2, <3>3 DEF CompleteFound, FailFound, CompleteRow, FailRow
    <3>5. held'[k] = w
      BY <3>4, RowWritten DEF Inv
    <3>6. ticket' = ticket
      BY <3>2 DEF CompleteFound, FailFound
    <3> QED
      BY <3>3, <3>5, <3>6
  <2> QED
    BY <2>1, <2>2
<1> QED
  BY <1>1, <1>2

-----------------------------------------------------------------------------
(* Who runs what runs, and who is left.                                    *)

\* Where a worker is in its program, and what a step commits there.
LEMMA CommitPlaces ==
    ASSUME WorkersShape, LocksFit, SeedsHeld, RunsHeld, OnlySeeded, OneRunKey,
           NEW w \in Workers, Commit(w), NEW j \in Jobs
    PROVE  /\ pc[w] = "seeding" /\ SeedCommit(w) => job'[j].status \in {"absent", "available"}
           /\ pc[w] = "claiming" /\ held[j] # w => job'[j] = job[j]
           /\ pc[w] \in {"completed", "failed"} =>
                 /\ job'[j].status = "running" => job[j].status = "running"
                 /\ j = ticket[w].job => job'[j].status # "running"
<1>1. job'[j] = IF held[j] = w THEN draft[j] ELSE job[j]
  BY DEF Commit
<1>2. ASSUME pc[w] = "seeding", SeedCommit(w)
      PROVE  job'[j].status \in {"absent", "available"}
  <2>1. CASE held[j] = w
    BY <1>1, <1>2, <2>1 DEF LocksFit, SeedLock, ClaimLock, Seeded, Fresh
  <2>2. CASE held[j] # w
    <3>1. j \notin RunKeyJobs(w)
      BY <1>2, <2>2 DEF SeedsHeld, SeedCommit, RunKeyJobs
    <3>2. job[j].status = "absent"
      BY <3>1 DEF OnlySeeded, OneRunKey
    <3> QED
      BY <1>1, <2>2, <3>2
  <2> QED
    BY <2>1, <2>2
<1>3. ASSUME pc[w] \in {"completed", "failed"}
      PROVE  /\ job'[j].status = "running" => job[j].status = "running"
             /\ j = ticket[w].job => job'[j].status # "running"
  <2>1. held[j] = w => EndLock(j)
    BY <1>3 DEF LocksFit, SeedLock, ClaimLock
  <2>2. j = ticket[w].job => held[j] = w
    BY <1>3 DEF RunsHeld
  <2> QED
    BY <1>1, <2>1, <2>2 DEF EndLock
<1> QED
  BY <1>1, <1>2, <1>3

\* A row that comes to run, or goes on running, has a worker for it.
LEMMA RunnersThereInv ==
    ASSUME WorkersShape, LocksFit, SeedsHeld, RunsHeld, OnlySeeded, OneRunKey, RunnersThere,
           [WorkersNext]_vars
    PROVE  RunnersThere'
<1> SUFFICES ASSUME NEW j \in Jobs, job'[j].status = "running"
             PROVE  \E w \in Workers : RunsIt(w, j)'
  BY DEF RunnersThere, Running
<1> USE DEF WorkersShape, WorkersTypeOK
\* Whoever ran it and did not move still does.
<1>1. ASSUME job[j].status = "running",
             \A w \in Workers : RunsIt(w, j) => RunsIt(w, j)'
      PROVE  \E w \in Workers : RunsIt(w, j)'
  BY <1>1 DEF RunnersThere, Running
<1>2. ASSUME UNCHANGED <<progVars, epoch>>, job[j].status = "running"
      PROVE  \E w \in Workers : RunsIt(w, j)'
  <2>1. \A w \in Workers : RunsIt(w, j) => RunsIt(w, j)'
    BY <1>2 DEF RunsIt, progVars
  <2> QED
    BY <1>1, <1>2, <2>1
<1>3. ASSUME NEW w \in Workers, Proceed(w) \/ Disturb(w), job[j].status = "running",
             RunsIt(w, j) => RunsIt(w, j)'
      PROVE  \E v \in Workers : RunsIt(v, j)'
  <2>1. \A v \in Workers \ {w} : pc'[v] = pc[v] /\ ticket'[v] = ticket[v]
    BY <1>3, OthersStay
  <2>2. \A v \in Workers \ {w} : RunsIt(v, j) => RunsIt(v, j)'
    BY <2>1 DEF RunsIt
  <2>3. \A v \in Workers : RunsIt(v, j) => RunsIt(v, j)'
    BY <1>3, <2>2
  <2> QED
    BY <1>1, <1>3, <2>3
\* The steps that commit nothing.
<1>4. ASSUME NEW w \in Workers,
             \/ Prepare(w) \/ SeedNext(w) \/ Claim(w) \/ ClaimNothing(w) \/ ReachCap(w)
             \/ Execute(w) \/ CompleteFound(w) \/ CompleteMissing(w) \/ FailFound(w)
             \/ FailMissing(w) \/ Start(w) \/ Die(w)
      PROVE  job' = job
  BY <1>4 DEF Prepare, SeedNext, SeedRow, Claim, ClaimRow, ClaimNothing, ReachCap, Execute, CompleteFound,
        CompleteRow, CompleteMissing, FailFound, FailRow, FailMissing, Start, Die,
        Rollback, WriteRow, Write, queueVars
<1>5. ASSUME NEW w \in Workers,
             Prepare(w) \/ SeedNext(w) \/ FailMissing(w) \/ Start(w) \/ Die(w)
      PROVE  RunsIt(w, j)'
  <2>1. pc'[w] \in {"dead", "preparing", "seeding"}
    BY <1>5 DEF Prepare, SeedNext, FailMissing, Start, Die, Goto
  <2> QED
    BY <2>1 DEF RunsIt
<1>6. ASSUME NEW w \in Workers,
             \/ Claim(w) \/ ClaimNothing(w) \/ ReachCap(w) \/ Execute(w)
             \/ CompleteFound(w) \/ CompleteMissing(w) \/ FailFound(w) \/ CompleteUnanswered(w)
      PROVE  RunsIt(w, j) => RunsIt(w, j)'
  <2>1. /\ ticket' = ticket /\ pc[w] \notin {"dead", "preparing", "seeding"}
        /\ pc[w] \in RunPlaces => pc'[w] \in RunPlaces
    BY <1>6 DEF Claim, ClaimNothing, ReachCap, Execute, CompleteFound, CompleteMissing, FailFound,
           CompleteUnanswered, Goto, RunPlaces
  <2> QED
    BY <2>1 DEF RunsIt
<1>7. ASSUME NEW w \in Workers, SeedCommit(w)
      PROVE  FALSE
  <2>1. Commit(w) /\ pc[w] = "seeding"
    BY <1>7 DEF SeedCommit, Goto
  <2>2. job'[j].status \in {"absent", "available"}
    BY <1>7, <2>1, CommitPlaces
  <2> QED
    BY <2>2
<1>8. ASSUME NEW w \in Workers, ClaimCommit(w), Proceed(w) \/ Disturb(w)
      PROVE  \E v \in Workers : RunsIt(v, j)'
  <2>1. PICK k \in Jobs :
           /\ held[k] = w
           /\ ticket' = [ticket EXCEPT ![w] =
                 [job |-> k, epoch |-> epoch[k], attempts |-> draft[k].attempts]]
    BY <1>8 DEF ClaimCommit
  <2>2. Commit(w) /\ pc[w] = "claiming"
    BY <1>8 DEF ClaimCommit, Goto
  <2>3. ticket'[w] = [job |-> k, epoch |-> epoch[k], attempts |-> draft[k].attempts]
    BY <2>1
  <2>4. CASE j = k
    <3>1. pc'[w] = "executing"
      BY <1>8 DEF ClaimCommit, Goto
    <3>2. ticket'[w].job = j
      BY <2>3, <2>4
    <3> QED
      BY <3>1, <3>2 DEF RunsIt, RunPlaces
  <2>5. CASE j # k
    <3>1. held[j] # w
      BY <2>1, <2>2, <2>5 DEF RunsHeld
    <3>2. job[j].status = "running"
      BY <2>2, <3>1, CommitPlaces
    <3>3. ~RunsIt(w, j)
      BY <2>2 DEF RunsIt, RunPlaces
    <3> QED
      BY <1>3, <1>8, <3>2, <3>3
  <2> QED
    BY <2>4, <2>5
<1>9. ASSUME NEW w \in Workers, CompleteCommit(w) \/ FailCommit(w), Proceed(w) \/ Disturb(w)
      PROVE  \E v \in Workers : RunsIt(v, j)'
  <2>1. Commit(w) /\ pc[w] \in {"completed", "failed"}
    BY <1>9 DEF CompleteCommit, FailCommit, ReturnFromRun, Goto
  <2>2. job[j].status = "running" /\ j # ticket[w].job
    BY <2>1, CommitPlaces
  <2>3. ~RunsIt(w, j)
    BY <2>1, <2>2 DEF RunsIt
  <2> QED
    BY <1>3, <1>9, <2>2, <2>3
<1>10. ASSUME NEW w \in Workers, CompleteUnanswered(w)
       PROVE  job[j].status = "running"
  <2>1. CASE Commit(w)
    <3>1. pc[w] \in {"completed", "failed"}
      BY <1>10 DEF CompleteUnanswered, Goto
    <3> QED
      BY <2>1, <3>1, CommitPlaces
  <2>2. CASE Rollback(w)
    BY <2>2 DEF Rollback
  <2> QED
    BY <1>10, <2>1, <2>2 DEF CompleteUnanswered
<1>11. ASSUME NEW w \in Workers, Proceed(w) \/ Disturb(w)
       PROVE  \E v \in Workers : RunsIt(v, j)'
  <2>1. CASE \/ Prepare(w) \/ SeedNext(w) \/ FailMissing(w) \/ Start(w) \/ Die(w)
             \/ SeedCommit(w) \/ ClaimCommit(w) \/ CompleteCommit(w) \/ FailCommit(w)
    BY <1>5, <1>7, <1>8, <1>9, <1>11, <2>1
  <2>2. CASE \/ Claim(w) \/ ClaimNothing(w) \/ ReachCap(w) \/ Execute(w)
             \/ CompleteFound(w) \/ CompleteMissing(w) \/ FailFound(w)
    BY <1>3, <1>4, <1>6, <1>11, <2>2
  <2>3. CASE CompleteUnanswered(w)
    BY <1>3, <1>6, <1>10, <1>11, <2>3
  <2> QED
    BY <1>11, <2>1, <2>2, <2>3 DEF Proceed, Disturb
<1>12. ASSUME NEW m \in Janitors, Clean(m)
       PROVE  job[j].status = "running" /\ UNCHANGED <<progVars, epoch>>
  <2>1. CASE Recover(m)
    BY <2>1 DEF Recover, RecoverRows, Write
  <2>2. CASE RecoverCommit(m)
    <3>1. job'[j] = (IF held[j] = m THEN draft[j] ELSE job[j]) /\ UNCHANGED <<progVars, epoch>>
      BY <2>2 DEF RecoverCommit, Commit
    <3>2. held[j] = m => EndLock(j)
      BY DEF LocksFit
    <3> QED
      BY <3>1, <3>2 DEF EndLock
  <2> QED
    BY <1>12, <2>1, <2>2 DEF Clean
<1>13. ASSUME TickWorkers
       PROVE  job[j].status = "running" /\ UNCHANGED <<progVars, epoch>>
  <2>1. job'[j] = Aged(job[j]) /\ UNCHANGED <<progVars, epoch>>
    BY <1>13 DEF TickWorkers, Tick
  <2> QED
    BY <2>1, AgedRow DEF Inv, TypeOK
<1>14. ASSUME UNCHANGED vars
       PROVE  job[j].status = "running" /\ UNCHANGED <<progVars, epoch>>
  BY <1>14 DEF vars, progVars
<1> QED
  BY <1>2, <1>11, <1>12, <1>13, <1>14 DEF WorkersNext

-----------------------------------------------------------------------------
(* The one worker that was ever started does not run out of executions.    *)

\* The jobs of a run key are finitely many, no more than its seeding inserts.
LEMMA KeysFinite ==
    ASSUME NEW w \in Workers
    PROVE  /\ IsFiniteSet(RunKeyJobs(w)) /\ RunKeyJobs(w) \subseteq Jobs
           /\ Cardinality(RunKeyJobs(w)) \in Nat /\ Cardinality(RunKeyJobs(w)) <= Len(SeedOrder[w])
<1>1. SeedOrder[w] \in Seq(Jobs)
  OBVIOUS
<1> DEFINE n == Len(SeedOrder[w])
           f == [i \in 1 .. n |-> SeedOrder[w][i]]
<1>2. n \in Nat /\ \A i \in 1 .. n : SeedOrder[w][i] \in Jobs
  BY <1>1
<1>3. IsFiniteSet(1 .. n) /\ Cardinality(1 .. n) = n
  BY <1>2, FS_Interval
<1>4. f \in Surjection(1 .. n, RunKeyJobs(w))
  BY DEF Surjection, RunKeyJobs
<1>5. IsFiniteSet(RunKeyJobs(w)) /\ Cardinality(RunKeyJobs(w)) <= n
  <2> HIDE DEF f, n
  <2> QED
    BY <1>3, <1>4, FS_Surjection
<1>6. RunKeyJobs(w) \subseteq Jobs
  BY <1>2 DEF RunKeyJobs
<1> QED
  BY <1>5, <1>6, FS_CardinalityType

\* So are its attempts.
LEMMA TriesFinite ==
    ASSUME NEW w \in Workers
    PROVE  /\ IsFiniteSet(RunKeyJobs(w) \X {1, 2})
           /\ Cardinality(RunKeyJobs(w) \X {1, 2}) <= Cap(w)
           /\ Cardinality(RunKeyJobs(w) \X {1, 2}) \in Nat
           /\ IsFiniteSet(Tries(w)) /\ Cardinality(Tries(w)) \in Nat
<1>1. IsFiniteSet({1, 2}) /\ Cardinality({1, 2}) = 2
  <2>1. IsFiniteSet({1}) /\ Cardinality({1}) = 1
    BY FS_Singleton
  <2>2. /\ IsFiniteSet({1} \cup {2})
        /\ Cardinality({1} \cup {2}) = IF 2 \in {1} THEN Cardinality({1}) ELSE Cardinality({1}) + 1
    BY <2>1, FS_AddElement
  <2>3. {1, 2} = {1} \cup {2}
    OBVIOUS
  <2>4. Cardinality({1} \cup {2}) = 2
    <3>1. 2 \notin {1}
      OBVIOUS
    <3>2. Cardinality({1} \cup {2}) = Cardinality({1}) + 1
      BY <2>2, <3>1, Zenon
    <3>3. Cardinality({1} \cup {2}) = 1 + 1
      BY <2>1, <3>2, Zenon
    <3> QED
      BY <3>3
  <2> QED
    BY <2>2, <2>3, <2>4, Zenon
<1>2. /\ IsFiniteSet(RunKeyJobs(w) \X {1, 2})
      /\ Cardinality(RunKeyJobs(w) \X {1, 2}) = Cardinality(RunKeyJobs(w)) * 2
  BY <1>1, KeysFinite, FS_Product
<1>3. Len(SeedOrder[w]) \in Nat
  <2>1. SeedOrder[w] \in Seq(Jobs)
    OBVIOUS
  <2> QED
    BY <2>1
<1>4. Cardinality(RunKeyJobs(w) \X {1, 2}) <= Cap(w) /\ Cardinality(RunKeyJobs(w) \X {1, 2}) \in Nat
  BY <1>2, <1>3, KeysFinite DEF Cap
<1>5. Tries(w) \in SUBSET (RunKeyJobs(w) \X {1, 2})
  BY DEF Tries
<1>6. IsFiniteSet(Tries(w))
  BY <1>2, <1>5, FS_Subset
<1> QED
  BY <1>2, <1>4, <1>6, FS_CardinalityType

\* A step that seeds nothing takes no attempt back.
LEMMA TriesGrow ==
    ASSUME WorkersShape, LocksFit, [WorkersNext]_vars, NEW w \in Workers,
           \A j \in Jobs : epoch'[j] = epoch[j]
    PROVE  /\ Tries(w) \subseteq Tries(w)'
           /\ Cardinality(Tries(w)) <= Cardinality(Tries(w)')
           /\ Cardinality(Tries(w)') \in Nat
<1>1. ASSUME NEW j \in Jobs
      PROVE  job'[j].attempts >= job[j].attempts
  <2>1. epoch[j] \in Nat
    BY DEF WorkersShape, WorkersTypeOK
  <2> QED
    BY <2>1, RowsAdvance
<1>2. \A j \in Jobs : job[j].attempts \in Nat /\ job'[j].attempts \in Nat
  BY ShapeInv DEF WorkersShape, Inv, TypeOK, Row
<1>3. Tries(w) \subseteq Tries(w)'
  <2> SUFFICES ASSUME NEW j \in RunKeyJobs(w), NEW n \in {1, 2}, n <= job[j].attempts
               PROVE  n <= job'[j].attempts
    BY DEF Tries, RunKeyJobs
  <2>1. j \in Jobs
    BY KeysFinite
  <2> QED
    BY <1>1, <1>2, <2>1
<1>4. Tries(w)' \in SUBSET (RunKeyJobs(w) \X {1, 2})
  BY DEF Tries, RunKeyJobs
<1>5. IsFiniteSet(Tries(w)')
  BY <1>4, TriesFinite, FS_Subset
<1> QED
  BY <1>3, <1>5, FS_Subset, FS_CardinalityType

\* A claim takes one attempt more.
LEMMA ClaimTries ==
    ASSUME WorkersShape, LocksFit, OnlySeeded, OneRunKey, [WorkersNext]_vars,
           NEW w \in Workers, ClaimCommit(w)
    PROVE  Cardinality(Tries(w)) + 1 <= Cardinality(Tries(w)') /\ Cardinality(Tries(w)') \in Nat
<1>1. PICK j \in Jobs : held[j] = w
  BY DEF ClaimCommit
<1>2. job'[j] = draft[j] /\ epoch' = epoch /\ pc[w] = "claiming"
  BY <1>1 DEF ClaimCommit, Commit, Goto
<1>3. draft[j].status = "running" /\ draft[j].attempts = job[j].attempts + 1
  BY <1>1, <1>2 DEF LocksFit, SeedLock, ClaimLock
<1>4. j \in RunKeyJobs(w) /\ MaxAttempts[j] <= 2
  <2>1. w # Null
    OBVIOUS
  <2>2. PICK v \in Workers : j \in RunKeyJobs(v)
    BY <1>1, <2>1 DEF OnlySeeded
  <2> QED
    BY <2>2 DEF OneRunKey
<1>5. /\ job[j].attempts \in Nat /\ MaxAttempts[j] \in Nat
      /\ job[j].attempts + 1 <= MaxAttempts[j]
  <2>1. RowSound(j, draft[j]) /\ job[j] \in Row
    BY DEF WorkersShape, Inv, RowsSound, TypeOK
  <2>2. MaxAttempts[j] \in Nat
    BY MaxAttemptsAssumption DEF MaxAttemptsAssumption
  <2>3. draft[j].attempts <= MaxAttempts[j]
    BY <2>1 DEF RowSound, RowAgrees
  <2> QED
    BY <1>3, <2>1, <2>2, <2>3 DEF Row
<1> DEFINE t == <<j, job[j].attempts + 1>>
<1>6. t \in RunKeyJobs(w) \X {1, 2}
  <2>1. job[j].attempts + 1 \in {1, 2}
    BY <1>4, <1>5
  <2> QED
    BY <1>4, <2>1
<1>7. t \notin Tries(w)
  BY <1>5 DEF Tries
<1>8. t \in Tries(w)'
  <2>1. RunKeyJobs(w)' = RunKeyJobs(w)
    BY DEF RunKeyJobs
  <2>2. job'[t[1]].attempts = job[j].attempts + 1 /\ t[2] = job[j].attempts + 1
    BY <1>2, <1>3
  <2>3. t[2] <= job'[t[1]].attempts
    BY <1>5, <2>2
  <2> HIDE DEF t
  <2> QED
    BY <1>6, <2>1, <2>3 DEF Tries
<1>9. Tries(w) \subseteq Tries(w)'
  BY <1>2, TriesGrow
<1> HIDE DEF t
<1>10. /\ IsFiniteSet(Tries(w) \cup {t})
       /\ Cardinality(Tries(w) \cup {t}) = Cardinality(Tries(w)) + 1
  BY <1>7, TriesFinite, FS_AddElement
<1>11. IsFiniteSet(Tries(w)')
  <2>1. Tries(w)' \in SUBSET (RunKeyJobs(w) \X {1, 2})
    BY DEF Tries, RunKeyJobs
  <2> QED
    BY <2>1, TriesFinite, FS_Subset
<1>12. Tries(w) \cup {t} \in SUBSET (Tries(w)')
  BY <1>8, <1>9
<1>13. Cardinality(Tries(w) \cup {t}) <= Cardinality(Tries(w)')
  BY <1>11, <1>12, FS_Subset
<1> QED
  BY <1>10, <1>11, <1>13, FS_CardinalityType

\* While there has been one start, the worker's executions are covered by attempts.
LEMMA TriesCountedInv ==
    ASSUME WorkersShape, LocksFit, SeedsHeld, OnlySeeded, OneRunKey, TriesCounted,
           [WorkersNext]_vars
    PROVE  TriesCounted'
<1> USE DEF WorkersShape, WorkersTypeOK
<1>0. starts \in Nat
  OBVIOUS
<1>1. ASSUME NEW w \in Workers, Start(w)
      PROVE  TriesCounted'
  <2>1. starts' = starts + 1 /\ pc' = [pc EXCEPT ![w] = "preparing"]
    BY <1>1 DEF Start
  <2>2. starts' <= 1 => \A v \in Workers : pc[v] = "off"
    BY <1>0, <2>1 DEF TriesCounted
  <2>3. ASSUME starts' <= 1, NEW v \in Workers, pc'[v] # "off"
        PROVE  v = w /\ pc'[v] = "preparing" /\ \A u \in Workers \ {v} : pc'[u] = "off"
    BY <2>1, <2>2, <2>3
  <2>4. starts' # 0
    BY <1>0, <2>1
  <2> QED
    BY <2>3, <2>4 DEF TriesCounted
<1>2. ASSUME starts' = starts,
             \A w \in Workers : pc[w] = "off" => pc'[w] = "off",
             ASSUME starts <= 1, NEW w \in Workers, pc[w] # "off",
                    \A v \in Workers \ {w} : pc[v] = "off",
                    pc'[w] \notin {"preparing", "seeding", "dead"}
             PROVE  Executions(w)' <= Cardinality(Tries(w)')
      PROVE  TriesCounted'
  <2>1. starts' = 0 => \A w \in Workers : pc'[w] = "off"
    BY <1>2 DEF TriesCounted
  <2>2. ASSUME starts' <= 1, NEW w \in Workers, pc'[w] # "off"
        PROVE  /\ \A v \in Workers \ {w} : pc'[v] = "off"
               /\ pc'[w] \notin {"preparing", "seeding", "dead"} => Executions(w)' <= Cardinality(Tries(w)')
    <3>1. \A v \in Workers \ {w} : pc[v] = "off"
      BY <1>2, <2>2 DEF TriesCounted
    <3> QED
      BY <1>2, <2>2, <3>1
  <2> QED
    BY <2>1, <2>2 DEF TriesCounted
\* Steps of others than the one worker leave it its executions.
<1>3. ASSUME \A j \in Jobs : epoch'[j] = epoch[j], NEW w \in Workers,
             starts <= 1, pc[w] \notin {"off", "preparing", "seeding", "dead"},
             Executions(w)' = Executions(w)
      PROVE  Executions(w)' <= Cardinality(Tries(w)')
  <2>1. Executions(w) <= Cardinality(Tries(w))
    BY <1>3 DEF TriesCounted
  <2>2. Executions(w) \in Nat
    BY DEF Executions
  <2>3. Cardinality(Tries(w)) <= Cardinality(Tries(w)') /\ Cardinality(Tries(w)') \in Nat
    BY <1>3, TriesGrow
  <2>4. Cardinality(Tries(w)) \in Nat
    BY TriesFinite
  <2> QED
    BY <1>3, <2>1, <2>2, <2>3, <2>4
<1>4. ASSUME UNCHANGED <<progVars, epoch>>
      PROVE  TriesCounted'
  <2>1. \A w \in Workers : Executions(w)' = Executions(w)
    BY <1>4 DEF Executions, progVars
  <2>2. starts' = starts /\ pc' = pc /\ epoch' = epoch
    BY <1>4 DEF progVars
  <2>3. ASSUME starts <= 1, NEW w \in Workers, pc[w] # "off",
               pc'[w] \notin {"preparing", "seeding", "dead"}
        PROVE  Executions(w)' <= Cardinality(Tries(w)')
    BY <1>3, <2>1, <2>2, <2>3
  <2> QED
    BY <1>2, <2>2, <2>3
<1>5. ASSUME NEW u \in Workers, Proceed(u) \/ Disturb(u), ~Start(u)
      PROVE  TriesCounted'
  <2>1. starts' = starts /\ pc[u] # "off" /\ pc'[u] # "off"
    BY <1>5 DEF Proceed, Disturb, Prepare, SeedNext, SeedCommit, Claim, ClaimCommit, ClaimNothing,
           ReachCap, Execute, CompleteFound, CompleteMissing, CompleteCommit, FailFound,
           FailMissing, FailCommit, ReturnFromRun, Goto, CompleteUnanswered, Die, Stopped
  <2>2. \A w \in Workers : pc[w] = "off" => pc'[w] = "off"
    BY <1>5, <2>1, OthersStay
  <2>3. ASSUME starts <= 1, NEW w \in Workers, pc[w] # "off",
               \A v \in Workers \ {w} : pc[v] = "off",
               pc'[w] \notin {"preparing", "seeding", "dead"}
        PROVE  Executions(w)' <= Cardinality(Tries(w)')
    <3>1. u = w
      BY <2>1, <2>3
    <3>2. CASE SeedCommit(w)
      <4>1. runs'[w] = 0 /\ pc'[w] = "polling"
        BY <3>2 DEF SeedCommit, Goto, SeedsHeld
      <4>2. Executions(w)' = 0
        BY <4>1 DEF Executions, RunPlaces
      <4>3. Cardinality(Tries(w)') \in Nat
        <5>1. Tries(w)' \in SUBSET (RunKeyJobs(w) \X {1, 2})
          BY DEF Tries, RunKeyJobs
        <5> QED
          BY <5>1, TriesFinite, FS_Subset, FS_CardinalityType
      <4> QED
        BY <4>2, <4>3
    <3>3. CASE ClaimCommit(w)
      <4>1. /\ pc[w] = "claiming" /\ pc'[w] = "executing" /\ runs'[w] = runs[w]
        BY <3>3 DEF ClaimCommit, Goto
      <4>2. Executions(w)' = Executions(w) + 1 /\ Executions(w) \in Nat
        BY <4>1 DEF Executions, RunPlaces
      <4>3. Executions(w) <= Cardinality(Tries(w))
        BY <2>3, <4>1 DEF TriesCounted
      <4>4. Cardinality(Tries(w)) + 1 <= Cardinality(Tries(w)') /\ Cardinality(Tries(w)') \in Nat
        BY <3>3, ClaimTries
      <4>5. Cardinality(Tries(w)) \in Nat
        BY TriesFinite
      <4> QED
        BY <4>2, <4>3, <4>4, <4>5
    <3>4. CASE ~SeedCommit(w) /\ ~ClaimCommit(w)
      <4>1. pc[w] \notin {"off", "preparing", "seeding", "dead"}
        BY <1>5, <2>3, <3>1, <3>4 DEF Proceed, Disturb, Prepare, SeedNext, Claim, ClaimNothing, ReachCap,
               Execute, CompleteFound, CompleteMissing, CompleteCommit, FailFound, FailMissing,
               FailCommit, ReturnFromRun, Goto, CompleteUnanswered, Die, Stopped
      <4>2. Executions(w)' = Executions(w)
        BY <1>5, <2>3, <3>1, <3>4 DEF Executions, RunPlaces, Proceed, Disturb, Prepare, SeedNext, Claim,
           ClaimNothing, ReachCap, Execute, CompleteFound, CompleteMissing, CompleteCommit,
           FailFound, FailMissing, FailCommit, ReturnFromRun, Goto, CompleteUnanswered, Die
      <4>3. epoch' = epoch
        BY <1>5, <3>1, <3>4 DEF Proceed, Disturb, Prepare, SeedNext, Claim, ClaimNothing, ReachCap,
               Execute, CompleteFound, CompleteMissing, CompleteCommit, FailFound, FailMissing,
               FailCommit, ReturnFromRun, CompleteUnanswered, Die
      <4> QED
        BY <1>3, <2>3, <4>1, <4>2, <4>3
    <3> QED
      BY <3>2, <3>3, <3>4
  <2> QED
    BY <1>2, <2>1, <2>2, <2>3
<1> QED
  BY <1>1, <1>4, <1>5, WorkersMove

-----------------------------------------------------------------------------
(* Somebody is left as long as something is.                               *)

\* Nobody who has stopped of its own accord can have locked a row that waits.
LEMMA WaitingIsFree ==
    ASSUME LocksFit, NEW j \in Jobs, job[j].status \in {"available", "failed"},
           \A w \in Workers : pc[w] \notin {"seeding", "claiming"}
    PROVE  held[j] = Null
<1>1. held[j] \in Workers => FALSE
  BY DEF LocksFit, SeedLock, ClaimLock, EndLock
<1>2. held[j] \in Janitors => FALSE
  BY DEF LocksFit, EndLock
<1> QED
  BY <1>1, <1>2 DEF LocksFit

\* When nobody else is left, a row that waits can be claimed.
LEMMA WaitingIsClaimable ==
    ASSUME WorkersShape, LocksFit, AllDue, OnlySeeded, OneRunKey,
           \A v \in Workers : pc[v] \notin {"seeding", "claiming"},
           NEW w \in Workers, NEW j \in Jobs, job[j].status \in {"available", "failed"}
    PROVE  ClaimChoices(Reach[w]) # {}
<1> DEFINE C == {k \in Unlocked(Reach[w]) : Claimable(k)}
<1>1. job[j].attempts < MaxAttempts[j]
  <2>1. RowSound(j, job[j]) /\ MaxAttempts[j] \in Nat \ {0}
    BY MaxAttemptsAssumption DEF MaxAttemptsAssumption, WorkersShape, Inv, RowsSound
  <2> QED
    BY <2>1 DEF RowSound, RowAgrees, Lossless
<1>2. j \in Reach[w]
  BY DEF OnlySeeded, OneRunKey
<1>3. j \in C
  BY <1>1, <1>2, WaitingIsFree DEF Unlocked, Claimable, AllDue
<1>4. C \in SUBSET RunKeyJobs(w)
  <2> SUFFICES ASSUME NEW k \in C PROVE k \in RunKeyJobs(w)
    OBVIOUS
  <2>1. k \in Jobs /\ job[k].status # "absent"
    BY DEF Unlocked, Claimable
  <2> QED
    BY <2>1 DEF OnlySeeded, OneRunKey
<1>5. IsFiniteSet(C) /\ C \subseteq Jobs
  <2> HIDE DEF C
  <2> QED
    BY <1>4, KeysFinite, FS_Subset
<1>6. \A k \in C : Priority[k] \in Int
  <2> HIDE DEF C
  <2> QED
    BY <1>5, PriorityAssumption DEF PriorityAssumption
<1>7. PICK first \in C : \A k \in C : Priority[k] <= Priority[first]
  <2> HIDE DEF C
  <2> QED
    BY <1>3, <1>5, <1>6, FirstByRank
<1>8. first \in ClaimChoices(Reach[w])
  BY <1>7 DEF ClaimChoices
<1> QED
  BY <1>8

\* Nothing is left when every worker but one is at rest and that one, looking for
\* more, finds none; or when it was the only one started and has reached its cap.
LEMMA NothingLeft ==
    ASSUME WorkersShape, LocksFit, AllDue, OnlySeeded, OneRunKey, RunnersThere, TriesCounted,
           NEW w \in Workers, ClaimNothing(w) \/ (ReachCap(w) /\ starts <= 1),
           \A v \in Workers \ {w} : ~Unrested(v), NEW j \in Jobs
    PROVE  ~Leftover(j)
<1>1. pc[w] = "polling"
  BY DEF ClaimNothing, ReachCap, Goto
<1>2. \A v \in Workers : pc[v] \in {"polling", "off", "drained", "capped"}
  BY <1>1 DEF Unrested, WorkersShape, WorkersTypeOK
<1>3. job[j].status # "running"
  <2>1. \A v \in Workers : ~RunsIt(v, j)
    BY <1>2 DEF RunsIt, RunPlaces
  <2> QED
    BY <2>1 DEF RunnersThere, Running
<1>4. CASE ClaimNothing(w)
  <2>1. ClaimChoices(Reach[w]) = {}
    BY <1>4 DEF ClaimNothing
  <2>2. job[j].status \notin {"available", "failed"}
    BY <1>2, <2>1, WaitingIsClaimable
  <2> QED
    BY <1>3, <2>2 DEF Leftover
<1>5. CASE ReachCap(w) /\ starts <= 1
  <2>1. Executions(w) <= Cardinality(Tries(w)) /\ Executions(w) = runs[w] /\ runs[w] >= Cap(w)
    BY <1>1, <1>5 DEF TriesCounted, Executions, RunPlaces, ReachCap
  <2>2. runs[w] \in Nat /\ Cap(w) \in Nat
    BY CapIsNat DEF WorkersShape, WorkersTypeOK
  <2>3. Tries(w) \in SUBSET (RunKeyJobs(w) \X {1, 2})
    BY DEF Tries
  <2>4. Cardinality(Tries(w)) <= Cardinality(RunKeyJobs(w) \X {1, 2})
    BY <2>3, TriesFinite, FS_Subset
  <2>5. Cardinality(RunKeyJobs(w) \X {1, 2}) = Cardinality(Tries(w))
    BY <2>1, <2>2, <2>4, TriesFinite
  <2>6. Tries(w) = RunKeyJobs(w) \X {1, 2}
    BY <2>3, <2>5, TriesFinite, FS_Subset
  <2>7. CASE job[j].status \in {"available", "failed"}
    <3>1. j \in RunKeyJobs(w) /\ MaxAttempts[j] <= 2
      BY <2>7 DEF OnlySeeded, OneRunKey
    <3>2. job[j].attempts >= 2
      <4>1. <<j, 2>> \in Tries(w)
        BY <2>6, <3>1
      <4>2. 2 <= job[j].attempts
        BY <4>1 DEF Tries
      <4>3. job[j].attempts \in Nat
        BY DEF WorkersShape, Inv, TypeOK, Row
      <4> QED
        BY <4>2, <4>3
    <3>3. RowSound(j, job[j]) /\ MaxAttempts[j] \in Nat \ {0} /\ job[j].attempts \in Nat
      BY MaxAttemptsAssumption DEF MaxAttemptsAssumption, WorkersShape, Inv, RowsSound, TypeOK, Row
    <3>4. job[j].status = "available" => job[j].attempts = 0
      BY <3>3 DEF RowSound, RowAgrees
    <3>5. job[j].status = "failed" => job[j].attempts < MaxAttempts[j]
      BY <3>3 DEF RowSound, Lossless
    <3> QED
      BY <2>7, <3>1, <3>2, <3>3, <3>4, <3>5
  <2> QED
    BY <1>3, <2>7 DEF Leftover
<1> QED
  BY <1>4, <1>5

\* Whoever goes on, or starts, is left.
LEMMA SomebodyLeftInv ==
    ASSUME WorkersShape, LocksFit, AllDue, OnlySeeded, OneRunKey, RunnersThere, TriesCounted,
           SomebodyLeft, [WorkersNext]_vars
    PROVE  SomebodyLeft'
<1> SUFFICES ASSUME NEW j \in Jobs, Leftover(j)'
             PROVE  \E w \in Workers : Unrested(w)'
  BY DEF SomebodyLeft
<1> USE DEF WorkersShape, WorkersTypeOK
<1>1. ASSUME NEW w \in Workers, Proceed(w) \/ Disturb(w), ~ClaimNothing(w), ~ReachCap(w)
      PROVE  Unrested(w)'
  <2>1. pc'[w] \notin {"off", "drained", "capped"}
    BY <1>1 DEF Proceed, Disturb, Prepare, SeedNext, SeedCommit, Claim, ClaimCommit, Execute, CompleteFound,
           CompleteMissing, CompleteCommit, FailFound, FailMissing, FailCommit, ReturnFromRun, Goto,
           CompleteUnanswered, Die, Start
  <2> QED
    BY <2>1 DEF Unrested
<1>2. ASSUME NEW w \in Workers, ClaimNothing(w) \/ (ReachCap(w) /\ starts <= 1),
             Proceed(w) \/ Disturb(w)
      PROVE  \E v \in Workers : Unrested(v)'
  <2>1. job' = job /\ starts' = starts
    BY <1>2 DEF ClaimNothing, ReachCap, queueVars
  <2>2. Leftover(j)
    BY <2>1 DEF Leftover
  <2>3. PICK v \in Workers \ {w} : Unrested(v)
    BY <1>2, <2>2, NothingLeft
  <2>5. pc'[v] = pc[v]
    BY <1>2, OthersStay
  <2> QED
    BY <2>1, <2>3, <2>5 DEF Unrested
<1>3. ASSUME NEW w \in Workers, ReachCap(w), ~(starts <= 1)
      PROVE  Unrested(w)'
  <2>1. pc'[w] = "capped" /\ starts' = starts /\ starts > 1
    BY <1>3 DEF ReachCap, Goto
  <2> QED
    BY <2>1 DEF Unrested
<1>4. ASSUME NEW w \in Workers, Proceed(w) \/ Disturb(w)
      PROVE  \E v \in Workers : Unrested(v)'
  BY <1>1, <1>2, <1>3, <1>4
<1>5. ASSUME UNCHANGED <<progVars, epoch>>, Leftover(j)
      PROVE  \E w \in Workers : Unrested(w)'
  BY <1>5 DEF SomebodyLeft, Unrested, progVars
<1>6. ASSUME NEW m \in Janitors, Clean(m)
      PROVE  UNCHANGED <<progVars, epoch>> /\ Leftover(j)
  <2>1. CASE Recover(m)
    <3>1. job' = job /\ UNCHANGED <<progVars, epoch>>
      BY <2>1 DEF Recover, RecoverRows, Write
    <3> QED
      BY <3>1 DEF Leftover
  <2>2. CASE RecoverCommit(m)
    <3>1. job'[j] = (IF held[j] = m THEN draft[j] ELSE job[j]) /\ UNCHANGED <<progVars, epoch>>
      BY <2>2 DEF RecoverCommit, Commit
    <3>2. held[j] = m => EndLock(j)
      BY DEF LocksFit
    <3> QED
      BY <3>1, <3>2 DEF EndLock, Leftover
  <2> QED
    BY <1>6, <2>1, <2>2 DEF Clean
<1>7. ASSUME TickWorkers
      PROVE  UNCHANGED <<progVars, epoch>> /\ Leftover(j)
  <2>1. job'[j] = Aged(job[j]) /\ UNCHANGED <<progVars, epoch>>
    BY <1>7 DEF TickWorkers, Tick
  <2>2. Aged(job[j]).status = job[j].status
    BY AgedRow DEF Inv, TypeOK
  <2> QED
    BY <2>1, <2>2 DEF Leftover
<1>8. ASSUME UNCHANGED vars
      PROVE  UNCHANGED <<progVars, epoch>> /\ Leftover(j)
  BY <1>8 DEF vars, progVars, Leftover
<1> QED
  BY <1>4, <1>5, <1>6, <1>7, <1>8 DEF WorkersNext

-----------------------------------------------------------------------------
(* The invariant of one run key, and what it gives.                        *)

\* Nothing has been started.
LEMMA DrainInit == WorkersInit => DrainInv
<1> SUFFICES ASSUME WorkersInit PROVE DrainInv
  OBVIOUS
<1>1. AllDue /\ OnlySeeded
  BY DEF WorkersInit, Init, AllDue, OnlySeeded, Absent, Fresh
<1>2. SeedsHeld /\ RunsHeld /\ TriesCounted
  BY DEF WorkersInit, SeedsHeld, RunsHeld, TriesCounted
<1>3. RunnersThere /\ SomebodyLeft
  BY DEF WorkersInit, Init, RunnersThere, SomebodyLeft, Running, Leftover, Absent, Fresh
<1> QED
  BY <1>1, <1>2, <1>3 DEF DrainInv

\* It is inductive, beside the invariant of the workers.
THEOREM DrainInvariance ==
    ASSUME OneRunKey
    PROVE  WorkersSpec => []DrainInv
<1>1. WorkersInv /\ DrainInv /\ [WorkersNext]_vars => DrainInv'
  <2> SUFFICES ASSUME WorkersShape, LocksFit, DrainInv, [WorkersNext]_vars
               PROVE  DrainInv'
    BY DEF WorkersInv
  <2> USE DEF DrainInv
  <2>1. AllDue' /\ OnlySeeded' /\ SeedsHeld' /\ RunsHeld'
    BY AllDueInv, OnlySeededInv, SeedsHeldInv, RunsHeldInv
  <2>2. RunnersThere' /\ TriesCounted' /\ SomebodyLeft'
    BY RunnersThereInv, TriesCountedInv, SomebodyLeftInv
  <2> QED
    BY <2>1, <2>2
<1> QED
  BY <1>1, DrainInit, WorkersInvariance, PTL DEF WorkersSpec

\* Workers of one run key, however many, that stopped because a claim found
\* nothing, or after the only start because of the cap, have left no job of theirs
\* waiting or running: rows others had locked were somebody's to come back to.
THEOREM NothingIsLeftBehind ==
    ASSUME OneRunKey
    PROVE  WorkersSpec => []WorkersDrain
<1>1. DrainInv /\ WorkersInv => WorkersDrain
  <2> SUFFICES ASSUME SomebodyLeft, WorkersShape,
                      \A w \in Workers : \/ pc[w] \in {"off", "drained"}
                                         \/ pc[w] = "capped" /\ starts = 1
               PROVE  \A j \in Jobs : ~Leftover(j)
    BY DEF DrainInv, WorkersInv, WorkersDrain
  <2>1. \A w \in Workers : ~Unrested(w)
    BY DEF Unrested, WorkersShape, WorkersTypeOK
  <2> QED
    BY <2>1 DEF SomebodyLeft
<1> QED
  BY <1>1, DrainInvariance, WorkersInvariance, PTL
=============================================================================
