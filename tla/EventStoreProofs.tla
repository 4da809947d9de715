-------------------------- MODULE EventStoreProofs --------------------------
(***************************************************************************)
(* The retrieval commands and the audit log, for any rows, any number of   *)
(* processes, any LIMITs and any commands side by side.                    *)
(*                                                                         *)
(* The log: while a run appends, the drafts it has gone through are the    *)
(* rows it has inserted or rows that were committed (DraftsKept), and what *)
(* it drafts does not change, so its commit leaves all of them there.      *)
(*                                                                         *)
(* The tables: a batch that is going to overwrite a row was read since the *)
(* database was last left alone, and from a row that was (BatchesFresh).   *)
(* The order of the stages of each program carries that from the sources   *)
(* to the chunks (ProgramOrder).                                           *)
(***************************************************************************)
EXTENDS EventStore, NaturalBounds, FiniteSetTheorems, TLAPS

USE KeysAssumption, WindowAssumption, VersionAssumption, LimitAssumption, MixesAssumption,
    NullAssumption, AlignedAssumption
    DEF KeysAssumption, WindowAssumption, VersionAssumption, LimitAssumption, MixesAssumption,
    NullAssumption, AlignedAssumption

DocStages == {"klineDocs", "swapDocs", "logDocs"}

\* A process that is at a stage runs a command; one that has read rows is at a
\* projection; one that runs nothing has no answer.
StagesFit ==
    \A r \in Runs :
        /\ Active(r) => at[r] >= 1
        /\ batch[r] # Null => Stage(r) \in Projections
        /\ ~Active(r) => answer[r] = {}

\* The drafts r has gone through.
Inserted(r) == {Drafts(r)[i] : i \in 1 .. drafted[r]}

DraftsKept ==
    \A r \in Runs :
        /\ Stage(r) # "append" => pending[r] = {}
        /\ Stage(r) \notin {"append", "end"} \/ ~Active(r) => drafted[r] = 0
        /\ Stage(r) = "append" => /\ pending[r] \subseteq Inserted(r)
                                  /\ Inserted(r) \subseteq events \cup pending[r]

SourcesRise == \A k \in Keys : source[k] >= floor[k]

\* What r has read does no harm when it is written, and renews what it must.
BatchesFresh ==
    \A r \in Runs : batch[r] # Null =>
        \A k \in Keys :
            /\ Kind[k] \notin Projection[Stage(r)].kinds => batch[r][k] = 0
            /\ k \in Kept[Stage(r)] => batch[r][k] = 0 \/ batch[r][k] >= floor[k]
            /\ k \in Kept[Stage(r)] \cap Renewed[command[r]]
                 /\ Kind[k] \in Projection[Stage(r)].kinds => batch[r][k] >= floor[k]

AuditInv == TypeOK /\ StagesFit /\ DraftsKept /\ AuditIsWhole

FreshInv == SourcesRise /\ BatchesFresh /\ NoStalerThanQuiet

StoreInv == AuditInv /\ FreshInv

-----------------------------------------------------------------------------
(* The programs.                                                           *)

\* What comes before what, in every program.
OrderOf(p) ==
    /\ Len(p) \in Nat
    /\ DOMAIN p = 1 .. Len(p)
    /\ \A i \in 1 .. Len(p) :
          /\ p[i] = "append" => i = Len(p)
          /\ p[i] \in {"search", "ops", "path"} =>
                \A j \in 1 .. Len(p) : p[j] \in DocStages => j < i
          /\ p[i] \in {"chunks", "model", "askText", "askHybrid"} =>
                \E j \in 1 .. (i - 1) : p[j] = "search"
          /\ p[i] \in {"askChunks", "askHybrid"} =>
                \E j \in 1 .. (i - 1) : p[j] = "chunks"
          /\ p[i] = "askModel" =>
                \E j \in 1 .. (i - 1) : p[j] = "model"

\* Documents are copied before search rows are made of them, search rows before
\* they are embedded, both before they are asked; events are appended last.
LEMMA ProgramOrder == \A c \in Commands : OrderOf(Program[c])
<1>1. OrderOf(JsonbProgram)
  BY DEF JsonbProgram, OrderOf, DocStages
<1>2. ASSUME NEW p, p = SearchProgram PROVE OrderOf(p)
  <2>1. /\ Len(p) = 5 /\ DOMAIN p = 1 .. 5
        /\ p[1] = "fetch" /\ p[2] = "klineDocs" /\ p[3] = "swapDocs" /\ p[4] = "search"
        /\ p[5] = "askText"
    BY <1>2 DEF SearchProgram, JsonbProgram
  <2>2. \A i \in 1 .. Len(p) : i \in {1, 2, 3, 4, 5}
    BY <2>1
  <2> QED
    BY <2>1, <2>2 DEF OrderOf, DocStages
<1>3. OrderOf(BenchmarkProgram)
  BY DEF BenchmarkProgram, RefreshCorpus, OrderOf, DocStages
<1>4. ASSUME NEW p, p = MemoryProgram PROVE OrderOf(p)
  <2>1. /\ Len(p) = 7 /\ DOMAIN p = 1 .. 7
        /\ p[1] = "fetch" /\ p[2] = "klineDocs" /\ p[3] = "swapDocs" /\ p[4] = "search"
        /\ p[5] = "askText" /\ p[6] = "chunks" /\ p[7] = "askChunks"
    BY <1>4 DEF MemoryProgram, SearchProgram, JsonbProgram
  <2>2. \A i \in 1 .. Len(p) : i \in {1, 2, 3, 4, 5, 6, 7}
    BY <2>1
  <2> QED
    BY <2>1, <2>2 DEF OrderOf, DocStages
<1>5. ASSUME NEW p, p = HybridProgram PROVE OrderOf(p)
  <2>1. /\ Len(p) = 8 /\ DOMAIN p = 1 .. 8
        /\ p[1] = "fetch" /\ p[2] = "klineDocs" /\ p[3] = "swapDocs" /\ p[4] = "search"
        /\ p[5] = "askText" /\ p[6] = "chunks" /\ p[7] = "askChunks" /\ p[8] = "askHybrid"
    BY <1>5 DEF HybridProgram, MemoryProgram, SearchProgram, JsonbProgram
  <2>2. \A i \in 1 .. Len(p) : i \in {1, 2, 3, 4, 5, 6, 7, 8}
    BY <2>1
  <2> QED
    BY <2>1, <2>2 DEF OrderOf, DocStages
<1>6. ASSUME NEW p, p = CompareProgram PROVE OrderOf(p)
  <2>1. /\ Len(p) = 9 /\ DOMAIN p = 1 .. 9
        /\ p[1] = "fetch" /\ p[2] = "klineDocs" /\ p[3] = "swapDocs" /\ p[4] = "search"
        /\ p[5] = "askText" /\ p[6] = "chunks" /\ p[7] = "askChunks" /\ p[8] = "model"
        /\ p[9] = "askModel"
    BY <1>6 DEF CompareProgram, MemoryProgram, SearchProgram, JsonbProgram
  <2>2. \A i \in 1 .. Len(p) : i \in {1, 2, 3, 4, 5, 6, 7, 8, 9}
    BY <2>1
  <2> QED
    BY <2>1, <2>2 DEF OrderOf, DocStages
<1>7. OrderOf(IndexProgram)
  BY DEF IndexProgram, RefreshDocuments, RefreshTables, OrderOf, DocStages
<1>8. ASSUME NEW p, p = EventProgram PROVE OrderOf(p)
  <2>1. /\ Len(p) = 12 /\ DOMAIN p = 1 .. 12
        /\ p[1] = "fetch" /\ p[2] = "panel" /\ p[3] = "fetch" /\ p[4] = "batch"
        /\ p[5] = "fetch" /\ p[6] = "klineDocs" /\ p[7] = "swapDocs" /\ p[8] = "search"
        /\ p[9] = "askText" /\ p[10] = "chunks" /\ p[11] = "askChunks" /\ p[12] = "append"
    BY <1>8 DEF EventProgram, MemoryProgram, SearchProgram, JsonbProgram
  <2>2. \A i \in 1 .. Len(p) : i \in {1, 2, 3, 4, 5, 6, 7, 8, 9, 10, 11, 12}
    BY <2>1
  <2> QED
    BY <2>1, <2>2 DEF OrderOf, DocStages
<1> QED
  BY <1>1, <1>2, <1>3, <1>4, <1>5, <1>6, <1>7, <1>8 DEF Commands, Program

\* A process at a stage is at that place of the program of its command.
LEMMA AtStage ==
    ASSUME TypeOK, NEW r \in Runs, Stage(r) # "end"
    PROVE  /\ Active(r)
           /\ command[r] \in Commands
           /\ at[r] \in Nat
           /\ at[r] <= Len(Program[command[r]])
           /\ Stage(r) = Program[command[r]][at[r]]
BY DEF TypeOK, RetrievalTypeOK, Stage, Active

\* Nothing comes after the appending.
LEMMA AppendIsLast ==
    ASSUME TypeOK, StagesFit, NEW r \in Runs, Stage(r) = "append", Advance(r)
    PROVE  Stage(r)' = "end"
<1>1. /\ Active(r) /\ command[r] \in Commands /\ at[r] \in Nat
      /\ at[r] <= Len(Program[command[r]])
      /\ Program[command[r]][at[r]] = "append"
  BY AtStage
<1>2. at[r] >= 1
  BY <1>1 DEF StagesFit
<1>3. Len(Program[command[r]]) \in Nat /\ at[r] = Len(Program[command[r]])
  BY <1>1, <1>2, ProgramOrder DEF OrderOf
<1>4. at'[r] = at[r] + 1 /\ command' = command
  BY DEF Advance, TypeOK, RetrievalTypeOK
<1> QED
  BY <1>1, <1>3, <1>4 DEF Stage

-----------------------------------------------------------------------------
(* Types.                                                                  *)

\* A count of rows is a number.
LEMMA RowsAreCounted ==
    ASSUME NEW S \in SUBSET Keys
    PROVE  Cardinality(S) \in Nat
BY FS_Subset, FS_CardinalityType

\* What a query can answer are answers.
LEMMA AnswersAreAnswers ==
    ASSUME TypeOK, NEW q \in {"askText", "askChunks", "askModel", "askHybrid"}
    PROVE  Answers(q) \subseteq Answer
<1>1. ASSUME NEW t \in Tables, NEW u \in Tables, NEW k \in Keys
      PROVE  Told(k, t, u) \in Answer
  BY DEF Told, Answer, TypeOK, RetrievalTypeOK, Versions
<1>2. {"search", "chunks", "model"} \subseteq Tables
  BY DEF Tables
<1>3. TextAnswers \subseteq Answer /\ ChunkAnswers \subseteq Answer /\ ModelAnswers \subseteq Answer
  BY <1>1, <1>2 DEF TextAnswers, ChunkAnswers, ModelAnswers, Shown
<1>4. HybridAnswers \subseteq Answer
  BY <1>1, <1>2, <1>3 DEF HybridAnswers, Shown
<1> QED
  BY <1>3, <1>4 DEF Answers

\* The four drafts, in the order of their types.
LEMMA FourDrafts ==
    ASSUME NEW r \in Runs
    PROVE  /\ Len(Drafts(r)) = 4
           /\ DOMAIN Drafts(r) = 1 .. 4
           /\ Drafts(r)[1] = Corpus(r) /\ Drafts(r)[2] = Panel(r)
           /\ Drafts(r)[3] = Item(r) /\ Drafts(r)[4] = Memory(r)
BY DEF Drafts

\* They are events.
LEMMA DraftsAreEvents ==
    ASSUME TypeOK, NEW r \in Runs
    PROVE  \A i \in 1 .. 4 : Drafts(r)[i] \in Event
<1>1. /\ Corpus(r) \in Event /\ Panel(r) \in Event
      /\ Item(r) \in Event /\ Memory(r) \in Event
  BY DEF TypeOK, RetrievalTypeOK, Corpus, Panel, Item, Memory, Event, EventTypes
<1>2. \A i \in 1 .. 4 : i \in {1, 2, 3, 4}
  OBVIOUS
<1> QED
  BY <1>1, <1>2, FourDrafts

\* History keeps its types.
LEMMA WatchType ==
    ASSUME TypeOK, source' \in Versions, Watch
    PROVE  floor' \in Versions /\ mix' = mix
BY DEF Watch, TypeOK, RetrievalTypeOK

\* The steps that leave the log alone.
LEMMA ProjectType ==
    ASSUME TypeOK, StagesFit, NEW r \in Runs, Project(r)
    PROVE  TypeOK'
<1> USE DEF TypeOK, RetrievalTypeOK, Project, audit, rows, around
<1>1. CASE Take(r)
  <2>1. [k \in Keys |-> IF k \in Selected(command[r], Stage(r))
                        THEN Content(Projection[Stage(r)].from)[k] ELSE 0] \in Versions
    <3>1. Content(Projection[Stage(r)].from) \in Versions
      BY <1>1 DEF Take, Content, Projections, Projection, KlineDocs, SwapDocs, LogDocs, SearchRows,
            Chunks, ModelChunks, Copies, Tables
    <3> QED
      BY <3>1 DEF Versions
  <2> QED
    BY <1>1, <2>1 DEF Take
<1>2. CASE Put(r)
  <2>1. PICK t \in Tables : t = Projection[Stage(r)].into
    BY <1>2 DEF Put, StagesFit, Projections, Projection, KlineDocs, SwapDocs, LogDocs, SearchRows,
          Chunks, ModelChunks, Copies, Tables
  <2>2. [k \in Keys |-> IF batch[r][k] > 0 THEN batch[r][k] ELSE table[t][k]] \in Versions
    <3>1. batch[r] \in Versions
      BY <1>2 DEF Put
    <3> QED
      BY <3>1 DEF Versions
  <2>3. table' \in [Tables -> Versions]
    BY <1>2, <2>1, <2>2 DEF Put
  <2> QED
    BY <1>2, <2>3 DEF Put, Advance
<1>3. CASE Ask(r)
  <2>1. answer' \in [Runs -> SUBSET Answer]
    BY <1>3, AnswersAreAnswers DEF Ask
  <2> QED
    BY <1>3, <2>1 DEF Ask, Advance
<1> QED
  BY <1>1, <1>2, <1>3

\* The steps that gather facts, draft them and commit them.
LEMMA AuditType ==
    ASSUME TypeOK, NEW r \in Runs, Gather(r) \/ Note(r) \/ Insert(r) \/ Commit(r)
    PROVE  TypeOK'
<1> USE DEF audit, rows, around
<1>0. source \in Versions
  BY DEF TypeOK, RetrievalTypeOK
<1>1. CASE Gather(r)
  <2>1. source' \in Versions
    BY <1>0, <1>1 DEF Gather, Fetch, Versions
  <2>2. Cardinality({k \in Fetched("fetch") : Kind[k] = "swap" /\ source[k] = 0}) \in Nat
    BY RowsAreCounted DEF Fetched
  <2>3. facts' \in [Runs -> [fetched : Nat, panel : Nat, item : Nat]]
    BY <1>1, <2>2 DEF Gather, TypeOK
  <2> QED
    BY <1>1, <2>1, <2>3 DEF Gather, Fetch, Advance, TypeOK, RetrievalTypeOK
<1>2. CASE Note(r)
  <2>1. source[Aligned] \in Nat
    BY <1>0 DEF Versions
  <2>2. facts' \in [Runs -> [fetched : Nat, panel : Nat, item : Nat]]
    BY <1>2, <2>1 DEF Note, TypeOK
  <2> QED
    BY <1>0, <1>2, <2>2 DEF Note, Advance, TypeOK, RetrievalTypeOK
<1>3. CASE Insert(r)
  <2>1. drafted[r] \in 0 .. 4 /\ drafted[r] < 4
    BY <1>3, FourDrafts DEF Insert, Drafting, TypeOK
  <2>2. drafted[r] + 1 \in 1 .. 4 /\ drafted[r] + 1 \in 0 .. 4
    BY <2>1
  <2>3. Drafts(r)[drafted[r] + 1] \in Event
    BY <2>2, DraftsAreEvents
  <2> QED
    BY <1>3, <2>2, <2>3 DEF Insert, TypeOK, RetrievalTypeOK, retrieval, progress
<1>4. CASE Commit(r)
  <2>1. {Drafts(r)[i] : i \in DOMAIN Drafts(r)} \subseteq Event
    BY FourDrafts, DraftsAreEvents
  <2>2. events' \subseteq Event
    BY <1>4 DEF Commit, TypeOK
  <2> QED
    BY <1>4, <2>1, <2>2 DEF Commit, Advance, TypeOK, RetrievalTypeOK
<1> QED
  BY <1>1, <1>2, <1>3, <1>4

\* The others.
LEMMA TypeInv ==
    ASSUME TypeOK, StagesFit, [Next]_vars
    PROVE  TypeOK'
<1> USE DEF audit, rows, around
<1>0. source \in Versions
  BY DEF TypeOK, RetrievalTypeOK
<1>1. ASSUME NEW r \in Runs, Run(r)
      PROVE  TypeOK'
  <2>1. CASE End(r)
    BY <1>0, <2>1, WatchType DEF End, Finish, Forget, Rest, NoFacts, TypeOK, RetrievalTypeOK
  <2> QED
    BY <1>1, <2>1, ProjectType, AuditType DEF Run
<1>2. ASSUME NEW r \in Runs, Fail(r)
      PROVE  TypeOK'
  BY <1>0, <1>2, WatchType DEF Fail, Stop, Forget, Rest, NoFacts, TypeOK, RetrievalTypeOK
<1>3. ASSUME NEW r \in Runs, NEW c \in Commands, Begin(r, c)
      PROVE  TypeOK'
  BY <1>3 DEF Begin, Start, TypeOK, RetrievalTypeOK
<1>4. ASSUME NEW k \in Keys, Ingest(k)
      PROVE  TypeOK'
  <2>1. source' \in Versions
    BY <1>0, <1>4 DEF Ingest, Change, Versions
  <2> QED
    BY <1>4, <2>1, WatchType DEF Ingest, Change, TypeOK, RetrievalTypeOK, progress
<1>5. CASE UNCHANGED vars
  BY <1>5 DEF vars, retrieval, progress, TypeOK, RetrievalTypeOK
<1> QED
  BY <1>1, <1>2, <1>3, <1>4, <1>5 DEF Next

-----------------------------------------------------------------------------
(* The stages, and the log.                                                *)

\* What another process keeps when one takes a step.
Untouched(q) ==
    /\ command'[q] = command[q] /\ at'[q] = at[q]
    /\ batch'[q] = batch[q] /\ answer'[q] = answer[q]
    /\ pending'[q] = pending[q] /\ drafted'[q] = drafted[q] /\ facts'[q] = facts[q]

\* A step is one process's.
LEMMA OthersStay ==
    ASSUME TypeOK, NEW r \in Runs, Run(r) \/ Fail(r) \/ (\E c \in Commands : Begin(r, c)),
           NEW q \in Runs \ {r}
    PROVE  Untouched(q)
<1> USE DEF Untouched, TypeOK, RetrievalTypeOK, audit, rows, around, retrieval, progress
<1>1. CASE Gather(r) \/ Note(r)
  BY <1>1 DEF Gather, Note, Fetch, Advance
<1>2. CASE Project(r)
  BY <1>2 DEF Project, Take, Put, Ask, Advance
<1>3. CASE Insert(r) \/ Commit(r)
  BY <1>3 DEF Insert, Commit, Advance
<1>4. CASE End(r) \/ Fail(r)
  BY <1>4 DEF End, Fail, Finish, Stop, Forget, Rest
<1>5. CASE \E c \in Commands : Begin(r, c)
  BY <1>5 DEF Begin, Start
<1> QED
  BY <1>1, <1>2, <1>3, <1>4, <1>5 DEF Run

\* With that, its stage and its drafts stay.
LEMMA UntouchedFits ==
    ASSUME NEW q \in Runs, Untouched(q)
    PROVE  /\ Stage(q)' = Stage(q)
           /\ Active(q)' = Active(q)
           /\ Drafts(q)' = Drafts(q)
           /\ Inserted(q)' = Inserted(q)
BY DEF Untouched, Stage, Active, Drafts, Corpus, Panel, Item, Memory, Inserted

\* Stages fit after each step of the process.
LEMMA OwnStagesFit ==
    ASSUME TypeOK, StagesFit, NEW r \in Runs,
           Run(r) \/ Fail(r) \/ (\E c \in Commands : Begin(r, c))
    PROVE  /\ Active(r)' => at'[r] >= 1
           /\ batch'[r] # Null => Stage(r)' \in Projections
           /\ ~Active(r)' => answer'[r] = {}
<1> USE DEF TypeOK, RetrievalTypeOK, audit, rows, around, retrieval, progress
<1>0. Projections \cap {"fetch", "latest", "logs", "panel", "batch", "append", "end",
                        "askText", "askChunks", "askModel", "askHybrid"} = {}
  BY DEF Projections, Projection
<1>1. ASSUME Advance(r), batch'[r] = Null, Active(r)
      PROVE  /\ Active(r)' => at'[r] >= 1
             /\ batch'[r] # Null => Stage(r)' \in Projections
             /\ ~Active(r)' => answer'[r] = {}
  BY <1>1 DEF Advance, StagesFit, Active
<1>2. CASE Gather(r) \/ Note(r) \/ Ask(r) \/ Commit(r)
  <2>1. /\ Stage(r) \in {"fetch", "latest", "logs", "panel", "batch", "append",
                         "askText", "askChunks", "askModel", "askHybrid"}
        /\ Advance(r)
        /\ batch' = batch
    BY <1>2 DEF Gather, Fetch, Note, Ask, Commit
  <2>2. batch[r] = Null
    BY <1>0, <2>1 DEF StagesFit
  <2> QED
    BY <1>1, <2>1, <2>2, AtStage
<1>3. CASE Put(r)
  <2>1. Stage(r) \in Projections /\ batch'[r] = Null /\ Advance(r)
    BY <1>3 DEF Put, StagesFit
  <2> QED
    BY <1>0, <1>1, <2>1, AtStage
<1>4. CASE Take(r)
  <2>1. Stage(r)' = Stage(r) /\ Active(r)' = Active(r) /\ at' = at
    BY <1>4 DEF Take, Stage, Active
  <2> QED
    BY <1>0, <1>4, <2>1, AtStage DEF Take, StagesFit
<1>5. CASE Insert(r)
  BY <1>5 DEF Insert, StagesFit, Stage, Active
<1>6. CASE End(r) \/ Fail(r)
  BY <1>6 DEF End, Fail, Finish, Stop, Forget, Active
<1>7. CASE \E c \in Commands : Begin(r, c)
  <2>1. batch[r] = Null
    <3>1. Stage(r) = "end"
      BY <1>7 DEF Begin, Start, Stage
    <3> QED
      BY <1>0, <3>1 DEF StagesFit
  <2> QED
    BY <1>7, <2>1 DEF Begin, Start, Active
<1> QED
  BY <1>2, <1>3, <1>4, <1>5, <1>6, <1>7 DEF Run, Project

\* So they fit for all.
LEMMA StagesFitInv ==
    ASSUME TypeOK, StagesFit, [Next]_vars
    PROVE  StagesFit'
<1>1. ASSUME NEW r \in Runs, Run(r) \/ Fail(r) \/ (\E c \in Commands : Begin(r, c))
      PROVE  StagesFit'
  <2>1. ASSUME NEW q \in Runs \ {r}
        PROVE  Untouched(q) /\ Stage(q)' = Stage(q) /\ Active(q)' = Active(q)
    BY <1>1, OthersStay, UntouchedFits
  <2> QED
    BY <1>1, <2>1, OwnStagesFit DEF StagesFit, Untouched
<1>2. ASSUME UNCHANGED progress
      PROVE  StagesFit'
  BY <1>2 DEF StagesFit, progress, Stage, Active
<1>3. ASSUME NEW k \in Keys, Ingest(k)
      PROVE  StagesFit'
  BY <1>2, <1>3 DEF Ingest, Change
<1>4. CASE UNCHANGED vars
  BY <1>2, <1>4 DEF vars, retrieval
<1> QED
  BY <1>1, <1>3, <1>4 DEF Next

\* What one process has to show for its drafts.
OwnDraftsKept(r) ==
    /\ Stage(r) # "append" => pending[r] = {}
    /\ Stage(r) \notin {"append", "end"} \/ ~Active(r) => drafted[r] = 0
    /\ Stage(r) = "append" => /\ pending[r] \subseteq Inserted(r)
                              /\ Inserted(r) \subseteq events \cup pending[r]

\* A process that has gone through no draft has nothing to show.
LEMMA NothingDrafted ==
    ASSUME NEW r \in Runs, drafted[r] = 0
    PROVE  Inserted(r) = {}
<1>1. 1 .. 0 = {}
  OBVIOUS
<1> QED
  BY <1>1 DEF Inserted

\* One more draft.
LEMMA InsertKeeps ==
    ASSUME TypeOK, DraftsKept, NEW r \in Runs, Insert(r)
    PROVE  OwnDraftsKept(r)' /\ events' = events
<1>1. /\ Stage(r) = "append" /\ Stage(r)' = "append" /\ Active(r)'
      /\ Drafts(r)' = Drafts(r) /\ events' = events
      /\ drafted'[r] = drafted[r] + 1
  <2>1. Stage(r) = "append" /\ drafted' = [drafted EXCEPT ![r] = @ + 1] /\ events' = events
    BY DEF Insert, Drafting
  <2>2. UNCHANGED <<command, at, answer, facts>>
    BY DEF Insert, retrieval, progress
  <2>3. Active(r)
    BY <2>1, AtStage
  <2> QED
    BY <2>1, <2>2, <2>3 DEF Stage, Active, Drafts, Corpus, Panel, Item, Memory, TypeOK
<1>2. PICK next : next = Drafts(r)[drafted[r] + 1]
  OBVIOUS
<1>3. pending'[r] = IF next \in events THEN pending[r] ELSE pending[r] \cup {next}
  BY <1>2 DEF Insert, TypeOK
<1>4. Inserted(r)' = Inserted(r) \cup {next}
  <2>1. drafted[r] \in Nat
    BY DEF TypeOK
  <2>2. 1 .. (drafted[r] + 1) = (1 .. drafted[r]) \cup {drafted[r] + 1}
    BY <2>1
  <2>3. Inserted(r)' = {Drafts(r)[i] : i \in 1 .. (drafted[r] + 1)}
    BY <1>1 DEF Inserted
  <2> QED
    BY <1>2, <2>2, <2>3 DEF Inserted
<1>5. pending[r] \subseteq Inserted(r) /\ Inserted(r) \subseteq events \cup pending[r]
  BY <1>1 DEF DraftsKept
<1> QED
  BY <1>1, <1>3, <1>4, <1>5 DEF OwnDraftsKept

\* The commit leaves in the log exactly what was there and the four drafts.
LEMMA CommitKeeps ==
    ASSUME TypeOK, StagesFit, DraftsKept, AuditIsWhole, NEW r \in Runs, Commit(r)
    PROVE  OwnDraftsKept(r)' /\ events \subseteq events' /\ AuditIsWhole'
<1>1. Stage(r) = "append" /\ Stage(r)' = "end" /\ pending'[r] = {} /\ Active(r)'
  <2>1. Stage(r) = "append" /\ Advance(r) /\ pending'[r] = {}
    BY DEF Commit, TypeOK
  <2> QED
    BY <2>1, AppendIsLast, AtStage DEF Advance, Active
<1>2. {Drafts(r)[i] : i \in DOMAIN Drafts(r)} = Inserted(r)
  <2>1. drafted[r] = 4 /\ DOMAIN Drafts(r) = 1 .. drafted[r]
    BY FourDrafts DEF Commit
  <2> QED
    BY <2>1 DEF Inserted
<1>3. events' = events \cup pending[r] /\ appended' = appended \cup {Inserted(r)}
  BY <1>2 DEF Commit
<1>4. pending[r] \subseteq Inserted(r) /\ Inserted(r) \subseteq events \cup pending[r]
  BY <1>1 DEF DraftsKept
<1>5. UNION appended' = events \cup Inserted(r)
  BY <1>3 DEF AuditIsWhole
<1>6. events' = UNION appended'
  BY <1>3, <1>4, <1>5
<1> QED
  BY <1>1, <1>3, <1>6 DEF OwnDraftsKept, AuditIsWhole

\* A process that enters a stage before the end has drafted nothing.
LEMMA OtherStepsKeep ==
    ASSUME TypeOK, StagesFit, DraftsKept, NEW r \in Runs,
           \/ Gather(r) \/ Note(r) \/ Project(r) \/ End(r) \/ Fail(r)
           \/ \E c \in Commands : Begin(r, c)
    PROVE  OwnDraftsKept(r)' /\ events' = events /\ appended' = appended
<1> USE DEF audit
<1>0. Projections \cap {"append", "end"} = {}
  BY DEF Projections, Projection
<1>1. CASE Gather(r) \/ Note(r) \/ Project(r)
  <2>1. Stage(r) \notin {"append", "end"} /\ drafted' = drafted /\ pending' = pending
    BY <1>0, <1>1 DEF Gather, Note, Project, Fetch, Take, Put, Ask, StagesFit
  <2>2. drafted'[r] = 0 /\ pending'[r] = {}
    BY <2>1 DEF DraftsKept
  <2>3. Inserted(r)' = {}
    BY <2>2, NothingDrafted DEF Inserted
  <2>4. events' = events /\ appended' = appended
    BY <1>1 DEF Gather, Note, Project
  <2> QED
    BY <2>2, <2>3, <2>4 DEF OwnDraftsKept
<1>2. CASE End(r) \/ Fail(r)
  <2>1. /\ Stage(r)' = "end" /\ drafted'[r] = 0
        /\ events' = events /\ appended' = appended
    BY <1>2 DEF End, Fail, Finish, Stop, Forget, Rest, Stage, Active, TypeOK, RetrievalTypeOK
  <2>2. pending'[r] = {}
    <3>1. CASE End(r)
      BY <3>1 DEF End, Finish, DraftsKept
    <3>2. CASE Fail(r)
      BY <3>2 DEF Fail, TypeOK
    <3> QED
      BY <1>2, <3>1, <3>2
  <2> QED
    BY <2>1, <2>2 DEF OwnDraftsKept
<1>3. CASE \E c \in Commands : Begin(r, c)
  <2>1. ~Active(r) /\ Stage(r) = "end" /\ UNCHANGED audit
    BY <1>3 DEF Begin, Start, Stage
  <2>2. drafted'[r] = 0 /\ pending'[r] = {}
    BY <2>1 DEF DraftsKept
  <2>3. Inserted(r)' = {}
    BY <2>2 DEF Inserted
  <2> QED
    BY <2>1, <2>2, <2>3 DEF OwnDraftsKept
<1> QED
  BY <1>1, <1>2, <1>3

\* The log stays whole and drafts are kept.
LEMMA AuditInvInv ==
    ASSUME AuditInv, [Next]_vars
    PROVE  AuditInv'
<1> USE DEF AuditInv
<1>1. TypeOK' /\ StagesFit'
  BY TypeInv, StagesFitInv
<1>2. ASSUME NEW r \in Runs, Run(r) \/ Fail(r) \/ (\E c \in Commands : Begin(r, c))
      PROVE  DraftsKept' /\ AuditIsWhole'
  <2>1. OwnDraftsKept(r)' /\ events \subseteq events' /\ AuditIsWhole'
    BY <1>2, InsertKeeps, CommitKeeps, OtherStepsKeep DEF Run, AuditIsWhole, Insert
  <2>2. ASSUME NEW q \in Runs \ {r}
        PROVE  OwnDraftsKept(q)'
    <3>1. /\ Untouched(q) /\ Stage(q)' = Stage(q) /\ Active(q)' = Active(q)
          /\ Inserted(q)' = Inserted(q)
      BY <1>2, OthersStay, UntouchedFits
    <3> QED
      BY <2>1, <3>1 DEF DraftsKept, OwnDraftsKept, Untouched
  <2> QED
    BY <2>1, <2>2 DEF DraftsKept, OwnDraftsKept
<1>3. ASSUME UNCHANGED <<progress, audit>>
      PROVE  DraftsKept' /\ AuditIsWhole'
  <2>1. \A q \in Runs : Stage(q)' = Stage(q) /\ Active(q)' = Active(q) /\ Inserted(q)' = Inserted(q)
    BY <1>3 DEF progress, audit, Stage, Active, Inserted, Drafts, Corpus, Panel, Item, Memory
  <2> QED
    BY <1>3, <2>1 DEF DraftsKept, AuditIsWhole, audit
<1>4. ASSUME NEW k \in Keys, Ingest(k)
      PROVE  DraftsKept' /\ AuditIsWhole'
  BY <1>3, <1>4 DEF Ingest, Change
<1>5. ASSUME UNCHANGED vars
      PROVE  DraftsKept' /\ AuditIsWhole'
  BY <1>3, <1>5 DEF vars, retrieval
<1>6. DraftsKept' /\ AuditIsWhole'
  BY <1>2, <1>4, <1>5 DEF Next
<1> QED
  BY <1>1, <1>6

\* Drafts at two places are two events, whoever drafts them.
LEMMA DraftTypes ==
    ASSUME NEW u \in Runs, NEW v \in Runs, NEW m \in {1, 2, 3, 4}, NEW n \in {1, 2, 3, 4},
           m # n
    PROVE  Drafts(u)[m] # Drafts(v)[n]
<1>1. ASSUME NEW r \in Runs
      PROVE  /\ Drafts(r)[1].type = "corpus" /\ Drafts(r)[2].type = "panel"
             /\ Drafts(r)[3].type = "batch"  /\ Drafts(r)[4].type = "memory"
  <2>1. /\ Drafts(r)[1] = Corpus(r) /\ Drafts(r)[2] = Panel(r)
        /\ Drafts(r)[3] = Item(r)   /\ Drafts(r)[4] = Memory(r)
    BY FourDrafts
  <2>2. /\ Corpus(r).type = "corpus" /\ Panel(r).type = "panel"
        /\ Item(r).type = "batch"    /\ Memory(r).type = "memory"
    BY DEF Corpus, Panel, Item, Memory
  <2> QED
    BY <2>1, <2>2
<1>2. PICK d, e : d = Drafts(u) /\ e = Drafts(v)
  OBVIOUS
<1>3. d[1].type = "corpus" /\ d[2].type = "panel" /\ d[3].type = "batch" /\ d[4].type = "memory"
  BY <1>1, <1>2
<1>4. e[1].type = "corpus" /\ e[2].type = "panel" /\ e[3].type = "batch" /\ e[4].type = "memory"
  BY <1>1, <1>2
<1>5. d[m].type # e[n].type
  BY <1>3, <1>4
<1> QED
  BY <1>2, <1>5

\* Of any runs one is ahead, or level, in the one order of the drafts, so it cannot
\* wait for a row of the others.
LEMMA NoCircle == TypeOK /\ DraftsKept => NoWaitCircle
<1> SUFFICES ASSUME TypeOK, DraftsKept, NEW S \in SUBSET Runs, S # {}
             PROVE  \E r \in S : \A q \in S : ~Waits(r, q)
  BY DEF NoWaitCircle
<1>1. ASSUME NEW u \in Runs, NEW v \in Runs, Waits(u, v)
      PROVE  drafted[u] < drafted[v]
  <2>1. drafted[u] \in 0 .. 4 /\ drafted[v] \in 0 .. 4
    BY DEF TypeOK
  <2>2. drafted[u] < 4 /\ Drafts(u)[drafted[u] + 1] \in pending[v]
    BY <1>1, FourDrafts DEF Waits, Drafting
  <2>3. pending[v] \subseteq Inserted(v)
    BY <2>2 DEF DraftsKept
  <2>4. PICK i \in 1 .. drafted[v] : Drafts(u)[drafted[u] + 1] = Drafts(v)[i]
    BY <2>2, <2>3 DEF Inserted
  <2>6. \A m, n \in {1, 2, 3, 4} : Drafts(u)[m] = Drafts(v)[n] => m = n
    BY DraftTypes
  <2>7. drafted[u] + 1 \in {1, 2, 3, 4} /\ i \in {1, 2, 3, 4}
    BY <2>1, <2>2
  <2>8. drafted[u] + 1 = i
    BY <2>4, <2>6, <2>7
  <2> QED
    BY <2>1, <2>8
<1> DEFINE Reached == {drafted[r] + 1 : r \in S}
<1>2. Reached \in SUBSET (1 .. 5) /\ Reached # {}
  <2>1. \A r \in S : drafted[r] \in 0 .. 4
    BY DEF TypeOK
  <2> QED
    BY <2>1
<1>3. PICK m \in Reached : \A n \in Reached : n <= m
  <2> HIDE DEF Reached
  <2> QED
    BY <1>2, GreatestInRange
<1>4. PICK r \in S : m = drafted[r] + 1
  BY <1>3
<1>5. ASSUME NEW q \in S PROVE ~Waits(r, q)
  <2>1. drafted[q] \in 0 .. 4 /\ drafted[r] \in 0 .. 4
    BY DEF TypeOK
  <2>2. drafted[q] + 1 <= drafted[r] + 1
    BY <1>3, <1>4
  <2>3. ~(drafted[r] < drafted[q])
    BY <2>1, <2>2
  <2> QED
    BY <1>1, <2>3
<1> QED
  BY <1>5

-----------------------------------------------------------------------------
(* What is written was read since.                                         *)

\* Every projection writes a table, of kinds; two that write the same rows of
\* one are one.
LEMMA OneProjectionPerRow ==
    /\ \A s \in Projections : Projection[s].into \in Tables
    /\ \A s, t \in Projections, k \in Kinds :
          Projection[s].into = Projection[t].into
          /\ k \in Projection[s].kinds /\ k \in Projection[t].kinds => s = t
BY DEF Projections, Projection, KlineDocs, SwapDocs, LogDocs, SearchRows, Chunks, ModelChunks,
       Copies, Tables, Kinds

\* A process at a stage has that stage among its command's.
LEMMA StageOfProgram ==
    ASSUME TypeOK, StagesFit, NEW r \in Runs, Stage(r) # "end"
    PROVE  /\ Stage(r) \in Stages(command[r])
           /\ at[r] \in 1 .. Len(Program[command[r]])
           /\ DOMAIN Program[command[r]] = 1 .. Len(Program[command[r]])
<1>1. /\ Active(r) /\ command[r] \in Commands /\ at[r] \in Nat
      /\ at[r] <= Len(Program[command[r]])
      /\ Stage(r) = Program[command[r]][at[r]]
  BY AtStage
<1>2. at[r] >= 1 /\ OrderOf(Program[command[r]])
  BY <1>1, ProgramOrder DEF StagesFit
<1> QED
  BY <1>1, <1>2 DEF OrderOf, Stages

\* The rows each projection's chain can carry on.
LEMMA KeptOf ==
    /\ \A s \in DocStages : Kept[s] = Keys
    /\ Kept["chunks"] = Kept["search"] /\ Kept["model"] = Kept["search"]
    /\ \A s \in Projections : Kept[s] \subseteq Keys
    /\ \A s \in {"search", "ops", "path"}, c \in Commands :
          s \in Stages(c) => Kept[s] \subseteq Renewed[c]
<1>1. \A s \in DocStages : Whole(s) = {}
  BY DEF Whole, DocStages, Limited
<1>2. \A s \in {"search", "chunks", "model"} : Whole(s) = {"search"}
  BY DEF Whole
<1>3. \A s \in {"ops", "path"} : Whole(s) = {s}
  BY DEF Whole, Limited
<1>4. DocStages \cup {"search", "chunks", "model", "ops", "path"} \subseteq Projections
  BY DEF DocStages, Projections, Projection
<1> DEFINE KeptBy(W) == {k \in Keys : \A c \in Commands :
                                          Stages(c) \cap W # {} => k \in Renewed[c]}
<1>5. \A s \in Projections : Kept[s] = KeptBy(Whole(s))
  BY DEF Kept
<1>6. KeptBy({}) = Keys /\ \A W : KeptBy(W) \subseteq Keys
  OBVIOUS
<1>7. ASSUME NEW W, NEW s \in W, NEW c \in Commands, s \in Stages(c)
       PROVE  KeptBy(W) \subseteq Renewed[c]
  BY <1>7
<1> HIDE DEF KeptBy
<1>8. \A s \in {"search", "ops", "path"} : s \in Whole(s)
  BY <1>2, <1>3
<1>9. \A s \in DocStages : Kept[s] = Keys
  BY <1>1, <1>4, <1>5, <1>6
<1>10. Kept["chunks"] = Kept["search"] /\ Kept["model"] = Kept["search"]
  BY <1>2, <1>4, <1>5
<1>11. ASSUME NEW s \in {"search", "ops", "path"}, NEW c \in Commands, s \in Stages(c)
      PROVE  Kept[s] \subseteq Renewed[c]
  <2>1. Kept[s] = KeptBy(Whole(s)) /\ s \in Whole(s)
    BY <1>4, <1>5, <1>8
  <2> QED
    BY <1>11, <1>7, <2>1
<1>12. \A s \in Projections : Kept[s] \subseteq Keys
  BY <1>5, <1>6
<1> QED
  BY <1>9, <1>10, <1>11, <1>12

\* A step that r's program has behind it has renewed its rows.
LEMMA Passed ==
    ASSUME TypeOK, NoStalerThanQuiet, NEW r \in Runs, Active(r),
           NEW i \in 1 .. (at[r] - 1), NEW s \in Projections, Program[command[r]][i] = s,
           NEW k \in Renewed[command[r]] \cap Kept[s], Kind[k] \in Projection[s].kinds
    PROVE  table[Projection[s].into][k] >= floor[k]
BY DEF NoStalerThanQuiet

\* What a command renews are keys whose documents one of its stages makes.
LEMMA RenewedRows ==
    ASSUME NEW c \in Commands, NEW k \in Renewed[c]
    PROVE  /\ k \in Keys
           /\ DocumentsOf[Kind[k]] \in Stages(c) \cap DocStages
           /\ Kind[k] \in Projection[DocumentsOf[Kind[k]]].kinds
           /\ Projection[DocumentsOf[Kind[k]]].into = "documents"
           /\ DocumentsOf[Kind[k]] \in Projections
<1>1. k \in Keys /\ DocumentsOf[Kind[k]] \in Stages(c)
  BY DEF Renewed
<1>2. Kind[k] \in {"kline", "swap", "log"}
  BY <1>1 DEF Kinds
<1> QED
  <2>1. CASE Kind[k] = "kline"
    BY <1>1, <2>1 DEF DocumentsOf, DocStages, Projection, KlineDocs, Projections
  <2>2. CASE Kind[k] = "swap"
    BY <1>1, <2>2 DEF DocumentsOf, DocStages, Projection, SwapDocs, Projections
  <2>3. CASE Kind[k] = "log"
    BY <1>1, <2>3 DEF DocumentsOf, DocStages, Projection, LogDocs, Projections
  <2> QED
    BY <1>2, <2>1, <2>2, <2>3

\* Its documents, once the stages that make them are behind it.
LEMMA DocumentsRenewed ==
    ASSUME TypeOK, StagesFit, NoStalerThanQuiet, NEW r \in Runs,
           Stage(r) \in {"search", "ops", "path"}, NEW k \in Renewed[command[r]]
    PROVE  table["documents"][k] >= floor[k]
<1>1. /\ Active(r) /\ command[r] \in Commands /\ at[r] \in Nat
      /\ Stage(r) = Program[command[r]][at[r]]
      /\ at[r] \in 1 .. Len(Program[command[r]])
      /\ DOMAIN Program[command[r]] = 1 .. Len(Program[command[r]])
  BY AtStage, StageOfProgram
<1>2. PICK d \in DocStages \cap Projections :
         /\ d \in Stages(command[r])
         /\ Kind[k] \in Projection[d].kinds
         /\ Projection[d].into = "documents"
  BY <1>1, RenewedRows
<1>3. PICK j \in 1 .. Len(Program[command[r]]) : Program[command[r]][j] = d
  BY <1>1, <1>2 DEF Stages
<1>4. j < at[r]
  BY <1>1, <1>2, <1>3, ProgramOrder DEF OrderOf
<1>5. j \in 1 .. (at[r] - 1)
  BY <1>1, <1>4
<1>6. k \in Kept[d]
  BY <1>1, <1>2, KeptOf, RenewedRows
<1> QED
  BY <1>1, <1>2, <1>3, <1>5, <1>6, Passed

\* The search rows of what it renews, once they are behind it.
LEMMA SearchRenewed ==
    ASSUME TypeOK, StagesFit, NoStalerThanQuiet, NEW r \in Runs,
           Stage(r) \in {"chunks", "model", "askText", "askHybrid"}, NEW k \in Kept["search"]
    PROVE  /\ k \in Renewed[command[r]]
           /\ table["search"][k] >= floor[k]
<1>1. /\ Active(r) /\ command[r] \in Commands /\ at[r] \in Nat
      /\ Stage(r) = Program[command[r]][at[r]]
      /\ at[r] \in 1 .. Len(Program[command[r]])
      /\ DOMAIN Program[command[r]] = 1 .. Len(Program[command[r]])
  BY AtStage, StageOfProgram
<1>2. PICK j \in 1 .. (at[r] - 1) : Program[command[r]][j] = "search"
  <2>1. PICK p : p = Program[command[r]] /\ OrderOf(p)
    BY <1>1, ProgramOrder
  <2>2. p[at[r]] \in {"chunks", "model", "askText", "askHybrid"} /\ at[r] \in 1 .. Len(p)
    BY <1>1, <2>1
  <2>3. \E j \in 1 .. (at[r] - 1) : p[j] = "search"
    BY <2>1, <2>2 DEF OrderOf
  <2> QED
    BY <2>1, <2>3
<1>3. "search" \in Stages(command[r])
  <2>1. j \in DOMAIN Program[command[r]]
    BY <1>1, ProgramOrder DEF OrderOf
  <2> QED
    BY <1>2, <2>1 DEF Stages
<1>4. k \in Renewed[command[r]]
  BY <1>1, <1>3, KeptOf
<1>5. k \in Keys /\ Kind[k] \in Kinds
  BY <1>1, <1>4, RenewedRows
<1>6. /\ "search" \in Projections /\ Projection["search"].into = "search"
      /\ Projection["search"].kinds = Kinds
  BY DEF Projections, Projection, SearchRows
<1>7. table[Projection["search"].into][k] >= floor[k]
  BY <1>1, <1>2, <1>4, <1>5, <1>6, Passed
<1> QED
  BY <1>4, <1>6, <1>7

\* So what a projection reads of the rows its chain carries on is fresh.
LEMMA ReadsFresh ==
    ASSUME TypeOK, StagesFit, SourcesRise, NoStalerThanQuiet, NEW r \in Runs,
           Stage(r) \in Projections, NEW k \in Kept[Stage(r)]
    PROVE  Content(Projection[Stage(r)].from)[k] >= floor[k]
<1>1. k \in Keys
  BY KeptOf
<1>2. CASE Stage(r) \in DocStages
  <2>1. Projection[Stage(r)].from = "sources"
    BY <1>2 DEF DocStages, Projection, KlineDocs, SwapDocs, LogDocs
  <2> QED
    BY <1>1, <2>1 DEF Content, SourcesRise
<1>3. CASE Stage(r) \in {"search", "ops", "path"}
  <2>1. Projection[Stage(r)].from = "documents"
    BY <1>3 DEF Projection, SearchRows, Copies
  <2>2. command[r] \in Commands /\ Stage(r) \in Stages(command[r])
    BY <1>3, AtStage, StageOfProgram
  <2>3. k \in Renewed[command[r]]
    BY <1>3, <2>2, KeptOf
  <2> QED
    BY <1>3, <2>1, <2>3, DocumentsRenewed DEF Content
<1>4. CASE Stage(r) \in {"chunks", "model"}
  <2>1. Projection[Stage(r)].from = "search"
    BY <1>4 DEF Projection, Chunks, ModelChunks
  <2>2. k \in Kept["search"]
    BY <1>4, KeptOf
  <2> QED
    BY <1>4, <2>1, <2>2, SearchRenewed DEF Content
<1> QED
  BY <1>2, <1>3, <1>4 DEF Projections, Projection, DocStages

\* The LIMITs reach what a command renews.
LEMMA RenewedSelected ==
    ASSUME TypeOK, NEW c \in Commands, NEW s \in Projections, s \in Stages(c),
           NEW k \in Renewed[c], Kind[k] \in Projection[s].kinds,
           Content(Projection[s].from)[k] > 0
    PROVE  k \in Selected(c, s)
<1> DEFINE present == {l \in Keys : Kind[l] \in Projection[s].kinds
                                    /\ Content(Projection[s].from)[l] > 0}
           all == {l \in Keys : Kind[l] \in Projection[s].kinds /\ Ahead(l, k)}
           some == {l \in present : Ahead(l, k)}
<1>1. k \in present
  BY RenewedRows
<1>2. CASE s \notin Limited
  BY <1>1, <1>2 DEF Selected
<1>3. CASE s \in Limited
  <2>1. Cardinality(all) < Limit[c][s]
    BY <1>3 DEF Renewed
  <2>2. Cardinality(some) <= Cardinality(all)
    BY FS_Subset
  <2>3. Cardinality(some) \in Nat /\ Cardinality(all) \in Nat /\ Limit[c][s] \in Nat
    BY <1>3, RowsAreCounted
  <2>4. Cardinality(some) < Limit[c][s]
    BY <2>1, <2>2, <2>3
  <2> QED
    BY <1>1, <1>3, <2>4 DEF Selected
<1> QED
  BY <1>2, <1>3

\* One process's share of BatchesFresh.
BatchFresh(r) ==
    batch[r] # Null =>
        \A k \in Keys :
            /\ Kind[k] \notin Projection[Stage(r)].kinds => batch[r][k] = 0
            /\ k \in Kept[Stage(r)] => batch[r][k] = 0 \/ batch[r][k] >= floor[k]
            /\ k \in Kept[Stage(r)] \cap Renewed[command[r]]
                 /\ Kind[k] \in Projection[Stage(r)].kinds => batch[r][k] >= floor[k]

\* A snapshot.
LEMMA TakeFresh ==
    ASSUME TypeOK, StagesFit, SourcesRise, NoStalerThanQuiet, NEW r \in Runs, Take(r)
    PROVE  BatchFresh(r)'
<1>1. /\ Stage(r) \in Projections /\ Stage(r)' = Stage(r)
      /\ command' = command /\ floor' = floor
  BY DEF Take, Stage, Active, around
<1>2. /\ Active(r) /\ command[r] \in Commands /\ Stage(r) \in Stages(command[r])
  <2>1. Stage(r) # "end"
    BY <1>1 DEF Projections, Projection
  <2> QED
    BY <2>1, AtStage, StageOfProgram
<1>3. batch'[r] = [k \in Keys |-> IF k \in Selected(command[r], Stage(r))
                                  THEN Content(Projection[Stage(r)].from)[k] ELSE 0]
  BY DEF Take, TypeOK, RetrievalTypeOK
<1>4. SUFFICES ASSUME NEW k \in Keys
               PROVE  /\ Kind[k] \notin Projection[Stage(r)].kinds => batch'[r][k] = 0
                      /\ k \in Kept[Stage(r)] => batch'[r][k] = 0 \/ batch'[r][k] >= floor[k]
                      /\ k \in Kept[Stage(r)] \cap Renewed[command[r]]
                           /\ Kind[k] \in Projection[Stage(r)].kinds => batch'[r][k] >= floor[k]
  BY <1>1 DEF BatchFresh
<1>5. Content(Projection[Stage(r)].from) \in Versions
  BY <1>1 DEF TypeOK, RetrievalTypeOK, Content, Projections, Projection, KlineDocs, SwapDocs,
        LogDocs, SearchRows, Chunks, ModelChunks, Copies, Tables
<1>6. Content(Projection[Stage(r)].from)[k] \in Nat
  BY <1>5 DEF Versions
<1>7. k \in Kept[Stage(r)] => Content(Projection[Stage(r)].from)[k] >= floor[k]
  BY <1>1, ReadsFresh
<1>8. k \in Selected(command[r], Stage(r)) => Kind[k] \in Projection[Stage(r)].kinds
  BY DEF Selected
<1>9. k \in Renewed[command[r]] /\ Kind[k] \in Projection[Stage(r)].kinds
        /\ Content(Projection[Stage(r)].from)[k] > 0 => k \in Selected(command[r], Stage(r))
  BY <1>1, <1>2, RenewedSelected
<1>10. floor[k] \in Nat
  BY DEF TypeOK, RetrievalTypeOK, Versions
<1> QED
  BY <1>3, <1>6, <1>7, <1>8, <1>9, <1>10

\* No step but a new start puts back what a projection has renewed.
NoneStaler ==
    /\ floor' = floor
    /\ \A s \in Projections : \A k \in Kept[s] :
          /\ Kind[k] \in Projection[s].kinds
          /\ table[Projection[s].into][k] >= floor[k]
          => table'[Projection[s].into][k] >= floor[k]

\* The upsert puts nothing stale in place of anything.
LEMMA PutFresh ==
    ASSUME TypeOK, StagesFit, BatchesFresh, NEW r \in Runs, Put(r)
    PROVE  /\ NoneStaler
           /\ \A k \in Renewed[command[r]] \cap Kept[Stage(r)] :
                 Kind[k] \in Projection[Stage(r)].kinds =>
                    table'[Projection[Stage(r)].into][k] >= floor[k]
<1>1. Stage(r) \in Projections /\ batch[r] # Null /\ batch[r] \in Versions /\ floor' = floor
  BY DEF Put, StagesFit, TypeOK, RetrievalTypeOK, Advance, around
<1>2. PICK t \in Tables : t = Projection[Stage(r)].into
  BY <1>1, OneProjectionPerRow
<1>3. ASSUME NEW k \in Keys
      PROVE  /\ table'[t][k] = IF batch[r][k] > 0 THEN batch[r][k] ELSE table[t][k]
             /\ \A u \in Tables \ {t} : table'[u][k] = table[u][k]
             /\ batch[r][k] \in Nat /\ floor[k] \in Nat /\ table[t][k] \in Nat
  BY <1>1, <1>2 DEF Put, TypeOK, RetrievalTypeOK, Versions
<1>4. ASSUME NEW s \in Projections, NEW k \in Kept[s], Kind[k] \in Projection[s].kinds,
             table[Projection[s].into][k] >= floor[k]
      PROVE  table'[Projection[s].into][k] >= floor[k]
  <2>1. k \in Keys /\ Kind[k] \in Kinds /\ Projection[s].into \in Tables
    BY KeptOf, OneProjectionPerRow
  <2>2. CASE Projection[s].into # t
    BY <1>3, <1>4, <2>1, <2>2
  <2>3. CASE Projection[s].into = t /\ Kind[k] \notin Projection[Stage(r)].kinds
    <3>1. batch[r][k] = 0
      BY <1>1, <2>1, <2>3 DEF BatchesFresh
    <3> QED
      BY <1>3, <1>4, <2>1, <2>3, <3>1
  <2>4. CASE Projection[s].into = t /\ Kind[k] \in Projection[Stage(r)].kinds
    <3>1. s = Stage(r)
      BY <1>1, <1>2, <1>4, <2>1, <2>4, OneProjectionPerRow
    <3>2. batch[r][k] = 0 \/ batch[r][k] >= floor[k]
      BY <1>1, <2>1, <3>1 DEF BatchesFresh
    <3> QED
      BY <1>3, <1>4, <2>1, <2>4, <3>2
  <2> QED
    BY <2>2, <2>3, <2>4
<1>5. ASSUME NEW k \in Renewed[command[r]] \cap Kept[Stage(r)],
             Kind[k] \in Projection[Stage(r)].kinds
      PROVE  table'[t][k] >= floor[k]
  <2>1. k \in Keys
    BY <1>1, KeptOf
  <2>2. batch[r][k] >= floor[k]
    BY <1>1, <1>5, <2>1 DEF BatchesFresh
  <2> QED
    BY <1>3, <2>1, <2>2
<1> QED
  BY <1>1, <1>2, <1>4, <1>5 DEF NoneStaler

\* One process's share of NoStalerThanQuiet: what its stages have written, and
\* what it was answered.
TablesFresh(r) ==
    \A i \in 1 .. (at[r] - 1) :
        LET s == Program[command[r]][i]
        IN  s \in Projections =>
              \A k \in Renewed[command[r]] \cap Kept[s] :
                  Kind[k] \in Projection[s].kinds => table[Projection[s].into][k] >= floor[k]

AnswersFresh(r) ==
    \A a \in answer[r] : a.key \in Renewed[command[r]] \cap Kept["chunks"] =>
        a.title >= floor[a.key] /\ a.preview >= floor[a.key]

\* A query reads tables its program has renewed.
LEMMA AskFresh ==
    ASSUME TypeOK, StagesFit, NoStalerThanQuiet, NEW r \in Runs,
           Stage(r) \in {"askText", "askChunks", "askModel", "askHybrid"},
           NEW a \in Answers(Stage(r)), a.key \in Renewed[command[r]] \cap Kept["chunks"]
    PROVE  a.title >= floor[a.key] /\ a.preview >= floor[a.key]
<1> DEFINE k == a.key
<1>1. /\ Active(r) /\ command[r] \in Commands /\ at[r] \in Nat
      /\ Stage(r) = Program[command[r]][at[r]]
      /\ at[r] \in 1 .. Len(Program[command[r]])
  BY AtStage, StageOfProgram
<1>2. k \in Renewed[command[r]] /\ k \in Kept["search"] /\ k \in Kept["chunks"] /\ k \in Kept["model"]
  BY KeptOf
<1>3. ASSUME Stage(r) \in {"askText", "askHybrid"}
      PROVE  table["search"][k] >= floor[k]
  BY <1>2, <1>3, SearchRenewed
<1>4. ASSUME NEW t \in {"chunks", "model"}, Kind[k] \in {"kline", "swap"},
             NEW j \in 1 .. (at[r] - 1), Program[command[r]][j] = t
      PROVE  table[t][k] >= floor[k]
  <2>1. t \in Projections /\ Projection[t].into = t /\ Projection[t].kinds = {"kline", "swap"}
    BY DEF Projections, Projection, Chunks, ModelChunks
  <2>2. k \in Renewed[command[r]] \cap Kept[t] /\ Kind[k] \in Projection[t].kinds
    BY <1>2, <1>4, <2>1
  <2>3. table[Projection[t].into][k] >= floor[k]
    BY <1>1, <1>4, <2>1, <2>2, Passed
  <2> QED
    BY <2>1, <2>3
<1>5. PICK p : p = Program[command[r]] /\ OrderOf(p)
  BY <1>1, ProgramOrder
<1>6. /\ p[at[r]] \in {"askChunks", "askHybrid"} => \E j \in 1 .. (at[r] - 1) : p[j] = "chunks"
      /\ p[at[r]] = "askModel" => \E j \in 1 .. (at[r] - 1) : p[j] = "model"
  BY <1>1, <1>5 DEF OrderOf
<1>7. ASSUME Stage(r) \in {"askChunks", "askHybrid"}, Kind[k] \in {"kline", "swap"}
      PROVE  table["chunks"][k] >= floor[k]
  BY <1>1, <1>4, <1>5, <1>6, <1>7
<1>8. ASSUME Stage(r) = "askModel", Kind[k] \in {"kline", "swap"}
      PROVE  table["model"][k] >= floor[k]
  BY <1>1, <1>4, <1>5, <1>6, <1>8
<1>9. CASE Stage(r) = "askText"
  BY <1>3, <1>9 DEF Answers, TextAnswers, Told
<1>10. CASE Stage(r) = "askChunks"
  BY <1>7, <1>10 DEF Answers, ChunkAnswers, Told, Shown
<1>11. CASE Stage(r) = "askModel"
  BY <1>8, <1>11 DEF Answers, ModelAnswers, Told, Shown
<1>12. CASE Stage(r) = "askHybrid"
  BY <1>3, <1>7, <1>12 DEF Answers, HybridAnswers, TextAnswers, ChunkAnswers, Told, Shown
<1> QED
  BY <1>9, <1>10, <1>11, <1>12

\* What an untouched process has stays as fresh.
LEMMA UntouchedFresh ==
    ASSUME NEW q \in Runs, Untouched(q), NoneStaler, Active(q) => TablesFresh(q) /\ AnswersFresh(q)
    PROVE  Active(q)' => TablesFresh(q)' /\ AnswersFresh(q)'
BY DEF Untouched, NoneStaler, Active, TablesFresh, AnswersFresh

\* What a process has after its own step.
LEMMA AdvanceFresh ==
    ASSUME TypeOK, StagesFit, NEW r \in Runs, Stage(r) # "end", Advance(r), NoneStaler,
           TablesFresh(r),
           Stage(r) \in Projections =>
               \A k \in Renewed[command[r]] \cap Kept[Stage(r)] :
                  Kind[k] \in Projection[Stage(r)].kinds =>
                     table'[Projection[Stage(r)].into][k] >= floor[k]
    PROVE  TablesFresh(r)'
<1>1. /\ at[r] \in Nat /\ at[r] >= 1 /\ at'[r] = at[r] + 1 /\ command' = command
      /\ Stage(r) = Program[command[r]][at[r]] /\ floor' = floor
  BY AtStage DEF StagesFit, Advance, TypeOK, RetrievalTypeOK, NoneStaler
<1>2. \A i \in 1 .. (at'[r] - 1) : i \in 1 .. (at[r] - 1) \/ i = at[r]
  BY <1>1
<1> QED
  BY <1>1, <1>2 DEF TablesFresh, NoneStaler

OwnFresh(r) == BatchFresh(r) /\ (Active(r) => TablesFresh(r) /\ AnswersFresh(r))

\* FreshInv, process by process, before a step and after it.
LEMMA FreshByRun ==
    /\ FreshInv <=> SourcesRise /\ \A r \in Runs : OwnFresh(r)
    /\ FreshInv' <=> SourcesRise' /\ \A r \in Runs : OwnFresh(r)'
BY DEF FreshInv, BatchesFresh, NoStalerThanQuiet, OwnFresh, BatchFresh, TablesFresh, AnswersFresh

\* A step that advances its process to the next stage.
LEMMA AdvancingFresh ==
    ASSUME StoreInv, NEW r \in Runs,
           Gather(r) \/ Note(r) \/ (Project(r) /\ ~Take(r)) \/ Commit(r)
    PROVE  NoneStaler /\ SourcesRise' /\ OwnFresh(r)'
<1> USE DEF StoreInv, AuditInv, Project, audit, around, rows
<1>1. OwnFresh(r) /\ SourcesRise /\ BatchesFresh /\ NoStalerThanQuiet
  BY FreshByRun DEF FreshInv
<1>2. Projections \cap {"fetch", "latest", "logs", "panel", "batch", "append", "end",
                        "askText", "askChunks", "askModel", "askHybrid"} = {}
  BY DEF Projections, Projection
<1>3. Advance(r) /\ floor' = floor
  BY DEF Gather, Fetch, Note, Put, Ask, Commit, Advance
<1>4. CASE Put(r)
  <2>1. Stage(r) \in Projections
    BY <1>4 DEF Put, StagesFit
  <2>2. Stage(r) # "end" /\ Active(r)
    BY <1>2, <2>1, AtStage
  <2>3. TablesFresh(r)' /\ NoneStaler
    BY <1>1, <1>3, <1>4, <2>1, <2>2, PutFresh, AdvanceFresh DEF OwnFresh
  <2>4. batch'[r] = Null /\ source' = source /\ answer' = answer /\ command' = command
    BY <1>3, <1>4 DEF Put, TypeOK, RetrievalTypeOK, Advance
  <2>5. AnswersFresh(r)'
    BY <1>1, <1>3, <2>2, <2>4 DEF OwnFresh, AnswersFresh
  <2> QED
    BY <1>1, <1>3, <2>3, <2>4, <2>5 DEF OwnFresh, BatchFresh, SourcesRise
<1>5. CASE ~Put(r)
  <2>1. /\ Stage(r) \in {"fetch", "latest", "logs", "panel", "batch", "append",
                         "askText", "askChunks", "askModel", "askHybrid"}
        /\ table' = table /\ batch' = batch /\ command' = command
    BY <1>3, <1>5 DEF Gather, Fetch, Note, Ask, Commit, Advance
  <2>2. Stage(r) # "end" /\ Stage(r) \notin Projections /\ Active(r) /\ batch'[r] = Null
    BY <1>2, <2>1, AtStage DEF StagesFit
  <2>3. NoneStaler
    BY <1>3, <2>1 DEF NoneStaler
  <2>4. TablesFresh(r)'
    BY <1>1, <1>3, <2>2, <2>3, AdvanceFresh DEF OwnFresh
  <2>5. AnswersFresh(r)'
    <3>1. CASE Ask(r)
      <4>1. Stage(r) \in {"askText", "askChunks", "askModel", "askHybrid"}
        BY <3>1 DEF Ask
      <4>2. answer'[r] \subseteq Answers(Stage(r))
        BY <3>1 DEF Ask, TypeOK, RetrievalTypeOK
      <4> QED
        BY <1>1, <1>3, <2>1, <4>1, <4>2, AskFresh DEF AnswersFresh
    <3>2. CASE ~Ask(r)
      <4>1. answer' = answer
        BY <1>5, <3>2 DEF Gather, Fetch, Note, Commit
      <4> QED
        BY <1>1, <1>3, <2>1, <2>2, <4>1 DEF OwnFresh, AnswersFresh
    <3> QED
      BY <3>1, <3>2
  <2>6. SourcesRise'
    <3>1. \A k \in Keys : source'[k] >= source[k]
      <4>1. \A k \in Keys : source[k] \in Nat
        BY DEF TypeOK, RetrievalTypeOK, Versions
      <4>2. CASE Gather(r)
        BY <4>1, <4>2 DEF Gather, Fetch
      <4>3. CASE ~Gather(r)
        BY <1>5, <4>1, <4>3 DEF Note, Ask, Commit
      <4> QED
        BY <4>2, <4>3
    <3>2. \A k \in Keys : source[k] \in Nat /\ source'[k] \in Nat /\ floor[k] \in Nat
      <4>1. [Next]_vars
        BY DEF Next, Run
      <4>2. TypeOK'
        BY <4>1, TypeInv
      <4>3. source \in Versions /\ source' \in Versions /\ floor \in Versions
        BY <4>2 DEF TypeOK, RetrievalTypeOK
      <4> QED
        BY <4>3 DEF Versions
    <3> QED
      BY <1>1, <1>3, <3>1, <3>2 DEF SourcesRise
  <2> QED
    BY <2>2, <2>3, <2>4, <2>5, <2>6 DEF OwnFresh, BatchFresh
<1> QED
  BY <1>4, <1>5

\* A step that does not.
LEMMA StayingFresh ==
    ASSUME StoreInv, NEW r \in Runs,
           (Take(r) /\ UNCHANGED audit) \/ Insert(r) \/ \E c \in Commands : Begin(r, c)
    PROVE  NoneStaler /\ SourcesRise' /\ OwnFresh(r)'
<1> USE DEF StoreInv, AuditInv, audit, around, rows, retrieval, progress
<1>1. OwnFresh(r) /\ SourcesRise /\ BatchesFresh /\ NoStalerThanQuiet
  BY FreshByRun DEF FreshInv
<1>2. UNCHANGED <<source, table, floor>>
  BY DEF Take, Insert, Begin, Start
<1>3. NoneStaler /\ SourcesRise'
  BY <1>1, <1>2 DEF NoneStaler, SourcesRise
<1>4. CASE Take(r)
  <2>1. command' = command /\ at' = at /\ answer'[r] = {}
    BY <1>4 DEF Take, TypeOK, RetrievalTypeOK
  <2> QED
    BY <1>1, <1>2, <1>3, <1>4, <2>1, TakeFresh DEF OwnFresh, Active, TablesFresh, AnswersFresh
<1>5. CASE Insert(r)
  BY <1>1, <1>2, <1>3, <1>5
     DEF Insert, OwnFresh, Active, TablesFresh, AnswersFresh, BatchFresh, Stage
<1>6. CASE \E c \in Commands : Begin(r, c)
  <2>1. /\ at'[r] = 1 /\ ~Active(r) /\ batch' = batch /\ answer' = answer
    BY <1>6 DEF Begin, Start, TypeOK, RetrievalTypeOK
  <2>2. batch'[r] = Null /\ answer'[r] = {}
    BY <2>1 DEF StagesFit, Stage, Projections, Projection
  <2>3. 1 .. (at'[r] - 1) = {}
    BY <2>1
  <2> QED
    BY <1>3, <2>2, <2>3 DEF OwnFresh, BatchFresh, TablesFresh, AnswersFresh
<1> QED
  BY <1>3, <1>4, <1>5, <1>6

\* An untouched process and the sources of a quiet database.
LEMMA UntouchedOwnFresh ==
    ASSUME NEW q \in Runs, Untouched(q), NoneStaler, OwnFresh(q)
    PROVE  OwnFresh(q)'
<1>1. BatchFresh(q)'
  BY UntouchedFits DEF Untouched, NoneStaler, OwnFresh, BatchFresh
<1> QED
  BY <1>1, UntouchedFresh DEF OwnFresh

\* When the floor rises, nobody is there to be behind it.
LEMMA QuietFresh ==
    ASSUME TypeOK', StagesFit', Watch, \A r \in Runs : command'[r] = Null
    PROVE  FreshInv'
<1>1. floor' = source' /\ floor' \in Versions
  BY DEF Watch, TypeOK, RetrievalTypeOK
<1>2. SourcesRise'
  BY <1>1 DEF SourcesRise, Versions
<1>3. ASSUME NEW r \in Runs
      PROVE  OwnFresh(r)'
  <2>1. ~Active(r)' /\ Stage(r)' = "end"
    BY DEF Active, Stage
  <2>2. batch'[r] = Null
    BY <2>1 DEF StagesFit, Projections, Projection
  <2> QED
    BY <2>1, <2>2 DEF OwnFresh, BatchFresh
<1> QED
  BY <1>2, <1>3, FreshByRun

\* Else the floor stays.
LEMMA FreshInvInv ==
    ASSUME StoreInv, [Next]_vars
    PROVE  FreshInv'
<1> USE DEF StoreInv
<1>1. SourcesRise /\ \A r \in Runs : OwnFresh(r)
  BY FreshByRun
<1>2. TypeOK' /\ StagesFit'
  BY AuditInvInv DEF AuditInv
<1>3. ASSUME NEW r \in Runs, (Run(r) /\ ~End(r)) \/ (\E c \in Commands : Begin(r, c))
      PROVE  FreshInv'
  <2>1. NoneStaler /\ SourcesRise' /\ OwnFresh(r)'
    BY <1>3, AdvancingFresh, StayingFresh DEF Run, Project
  <2>2. ASSUME NEW q \in Runs \ {r}
        PROVE  OwnFresh(q)'
    BY <1>1, <1>3, <2>1, OthersStay, UntouchedOwnFresh DEF AuditInv
  <2>3. SourcesRise' /\ \A q \in Runs : OwnFresh(q)'
    BY <2>1, <2>2
  <2> QED
    BY <2>3, FreshByRun
<1>4. ASSUME NEW r \in Runs, End(r) \/ Fail(r)
      PROVE  FreshInv'
  <2>1. Watch /\ UNCHANGED rows /\ Forget(r)
    BY <1>4 DEF End, Fail, Finish, Stop
  <2>2. CASE \A q \in Runs : command'[q] = Null
    BY <1>2, <2>1, <2>2, QuietFresh
  <2>3. CASE ~\A q \in Runs : command'[q] = Null
    <3>1. NoneStaler /\ SourcesRise'
      BY <1>1, <2>1, <2>3 DEF Watch, rows, NoneStaler, SourcesRise
    <3>2. ~Active(r)' /\ batch'[r] = Null
      BY <2>1 DEF Forget, Active, AuditInv, TypeOK, RetrievalTypeOK
    <3>3. OwnFresh(r)'
      BY <3>2 DEF OwnFresh, BatchFresh
    <3>4. ASSUME NEW q \in Runs \ {r}
          PROVE  OwnFresh(q)'
      BY <1>1, <1>4, <3>1, OthersStay, UntouchedOwnFresh DEF AuditInv, Run
    <3>5. SourcesRise' /\ \A q \in Runs : OwnFresh(q)'
      BY <3>1, <3>3, <3>4
    <3> QED
      BY <3>5, FreshByRun
  <2> QED
    BY <2>2, <2>3
<1>5. ASSUME NEW k \in Keys, Ingest(k)
      PROVE  FreshInv'
  <2>1. Watch /\ UNCHANGED <<table, progress, audit>> /\ source' = [source EXCEPT ![k] = @ + 1]
    BY <1>5 DEF Ingest, Change
  <2>2. CASE \A q \in Runs : command'[q] = Null
    BY <1>2, <2>1, <2>2, QuietFresh
  <2>3. CASE ~\A q \in Runs : command'[q] = Null
    <3>1. floor' = floor
      BY <2>1, <2>3 DEF Watch
    <3>2. \A l \in Keys : source[l] \in Nat /\ floor[l] \in Nat /\ source[l] >= floor[l]
      BY <1>1 DEF AuditInv, TypeOK, RetrievalTypeOK, Versions, SourcesRise
    <3>3. SourcesRise'
      BY <2>1, <3>1, <3>2 DEF SourcesRise, AuditInv, TypeOK, RetrievalTypeOK, Versions
    <3>4. NoneStaler
      BY <2>1, <3>1 DEF NoneStaler
    <3>5. \A q \in Runs : Untouched(q)
      BY <2>1 DEF Untouched, progress, audit
    <3>6. \A q \in Runs : OwnFresh(q)'
      BY <1>1, <3>4, <3>5, UntouchedOwnFresh
    <3> QED
      BY <3>3, <3>6, FreshByRun
  <2> QED
    BY <2>2, <2>3
<1>6. CASE UNCHANGED vars
  <2>1. NoneStaler /\ SourcesRise' /\ \A q \in Runs : Untouched(q)
    BY <1>1, <1>6 DEF vars, retrieval, rows, progress, around, audit, NoneStaler, SourcesRise, Untouched
  <2>2. \A q \in Runs : OwnFresh(q)'
    BY <1>1, <2>1, UntouchedOwnFresh
  <2> QED
    BY <2>1, <2>2, FreshByRun
<1> QED
  BY <1>3, <1>4, <1>5, <1>6 DEF Next

-----------------------------------------------------------------------------
(* The invariant, and what it gives.                                       *)

\* Nothing has happened yet.
LEMMA StoreInitInv == Init => StoreInv
<1> SUFFICES ASSUME Init PROVE StoreInv
  OBVIOUS
<1>1. TypeOK
  BY DEF Init, RetrievalInit, TypeOK, RetrievalTypeOK, Nothing, Versions, NoFacts
<1>2. \A r \in Runs : ~Active(r) /\ Stage(r) = "end"
  BY DEF Init, RetrievalInit, Active, Stage
<1>3. StagesFit /\ DraftsKept /\ AuditIsWhole
  BY <1>2 DEF Init, RetrievalInit, StagesFit, DraftsKept, AuditIsWhole
<1>4. SourcesRise /\ BatchesFresh /\ NoStalerThanQuiet
  BY <1>2 DEF Init, RetrievalInit, SourcesRise, BatchesFresh, NoStalerThanQuiet, Nothing
<1> QED
  BY <1>1, <1>3, <1>4 DEF StoreInv, AuditInv, FreshInv

\* The invariant of the commands and the log is inductive.
THEOREM StoreInvariance == Spec => []StoreInv
<1>1. StoreInv /\ [Next]_vars => StoreInv'
  BY AuditInvInv, FreshInvInv DEF StoreInv
<1> QED
  BY <1>1, StoreInitInv, PTL DEF Spec

\* Every variable keeps its type.
THEOREM StoreTypeCorrect == Spec => []TypeOK
<1>1. StoreInv => TypeOK
  BY DEF StoreInv, AuditInv
<1> QED
  BY <1>1, StoreInvariance, PTL

\* The log holds the events of the committed runs, all of them and no others,
\* however many append the same events at once and whoever of them fails.
THEOREM AuditAlwaysWhole == Spec => []AuditIsWhole
<1>1. StoreInv => AuditIsWhole
  BY DEF StoreInv, AuditInv
<1> QED
  BY <1>1, StoreInvariance, PTL

\* Any number of runs never wait for each other's events in a circle.
THEOREM NoAuditDeadlock == Spec => []NoWaitCircle
<1>1. StoreInv => NoWaitCircle
  BY NoCircle DEF StoreInv, AuditInv
<1> QED
  BY <1>1, StoreInvariance, PTL

\* What a command has derived, or answered, of the rows the LIMITs reach, is no
\* older than the sources were when the database was last left alone.
THEOREM DerivedNoStaler == Spec => []NoStalerThanQuiet
<1>1. StoreInv => NoStalerThanQuiet
  BY DEF StoreInv, FreshInv
<1> QED
  BY <1>1, StoreInvariance, PTL
=============================================================================
