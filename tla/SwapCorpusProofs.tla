-------------------------- MODULE SwapCorpusProofs --------------------------
(***************************************************************************)
(* The safety properties of the on-chain pipeline, for every set of swaps, *)
(* blocks and runs, and every range and window size.                       *)
(*                                                                         *)
(* That a finished run left nothing out is a fact about its last step and  *)
(* the tables; the inductive invariant says what each earlier step of the  *)
(* run has already brought about (Reached), and that what a run holds in   *)
(* memory tells the chain as the tables do (MemoryTellsChain), so that no  *)
(* other run can undo it.                                                  *)
(*                                                                         *)
(* After a reorganisation the tables tell what the chain was, and a run    *)
(* has only itself to rely on: what it has listed it still finds, as long  *)
(* as no other run was ever started (LooksUpAlone).                        *)
(***************************************************************************)
EXTENDS SwapCorpus, TLAPS

USE BlocksAssumption, RangeAssumption, WindowAssumption, TriesAssumption,
    LimitAssumption, ReorgsAssumption
    DEF BlocksAssumption, RangeAssumption, WindowAssumption, TriesAssumption,
    LimitAssumption, ReorgsAssumption

\* A run that is not under way will begin at the start of its range.
AtRest == \A r \in Runs : pc[r] \in Ended => next[r] = From[r]

\* A block has no more versions than there were reorganisations.
VersionsCounted == \A b \in Blocks : version[b] <= reorgs

Shape == TypeOK /\ VersionsCounted /\ AtRest

MemoryTellsChain ==
    \A r \in Runs :
        /\ \A s \in Swaps : TellsChain(s, rows[r][s])
        /\ \A b \in Blocks : found[r][b] \in {Null, Block(b)}

Projected == {"listing", "caching", "getting", "enriching", "sampling", "done"}

\* What run r has brought about, where it stands, for a swap s of its range.
Stored(r, s) ==
    /\ pc[r] \in {"fetching", "storing"} /\ chain[s] < next[r] => raw[s] = Home(s)
    /\ pc[r] = "storing" /\ chain[s] \in next[r] .. WindowEnd(r) => rows[r][s] = Home(s)
    /\ pc[r] = "projecting" => raw[s] = Home(s) /\ rows[r][s] = Home(s)
    /\ pc[r] \in Projected => raw[s] = Home(s) /\ event[s] = Home(s)

Stamped(r, s) ==
    /\ pc[r] = "caching" => chain[s] \in todo[r]
    /\ pc[r] = "getting" => \/ broken[r]
                            \/ chain[s] \in todo[r]
                            \/ found[r][chain[s]] # Null
                            \/ cached[chain[s]] # Null
    /\ pc[r] = "enriching" => cached[chain[s]] # Null
    /\ pc[r] \in {"sampling", "done"} => stamp[s] = Home(s)

Reached ==
    \A r \in Runs, s \in Swaps : InRange(r, Home(s)) => Stored(r, s) /\ Stamped(r, s)

Inv ==
    /\ Shape
    /\ reorgs = 0 => TablesTellChain /\ MemoryTellsChain /\ Reached

-----------------------------------------------------------------------------
(* Operators.                                                              *)

\* An upsert writes rows of the same kind into the table.
LEMMA UpsertedType ==
    ASSUME NEW K, NEW V, NEW t \in [K -> V], NEW n \in [K -> V]
    PROVE  Upserted(t, n) \in [K -> V]
BY DEF Upserted

\* The block of a number, and the block of a swap, are blocks.
LEMMA ChainType ==
    ASSUME TypeOK
    PROVE  /\ \A b \in Blocks : Block(b) \in BlockIds
           /\ \A s \in Swaps : Home(s) \in BlockIds \cup {Null}
BY DEF TypeOK, Block, Home, BlockIds

\* A window ends where it starts or later, and within the range.
LEMMA WindowEndInRange ==
    ASSUME TypeOK, NEW r \in Runs, next[r] <= To[r]
    PROVE  WindowEnd(r) \in next[r] .. To[r]
<1>1. next[r] \in Nat /\ To[r] \in Nat /\ WindowSize[r] \in Nat /\ WindowSize[r] >= 1
  BY DEF TypeOK
<1> QED
  BY <1>1 DEF WindowEnd

-----------------------------------------------------------------------------
(* Types.                                                                  *)

LEMMA ForgetType ==
    ASSUME TypeOK, NEW r \in Runs, Forget(r)
    PROVE  /\ next' \in [Runs -> Nat]
           /\ \A q \in Runs : next'[q] \in From[q] .. To[q] + 1
           /\ rows' \in [Runs -> [Swaps -> BlockIds \cup {Null}]]
           /\ todo' \in [Runs -> SUBSET Blocks]
           /\ found' \in [Runs -> [Blocks -> BlockIds \cup {Null}]]
           /\ tries' \in [Runs -> 0 .. MaxTries - 1]
           /\ broken' \in [Runs -> BOOLEAN]
<1> USE DEF TypeOK, Forget
<1>1. From[r] \in Nat /\ From[r] \in From[r] .. To[r] + 1
  OBVIOUS
<1>2. None \in [Swaps -> BlockIds \cup {Null}] /\ Nowhere \in [Blocks -> BlockIds \cup {Null}]
  BY DEF None, Nowhere
<1>3. 0 \in 0 .. MaxTries - 1
  OBVIOUS
<1>4. next' \in [Runs -> Nat] /\ \A q \in Runs : next'[q] \in From[q] .. To[q] + 1
  BY <1>1
<1>5. rows' \in [Runs -> [Swaps -> BlockIds \cup {Null}]]
  BY <1>2
<1>6. found' \in [Runs -> [Blocks -> BlockIds \cup {Null}]]
  BY <1>2
<1>7. tries' \in [Runs -> 0 .. MaxTries - 1]
  BY <1>3
<1> QED
  BY <1>4, <1>5, <1>6, <1>7

LEMMA TypeInit == Init => Shape
<1> SUFFICES ASSUME Init PROVE Shape
  OBVIOUS
<1> USE DEF Init
<1>1. None \in [Swaps -> BlockIds \cup {Null}] /\ Nowhere \in [Blocks -> BlockIds \cup {Null}]
  BY DEF None, Nowhere
<1>2. \A r \in Runs : next[r] \in From[r] .. To[r] + 1
  OBVIOUS
<1> QED
  BY <1>1, <1>2 DEF Shape, TypeOK, VersionsCounted, AtRest, Places, Ended

\* Every step keeps the types.
LEMMA TypeStep == Shape /\ [Next]_vars => Shape'
<1> SUFFICES ASSUME Shape, [Next]_vars
             PROVE  Shape'
  OBVIOUS
<1> USE DEF Shape, TypeOK, VersionsCounted, AtRest, vars, chainVars, tableVars, memory
<1> DEFINE Rows == [Swaps -> BlockIds \cup {Null}]
           Cache == [Blocks -> BlockIds \cup {Null}]
<1>a. None \in Rows /\ Nowhere \in Cache
  BY DEF None, Nowhere
<1>b. Places \cap Ended = Ended /\ {"fetching", "storing", "projecting", "listing",
         "caching", "getting", "enriching", "sampling"} \cap Ended = {}
  BY DEF Places, Ended
<1>1. ASSUME NEW r \in Runs, Start(r) PROVE Shape'
  BY <1>1 DEF Start, Places, Ended
<1>2. ASSUME NEW r \in Runs, GetLogs(r) PROVE Shape'
  <2>1. [s \in Swaps |-> IF chain[s] \in next[r] .. WindowEnd(r) THEN Home(s) ELSE Null] \in Rows
    BY ChainType
  <2>2. rows' \in [Runs -> Rows]
    BY <1>2, <2>1 DEF GetLogs
  <2> HIDE DEF Rows
  <2>3. pc' \in [Runs -> Places] /\ \A q \in Runs : pc'[q] \in Ended => pc[q] \in Ended
    BY <1>2 DEF GetLogs, Goto, Places, Ended
  <2> QED
    BY <1>2, <2>2, <2>3 DEF GetLogs, Rows
<1>3. ASSUME NEW r \in Runs, StoreLogs(r) PROVE Shape'
  <2>1. raw' \in Rows
    BY <1>3, UpsertedType DEF StoreLogs
  <2>2. rows' \in [Runs -> Rows]
    BY <1>3, <1>a DEF StoreLogs
  <2>3. WindowEnd(r) + 1 \in From[r] .. To[r] + 1
    <3>1. From[r] \in Nat /\ To[r] \in Nat /\ next[r] \in From[r] .. To[r] + 1
          /\ WindowSize[r] \in Nat \ {0}
      OBVIOUS
    <3> QED
      BY <3>1 DEF WindowEnd
  <2>4. next' \in [Runs -> Nat] /\ \A q \in Runs : next'[q] \in From[q] .. To[q] + 1
    <3>1. From[r] \in Nat /\ To[r] \in Nat
      OBVIOUS
    <3>2. WindowEnd(r) + 1 \in Nat
      BY <2>3, <3>1
    <3>3. next' = [next EXCEPT ![r] = WindowEnd(r) + 1]
      BY <1>3 DEF StoreLogs
    <3> QED
      BY <2>3, <3>2, <3>3
  <2> HIDE DEF Rows
  <2>5. pc' \in [Runs -> Places] /\ \A q \in Runs : pc'[q] \in Ended => pc[q] \in Ended /\ q # r
    BY <1>3 DEF StoreLogs, Goto, Places, Ended
  <2>6. AtRest'
    BY <1>3, <2>5 DEF StoreLogs
  <2> QED
    BY <1>3, <2>1, <2>2, <2>4, <2>5, <2>6 DEF StoreLogs, Rows
<1>4. ASSUME NEW r \in Runs, LoadLogs(r) PROVE Shape'
  <2>1. [s \in Swaps |-> IF InRange(r, raw[s]) THEN raw[s] ELSE Null] \in Rows
    OBVIOUS
  <2>2. rows' \in [Runs -> Rows]
    BY <1>4, <2>1 DEF LoadLogs
  <2> HIDE DEF Rows
  <2>3. pc' \in [Runs -> Places] /\ \A q \in Runs : pc'[q] \in Ended => pc[q] \in Ended
    BY <1>4 DEF LoadLogs, Goto, Places, Ended
  <2> QED
    BY <1>4, <2>2, <2>3 DEF LoadLogs, Rows
<1>5. ASSUME NEW r \in Runs, Project(r) PROVE Shape'
  <2>1. event' \in Rows
    BY <1>5, UpsertedType DEF Project
  <2>2. rows' \in [Runs -> Rows]
    BY <1>5, <1>a DEF Project
  <2> HIDE DEF Rows
  <2>3. pc' \in [Runs -> Places] /\ \A q \in Runs : pc'[q] \in Ended => pc[q] \in Ended
    BY <1>5 DEF Project, Goto, Places, Ended
  <2> QED
    BY <1>5, <2>1, <2>2, <2>3 DEF Project, Rows
<1>6. ASSUME NEW r \in Runs, ListBlocks(r) PROVE Shape'
  <2>1. {event[s].number : s \in {s \in Swaps : InRange(r, event[s])}} \subseteq Blocks
    BY DEF InRange, BlockIds
  <2>2. todo' \in [Runs -> SUBSET Blocks]
    BY <1>6, <2>1 DEF ListBlocks
  <2>3. pc' \in [Runs -> Places] /\ \A q \in Runs : pc'[q] \in Ended => pc[q] \in Ended
    BY <1>6 DEF ListBlocks, Goto, Places, Ended
  <2> QED
    BY <1>6, <2>2, <2>3 DEF ListBlocks
<1>7. ASSUME NEW r \in Runs, ReadCache(r) PROVE Shape'
  <2>1. todo' \in [Runs -> SUBSET Blocks]
    BY <1>7 DEF ReadCache
  <2>2. pc' \in [Runs -> Places] /\ \A q \in Runs : pc'[q] \in Ended => pc[q] \in Ended
    BY <1>7 DEF ReadCache, Goto, Places, Ended
  <2> QED
    BY <1>7, <2>1, <2>2 DEF ReadCache
<1>8. ASSUME NEW r \in Runs, NEW b \in Blocks, GetBlock(r, b) PROVE Shape'
  <2>1. [found[r] EXCEPT ![b] = Block(b)] \in Cache
    BY ChainType
  <2>2. found' \in [Runs -> Cache]
    BY <1>8, <2>1 DEF GetBlock
  <2> HIDE DEF Cache
  <2>3. todo' \in [Runs -> SUBSET Blocks] /\ tries' \in [Runs -> 0 .. MaxTries - 1]
    BY <1>8 DEF GetBlock
  <2> QED
    BY <1>8, <2>2, <2>3 DEF GetBlock, Cache
<1>9. ASSUME NEW r \in Runs, NEW b \in Blocks, MissBlock(r, b) PROVE Shape'
  <2>1. todo' \in [Runs -> SUBSET Blocks] /\ broken' \in [Runs -> BOOLEAN]
    <3>1. todo' = todo \/ todo' = [todo EXCEPT ![r] = @ \ {b}]
      BY <1>9 DEF MissBlock
    <3>2. broken' = broken \/ broken' = [broken EXCEPT ![r] = TRUE]
      BY <1>9, Zenon DEF MissBlock
    <3>3. todo' \in [Runs -> SUBSET Blocks]
      <4>1. todo \in [Runs -> SUBSET Blocks] /\ todo[r] \ {b} \in SUBSET Blocks
        OBVIOUS
      <4>2. CASE todo' = [todo EXCEPT ![r] = @ \ {b}]
        BY <4>1, <4>2
      <4> QED
        BY <3>1, <4>1, <4>2
    <3>4. broken' \in [Runs -> BOOLEAN]
      BY <3>2
    <3> QED
      BY <3>3, <3>4
  <2>2. tries' \in [Runs -> 0 .. MaxTries - 1]
    <3>1. MaxTries \in Nat \ {0} /\ tries[r] \in 0 .. MaxTries - 1
      OBVIOUS
    <3>2. CASE tries[r] + 1 < MaxTries
      <4>1. tries[r] + 1 \in 0 .. MaxTries - 1
        BY <3>1, <3>2
      <4>2. tries' = [tries EXCEPT ![r] = tries[r] + 1]
        BY <1>9, <3>2 DEF MissBlock
      <4> QED
        BY <4>1, <4>2
    <3>3. CASE ~(tries[r] + 1 < MaxTries)
      BY <1>9, <3>1, <3>3 DEF MissBlock
    <3> QED
      BY <3>2, <3>3
  <2> QED
    BY <1>9, <2>1, <2>2 DEF MissBlock
<1>10. ASSUME NEW r \in Runs, StoreBlocks(r) PROVE Shape'
  <2>1. cached' \in Cache
    BY <1>10, UpsertedType DEF StoreBlocks
  <2>2. found' \in [Runs -> Cache]
    BY <1>10, <1>a DEF StoreBlocks
  <2> HIDE DEF Cache
  <2>3. pc' \in [Runs -> Places] /\ \A q \in Runs : pc'[q] \in Ended => pc[q] \in Ended
    BY <1>10 DEF StoreBlocks, Goto, Places, Ended
  <2> QED
    BY <1>10, <2>1, <2>2, <2>3 DEF StoreBlocks, Cache
<1>11. ASSUME NEW r \in Runs, Enrich(r) PROVE Shape'
  <2>1. \A s \in Swaps : InRange(r, event[s]) => event[s].number \in Blocks
    BY DEF InRange, BlockIds
  <2>2. stamp' \in Rows
    BY <1>11, <2>1 DEF Enrich
  <2> HIDE DEF Rows
  <2>3. pc' \in [Runs -> Places] /\ \A q \in Runs : pc'[q] \in Ended => pc[q] \in Ended
    BY <1>11 DEF Enrich, Goto, Places, Ended
  <2> QED
    BY <1>11, <2>2, <2>3 DEF Enrich, Rows
<1>12. ASSUME NEW r \in Runs, Forget(r), UNCHANGED <<chainVars, tableVars>>,
              NEW p \in Ended, pc' = [pc EXCEPT ![r] = p]
       PROVE  Shape'
  <2>1. pc' \in [Runs -> Places] /\ \A q \in Runs \ {r} : pc'[q] = pc[q]
    BY <1>12 DEF Places
  <2>2. next' = [next EXCEPT ![r] = From[r]]
    BY <1>12 DEF Forget
  <2>3. AtRest'
    BY <2>1, <2>2
  <2> QED
    BY <1>12, <2>1, <2>3, ForgetType
<1>13. ASSUME NEW r \in Runs, GiveUp(r) \/ Sample(r) \/ Stop(r) PROVE Shape'
  BY <1>12, <1>13 DEF GiveUp, Sample, Stop, Goto, Ended
<1>14. ASSUME NEW b \in Blocks, Reorg(b) PROVE Shape'
  <2>1. reorgs \in Nat /\ MaxReorgs \in Nat /\ reorgs' = reorgs + 1 /\ reorgs' <= MaxReorgs
    BY <1>14 DEF Reorg
  <2>2. \A c \in Blocks : version[c] \in Nat /\ version[c] <= reorgs
    OBVIOUS
  <2>3. version' = [c \in Blocks |-> IF c >= b THEN version[c] + 1 ELSE version[c]]
    BY <1>14 DEF Reorg
  <2>4. \A c \in Blocks : version'[c] \in Nat /\ version'[c] <= reorgs'
    BY <2>1, <2>2, <2>3
  <2>5. version' \in [Blocks -> 0 .. MaxReorgs]
    BY <2>1, <2>3, <2>4
  <2>6. AtRest' /\ pc' = pc
    BY <1>14 DEF Reorg
  <2> QED
    BY <1>14, <2>1, <2>4, <2>5, <2>6 DEF Reorg
<1>15. CASE UNCHANGED vars
  BY <1>15
<1> QED
  BY <1>1, <1>2, <1>3, <1>4, <1>5, <1>6, <1>7, <1>8, <1>9, <1>10, <1>11, <1>13,
     <1>14, <1>15 DEF Next, Proceed, Disturb

-----------------------------------------------------------------------------
(* While the chain stands still.                                           *)

\* A step of run r leaves what the other runs hold alone.
SameFor(q) ==
    /\ pc'[q] = pc[q] /\ next'[q] = next[q] /\ rows'[q] = rows[q]
    /\ todo'[q] = todo[q] /\ found'[q] = found[q] /\ broken'[q] = broken[q]

\* What the tables tell rightly stays in them.
TablesKept ==
    /\ \A s \in Swaps : /\ raw[s] = Home(s) => raw'[s] = Home(s)
                        /\ event[s] = Home(s) => event'[s] = Home(s)
                        /\ event[s] = Home(s) /\ stamp[s] = Home(s) => stamp'[s] = Home(s)
    /\ \A b \in Blocks : cached[b] # Null => cached'[b] # Null

\* A step that does not reorganise the chain leaves every block where it is.
LEMMA ChainStands ==
    ASSUME UNCHANGED chainVars
    PROVE  /\ \A b \in Blocks : Block(b)' = Block(b)
           /\ \A s \in Swaps : Home(s)' = Home(s)
BY DEF chainVars, Block, Home

\* No step but a reorganisation makes a table or a run's memory tell anything
\* but the chain, takes away what the tables tell, or touches another run.
LEMMA TellsStep ==
    ASSUME Shape, TablesTellChain, MemoryTellsChain, reorgs = 0, reorgs' = 0,
           NEW r \in Runs, Proceed(r) \/ Disturb(r)
    PROVE  /\ UNCHANGED chainVars
           /\ TablesTellChain'
           /\ MemoryTellsChain'
           /\ TablesKept
           /\ \A q \in Runs \ {r} : SameFor(q)
<1> USE DEF Shape, TypeOK, chainVars, tableVars, memory
<1> DEFINE Rows == [Swaps -> BlockIds \cup {Null}]
           Cache == [Blocks -> BlockIds \cup {Null}]
           Good == /\ UNCHANGED chainVars
                   /\ TablesTellChain'
                   /\ MemoryTellsChain'
                   /\ TablesKept
                   /\ \A q \in Runs \ {r} : SameFor(q)
<1>a. /\ \A s \in Swaps : /\ raw[s] \in {Null, Home(s)}
                          /\ event[s] \in {Null, Home(s)}
                          /\ stamp[s] \in {Null, Home(s)}
                          /\ \A q \in Runs : rows[q][s] \in {Null, Home(s)}
      /\ \A b \in Blocks : /\ cached[b] \in {Null, Block(b)}
                           /\ \A q \in Runs : found[q][b] \in {Null, Block(b)}
  BY DEF TablesTellChain, MemoryTellsChain, TellsChain
<1>b. ASSUME UNCHANGED chainVars,
             \A s \in Swaps : /\ raw'[s] \in {Null, Home(s)}
                              /\ event'[s] \in {Null, Home(s)}
                              /\ stamp'[s] \in {Null, Home(s)},
             \A b \in Blocks : cached'[b] \in {Null, Block(b)}
      PROVE  TablesTellChain'
  BY <1>b, ChainStands DEF TablesTellChain, TellsChain
<1>c. ASSUME UNCHANGED chainVars,
             \A q \in Runs, s \in Swaps : rows'[q][s] \in {Null, Home(s)},
             \A q \in Runs, b \in Blocks : found'[q][b] \in {Null, Block(b)}
      PROVE  MemoryTellsChain'
  BY <1>c, ChainStands DEF MemoryTellsChain, TellsChain
<1>d. ASSUME UNCHANGED <<chainVars, tableVars>>
      PROVE  TablesTellChain' /\ TablesKept
  BY <1>a, <1>b, <1>d DEF TablesKept
<1>1. CASE Start(r)
  <2>1. UNCHANGED <<chainVars, tableVars, memory>>
    BY <1>1 DEF Start
  <2>2. \A q \in Runs \ {r} : SameFor(q)
    BY <1>1 DEF Start, SameFor
  <2> QED
    BY <2>1, <2>2, <1>a, <1>c, <1>d
<1>2. CASE GetLogs(r)
  <2>1. UNCHANGED <<chainVars, tableVars, found>>
    BY <1>2 DEF GetLogs
  <2>2. \A s \in Swaps : rows'[r][s] \in {Null, Home(s)}
    BY <1>2 DEF GetLogs
  <2>3. \A q \in Runs \ {r} : SameFor(q)
    BY <1>2 DEF GetLogs, Goto, SameFor
  <2> QED
    BY <2>1, <2>2, <2>3, <1>a, <1>c, <1>d DEF SameFor
<1>3. CASE StoreLogs(r)
  <2>1. UNCHANGED <<chainVars, event, stamp, cached, found>> /\ raw' = Upserted(raw, rows[r])
    BY <1>3 DEF StoreLogs
  <2>2. \A s \in Swaps : rows'[r][s] \in {Null, Home(s)}
    BY <1>3 DEF StoreLogs, None
  <2>3. \A q \in Runs \ {r} : SameFor(q)
    BY <1>3 DEF StoreLogs, Goto, SameFor
  <2>4. \A s \in Swaps : raw'[s] \in {Null, Home(s)} /\ (raw[s] = Home(s) => raw'[s] = Home(s))
    BY <2>1, <1>a DEF Upserted
  <2>5. TablesTellChain' /\ TablesKept
    BY <2>1, <2>4, <1>a, <1>b DEF TablesKept
  <2> QED
    BY <2>1, <2>2, <2>3, <2>5, <1>a, <1>c DEF SameFor
<1>4. CASE LoadLogs(r)
  <2>1. UNCHANGED <<chainVars, tableVars, found>>
    BY <1>4 DEF LoadLogs
  <2>2. \A s \in Swaps : rows'[r][s] \in {Null, Home(s)}
    BY <1>4, <1>a DEF LoadLogs
  <2>3. \A q \in Runs \ {r} : SameFor(q)
    BY <1>4 DEF LoadLogs, Goto, SameFor
  <2> QED
    BY <2>1, <2>2, <2>3, <1>a, <1>c, <1>d DEF SameFor
<1>5. CASE Project(r)
  <2>1. UNCHANGED <<chainVars, raw, stamp, cached, found>> /\ event' = Upserted(event, rows[r])
    BY <1>5 DEF Project
  <2>2. \A s \in Swaps : rows'[r][s] \in {Null, Home(s)}
    BY <1>5 DEF Project, None
  <2>3. \A q \in Runs \ {r} : SameFor(q)
    BY <1>5 DEF Project, Goto, SameFor
  <2>4. \A s \in Swaps : event'[s] \in {Null, Home(s)} /\ (event[s] = Home(s) => event'[s] = Home(s))
    BY <2>1, <1>a DEF Upserted
  <2>5. TablesTellChain' /\ TablesKept
    BY <2>1, <2>4, <1>a, <1>b DEF TablesKept
  <2> QED
    BY <2>1, <2>2, <2>3, <2>5, <1>a, <1>c DEF SameFor
<1>6. CASE ListBlocks(r) \/ ReadCache(r)
  <2>1. UNCHANGED <<chainVars, tableVars, rows, found>>
    BY <1>6 DEF ListBlocks, ReadCache
  <2>2. \A q \in Runs \ {r} : SameFor(q)
    BY <1>6 DEF ListBlocks, ReadCache, Goto, SameFor
  <2> QED
    BY <2>1, <2>2, <1>a, <1>c, <1>d
<1>7. ASSUME NEW b \in Blocks, GetBlock(r, b) PROVE Good
  <2>1. UNCHANGED <<chainVars, tableVars, rows>>
    BY <1>7 DEF GetBlock
  <2>2. \A c \in Blocks : found'[r][c] \in {Null, Block(c)}
    BY <1>7, <1>a DEF GetBlock
  <2>3. \A q \in Runs \ {r} : SameFor(q)
    BY <1>7 DEF GetBlock, SameFor
  <2> QED
    BY <2>1, <2>2, <2>3, <1>a, <1>c, <1>d DEF SameFor
<1>8. ASSUME NEW b \in Blocks, MissBlock(r, b) PROVE Good
  <2>1. UNCHANGED <<chainVars, tableVars, rows, found>>
    BY <1>8 DEF MissBlock
  <2>2. \A q \in Runs \ {r} : SameFor(q)
    BY <1>8, Zenon DEF MissBlock, SameFor
  <2> QED
    BY <2>1, <2>2, <1>a, <1>c, <1>d
<1>9. CASE StoreBlocks(r)
  <2>1. UNCHANGED <<chainVars, raw, event, stamp, rows>> /\ cached' = Upserted(cached, found[r])
    BY <1>9 DEF StoreBlocks
  <2>2. \A b \in Blocks : found'[r][b] \in {Null, Block(b)}
    BY <1>9 DEF StoreBlocks, Nowhere
  <2>3. \A q \in Runs \ {r} : SameFor(q)
    BY <1>9 DEF StoreBlocks, Goto, SameFor
  <2>4. \A b \in Blocks : cached'[b] \in {Null, Block(b)} /\ (cached[b] # Null => cached'[b] # Null)
    BY <2>1, <1>a DEF Upserted
  <2>5. TablesTellChain' /\ TablesKept
    BY <2>1, <2>4, <1>a, <1>b DEF TablesKept
  <2> QED
    BY <2>1, <2>2, <2>3, <2>5, <1>a, <1>c DEF SameFor
<1>10. CASE Enrich(r)
  <2>1. UNCHANGED <<chainVars, raw, event, cached, rows, found>>
    BY <1>10 DEF Enrich
  <2>2. \A q \in Runs \ {r} : SameFor(q)
    BY <1>10 DEF Enrich, Goto, SameFor
  <2>3. ASSUME NEW s \in Swaps, InRange(r, event[s])
        PROVE  event[s].number \in Blocks /\ Block(event[s].number) = Home(s)
    BY <2>3, <1>a DEF InRange, Home, Block, BlockIds
  <2>4. \A s \in Swaps : stamp'[s] \in {Null, Home(s)} /\ (stamp[s] = Home(s) => stamp'[s] = Home(s))
    BY <1>10, <2>3, <1>a DEF Enrich
  <2>5. TablesTellChain' /\ TablesKept
    BY <2>1, <2>4, <1>a, <1>b DEF TablesKept
  <2> QED
    BY <2>1, <2>2, <2>5, <1>a, <1>c
<1>11. CASE GiveUp(r) \/ Sample(r) \/ Stop(r)
  <2>1. UNCHANGED <<chainVars, tableVars>> /\ Forget(r)
    BY <1>11 DEF GiveUp, Sample, Stop
  <2>2. /\ \A s \in Swaps : rows'[r][s] = Null
        /\ \A b \in Blocks : found'[r][b] = Null
    BY <2>1 DEF Forget, None, Nowhere
  <2>3. \A q \in Runs \ {r} : SameFor(q)
    <3>1. \A q \in Runs \ {r} : pc'[q] = pc[q]
      BY <1>11 DEF GiveUp, Sample, Stop, Goto
    <3> QED
      BY <2>1, <3>1 DEF Forget, SameFor
  <2> QED
    BY <2>1, <2>2, <2>3, <1>a, <1>c, <1>d DEF SameFor
<1> QED
  BY <1>1, <1>2, <1>3, <1>4, <1>5, <1>6, <1>7, <1>8, <1>9, <1>10, <1>11 DEF Proceed, Disturb

\* A swap whose block is in a run's range is in a block of that number.
LEMMA HomeInRange ==
    ASSUME TypeOK, NEW r \in Runs, NEW s \in Swaps, InRange(r, Home(s))
    PROVE  /\ chain[s] \in Blocks /\ From[r] <= chain[s] /\ chain[s] <= To[r]
           /\ Home(s) # Null /\ Home(s).number = chain[s]
BY DEF TypeOK, InRange, Home, Block

\* Each step of a run takes it from what it has brought about to what it has to
\* bring about next, and takes nothing from another run.
LEMMA ReachedStep ==
    ASSUME Inv, reorgs = 0, reorgs' = 0, NEW r \in Runs, Proceed(r) \/ Disturb(r)
    PROVE  Reached'
<1> USE DEF Inv, Shape
<1>1. /\ UNCHANGED chainVars
      /\ TablesKept
      /\ \A q \in Runs \ {r} : SameFor(q)
  BY TellsStep
<1>2. \A s \in Swaps : Home(s)' = Home(s) /\ chain'[s] = chain[s]
  BY <1>1, ChainStands DEF chainVars
<1>3. ASSUME NEW q \in Runs \ {r}, NEW s \in Swaps, InRange(q, Home(s))
      PROVE  Stored(q, s)' /\ Stamped(q, s)'
  <2>1. Stored(q, s) /\ Stamped(q, s) /\ SameFor(q) /\ chain[s] \in Blocks
    BY <1>1, <1>3, HomeInRange DEF Reached
  <2>2. WindowEnd(q)' = WindowEnd(q)
    BY <2>1 DEF WindowEnd, SameFor
  <2>3. Stored(q, s)'
    BY <1>1, <1>2, <2>1, <2>2 DEF Stored, SameFor, TablesKept, Projected
  <2>4. Stamped(q, s)'
    BY <1>1, <1>2, <2>1 DEF Stored, Stamped, SameFor, TablesKept, Projected
  <2> QED
    BY <2>3, <2>4
<1>4. ASSUME NEW s \in Swaps, InRange(r, Home(s))
      PROVE  Stored(r, s)' /\ Stamped(r, s)'
  <2> USE DEF TypeOK
  <2>a. Stored(r, s) /\ Stamped(r, s)
    BY <1>4 DEF Reached
  <2>b. /\ chain[s] \in Nat /\ chain[s] \in Blocks /\ From[r] <= chain[s] /\ chain[s] <= To[r]
        /\ Home(s) # Null /\ Home(s).number = chain[s]
    BY <1>4, HomeInRange
  <2>c. /\ raw[s] = Home(s) => raw'[s] = Home(s)
        /\ event[s] = Home(s) => event'[s] = Home(s)
        /\ event[s] = Home(s) /\ stamp[s] = Home(s) => stamp'[s] = Home(s)
        /\ cached[chain[s]] # Null => cached'[chain[s]] # Null
    BY <1>1, <2>b DEF TablesKept
  <2> DEFINE Goal == Stored(r, s)' /\ Stamped(r, s)'
  <2>1. CASE Start(r)
    <3>1. next'[r] = From[r] /\ pc'[r] = "fetching"
      BY <2>1 DEF Start, AtRest, memory
    <3> QED
      BY <1>2, <2>b, <3>1 DEF Stored, Stamped, Projected
  <2>2. CASE GetLogs(r)
    <3>1. pc[r] = "fetching" /\ pc'[r] = "storing" /\ next' = next /\ raw' = raw
      BY <2>2 DEF GetLogs, Goto, tableVars
    <3>2. WindowEnd(r)' = WindowEnd(r)
      BY <3>1 DEF WindowEnd
    <3>3. chain[s] \in next[r] .. WindowEnd(r) => rows'[r][s] = Home(s)
      BY <2>2 DEF GetLogs
    <3> QED
      BY <1>2, <2>a, <3>1, <3>2, <3>3 DEF Stored, Stamped, Projected
  <2>3. CASE StoreLogs(r)
    <3>1. /\ pc[r] = "storing" /\ pc'[r] = "fetching"
          /\ next'[r] = WindowEnd(r) + 1 /\ raw' = Upserted(raw, rows[r])
      BY <2>3 DEF StoreLogs, Goto
    <3>2. next[r] \in Nat /\ WindowEnd(r) \in Int
      BY DEF WindowEnd
    <3>3. CASE chain[s] < next[r]
      BY <1>2, <2>a, <2>c, <3>1, <3>3 DEF Stored, Stamped, Projected
    <3>4. CASE chain[s] \in next[r] .. WindowEnd(r)
      <4>1. rows[r][s] = Home(s)
        BY <2>a, <3>1, <3>4 DEF Stored
      <4>2. raw'[s] = Home(s)
        BY <2>b, <3>1, <4>1 DEF Upserted
      <4> QED
        BY <1>2, <3>1, <4>2 DEF Stored, Stamped, Projected
    <3>5. CASE chain[s] >= WindowEnd(r) + 1
      BY <1>2, <2>b, <3>1, <3>2, <3>5 DEF Stored, Stamped, Projected
    <3> QED
      BY <2>b, <3>2, <3>3, <3>4, <3>5
  <2>4. CASE LoadLogs(r)
    <3>1. pc[r] = "fetching" /\ pc'[r] = "projecting" /\ next[r] > To[r] /\ raw' = raw
      BY <2>4 DEF LoadLogs, Goto, tableVars
    <3>2. raw[s] = Home(s)
      BY <2>a, <2>b, <3>1 DEF Stored
    <3>3. rows'[r][s] = Home(s)
      BY <1>4, <2>4, <3>2 DEF LoadLogs
    <3> QED
      BY <1>2, <3>1, <3>2, <3>3 DEF Stored, Stamped, Projected
  <2>5. CASE Project(r)
    <3>1. pc[r] = "projecting" /\ pc'[r] = "listing" /\ event' = Upserted(event, rows[r])
      BY <2>5 DEF Project, Goto
    <3>2. raw[s] = Home(s) /\ rows[r][s] = Home(s)
      BY <2>a, <3>1 DEF Stored
    <3>3. event'[s] = Home(s)
      BY <2>b, <3>1, <3>2 DEF Upserted
    <3> QED
      BY <1>2, <2>c, <3>1, <3>2, <3>3 DEF Stored, Stamped, Projected
  <2>6. CASE ListBlocks(r)
    <3>1. /\ pc[r] = "listing" /\ pc'[r] = "caching"
          /\ todo'[r] = {event[z].number : z \in {z \in Swaps : InRange(r, event[z])}}
      BY <2>6 DEF ListBlocks, Goto
    <3>2. raw[s] = Home(s) /\ event[s] = Home(s)
      BY <2>a, <3>1 DEF Stored, Projected
    <3>3. chain[s] \in todo'[r]
      BY <1>4, <2>b, <3>1, <3>2
    <3> QED
      BY <1>2, <2>c, <3>1, <3>2, <3>3 DEF Stored, Stamped, Projected
  <2>7. CASE ReadCache(r)
    <3>1. /\ pc[r] = "caching" /\ pc'[r] = "getting" /\ cached' = cached
          /\ todo'[r] = {b \in todo[r] : cached[b] = Null}
      BY <2>7 DEF ReadCache, Goto, tableVars
    <3>2. chain[s] \in todo[r]
      BY <2>a, <3>1 DEF Stamped
    <3> QED
      BY <1>2, <2>a, <2>c, <3>1, <3>2 DEF Stored, Stamped, Projected
  <2>8. ASSUME NEW b \in Blocks, GetBlock(r, b) PROVE Goal
    <3>1. /\ pc[r] = "getting" /\ pc'[r] = "getting"
          /\ todo'[r] = todo[r] \ {b} /\ found'[r][b] = Block(b)
          /\ \A c \in Blocks \ {b} : found'[r][c] = found[r][c]
      BY <2>8 DEF GetBlock, NextMissing
    <3>2. chain[s] = b => found'[r][chain[s]] # Null
      BY <2>b, <3>1 DEF Home
    <3>3. broken' = broken
      BY <2>8 DEF GetBlock
    <3>4. Stamped(r, s)'
      BY <1>2, <2>a, <2>b, <2>c, <3>1, <3>2, <3>3 DEF Stamped
    <3> QED
      BY <1>2, <2>a, <2>c, <3>1, <3>4 DEF Stored, Projected
  <2>9. ASSUME NEW b \in Blocks, MissBlock(r, b) PROVE Goal
    <3>1. /\ pc[r] = "getting" /\ pc'[r] = "getting" /\ found' = found
      BY <2>9 DEF MissBlock, NextMissing
    <3>2. (broken' = broken /\ todo' = todo) \/ broken' = [broken EXCEPT ![r] = TRUE]
      BY <2>9, Zenon DEF MissBlock
    <3>3. broken'[r] \/ (broken' = broken /\ todo' = todo)
      BY <3>2
    <3>4. Stamped(r, s)'
      BY <1>2, <2>a, <2>c, <3>1, <3>3 DEF Stamped
    <3> QED
      BY <1>2, <2>a, <2>c, <3>1, <3>4 DEF Stored, Projected
  <2>10. CASE StoreBlocks(r)
    <3>1. /\ pc[r] = "getting" /\ pc'[r] = "enriching" /\ todo[r] = {} /\ ~broken[r]
          /\ cached' = Upserted(cached, found[r])
      BY <2>10 DEF StoreBlocks, Goto
    <3>2. found[r][chain[s]] # Null \/ cached[chain[s]] # Null
      BY <2>a, <3>1 DEF Stamped
    <3>3. cached'[chain[s]] # Null
      BY <2>b, <3>1, <3>2 DEF Upserted
    <3> QED
      BY <1>2, <2>a, <2>c, <3>1, <3>3 DEF Stored, Stamped, Projected
  <2>11. CASE Enrich(r)
    <3>1. pc[r] = "enriching" /\ pc'[r] = "sampling"
      BY <2>11 DEF Enrich, Goto
    <3>2. raw[s] = Home(s) /\ event[s] = Home(s) /\ cached[chain[s]] # Null
      BY <2>a, <3>1 DEF Stored, Stamped, Projected
    <3>3. cached[chain[s]] = Home(s)
      BY <2>b, <3>2 DEF TablesTellChain, Home
    <3>4. stamp'[s] = Home(s)
      BY <1>4, <2>11, <2>b, <3>2, <3>3 DEF Enrich
    <3> QED
      BY <1>2, <2>c, <3>1, <3>2, <3>4 DEF Stored, Stamped, Projected
  <2>12. CASE Sample(r)
    <3>1. pc[r] = "sampling" /\ pc'[r] \in {"done", "failed"}
      BY <2>12 DEF Sample, Goto
    <3>2. raw[s] = Home(s) /\ event[s] = Home(s) /\ stamp[s] = Home(s)
      BY <2>a, <3>1 DEF Stored, Stamped, Projected
    <3> QED
      BY <1>2, <2>c, <3>1, <3>2 DEF Stored, Stamped, Projected
  <2>13. CASE GiveUp(r) \/ Stop(r)
    <3>1. pc'[r] = "failed"
      BY <2>13 DEF GiveUp, Stop, Goto
    <3> QED
      BY <3>1 DEF Stored, Stamped, Projected
  <2> QED
    BY <2>1, <2>2, <2>3, <2>4, <2>5, <2>6, <2>7, <2>8, <2>9, <2>10, <2>11, <2>12, <2>13
       DEF Proceed, Disturb
<1>5. ASSUME NEW q \in Runs, NEW s \in Swaps, InRange(q, Home(s))'
      PROVE  Stored(q, s)' /\ Stamped(q, s)'
  <2>1. InRange(q, Home(s))
    BY <1>2, <1>5 DEF InRange
  <2> QED
    BY <1>3, <1>4, <2>1
<1> QED
  BY <1>5 DEF Reached

-----------------------------------------------------------------------------
(* The theorems.                                                           *)

LEMMA InvInit == Init => Inv
<1> SUFFICES ASSUME Init PROVE Inv
  OBVIOUS
<1>1. Shape
  BY TypeInit
<1>2. TablesTellChain
  BY DEF Init, TablesTellChain, TellsChain, None, Nowhere
<1>3. MemoryTellsChain
  BY DEF Init, MemoryTellsChain, TellsChain, None, Nowhere
<1>4. Reached
  BY DEF Init, Reached, Stored, Stamped, Projected
<1> QED
  BY <1>1, <1>2, <1>3, <1>4 DEF Inv

LEMMA InvStep == Inv /\ [Next]_vars => Inv'
<1> SUFFICES ASSUME Inv, [Next]_vars PROVE Inv'
  OBVIOUS
<1>1. Shape'
  BY TypeStep DEF Inv
<1>2. CASE reorgs' # 0
  BY <1>1, <1>2 DEF Inv
<1>3. ASSUME NEW r \in Runs, Proceed(r) \/ Disturb(r), reorgs' = 0
      PROVE  Inv'
  <2>1. reorgs = 0
    BY <1>3 DEF Proceed, Disturb, Start, GetLogs, StoreLogs, LoadLogs, Project, ListBlocks,
         ReadCache, GetBlock, GiveUp, StoreBlocks, Enrich, Sample, Stop, MissBlock, chainVars
  <2>2. TablesTellChain' /\ MemoryTellsChain'
    BY <1>3, <2>1, TellsStep DEF Inv
  <2>3. Reached'
    BY <1>3, <2>1, ReachedStep
  <2> QED
    BY <1>1, <2>2, <2>3 DEF Inv
<1>4. ASSUME NEW b \in Blocks, Reorg(b)
      PROVE  reorgs' # 0
  BY <1>4 DEF Reorg, Inv, Shape, TypeOK
<1>5. CASE UNCHANGED vars
  BY <1>5 DEF vars, chainVars, tableVars, memory, Inv, Shape, TypeOK, VersionsCounted, AtRest,
       TablesTellChain, TellsChain, MemoryTellsChain, Reached, Stored, Stamped, InRange,
       WindowEnd, Home, Block
<1> QED
  BY <1>2, <1>3, <1>4, <1>5 DEF Next

\* The inductive invariant holds in every reachable state.
THEOREM Invariance == Spec => []Inv
BY InvInit, InvStep, PTL DEF Spec

\* Every reachable state of the pipeline is well typed: in particular no window
\* reaches past its range.
THEOREM TypeCorrect == Spec => []TypeOK
<1>1. Inv => TypeOK
  BY DEF Inv, Shape
<1> QED
  BY <1>1, Invariance, PTL

\* However many runs overlap, stop and start again over whatever ranges, no row
\* tells anything but the chain while the chain is not reorganised.
THEOREM TablesAlwaysTellChain == Spec => []TablesTellChain
<1>1. Inv => TablesTellChain
  BY DEF Inv, TablesTellChain
<1> QED
  BY <1>1, Invariance, PTL

\* A run that got as far as its sample has stored, projected and stamped every
\* swap the chain has in its range.
THEOREM RunsAreComplete == Spec => []CorpusComplete
<1>1. Inv => CorpusComplete
  BY DEF Inv, CorpusComplete, Reached, Stored, Stamped, Projected
<1> QED
  BY <1>1, Invariance, PTL

\* Neither a failed run, nor one that is started again, nor a reorganisation
\* takes back a log, an event or a timestamp.
THEOREM NeverTakenBack == Spec => NothingTakenBack
<1> DEFINE Kept == \A s \in Swaps : /\ raw[s] # Null => raw'[s] # Null
                                    /\ event[s] # Null => event'[s] # Null
                                    /\ stamp[s] # Null => stamp'[s] # Null
<1>1. ASSUME Inv, [Next]_vars
      PROVE  Kept
  <2> USE DEF Inv, Shape, TypeOK
  <2>1. ASSUME NEW r \in Runs, StoreLogs(r) PROVE Kept
    <3>1. raw' = Upserted(raw, rows[r]) /\ event' = event /\ stamp' = stamp
      BY <2>1 DEF StoreLogs
    <3>2. \A s \in Swaps : raw[s] # Null => raw'[s] # Null
      BY <1>1, <3>1 DEF Upserted
    <3> QED
      BY <3>1, <3>2
  <2>2. ASSUME NEW r \in Runs, Project(r) PROVE Kept
    <3>1. raw' = raw /\ event' = Upserted(event, rows[r]) /\ stamp' = stamp
      BY <2>2 DEF Project
    <3>2. \A s \in Swaps : event[s] # Null => event'[s] # Null
      BY <1>1, <3>1 DEF Upserted
    <3> QED
      BY <3>1, <3>2
  <2>3. ASSUME NEW r \in Runs, Enrich(r) PROVE Kept
    BY <2>3 DEF Enrich
  <2>4. CASE UNCHANGED <<raw, event, stamp>>
    BY <2>4
  <2>5. CASE UNCHANGED vars
    BY <2>4, <2>5 DEF vars, tableVars
  <2>6. ASSUME NEW r \in Runs, Proceed(r) \/ Disturb(r)
        PROVE  \/ StoreLogs(r) \/ Project(r) \/ Enrich(r)
               \/ UNCHANGED <<raw, event, stamp>>
    BY <2>6 DEF Proceed, Disturb, Start, GetLogs, LoadLogs, ListBlocks, ReadCache, GetBlock,
         GiveUp, StoreBlocks, Sample, Stop, MissBlock, tableVars
  <2>7. ASSUME NEW b \in Blocks, Reorg(b)
        PROVE  UNCHANGED <<raw, event, stamp>>
    BY <2>7 DEF Reorg, tableVars
  <2> QED
    BY <1>1, <2>1, <2>2, <2>3, <2>4, <2>5, <2>6, <2>7 DEF Next
<1>2. Inv /\ [Next]_vars => [Kept]_vars
  BY <1>1
<1> QED
  BY <1>2, Invariance, PTL DEF Spec, NothingTakenBack

-----------------------------------------------------------------------------
(* The sample, also after a reorganisation.                                *)

\* No other run was ever started.
Alone(r) == \A q \in Runs \ {r} : pc[q] = "idle"

\* A block that is stored or was fetched has the number it is stored under.
NumbersAgree ==
    /\ \A b \in Blocks : cached[b] # Null => cached[b].number = b
    /\ \A r \in Runs, b \in Blocks : found[r][b] # Null => found[r][b].number = b

\* Where run r stands with the block of an event of its range: it is to be looked
\* up, was fetched, is stored, and at last it is what the event is stamped with.
LooksUp(r, s) ==
    /\ pc[r] = "caching" => event[s].number \in todo[r]
    /\ pc[r] = "getting" => \/ broken[r]
                            \/ event[s].number \in todo[r]
                            \/ found[r][event[s].number] # Null
                            \/ cached[event[s].number] # Null
    /\ pc[r] = "enriching" => cached[event[s].number] # Null
    /\ pc[r] = "sampling" => stamp[s] # Null /\ stamp[s].number = event[s].number

LooksUpAlone ==
    \A r \in Runs : Alone(r) => \A s \in Swaps : InRange(r, event[s]) => LooksUp(r, s)

SampleInv == Shape /\ NumbersAgree /\ LooksUpAlone

\* Numbers go on agreeing.
LEMMA NumbersStep ==
    ASSUME Shape, NumbersAgree, NEW r \in Runs, Proceed(r) \/ Disturb(r)
    PROVE  NumbersAgree'
<1> USE DEF Shape, TypeOK
<1>1. CASE UNCHANGED <<cached, found>>
  BY <1>1 DEF NumbersAgree
<1>2. ASSUME NEW b \in Blocks, GetBlock(r, b) PROVE NumbersAgree'
  <2>1. Block(b).number = b /\ cached' = cached
    BY <1>2 DEF Block, GetBlock, tableVars
  <2>2. ASSUME NEW q \in Runs, NEW c \in Blocks
        PROVE  found'[q][c] # Null => found'[q][c].number = c
    <3>1. found'[q][c] = IF q = r /\ c = b THEN Block(b) ELSE found[q][c]
      BY <1>2 DEF GetBlock
    <3>2. CASE q = r /\ c = b
      BY <2>1, <3>1, <3>2
    <3>3. CASE ~(q = r /\ c = b)
      BY <3>1, <3>3 DEF NumbersAgree
    <3> QED
      BY <3>2, <3>3
  <2> QED
    BY <2>1, <2>2 DEF NumbersAgree
<1>3. CASE StoreBlocks(r)
  <2>1. \A b \in Blocks : cached'[b] = IF found[r][b] = Null THEN cached[b] ELSE found[r][b]
    BY <1>3 DEF StoreBlocks, Upserted
  <2>2. \A q \in Runs, b \in Blocks : found'[q][b] \in {found[q][b], Null}
    BY <1>3 DEF StoreBlocks, Nowhere
  <2>3. ASSUME NEW b \in Blocks, cached'[b] # Null PROVE cached'[b].number = b
    <3>1. CASE found[r][b] = Null
      BY <2>1, <2>3, <3>1 DEF NumbersAgree
    <3>2. CASE found[r][b] # Null
      BY <2>1, <3>2 DEF NumbersAgree
    <3> QED
      BY <3>1, <3>2
  <2>4. ASSUME NEW q \in Runs, NEW b \in Blocks, found'[q][b] # Null PROVE found'[q][b].number = b
    BY <2>2, <2>4 DEF NumbersAgree
  <2> QED
    BY <2>3, <2>4 DEF NumbersAgree
<1>4. CASE Forget(r) /\ UNCHANGED cached
  <2>1. \A q \in Runs, b \in Blocks : found'[q][b] \in {found[q][b], Null}
    BY <1>4 DEF Forget, Nowhere
  <2> QED
    BY <1>4, <2>1 DEF NumbersAgree
<1>5. ASSUME NEW b \in Blocks, MissBlock(r, b) PROVE UNCHANGED <<cached, found>>
  BY <1>5 DEF MissBlock, tableVars
<1> QED
  BY <1>1, <1>2, <1>3, <1>4, <1>5 DEF Proceed, Disturb, Start, GetLogs, StoreLogs, LoadLogs,
     Project, ListBlocks, ReadCache, GiveUp, Enrich, Sample, Stop, tableVars, memory

\* A run that takes a step is started; one that was not started was not before.
LEMMA AloneStep ==
    ASSUME Shape, NEW r \in Runs, Proceed(r) \/ Disturb(r)
    PROVE  /\ pc'[r] # "idle"
           /\ \A q \in Runs \ {r} : pc'[q] = pc[q]
<1> USE DEF Shape, TypeOK
<1>1. ASSUME NEW to, pc' = [pc EXCEPT ![r] = to], to # "idle"
      PROVE  pc'[r] # "idle" /\ \A q \in Runs \ {r} : pc'[q] = pc[q]
  BY <1>1
<1>2. ASSUME pc' = pc, pc[r] = "getting"
      PROVE  pc'[r] # "idle" /\ \A q \in Runs \ {r} : pc'[q] = pc[q]
  BY <1>2
<1>3. CASE Start(r) \/ GetLogs(r) \/ StoreLogs(r) \/ LoadLogs(r) \/ Project(r) \/ ListBlocks(r)
  BY <1>1, <1>3 DEF Start, GetLogs, StoreLogs, LoadLogs, Project, ListBlocks, Goto
<1>4. CASE ReadCache(r) \/ GiveUp(r) \/ StoreBlocks(r) \/ Enrich(r) \/ Stop(r)
  BY <1>1, <1>4 DEF ReadCache, GiveUp, StoreBlocks, Enrich, Stop, Goto
<1>5. CASE Sample(r)
  <2>1. pc' = [pc EXCEPT ![r] = "done"] \/ pc' = [pc EXCEPT ![r] = "failed"]
    BY <1>5 DEF Sample, Goto
  <2> QED
    BY <1>1, <2>1
<1>6. ASSUME NEW b \in Blocks, GetBlock(r, b) \/ MissBlock(r, b)
      PROVE  pc'[r] # "idle" /\ \A q \in Runs \ {r} : pc'[q] = pc[q]
  BY <1>2, <1>6 DEF GetBlock, MissBlock, NextMissing
<1> QED
  BY <1>3, <1>4, <1>5, <1>6 DEF Proceed, Disturb

\* Each step of a run that is alone takes the block of every event one place further.
LEMMA LooksUpStep ==
    ASSUME Shape, NumbersAgree, NEW r \in Runs, Proceed(r) \/ Disturb(r),
           \A s \in Swaps : InRange(r, event[s]) => LooksUp(r, s),
           NEW s \in Swaps, InRange(r, event'[s])
    PROVE  LooksUp(r, s)'
<1> USE DEF Shape, TypeOK
<1>1. CASE pc'[r] \in Ended \cup {"fetching", "storing", "projecting", "listing"}
  BY <1>1 DEF LooksUp, Ended
<1>2. CASE ListBlocks(r)
  <2>1. /\ pc'[r] = "caching" /\ event' = event
        /\ todo'[r] = {event[z].number : z \in {z \in Swaps : InRange(r, event[z])}}
    BY <1>2 DEF ListBlocks, Goto, tableVars
  <2> QED
    BY <2>1 DEF LooksUp
<1>3. CASE ReadCache(r)
  <2>1. /\ pc[r] = "caching" /\ pc'[r] = "getting" /\ UNCHANGED tableVars
        /\ todo'[r] = {b \in todo[r] : cached[b] = Null}
    BY <1>3 DEF ReadCache, Goto
  <2>2. event[s].number \in todo[r] /\ event' = event /\ cached' = cached
    BY <2>1 DEF LooksUp, tableVars
  <2> QED
    BY <2>1, <2>2 DEF LooksUp
<1>4. ASSUME NEW b \in Blocks, GetBlock(r, b) PROVE LooksUp(r, s)'
  <2>1. /\ pc[r] = "getting" /\ pc'[r] = "getting" /\ UNCHANGED tableVars /\ broken' = broken
        /\ todo'[r] = todo[r] \ {b} /\ found'[r][b] = Block(b)
        /\ \A c \in Blocks \ {b} : found'[r][c] = found[r][c]
    BY <1>4 DEF GetBlock, NextMissing
  <2>2. Block(b) # Null
    BY ChainType, NullAssumption DEF NullAssumption, BlockIds
  <2>3. event' = event /\ cached' = cached /\ event[s].number \in Blocks
    BY <2>1 DEF tableVars, InRange, BlockIds
  <2>4. LooksUp(r, s)
    BY <2>3
  <2> QED
    BY <2>1, <2>2, <2>3, <2>4 DEF LooksUp
<1>5. ASSUME NEW b \in Blocks, MissBlock(r, b) PROVE LooksUp(r, s)'
  <2>1. pc[r] = "getting" /\ pc'[r] = "getting" /\ UNCHANGED tableVars /\ found' = found
    BY <1>5 DEF MissBlock, NextMissing
  <2>2. (broken' = broken /\ todo' = todo) \/ broken' = [broken EXCEPT ![r] = TRUE]
    BY <1>5, Zenon DEF MissBlock
  <2>3. broken'[r] \/ (broken' = broken /\ todo' = todo)
    BY <2>2
  <2> QED
    BY <2>1, <2>3 DEF LooksUp, tableVars
<1>6. CASE StoreBlocks(r)
  <2>1. /\ pc[r] = "getting" /\ pc'[r] = "enriching" /\ todo[r] = {} /\ ~broken[r]
        /\ cached' = Upserted(cached, found[r]) /\ event' = event
    BY <1>6 DEF StoreBlocks, Goto
  <2>2. /\ event[s].number \in Blocks
        /\ found[r][event[s].number] # Null \/ cached[event[s].number] # Null
    BY <2>1 DEF LooksUp, InRange, BlockIds
  <2>3. cached'[event[s].number] # Null
    BY <2>1, <2>2 DEF Upserted
  <2> QED
    BY <2>1, <2>3 DEF LooksUp
<1>7. CASE Enrich(r)
  <2>1. pc[r] = "enriching" /\ pc'[r] = "sampling" /\ event' = event
    BY <1>7 DEF Enrich, Goto
  <2>2. event[s].number \in Blocks /\ cached[event[s].number] # Null
    BY <2>1 DEF LooksUp, InRange, BlockIds
  <2>3. stamp'[s] = cached[event[s].number]
    BY <1>7, <2>1, <2>2 DEF Enrich
  <2> QED
    BY <2>1, <2>2, <2>3 DEF LooksUp, NumbersAgree
<1>8. CASE Start(r) \/ GetLogs(r) \/ StoreLogs(r) \/ LoadLogs(r) \/ Project(r)
  BY <1>1, <1>8 DEF Start, GetLogs, StoreLogs, LoadLogs, Project, Goto
<1>9. CASE GiveUp(r) \/ Sample(r) \/ Stop(r)
  <2>1. pc'[r] \in {"done", "failed"}
    BY <1>9 DEF GiveUp, Sample, Stop, Goto
  <2> QED
    BY <1>1, <2>1 DEF Ended
<1> QED
  BY <1>2, <1>3, <1>4, <1>5, <1>6, <1>7, <1>8, <1>9 DEF Proceed, Disturb

LEMMA SampleInvStep == SampleInv /\ [Next]_vars => SampleInv'
<1> SUFFICES ASSUME SampleInv, [Next]_vars PROVE SampleInv'
  OBVIOUS
<1>1. Shape'
  BY TypeStep DEF SampleInv
<1>2. ASSUME NEW r \in Runs, Proceed(r) \/ Disturb(r)
      PROVE  NumbersAgree' /\ LooksUpAlone'
  <2>1. NumbersAgree'
    BY <1>2, NumbersStep DEF SampleInv
  <2>2. ASSUME NEW q \in Runs, Alone(q)'
        PROVE  \A s \in Swaps : InRange(q, event'[s]) => LooksUp(q, s)'
    <3>1. q = r /\ Alone(r)
      BY <1>2, <2>2, AloneStep DEF SampleInv, Alone
    <3>2. \A s \in Swaps : InRange(r, event[s]) => LooksUp(r, s)
      BY <3>1 DEF SampleInv, LooksUpAlone
    <3>3. ASSUME NEW s \in Swaps, InRange(r, event'[s]) PROVE LooksUp(r, s)'
      BY <1>2, <3>2, <3>3, LooksUpStep DEF SampleInv
    <3> QED
      BY <3>1, <3>3
  <2> QED
    BY <2>1, <2>2 DEF LooksUpAlone, InRange
<1>3. ASSUME UNCHANGED <<tableVars, pc, memory>>
      PROVE  NumbersAgree' /\ LooksUpAlone'
  BY <1>3 DEF SampleInv, NumbersAgree, LooksUpAlone, Alone, LooksUp, InRange, tableVars, memory
<1>4. ASSUME NEW b \in Blocks, Reorg(b) PROVE UNCHANGED <<tableVars, pc, memory>>
  BY <1>4 DEF Reorg
<1>5. CASE UNCHANGED vars
  <2>1. UNCHANGED <<tableVars, pc, memory>>
    BY <1>5 DEF vars
  <2> QED
    BY <1>1, <1>3, <2>1 DEF SampleInv
<1> QED
  BY <1>1, <1>2, <1>3, <1>4, <1>5 DEF SampleInv, Next

\* Nothing a run has listed, fetched or stored is lost to it before its sample as
\* long as no other run was started, whatever the chain does meanwhile.
THEOREM SampleInvariance == Spec => []SampleInv
<1>1. Init => SampleInv
  <2> SUFFICES ASSUME Init PROVE SampleInv
    OBVIOUS
  <2>1. NumbersAgree
    BY DEF Init, NumbersAgree, Nowhere
  <2>2. LooksUpAlone
    BY DEF Init, LooksUpAlone, LooksUp
  <2> QED
    BY <2>1, <2>2, TypeInit DEF SampleInv
<1> QED
  BY <1>1, SampleInvStep, PTL DEF Spec

\* A run finds every event of its range stamped when it takes its sample: while the
\* chain is not reorganised whatever other runs do, and after that when it is alone.
THEOREM SamplesAreStamped == Spec => []SampleStamped
<1>1. ASSUME Inv, SampleInv PROVE SampleStamped
  <2> SUFFICES ASSUME NEW r \in Runs, pc[r] = "sampling",
                      reorgs = 0 \/ \A q \in Runs \ {r} : pc[q] = "idle",
                      NEW s \in Swaps, InRange(r, event[s])
               PROVE  stamp[s] # Null /\ stamp[s].number = event[s].number
    BY DEF SampleStamped
  <2>1. CASE reorgs = 0
    <3>1. event[s] = Home(s)
      BY <1>1, <2>1 DEF Inv, TablesTellChain, TellsChain, InRange
    <3>2. stamp[s] = Home(s)
      BY <1>1, <2>1, <3>1 DEF Inv, Reached, Stamped
    <3> QED
      BY <3>1, <3>2 DEF InRange
  <2>2. CASE Alone(r)
    BY <1>1, <2>2 DEF SampleInv, LooksUpAlone, LooksUp
  <2> QED
    BY <2>1, <2>2 DEF Alone
<1> QED
  BY <1>1, Invariance, SampleInvariance, PTL
=============================================================================
