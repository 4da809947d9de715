----------------------------- MODULE SwapCorpus -----------------------------
(***************************************************************************)
(* The on-chain pipeline: run_bnb_swap_corpus_smoke and                    *)
(* run_bnb_block_timestamp_smoke fetch the swap logs of a block range from *)
(* the RPC, store them in onchain.raw_logs, project them into              *)
(* defi.swap_events, fetch the blocks they are in into onchain.blocks, and *)
(* stamp each swap with its block's time.  The two differ in how they cut  *)
(* the range into windows: the second asks for all of it at once.          *)
(*                                                                         *)
(*   raw[s]     block number and hash in the raw log of swap s             *)
(*   event[s]   block number and hash in the swap event of s               *)
(*   stamp[s]   the block whose time stands in its block_timestamp         *)
(*   cached[b]  the row of block number b in onchain.blocks                *)
(*                                                                         *)
(* A swap is one (transaction, log index).  A block is its number and a    *)
(* version that stands for its hash and its time: a reorganisation of the  *)
(* chain makes new versions and moves swaps.  Every helper opens its own   *)
(* connection, so each of its transactions is a step, and another run, the *)
(* chain, an RPC error or the death of the process can come between any    *)
(* two.  The decoding of a log into amounts and addresses is data.         *)
(***************************************************************************)
EXTENDS Integers, FiniteSets

CONSTANTS
    Swaps,         \* the swap logs the chain may hold
    Blocks,        \* block numbers
    Runs,          \* processes that run one of the two commands or jobs
    From, To,      \* the block range of each
    WindowSize,    \* the window_size of each
    MaxTries,      \* max_attempts of the BlockFetchPolicy
    Limit,         \* the limit of the sample each run ends with
    MaxReorgs,     \* bound: reorganisations of the chain
    Null           \* no such row; a swap in no block

ASSUME BlocksAssumption  == Blocks \subseteq Nat
ASSUME RangeAssumption   == /\ From \in [Runs -> Nat] /\ To \in [Runs -> Nat]
                            /\ \A r \in Runs : From[r] <= To[r] /\ From[r] .. To[r] \subseteq Blocks
ASSUME WindowAssumption  == WindowSize \in [Runs -> Nat \ {0}]
ASSUME TriesAssumption   == MaxTries \in Nat \ {0}
ASSUME LimitAssumption   == Limit \in Nat
ASSUME ReorgsAssumption  == MaxReorgs \in Nat
ASSUME NullAssumption    == Null \notin Blocks \cup [number : Blocks, version : 0 .. MaxReorgs]

VARIABLES
    chain,         \* the number of the block each swap is in
    version,       \* the version of each block
    reorgs,        \* reorganisations so far
    raw, event, stamp, cached,
    pc,            \* where each run stands
    next,          \* first block of its next window
    rows,          \* the logs it holds in memory
    todo,          \* the block numbers it still has to look up
    found,         \* the blocks it has fetched
    tries,         \* attempts at the block it is fetching
    broken         \* has a block failed all its attempts

chainVars == <<chain, version, reorgs>>
tableVars == <<raw, event, stamp, cached>>
memory    == <<next, rows, todo, found, tries, broken>>
vars      == <<chainVars, tableVars, pc, memory>>

Ended == {"idle", "done", "failed"}

Places == Ended \cup {"fetching", "storing", "projecting", "listing", "caching",
                      "getting", "enriching", "sampling"}

BlockIds == [number : Blocks, version : 0 .. MaxReorgs]

None == [s \in Swaps |-> Null]
Nowhere == [b \in Blocks |-> Null]

TypeOK ==
    /\ chain \in [Swaps -> Blocks \cup {Null}]
    /\ version \in [Blocks -> 0 .. MaxReorgs]
    /\ reorgs \in 0 .. MaxReorgs
    /\ raw \in [Swaps -> BlockIds \cup {Null}]
    /\ event \in [Swaps -> BlockIds \cup {Null}]
    /\ stamp \in [Swaps -> BlockIds \cup {Null}]
    /\ cached \in [Blocks -> BlockIds \cup {Null}]
    /\ pc \in [Runs -> Places]
    /\ next \in [Runs -> Nat]
    /\ \A r \in Runs : next[r] \in From[r] .. To[r] + 1
    /\ rows \in [Runs -> [Swaps -> BlockIds \cup {Null}]]
    /\ todo \in [Runs -> SUBSET Blocks]
    /\ found \in [Runs -> [Blocks -> BlockIds \cup {Null}]]
    /\ tries \in [Runs -> 0 .. MaxTries - 1]
    /\ broken \in [Runs -> BOOLEAN]

-----------------------------------------------------------------------------
(* The chain.                                                              *)

Block(b) == [number |-> b, version |-> version[b]]

\* The block a swap is in on the chain of now.
Home(s) == IF chain[s] = Null THEN Null ELSE Block(chain[s])

\* From block b on the chain is replaced: new blocks, and the swaps that were
\* in them or pending are in other blocks of the new branch or in none.
Reorg(b) ==
    /\ reorgs < MaxReorgs
    /\ reorgs' = reorgs + 1
    /\ version' = [c \in Blocks |-> IF c >= b THEN version[c] + 1 ELSE version[c]]
    /\ chain' \in [Swaps -> Blocks \cup {Null}]
    /\ \A s \in Swaps : IF chain[s] # Null /\ chain[s] < b
                        THEN chain'[s] = chain[s]
                        ELSE chain'[s] \in {c \in Blocks : c >= b} \cup {Null}
    /\ UNCHANGED <<tableVars, pc, memory>>

-----------------------------------------------------------------------------
(* One run.                                                                *)

\* Faulty windows: the last one is not clipped to the range.
WindowEndUnclipped(r) == next[r] + WindowSize[r] - 1

WindowEnd(r) ==
    IF next[r] + WindowSize[r] - 1 <= To[r] THEN next[r] + WindowSize[r] - 1 ELSE To[r]

InRange(r, id) == id # Null /\ From[r] <= id.number /\ id.number <= To[r]

\* Faulty upsert: ON CONFLICT DO NOTHING.
UpsertedOnce(table, new) ==
    [k \in DOMAIN table |-> IF table[k] = Null THEN new[k] ELSE table[k]]

\* INSERT ... ON CONFLICT DO UPDATE of the rows new holds.
Upserted(table, new) ==
    [k \in DOMAIN table |-> IF new[k] = Null THEN table[k] ELSE new[k]]

Goto(r, from, to) ==
    /\ pc[r] = from
    /\ pc' = [pc EXCEPT ![r] = to]

\* The function returns or raises, and its variables are gone.
Forget(r) ==
    /\ next' = [next EXCEPT ![r] = From[r]]
    /\ rows' = [rows EXCEPT ![r] = None]
    /\ todo' = [todo EXCEPT ![r] = {}]
    /\ found' = [found EXCEPT ![r] = Nowhere]
    /\ tries' = [tries EXCEPT ![r] = 0]
    /\ broken' = [broken EXCEPT ![r] = FALSE]

Start(r) ==
    /\ pc[r] \in Ended
    /\ pc' = [pc EXCEPT ![r] = "fetching"]
    /\ UNCHANGED <<chainVars, tableVars, memory>>

\* get_logs of the next window
GetLogs(r) ==
    /\ next[r] <= To[r]
    /\ Goto(r, "fetching", "storing")
    /\ rows' = [rows EXCEPT ![r] =
          [s \in Swaps |-> IF chain[s] \in next[r] .. WindowEnd(r) THEN Home(s) ELSE Null]]
    /\ UNCHANGED <<chainVars, tableVars, next, todo, found, tries, broken>>

\* Faulty windows: the block after each window is skipped.
StoreLogsSkipping(r) ==
    /\ Goto(r, "storing", "fetching")
    /\ raw' = Upserted(raw, rows[r])
    /\ next' = [next EXCEPT ![r] = IF WindowEnd(r) < To[r] THEN WindowEnd(r) + 2 ELSE To[r] + 1]
    /\ rows' = [rows EXCEPT ![r] = None]
    /\ UNCHANGED <<chainVars, event, stamp, cached, todo, found, tries, broken>>

\* upsert_raw_logs
StoreLogs(r) ==
    /\ Goto(r, "storing", "fetching")
    /\ raw' = Upserted(raw, rows[r])
    /\ next' = [next EXCEPT ![r] = WindowEnd(r) + 1]
    /\ rows' = [rows EXCEPT ![r] = None]
    /\ UNCHANGED <<chainVars, event, stamp, cached, todo, found, tries, broken>>

\* load_raw_swap_logs, after the last window
LoadLogs(r) ==
    /\ next[r] > To[r]
    /\ Goto(r, "fetching", "projecting")
    /\ rows' = [rows EXCEPT ![r] = [s \in Swaps |-> IF InRange(r, raw[s]) THEN raw[s] ELSE Null]]
    /\ UNCHANGED <<chainVars, tableVars, next, todo, found, tries, broken>>

\* Faulty projection: a row that is written again loses its timestamp.
ProjectResetting(r) ==
    /\ Goto(r, "projecting", "listing")
    /\ event' = Upserted(event, rows[r])
    /\ stamp' = [s \in Swaps |-> IF rows[r][s] = Null THEN stamp[s] ELSE Null]
    /\ rows' = [rows EXCEPT ![r] = None]
    /\ UNCHANGED <<chainVars, raw, cached, next, todo, found, tries, broken>>

\* upsert_swap_events: block_timestamp is not among the columns it sets.
Project(r) ==
    /\ Goto(r, "projecting", "listing")
    /\ event' = Upserted(event, rows[r])
    /\ rows' = [rows EXCEPT ![r] = None]
    /\ UNCHANGED <<chainVars, raw, stamp, cached, next, todo, found, tries, broken>>

\* load_swap_block_numbers
ListBlocks(r) ==
    /\ Goto(r, "listing", "caching")
    /\ todo' = [todo EXCEPT ![r] = {event[s].number : s \in {s \in Swaps : InRange(r, event[s])}}]
    /\ UNCHANGED <<chainVars, tableVars, next, rows, found, tries, broken>>

\* load_cached_block_numbers and select_missing_block_numbers
ReadCache(r) ==
    /\ Goto(r, "caching", "getting")
    /\ todo' = [todo EXCEPT ![r] = {b \in todo[r] : cached[b] = Null}]
    /\ UNCHANGED <<chainVars, tableVars, next, rows, found, tries, broken>>

\* fetch_blocks goes through the missing numbers in order.
NextMissing(r, b) ==
    /\ pc[r] = "getting"
    /\ b \in todo[r]
    /\ \A c \in todo[r] : b <= c

GetBlock(r, b) ==
    /\ NextMissing(r, b)
    /\ found' = [found EXCEPT ![r][b] = Block(b)]
    /\ todo' = [todo EXCEPT ![r] = @ \ {b}]
    /\ tries' = [tries EXCEPT ![r] = 0]
    /\ UNCHANGED <<chainVars, tableVars, pc, next, rows, broken>>

\* An attempt raises: another one follows, or it was the last and the block has
\* failed; the other blocks are fetched nevertheless.
MissBlock(r, b) ==
    /\ NextMissing(r, b)
    /\ IF tries[r] + 1 < MaxTries
       THEN /\ tries' = [tries EXCEPT ![r] = @ + 1]
            /\ UNCHANGED <<todo, broken>>
       ELSE /\ tries' = [tries EXCEPT ![r] = 0]
            /\ todo' = [todo EXCEPT ![r] = @ \ {b}]
            /\ broken' = [broken EXCEPT ![r] = TRUE]
    /\ UNCHANGED <<chainVars, tableVars, pc, next, rows, found>>

\* BlockFetchRetryError: nothing that was fetched is stored.
GiveUp(r) ==
    /\ todo[r] = {}
    /\ broken[r]
    /\ Goto(r, "getting", "failed")
    /\ Forget(r)
    /\ UNCHANGED <<chainVars, tableVars>>

\* Faulty fetch: blocks that failed are passed over.
StoreBlocksFound(r) ==
    /\ todo[r] = {}
    /\ Goto(r, "getting", "enriching")
    /\ cached' = Upserted(cached, found[r])
    /\ found' = [found EXCEPT ![r] = Nowhere]
    /\ UNCHANGED <<chainVars, raw, event, stamp, next, rows, todo, tries, broken>>

\* upsert_blocks
StoreBlocks(r) ==
    /\ todo[r] = {}
    /\ ~broken[r]
    /\ Goto(r, "getting", "enriching")
    /\ cached' = Upserted(cached, found[r])
    /\ found' = [found EXCEPT ![r] = Nowhere]
    /\ UNCHANGED <<chainVars, raw, event, stamp, next, rows, todo, tries, broken>>

\* Faulty enrichment: the block numbers are not compared.
EnrichUnjoined(r) ==
    /\ Goto(r, "enriching", "sampling")
    /\ \E b \in Blocks :
          stamp' = [s \in Swaps |-> IF InRange(r, event[s]) /\ cached[b] # Null
                                    THEN cached[b] ELSE stamp[s]]
    /\ UNCHANGED <<chainVars, raw, event, cached, memory>>

\* enrich_swap_event_timestamps
Enrich(r) ==
    /\ Goto(r, "enriching", "sampling")
    /\ stamp' = [s \in Swaps |->
          IF InRange(r, event[s]) /\ cached[event[s].number] # Null
          THEN cached[event[s].number] ELSE stamp[s]]
    /\ UNCHANGED <<chainVars, raw, event, cached, memory>>

\* load_enriched_swaps orders by time, rows without one last, and raises when
\* such a row is among the first Limit.
Sample(r) ==
    LET inRange == {s \in Swaps : InRange(r, event[s])}
        stamped == {s \in inRange : stamp[s] # Null}
    IN  /\ Goto(r, "sampling", IF stamped = inRange \/ Cardinality(stamped) >= Limit
                               THEN "done" ELSE "failed")
        /\ Forget(r)
        /\ UNCHANGED <<chainVars, tableVars>>

\* An RPC or database error that nothing catches, or the end of the process.
Stop(r) ==
    /\ pc[r] \notin Ended
    /\ pc' = [pc EXCEPT ![r] = "failed"]
    /\ Forget(r)
    /\ UNCHANGED <<chainVars, tableVars>>

-----------------------------------------------------------------------------
Init ==
    /\ chain \in [Swaps -> Blocks \cup {Null}]
    /\ version = [b \in Blocks |-> 0]
    /\ reorgs = 0
    /\ raw = None /\ event = None /\ stamp = None
    /\ cached = Nowhere
    /\ pc = [r \in Runs |-> "idle"]
    /\ next = From
    /\ rows = [r \in Runs |-> None]
    /\ todo = [r \in Runs |-> {}]
    /\ found = [r \in Runs |-> Nowhere]
    /\ tries = [r \in Runs |-> 0]
    /\ broken = [r \in Runs |-> FALSE]

Proceed(r) ==
    \/ Start(r)
    \/ GetLogs(r) \/ StoreLogs(r) \/ LoadLogs(r) \/ Project(r)
    \/ ListBlocks(r) \/ ReadCache(r)
    \/ \E b \in Blocks : GetBlock(r, b)
    \/ GiveUp(r) \/ StoreBlocks(r) \/ Enrich(r) \/ Sample(r)

Disturb(r) == Stop(r) \/ \E b \in Blocks : MissBlock(r, b)

Next ==
    \/ \E r \in Runs : Proceed(r) \/ Disturb(r)
    \/ \E b \in Blocks : Reorg(b)

Spec == Init /\ [][Next]_vars

\* Every run is started again and again and its process is scheduled; the chain
\* and its RPC node settle at last.
Settles == <>[][\E r \in Runs : Proceed(r)]_vars

FairSpec == Spec /\ (\A r \in Runs : WF_vars(Proceed(r))) /\ Settles

-----------------------------------------------------------------------------
(* Properties.                                                             *)

\* Nothing is invented: while the chain is not reorganised every row of every
\* table tells what the chain tells, however runs overlap, fail and start again.
TellsChain(s, id) == id = Null \/ id = Home(s)

TablesTellChain ==
    reorgs = 0 =>
        /\ \A s \in Swaps : /\ TellsChain(s, raw[s])
                            /\ TellsChain(s, event[s])
                            /\ TellsChain(s, stamp[s])
        /\ \A b \in Blocks : cached[b] \in {Null, Block(b)}

\* A run that got as far as its sample has done its work: every swap the chain
\* has in its range is stored, projected and stamped with the time of its block.
\* The windows must leave no gap, no failed block may be passed over, and no
\* overlapping run may undo it.
CorpusComplete ==
    reorgs = 0 =>
        \A r \in Runs, s \in Swaps :
            pc[r] \in {"sampling", "done"} /\ InRange(r, Home(s)) =>
                raw[s] = Home(s) /\ event[s] = Home(s) /\ stamp[s] = Home(s)

\* A run finds every event of its range stamped with a block of the event's
\* number when it takes its sample, so that the sample does not raise: always while
\* the chain is not reorganised, and after that as long as no other run was started.
SampleStamped ==
    \A r \in Runs :
        pc[r] = "sampling" /\ (reorgs = 0 \/ \A q \in Runs \ {r} : pc[q] = "idle") =>
            \A s \in Swaps : InRange(r, event[s]) =>
                stamp[s] # Null /\ stamp[s].number = event[s].number

\* Starting a range again takes nothing back: a log stays stored, an event stays
\* projected, and an event that had a timestamp never loses it.
NothingTakenBack ==
    [][\A s \in Swaps : /\ raw[s] # Null => raw'[s] # Null
                        /\ event[s] # Null => event'[s] # Null
                        /\ stamp[s] # Null => stamp'[s] # Null]_vars

\* Starting again is enough: once the chain and the RPC settle, every swap the
\* chain has in a range ends up in the block the chain has it in, stamped with a
\* block of that number, and stays so, after any partial or overlapping runs.
Converges ==
    <>[](\A r \in Runs, s \in Swaps : InRange(r, Home(s)) =>
            /\ event[s] = Home(s)
            /\ stamp[s] # Null /\ stamp[s].number = chain[s])
=============================================================================
