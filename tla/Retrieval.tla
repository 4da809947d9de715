------------------------------ MODULE Retrieval ------------------------------
(***************************************************************************)
(* From rows to answers: the commands that copy candles, swaps and raw     *)
(* logs into documents, documents into search rows, and search rows into   *)
(* embedded chunks, each table being derived from the one before it        *)
(* (jsonb_documents, search_documents, vector_memory,                      *)
(* embedding_comparison, hybrid_retrieval, jsonb_index_benchmark).         *)
(*                                                                         *)
(*   source[k]    the row k of the table a document is made from           *)
(*   table[t][k]  what table t holds for k                                 *)
(*                                                                         *)
(* A row is told from its predecessor by a version, which its source table *)
(* counts up with each rewriting; 0 is a row that is not there.  What is   *)
(* derived from a row carries the version it was derived from.  Nothing    *)
(* here deletes a row.                                                     *)
(*                                                                         *)
(* A projection has two steps.  An INSERT ... SELECT takes its snapshot    *)
(* when it begins and overwrites whatever it then meets, also what another *)
(* process has committed meanwhile; the chunks are loaded by one           *)
(* transaction and stored by another, with the embedding in between.       *)
(* Which of the rows answer a query is a matter of texts and vectors and   *)
(* left open.                                                              *)
(***************************************************************************)
EXTENDS Integers, Sequences, FiniteSets

CONSTANTS
    Runs,          \* processes
    Keys,          \* rows that can be documents: (source, external_id)
    Kind,          \* the kind of each
    Rank,          \* their order in time
    Window,        \* the keys of the corpus range and of the minutes around it
    Recent,        \* the klines the exchange answers without a start time
    MaxVersion,    \* bound: rewritings of each source row
    Mixes,         \* what is run side by side: the commands of each process
    Limit,         \* the LIMIT of each projection that has one, by command
    ResultLimit,   \* the LIMIT of the queries
    Null

Kinds == {"kline", "swap", "log"}

Commands == {"jsonb", "search", "benchmark", "memory", "hybrid", "compare", "index", "events"}

Tables == {"documents", "search", "chunks", "model", "ops", "path"}

Limited == {"klineDocs", "swapDocs", "logDocs", "chunks", "model"}

ASSUME KeysAssumption    == IsFiniteSet(Keys) /\ Kind \in [Keys -> Kinds] /\ Rank \in [Keys -> Nat]
\* ts of one symbol, (block, log index) of one pair and the identity behind
\* them make every ORDER BY total.
ASSUME RankAssumption    == \A k, l \in Keys : Rank[k] = Rank[l] => k = l
ASSUME WindowAssumption  == Window \subseteq Keys /\ Recent \subseteq {k \in Keys : Kind[k] = "kline"}
ASSUME VersionAssumption == MaxVersion \in [Keys -> Nat]
ASSUME LimitAssumption   == Limit \in [Commands -> [Limited -> Nat]] /\ ResultLimit \in Nat
ASSUME MixesAssumption   == Mixes \subseteq [Runs -> SUBSET Commands]
ASSUME NullAssumption    == Null \notin Commands

VARIABLES
    source, table,
    mix,           \* the commands each process is started with, again and again
    command,       \* the command of each process, Null when it runs none
    at,            \* the stage of its program it is at
    batch,         \* the rows it has read and not yet written, Null if none
    answer,        \* the rows of its last query, until it projects again
    floor          \* history: the sources when no process ran, last

rows == <<source, table>>
progress == <<command, at, batch, answer>>
around == <<mix, floor>>
retrieval == <<rows, progress, around>>

Versions == [Keys -> Nat]
Nothing  == [k \in Keys |-> 0]

\* A result row: title and preview may come from different tables.
Answer == [key : Keys, title : Nat, preview : Nat]

RetrievalTypeOK ==
    /\ source \in Versions
    /\ table \in [Tables -> Versions]
    /\ mix \in Mixes
    /\ command \in [Runs -> Commands \cup {Null}]
    /\ at \in [Runs -> Nat]
    /\ batch \in [Runs -> Versions \cup {Null}]
    /\ answer \in [Runs -> SUBSET Answer]
    /\ floor \in Versions

-----------------------------------------------------------------------------
(* The programs.                                                           *)

\* Faulty program: the documents are copied before the sources are fetched.
JsonbProgramEarly == <<"klineDocs", "swapDocs", "fetch">>

\* run_jsonb_document_smoke
JsonbProgram == <<"fetch", "klineDocs", "swapDocs">>

\* Faulty program: the search rows are left as they are.
SearchProgramStale == JsonbProgram \o <<"askText">>

\* run_search_document_smoke
SearchProgram == JsonbProgram \o <<"search", "askText">>

\* refresh_search_benchmark_corpus, with limits of its own; for one symbol where
\* the code fetches and copies one after the other.
RefreshCorpus == <<"fetch", "klineDocs", "swapDocs", "search">>

\* run_search_document_benchmark
BenchmarkProgram == RefreshCorpus \o <<"askText">>

\* run_vector_memory_smoke
MemoryProgram == SearchProgram \o <<"chunks", "askChunks">>

\* run_hybrid_retrieval_smoke
HybridProgram == MemoryProgram \o <<"askHybrid">>

\* run_embedding_comparison_smoke, also within run_vector_retrieval_benchmark
CompareProgram == MemoryProgram \o <<"model", "askModel">>

\* refresh_real_jsonb_documents
RefreshDocuments == <<"latest", "logs", "klineDocs", "logDocs">>

\* refresh_benchmark_tables: each table in a transaction of its own.
RefreshTables == <<"ops", "path">>

\* run_jsonb_index_benchmark
IndexProgram == RefreshDocuments \o RefreshTables

\* run_event_store_smoke: the panel and the batch, each after a fetch of its
\* own, then the memory, then the events.
EventProgram == <<"fetch", "panel", "fetch", "batch">> \o MemoryProgram \o <<"append">>

Program == [jsonb |-> JsonbProgram, search |-> SearchProgram, benchmark |-> BenchmarkProgram,
            memory |-> MemoryProgram, hybrid |-> HybridProgram, compare |-> CompareProgram,
            index |-> IndexProgram, events |-> EventProgram]

Active(r) == command[r] # Null

Stage(r) == IF Active(r) /\ at[r] <= Len(Program[command[r]])
            THEN Program[command[r]][at[r]] ELSE "end"

-----------------------------------------------------------------------------
(* The projections: what each reads, which kinds, and where it writes them. *)

\* INSERT_BINANCE_DOCUMENTS_SQL, INSERT_BNB_SWAP_CORPUS_DOCUMENTS_SQL and
\* INSERT_BNB_LOG_DOCUMENTS_SQL
KlineDocs == [from |-> "sources", kinds |-> {"kline"}, into |-> "documents"]
SwapDocs  == [from |-> "sources", kinds |-> {"swap"},  into |-> "documents"]
LogDocs   == [from |-> "sources", kinds |-> {"log"},   into |-> "documents"]

\* UPSERT_SEARCH_DOCUMENTS_SQL
SearchRows == [from |-> "documents", kinds |-> Kinds, into |-> "search"]

\* SELECT_SEARCH_DOCUMENTS_SQL and UPSERT_MEMORY_CHUNK_SQL
Chunks == [from |-> "search", kinds |-> {"kline", "swap"}, into |-> "chunks"]

\* the same, and UPSERT_MODEL_MEMORY_CHUNK_SQL
ModelChunks == [Chunks EXCEPT !.into = "model"]

\* UPSERT_BENCHMARK_TABLE_SQL, for either table
Copies(t) == [from |-> "documents", kinds |-> {"kline", "log"}, into |-> t]

Projection == [klineDocs |-> KlineDocs, swapDocs |-> SwapDocs, logDocs |-> LogDocs,
               search |-> SearchRows, chunks |-> Chunks, model |-> ModelChunks,
               ops |-> Copies("ops"), path |-> Copies("path")]

Projections == DOMAIN Projection

Content(t) == IF t = "sources" THEN source ELSE table[t]

\* swaps first, then what was observed last
Ahead(k, l) == \/ Kind[k] = "swap" /\ Kind[l] # "swap"
               \/ (Kind[k] = "swap" <=> Kind[l] = "swap") /\ Rank[k] > Rank[l]

\* The rows projection s of command c selects.
Selected(c, s) ==
    LET present == {k \in Keys :
                       Kind[k] \in Projection[s].kinds /\ Content(Projection[s].from)[k] > 0}
    IN  IF s \notin Limited THEN present
        ELSE {k \in present : Cardinality({l \in present : Ahead(l, k)}) < Limit[c][s]}

-----------------------------------------------------------------------------
(* The queries: the rows each can return, all of them of candles and swaps. *)

Shown(t) == {k \in Keys : Kind[k] \in {"kline", "swap"} /\ table[t][k] > 0}

Told(k, t, u) == [key |-> k, title |-> table[t][k], preview |-> table[u][k]]

\* FULL_TEXT_SEARCH_SQL and TRIGRAM_SEARCH_SQL
TextAnswers == {Told(k, "search", "search") : k \in Shown("search")}

\* SIMILARITY_SEARCH_SQL
ChunkAnswers == {Told(k, "chunks", "chunks") : k \in Shown("chunks")}

\* MODEL_SIMILARITY_SEARCH_SQL
ModelAnswers == {Told(k, "model", "model") : k \in Shown("model")}

\* HYBRID_RETRIEVAL_SQL: the title from the text candidate, if there is one, and
\* the preview from the vector candidate, if there is one.
HybridAnswers == TextAnswers \cup ChunkAnswers
    \cup {Told(k, "search", "chunks") : k \in Shown("search") \cap Shown("chunks")}

Answers(q) == CASE q = "askText"   -> TextAnswers
                [] q = "askChunks" -> ChunkAnswers
                [] q = "askModel"  -> ModelAnswers
                [] q = "askHybrid" -> HybridAnswers

\* The queries that rank every row and leave none out but by their LIMIT.
Nearest == {"askChunks", "askModel"}

-----------------------------------------------------------------------------
(* The steps of a process.                                                 *)

\* History: the sources of a database nobody works on.
Watch ==
    /\ floor' = IF \A r \in Runs : command'[r] = Null THEN source' ELSE floor
    /\ UNCHANGED mix

Forget(r) ==
    /\ command' = [command EXCEPT ![r] = Null]
    /\ at' = [at EXCEPT ![r] = 0]
    /\ batch' = [batch EXCEPT ![r] = Null]
    /\ answer' = [answer EXCEPT ![r] = {}]

Advance(r) ==
    /\ at' = [at EXCEPT ![r] = @ + 1]
    /\ UNCHANGED <<command, around>>

Start(r, c) ==
    /\ ~Active(r)
    /\ c \in mix[r]
    /\ command' = [command EXCEPT ![r] = c]
    /\ at' = [at EXCEPT ![r] = 1]
    /\ UNCHANGED <<rows, batch, answer, around>>

\* The keys a fetching stage asks for: run_bnb_swap_corpus_smoke the swaps of
\* its range, and fetch_and_store_binance_klines, after it, the minutes around
\* them; fetch_and_store_binance_klines without a start time; and
\* fetch_and_store_bnb_logs.
Fetched(s) ==
    CASE s = "fetch"  -> Window
      [] s = "latest" -> Recent
      [] s = "logs"   -> {k \in Window : Kind[k] = "log"}
      [] OTHER        -> {}

\* Afterwards the rows are there.  What the fetch makes of a row that was there
\* before is Change, and so is the moment between the swaps and the candles.
Fetch(r) ==
    /\ Stage(r) \in {"fetch", "latest", "logs"}
    /\ source' = [k \in Keys |-> IF k \in Fetched(Stage(r)) /\ source[k] = 0 THEN 1 ELSE source[k]]
    /\ Advance(r)
    /\ UNCHANGED <<table, batch, answer>>

\* The snapshot of an INSERT ... SELECT, or the rows of
\* load_search_documents_for_memory.
Take(r) ==
    /\ Stage(r) \in Projections
    /\ batch[r] = Null
    /\ batch' = [batch EXCEPT ![r] =
          [k \in Keys |-> IF k \in Selected(command[r], Stage(r))
                          THEN Content(Projection[Stage(r)].from)[k] ELSE 0]]
    /\ answer' = [answer EXCEPT ![r] = {}]
    /\ UNCHANGED <<rows, command, at, around>>

\* Faulty upsert: ON CONFLICT DO NOTHING.
PutAbsent(r) ==
    /\ batch[r] # Null
    /\ table' = [table EXCEPT ![Projection[Stage(r)].into] =
          [k \in Keys |-> IF batch[r][k] > 0 /\ @[k] = 0 THEN batch[r][k] ELSE @[k]]]
    /\ batch' = [batch EXCEPT ![r] = Null]
    /\ Advance(r)
    /\ UNCHANGED <<source, answer>>

\* ON CONFLICT DO UPDATE, and the commit.
Put(r) ==
    /\ batch[r] # Null
    /\ table' = [table EXCEPT ![Projection[Stage(r)].into] =
          [k \in Keys |-> IF batch[r][k] > 0 THEN batch[r][k] ELSE @[k]]]
    /\ batch' = [batch EXCEPT ![r] = Null]
    /\ Advance(r)
    /\ UNCHANGED <<source, answer>>

\* load_full_text_results and load_trigram_results, search_memory,
\* search_model_memory, search_hybrid.
Ask(r) ==
    /\ Stage(r) \in {"askText", "askChunks", "askModel", "askHybrid"}
    /\ \E K \in SUBSET Keys :
          /\ Cardinality(K) <= ResultLimit
          /\ Stage(r) \in Nearest =>
                \/ Cardinality(K) = ResultLimit
                \/ K = {a.key : a \in Answers(Stage(r))}
          /\ answer' \in {[answer EXCEPT ![r] = A] : A \in
                {A \in SUBSET Answers(Stage(r)) :
                    /\ {a.key : a \in A} = K
                    /\ Cardinality(A) = Cardinality(K)}}
    /\ Advance(r)
    /\ UNCHANGED <<rows, batch>>

\* The command prints its result and ends.
Finish(r) ==
    /\ Active(r)
    /\ Stage(r) = "end"
    /\ Forget(r)
    /\ UNCHANGED rows
    /\ Watch

\* An error nothing catches, or the end of the process; what it has written and
\* not committed is undone.
Stop(r) ==
    /\ Active(r)
    /\ Forget(r)
    /\ UNCHANGED rows
    /\ Watch

\* A source row is rewritten, or written for the first time, by any of the
\* commands that ingest: the candle of an open minute, a swap of a reorganised
\* block.
Change(k) ==
    /\ source[k] < MaxVersion[k]
    /\ source' = [source EXCEPT ![k] = @ + 1]
    /\ UNCHANGED <<table, progress>>
    /\ Watch

RetrievalInit ==
    /\ source = Nothing
    /\ table = [t \in Tables |-> Nothing]
    /\ mix \in Mixes
    /\ command = [r \in Runs |-> Null]
    /\ at = [r \in Runs |-> 0]
    /\ batch = [r \in Runs |-> Null]
    /\ answer = [r \in Runs |-> {}]
    /\ floor = Nothing
=============================================================================
