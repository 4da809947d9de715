-------------------------- MODULE FeaturePipeline --------------------------
(***************************************************************************)
(* From candles and swaps to features: run_olap_return_panel_smoke,        *)
(* run_cache_summary_smoke, run_feature_store_smoke,                       *)
(* run_feature_batch_smoke and fetch_and_store_binance_klines as processes *)
(* on one database, for one symbol.                                        *)
(*                                                                         *)
(*   swaps         minutes with a stamped swap in defi.swap_events         *)
(*   candles[m]    the row of minute m in time_series.candles_1m           *)
(*   views[v]      what a materialized view holds: the tables as its last  *)
(*                 refresh found them                                      *)
(*   snapshots[m]  the row of feature_store.quant_feature_snapshots whose  *)
(*                 feature_ts is the close of minute m                     *)
(*   batches       feature_store.quant_feature_batches                     *)
(*   items         feature_store.quant_feature_batch_items                 *)
(*                                                                         *)
(* A minute stands for its open time and for its close time, which differ  *)
(* by the same amount in every source.  A candle is "open" when it was     *)
(* fetched before its minute was over, "final" when after, and "fixture"   *)
(* when the fixture of the candle smoke wrote it.  The numbers of a panel  *)
(* row are the closes they are computed from, its basis.  A batch id is    *)
(* what it is the hash of; the run key, configuration, code and runtime in *)
(* the hash are the same for all processes here, since processes that      *)
(* differ in them share no batch.  Each transaction and each request is a  *)
(* step.  The swap corpus, a pipeline of its own in SwapCorpus, is one.    *)
(***************************************************************************)
EXTENDS Integers, FiniteSets

CONSTANTS
    Runs,              \* processes
    FirstNow,          \* the minute of now at the start
    LastMinute,        \* bound: the clock stops there
    CorpusMinutes,     \* minutes of the swaps in the default corpus range
    SampleMinutes,     \* how many minutes the sample of result_limit swaps spans
    Padding,           \* DEFAULT_KLINE_ALIGNMENT_PADDING_MINUTES
    KlineLimit,        \* binance_limit
    RollingRows,       \* returns in the rolling average
    SourceLimit,       \* source_limit
    FixtureMinutes,    \* minutes the candle fixture writes
    MaxStarts,         \* bound: processes started
    Null

Minutes == 1 .. LastMinute

ASSUME ClockAssumption   == FirstNow \in Nat /\ LastMinute \in Nat /\ 1 < FirstNow /\ FirstNow <= LastMinute
\* The default range of the corpus is fixed, long past, and has swaps.
ASSUME CorpusAssumption  == CorpusMinutes \subseteq 1 .. FirstNow - 1 /\ CorpusMinutes # {}
ASSUME FixtureAssumption == FixtureMinutes \subseteq 1 .. LastMinute
ASSUME PaddingAssumption == Padding \in Nat
ASSUME NullAssumption    == Null \notin {"open", "final", "fixture"}
ASSUME LimitsAssumption  == /\ SampleMinutes \in Nat \ {0} /\ KlineLimit \in Nat \ {0}
                            /\ SourceLimit \in Nat \ {0} /\ RollingRows \in Nat \ {0} /\ MaxStarts \in Nat

VARIABLES
    now, starts,
    swaps, candles, views, refreshes,   \* refreshes: refreshed_at as a count
    snapshots, batches, items,
    pc, command,
    sample,            \* minutes of the sample_events of the corpus it ran
    got,               \* the klines it fetched
    since,             \* the refreshes there were when it had stored them
    rows, origin       \* its source rows, and the refresh they come from

sources == <<now, swaps, candles>>
panels  == <<views, refreshes>>
store   == <<snapshots, batches, items>>
memory  == <<sample, got, since, rows, origin>>
vars    == <<sources, panels, store, starts, pc, command, memory>>

Commands == {"candles", "olap", "summary", "store", "batch"}
Ended    == {"idle", "done", "failed"}
Places   == Ended \cup {"corpus", "fetching", "storing", "creating", "refreshing", "counting",
                        "looking", "loading", "upserting", "batching", "filling", "reading"}
Views    == {"panel", "summary"}
Binance  == {"open", "final"}

NoCandles == [m \in Minutes |-> Null]

IsRow(row) ==
    /\ DOMAIN row = {"minute", "basis", "swapped"}
    /\ row.minute \in Minutes /\ row.swapped \in BOOLEAN
    /\ DOMAIN row.basis \subseteq Minutes
    /\ \A m \in DOMAIN row.basis : row.basis[m] \in Binance

TypeOK ==
    /\ now \in Minutes /\ starts \in 0 .. MaxStarts /\ refreshes \in 0 .. MaxStarts
    /\ swaps \subseteq CorpusMinutes
    /\ candles \in [Minutes -> Binance \cup {"fixture", Null}]
    /\ \A m \in Minutes : candles[m] = "final" => m < now
    /\ DOMAIN views = Views
    /\ \A v \in Views : views[v] # Null =>
          /\ views[v].candles \in [Minutes -> Binance \cup {"fixture", Null}]
          /\ views[v].swaps \subseteq CorpusMinutes
          /\ views[v].refresh \in 1 .. refreshes
    /\ \A m \in Minutes : snapshots[m] # Null =>
          IsRow(snapshots[m].row) /\ snapshots[m].row.minute = m
    /\ \A b \in batches : \A row \in b : IsRow(row)
    /\ \A i \in items : i.batch \in batches /\ IsRow(i.row)
    /\ pc \in [Runs -> Places]
    /\ command \in [Runs -> Commands \cup {Null}]
    /\ \A r \in Runs : \A row \in rows[r] : IsRow(row)
    /\ got \in [Runs -> [Minutes -> Binance \cup {Null}]]

-----------------------------------------------------------------------------
(* What the queries compute.                                               *)

Earliest(S) == CHOOSE m \in S : \A n \in S : m <= n
Latest(S)   == CHOOSE m \in S : \A n \in S : n <= m

\* ORDER BY ts LIMIT n and ORDER BY ts DESC LIMIT n
First(n, S) == {m \in S : Cardinality({k \in S : k < m}) < n}
Last(n, S)  == {m \in S : Cardinality({k \in S : k > m}) < n}

\* Faulty window: the padding is added to the start.
WindowPaddedInside(r) ==
    IF sample[r] = {} THEN Last(KlineLimit, 1 .. now)
    ELSE First(KlineLimit, {m \in 1 .. now : /\ m >= Earliest(sample[r]) + Padding
                                             /\ m <= Latest(sample[r]) + Padding + 1})

\* With a start time the exchange answers from there on, without one with its
\* latest klines.
KlineWindow(r) ==
    IF sample[r] = {} THEN Last(KlineLimit, 1 .. now)
    ELSE First(KlineLimit, {m \in 1 .. now : /\ m >= Earliest(sample[r]) - Padding
                                             /\ m <= Latest(sample[r]) + Padding + 1})

Kline(m) == IF m < now THEN "final" ELSE "open"

\* Faulty panel: without WHERE source = 'binance_spot_klines'.
PanelMinutesAnySource(content) == {m \in Minutes : content.candles[m] # Null}

PanelMinutes(content) == {m \in Minutes : content.candles[m] \in Binance}

\* Faulty panel: the rolling window is centred on the row.
PanelRowCentred(content, m) ==
    LET following == {k \in PanelMinutes(content) : k >= m}
    IN  [minute  |-> m,
         basis   |-> [k \in First(RollingRows, following) |-> content.candles[k]],
         swapped |-> m \in content.swaps]

\* lag and the rolling average count rows, not minutes.
PanelRow(content, m) ==
    LET preceding == {k \in PanelMinutes(content) : k <= m}
    IN  [minute  |-> m,
         basis   |-> [k \in Last(RollingRows + 1, preceding) |-> content.candles[k]],
         swapped |-> m \in content.swaps]

\* The row previous_close_price and return_bps come from, if there is one.
Previous(row) == Last(1, {m \in DOMAIN row.basis : m < row.minute})

\* (swap_count > 0) DESC, ts DESC
Before(p, q) == \/ p.swapped /\ ~q.swapped
                \/ p.swapped = q.swapped /\ p.minute > q.minute

Head(R) == CHOOSE p \in R : \A q \in R \ {p} : Before(p, q)

\* The panel, joined with the candles of now.
SourceRows ==
    LET joined == {PanelRow(views["panel"], m) :
                      m \in {m \in PanelMinutes(views["panel"]) : candles[m] \in Binance}}
    IN  {p \in joined : Cardinality({q \in joined : Before(q, p)}) < SourceLimit}

\* Faulty id: only of what the run is configured with.
BatchIdOfConfig(r) == {}

BatchId(r) == rows[r]

ItemsOf(b) == {i \in items : i.batch = b}
ItemRows(b) == {i.row : i \in ItemsOf(b)}

\* The as-of lookup at the close of minute m.
AsOf(R, m) == {p \in R : /\ p.minute <= m
                         /\ \A q \in R : q.minute <= m => q.minute <= p.minute}

-----------------------------------------------------------------------------
(* The processes.                                                          *)

Goto(r, from, to) ==
    /\ pc[r] = from
    /\ pc' = [pc EXCEPT ![r] = to]

\* The function returns or raises, and the process ends.
Forget(r) ==
    /\ command' = [command EXCEPT ![r] = Null]
    /\ sample' = [sample EXCEPT ![r] = {}]
    /\ got' = [got EXCEPT ![r] = NoCandles]
    /\ since' = [since EXCEPT ![r] = 0]
    /\ rows' = [rows EXCEPT ![r] = {}]
    /\ origin' = [origin EXCEPT ![r] = 0]

Start(r, c) ==
    /\ pc[r] \in Ended
    /\ starts < MaxStarts
    /\ starts' = starts + 1
    /\ pc' = [pc EXCEPT ![r] = IF c = "candles" THEN "fetching" ELSE "corpus"]
    /\ command' = [command EXCEPT ![r] = c]
    /\ UNCHANGED <<sources, panels, store, memory>>

\* run_bnb_swap_corpus_smoke; its sample are the first events of the range.
Corpus(r) ==
    /\ Goto(r, "corpus", "fetching")
    /\ swaps' = CorpusMinutes
    /\ sample' = [sample EXCEPT ![r] = First(SampleMinutes, CorpusMinutes)]
    /\ UNCHANGED <<now, candles, panels, store, starts, command, got, since, rows, origin>>

\* The corpus run fails, after it stamped some of the swaps.
CorpusFails(r, S) ==
    /\ Goto(r, "corpus", "failed")
    /\ swaps' = swaps \cup S
    /\ Forget(r)
    /\ UNCHANGED <<now, candles, panels, store, starts>>

\* fetch_klines
Fetch(r) ==
    /\ Goto(r, "fetching", "storing")
    /\ got' = [got EXCEPT ![r] = [m \in Minutes |->
                  IF m \in KlineWindow(r) THEN Kline(m) ELSE Null]]
    /\ UNCHANGED <<sources, panels, store, starts, command, sample, since, rows, origin>>

\* upsert_klines
StoreCandles(r) ==
    /\ pc[r] = "storing"
    /\ candles' = [m \in Minutes |-> IF got[r][m] # Null THEN got[r][m] ELSE candles[m]]
    /\ IF command[r] = "candles"
       THEN /\ pc' = [pc EXCEPT ![r] = "done"]
            /\ Forget(r)
       ELSE /\ pc' = [pc EXCEPT ![r] = "creating"]
            /\ since' = [since EXCEPT ![r] = refreshes]
            /\ UNCHANGED <<command, sample, got, rows, origin>>
    /\ UNCHANGED <<now, swaps, panels, store, starts>>

View(r) == IF command[r] = "summary" THEN "summary" ELSE "panel"

\* Faulty schema: a view that is there is kept, and not refreshed again.
CreateViewOnce(r) ==
    /\ Goto(r, "creating", IF views[View(r)] = Null THEN "refreshing" ELSE "counting")
    /\ UNCHANGED <<sources, panels, store, starts, command, memory>>

\* DROP MATERIALIZED VIEW and CREATE MATERIALIZED VIEW ... WITH NO DATA.  A view
\* that holds nothing and one that is not there raise alike when they are read.
CreateView(r) ==
    /\ Goto(r, "creating", "refreshing")
    /\ views' = [views EXCEPT ![View(r)] = Null]
    /\ UNCHANGED <<sources, refreshes, store, starts, command, memory>>

Refresh(r) ==
    /\ Goto(r, "refreshing", "counting")
    /\ refreshes' = refreshes + 1
    /\ views' = [views EXCEPT ![View(r)] =
                    [candles |-> candles, swaps |-> swaps, refresh |-> refreshes + 1]]
    /\ UNCHANGED <<sources, store, starts, command, memory>>

Count(r) ==
    /\ views[View(r)] # Null
    /\ Goto(r, "counting", IF command[r] \in {"olap", "summary"} THEN "looking" ELSE "loading")
    /\ UNCHANGED <<sources, panels, store, starts, command, memory>>

\* The view has not been populated: another run created it anew.
ReadRaises(r) ==
    /\ pc[r] \in {"counting", "looking", "loading"}
    /\ views[View(r)] = Null
    /\ pc' = [pc EXCEPT ![r] = "failed"]
    /\ Forget(r)
    /\ UNCHANGED <<sources, panels, store, starts>>

\* The lookups of the summary, which raises without its row, and of the panel.
Look(r) ==
    /\ views[View(r)] # Null
    /\ Goto(r, "looking", IF command[r] = "summary" /\ views["summary"].swaps = {}
                          THEN "failed" ELSE "done")
    /\ Forget(r)
    /\ UNCHANGED <<sources, panels, store, starts>>

\* Faulty batch run: it does not look at the swap_count of its first row.
AcceptedUnchecked(r) == SourceRows # {}

\* The checks of the two runs on their source rows.  The store run raises for no
\* rows only after it upserted none.
Accepted(r) == /\ SourceRows # {}
               /\ command[r] = "batch" => Head(SourceRows).swapped

\* load_feature_source_rows
Load(r) ==
    /\ pc[r] = "loading"
    /\ views["panel"] # Null
    /\ IF Accepted(r)
       THEN /\ pc' = [pc EXCEPT ![r] = IF command[r] = "store" THEN "upserting" ELSE "batching"]
            /\ rows' = [rows EXCEPT ![r] = SourceRows]
            /\ origin' = [origin EXCEPT ![r] = views["panel"].refresh]
            /\ UNCHANGED <<command, sample, got, since>>
       ELSE /\ pc' = [pc EXCEPT ![r] = "failed"]
            /\ Forget(r)
    /\ UNCHANGED <<sources, panels, store, starts>>

\* upsert_feature_snapshots
UpsertSnapshots(r) ==
    /\ Goto(r, "upserting", "reading")
    /\ snapshots' = [m \in Minutes |->
          IF \E row \in rows[r] : row.minute = m
          THEN [row |-> CHOOSE row \in rows[r] : row.minute = m, refresh |-> origin[r]]
          ELSE snapshots[m]]
    /\ UNCHANGED <<sources, panels, batches, items, starts, command, memory>>

InsertBatch(r) ==
    /\ Goto(r, "batching", "filling")
    /\ batches' = batches \cup {BatchId(r)}
    /\ UNCHANGED <<sources, panels, snapshots, items, starts, command, memory>>

NewItems(r) ==
    {[batch |-> BatchId(r), row |-> row, refresh |-> origin[r]] :
        row \in {row \in rows[r] : \A i \in ItemsOf(BatchId(r)) : i.row.minute # row.minute}}

\* Faulty batch: a transaction for each item.
InsertItemsSingly(r) ==
    /\ pc[r] = "filling"
    /\ IF NewItems(r) = {}
       THEN pc' = [pc EXCEPT ![r] = "reading"] /\ UNCHANGED items
       ELSE (\E i \in NewItems(r) : items' = items \cup {i}) /\ UNCHANGED pc
    /\ UNCHANGED <<sources, panels, snapshots, batches, starts, command, memory>>

\* Faulty batch: ON CONFLICT DO UPDATE.
InsertItemsUpdating(r) ==
    /\ Goto(r, "filling", "reading")
    /\ items' = (items \ ItemsOf(BatchId(r))) \cup
                   {[batch |-> BatchId(r), row |-> row, refresh |-> origin[r]] : row \in rows[r]}
    /\ UNCHANGED <<sources, panels, snapshots, batches, starts, command, memory>>

\* insert_batch_items
InsertItems(r) ==
    /\ Goto(r, "filling", "reading")
    /\ items' = items \cup NewItems(r)
    /\ UNCHANGED <<sources, panels, snapshots, batches, starts, command, memory>>

\* What the as-of lookup of a run finds, at the close of its first source row.
Found(r) ==
    AsOf(IF command[r] = "batch" THEN ItemRows(BatchId(r))
         ELSE {snapshots[m].row : m \in {m \in Minutes : snapshots[m] # Null}},
         Head(rows[r]).minute)

Read(r) ==
    /\ Goto(r, "reading", IF Found(r) = {} THEN "failed" ELSE "done")
    /\ Forget(r)
    /\ UNCHANGED <<sources, panels, store, starts>>

\* An error nothing catches, or the end of the process.
Stop(r) ==
    /\ pc[r] \notin Ended
    /\ pc' = [pc EXCEPT ![r] = "failed"]
    /\ Forget(r)
    /\ UNCHANGED <<sources, panels, store, starts>>

-----------------------------------------------------------------------------
(* Beside them.                                                            *)

\* apply_schema_and_fixture of the candle smoke
ApplyFixture ==
    /\ candles' = [m \in Minutes |-> IF m \in FixtureMinutes THEN "fixture" ELSE candles[m]]
    /\ UNCHANGED <<now, swaps, panels, store, pc, starts, command, memory>>

Tick ==
    /\ now < LastMinute
    /\ now' = now + 1
    /\ UNCHANGED <<swaps, candles, panels, store, pc, starts, command, memory>>

Init ==
    /\ now = FirstNow /\ starts = 0
    /\ swaps = {} /\ candles = NoCandles
    /\ views = [v \in Views |-> Null] /\ refreshes = 0
    /\ snapshots = NoCandles /\ batches = {} /\ items = {}
    /\ pc = [r \in Runs |-> "idle"]
    /\ command = [r \in Runs |-> Null]
    /\ sample = [r \in Runs |-> {}]
    /\ got = [r \in Runs |-> NoCandles]
    /\ since = [r \in Runs |-> 0]
    /\ rows = [r \in Runs |-> {}]
    /\ origin = [r \in Runs |-> 0]

Step(r) ==
    \/ \E c \in Commands : Start(r, c)
    \/ Corpus(r)
    \/ \E S \in SUBSET CorpusMinutes : CorpusFails(r, S)
    \/ Fetch(r) \/ StoreCandles(r)
    \/ CreateView(r) \/ Refresh(r) \/ Count(r) \/ ReadRaises(r) \/ Look(r)
    \/ Load(r) \/ UpsertSnapshots(r)
    \/ InsertBatch(r) \/ InsertItems(r) \/ Read(r)
    \/ Stop(r)

Next == (\E r \in Runs : Step(r)) \/ ApplyFixture \/ Tick

Spec == Init /\ [][Next]_vars

-----------------------------------------------------------------------------
(* Properties.                                                             *)

\* A run that reads its view, and is not turned away because another run created
\* it anew, finds in it the tables of a refresh after it had stored its candles,
\* whoever refreshed it last: every minute it fetched, every swap of its corpus.
FreshViews ==
    \A r \in Runs : LET view == views[View(r)] IN
        pc[r] \in {"counting", "looking", "loading"} /\ view # Null =>
            /\ view.refresh > since[r]
            /\ \A m \in Minutes : got[r][m] # Null => view.candles[m] # Null
            /\ CorpusMinutes \subseteq view.swaps

\* "at least one panel row demonstrates a real event-time match": when the klines
\* asked for outnumber the padding, the minute of the first swap of the sample
\* has a row in the panel, unless the candle fixture has taken it.
MatchShown ==
    \A r \in Runs : LET panel == views["panel"]  first == Earliest(sample[r]) IN
        /\ KlineLimit > Padding
        /\ pc[r] \in {"counting", "looking", "loading"}
        /\ View(r) = "panel" /\ panel # Null
        => panel.candles[first] = "fixture" \/ first \in PanelMinutes(panel) \cap panel.swaps

\* No lookahead: whatever run wrote a feature row, from whatever panel, its
\* numbers come from candles that close no later than its feature_ts, so that
\* no as-of lookup sees beyond its time.
NoLookahead ==
    LET written == {snapshots[m].row : m \in {m \in Minutes : snapshots[m] # Null}}
                   \cup {i.row : i \in items}
    IN  \A row \in written :
            DOMAIN row.basis \subseteq 1 .. row.minute /\ row.minute \in DOMAIN row.basis

\* A batch has all of its items, from one refresh of the panel, or none: whoever
\* died between the batch and its items, and whoever filled it in then.
BatchAllOrNothing ==
    \A b \in batches :
        \/ ItemsOf(b) = {}
        \/ ItemRows(b) = b /\ Cardinality(ItemsOf(b)) = Cardinality(b)
           /\ Cardinality({i.refresh : i \in ItemsOf(b)}) = 1

\* A run reads back what it captured: when its batch is filled, by itself or by
\* another run of the same id, it holds exactly the run's source rows, and the
\* as-of item is the first of them.
BatchOfItsRun ==
    \A r \in Runs :
        pc[r] = "reading" /\ command[r] = "batch" =>
            /\ ItemRows(BatchId(r)) = rows[r]
            /\ Found(r) = {Head(rows[r])}

\* Fail closed: a batch is evidence of the swap corpus, so that the first row of
\* each is one with a swap.
BatchesTiedToSwaps ==
    \A b \in batches : \E row \in b : row.swapped

\* Batches are immutable: an item stays as it was written, and no batch that has
\* items gets another one.
BatchesImmutable ==
    [][/\ batches \subseteq batches'
       /\ items \subseteq items'
       /\ \A i \in items' \ items : ItemsOf(i.batch) = {}]_vars

\* docs/feature-store-point-in-time.md:49: the return is a "one-minute return".
OneMinuteReturns ==
    \A m \in Minutes : snapshots[m] # Null =>
        Previous(snapshots[m].row) \subseteq {m - 1}
=============================================================================
