----------------------- MODULE FeaturePipelineProofs -----------------------
(***************************************************************************)
(* The feature pipeline, for any number of processes, any clock, corpus,   *)
(* fixture and limits.                                                     *)
(*                                                                         *)
(* The views: a run's view is refreshed by the run itself or after it, so  *)
(* a view that is newer than what the run has stored tells it, and the     *)
(* tables lose nothing between (StoredIsThere).                            *)
(*                                                                         *)
(* The batches: the id of a batch is the hash of its rows, so two runs     *)
(* that fill the same batch write the same items, and the one that comes   *)
(* second finds every minute taken (BatchSound).                           *)
(***************************************************************************)
EXTENDS FeaturePipeline, NaturalBounds, FiniteSetTheorems, TLAPS

USE ClockAssumption, CorpusAssumption, FixtureAssumption, PaddingAssumption, NullAssumption,
    LimitsAssumption
    DEF ClockAssumption, CorpusAssumption, FixtureAssumption, PaddingAssumption, NullAssumption,
    LimitsAssumption

\* Places before the refresh of a run, after the candles are stored, and of the
\* rows it has loaded.
BeforeRefresh == {"corpus", "fetching", "storing", "creating", "refreshing"}
AfterStore    == {"creating", "refreshing", "counting", "looking", "loading"}
AtView        == {"counting", "looking", "loading"}
WithRows      == {"upserting", "batching", "filling", "reading"}

Due == {r \in Runs : pc[r] \in BeforeRefresh}

MemoryFits ==
    /\ sample \in [Runs -> SUBSET CorpusMinutes]
    /\ DOMAIN since = Runs /\ DOMAIN rows = Runs /\ DOMAIN origin = Runs
    /\ \A r \in Runs : since[r] \in 0 .. refreshes
    /\ FirstNow <= now
    /\ \A r \in Runs : \A m \in Minutes : got[r][m] = "final" => m < now

\* Where a run may be depends on its command.
PlacesFit ==
    \A r \in Runs :
        /\ pc[r] \notin Ended => command[r] \in Commands
        /\ pc[r] \notin Ended \cup {"fetching", "storing"} => command[r] # "candles"
        /\ pc[r] \in {"loading", "reading"} => command[r] \in {"store", "batch"}
        /\ pc[r] = "upserting" => command[r] = "store"
        /\ pc[r] \in {"batching", "filling"} => command[r] = "batch"

\* Every start refreshes once at most.
RefreshesCounted == IsFiniteSet(Due) /\ refreshes + Cardinality(Due) <= starts

\* A row looks back only, and never past its own minute.
Causal(row) == DOMAIN row.basis \subseteq 1 .. row.minute /\ row.minute \in DOMAIN row.basis

\* Rows of one query: finitely many, one for a minute.
OneAMinute(R) == IsFiniteSet(R) /\ \A p, q \in R : p.minute = q.minute => p = q

RowsSound ==
    \A r \in Runs :
        /\ OneAMinute(rows[r])
        /\ \A row \in rows[r] : Causal(row)
        /\ pc[r] \in WithRows => rows[r] # {}
        /\ pc[r] \in WithRows /\ command[r] = "batch" => \E row \in rows[r] : row.swapped

TypeInv == TypeOK /\ MemoryFits /\ PlacesFit /\ RefreshesCounted /\ RowsSound

\* The corpus and the klines of a run are in the tables, and in each view that
\* was refreshed since.
Told(r, view) ==
    /\ \A m \in Minutes : got[r][m] # Null => view.candles[m] # Null
    /\ CorpusMinutes \subseteq view.swaps

StoredIsThere ==
    \A r \in Runs :
        /\ pc[r] \in BeforeRefresh \cup AtView /\ pc[r] # "corpus" /\ command[r] # "candles" =>
              /\ CorpusMinutes \subseteq swaps
              /\ sample[r] # {}
        /\ pc[r] \in AfterStore =>
              /\ \A m \in Minutes : got[r][m] # Null => candles[m] # Null
              /\ \A v \in Views : views[v] # Null /\ views[v].refresh > since[r] => Told(r, views[v])
        /\ pc[r] \in AtView /\ views[View(r)] # Null => views[View(r)].refresh > since[r]

\* The klines a run has got are those of its sample.
SampleFetched ==
    \A r \in Runs :
        /\ KlineLimit > Padding
        /\ pc[r] \in AfterStore \cup {"storing"}
        /\ command[r] # "candles"
        => got[r][Earliest(sample[r])] # Null

ViewInv == StoredIsThere /\ SampleFetched

\* A batch is what its hash was made of, and what a run has captured stays.
BatchSound ==
    /\ \A b \in batches : IsFiniteSet(b) /\ b # {}
    /\ \A r \in Runs :
          /\ pc[r] = "filling" => rows[r] \in batches
          /\ pc[r] = "reading" /\ command[r] = "batch" => ItemRows(rows[r]) = rows[r]

BatchInv == BatchSound /\ BatchAllOrNothing /\ BatchesTiedToSwaps

PipelineInv == TypeInv /\ ViewInv /\ NoLookahead /\ BatchInv

-----------------------------------------------------------------------------
(* Least, greatest and first elements.                                     *)

\* MIN() of the events' minutes.
LEMMA EarliestIs ==
    ASSUME NEW S \in SUBSET Minutes, S # {}
    PROVE  Earliest(S) \in S /\ \A n \in S : Earliest(S) <= n
<1>1. S \in SUBSET Nat
  BY DEF Minutes
<1>2. \E m \in S : \A n \in S : m <= n
  BY <1>1, LeastNatural
<1> QED
  BY <1>2 DEF Earliest

\* A set of minutes has a last one.
LEMMA GreatestMinute ==
    ASSUME NEW S \in SUBSET Minutes, S # {}
    PROVE  \E m \in S : \A n \in S : n <= m
BY GreatestInRange DEF Minutes

\* MAX() of the events' minutes.
LEMMA LatestIs ==
    ASSUME NEW S \in SUBSET Minutes, S # {}
    PROVE  Latest(S) \in S /\ \A n \in S : n <= Latest(S)
BY GreatestMinute DEF Latest

\* The row ORDER BY (swap_count > 0) DESC, ts DESC LIMIT 1 picks: a swapped one
\* if there is any.
LEMMA HeadIs ==
    ASSUME NEW R, OneAMinute(R), R # {},
           \A p \in R : p.minute \in Minutes /\ p.swapped \in BOOLEAN
    PROVE  /\ Head(R) \in R
           /\ \A q \in R \ {Head(R)} : Before(Head(R), q)
<1>1. ASSUME NEW T \in SUBSET R, T # {}
      PROVE  \E p \in T : \A q \in T \ {p} : q.minute < p.minute
  <2> DEFINE M == {p.minute : p \in T}
  <2>1. M \in SUBSET Minutes /\ M # {}
    BY <1>1
  <2>2. PICK m \in M : \A n \in M : n <= m
    BY <2>1, GreatestMinute
  <2>3. PICK p \in T : p.minute = m
    BY <2>2
  <2>4. \A q \in T \ {p} : q.minute <= p.minute /\ q.minute # p.minute
    BY <2>2, <2>3 DEF OneAMinute
  <2>5. \A q \in T : q.minute \in Int
    BY DEF Minutes
  <2> QED
    BY <2>4, <2>5
<1>2. \E p \in R : \A q \in R \ {p} : Before(p, q)
  <2> DEFINE T == {p \in R : p.swapped}
  <2>1. CASE T = {}
    <3>1. PICK p \in R : \A q \in R \ {p} : q.minute < p.minute
      BY <1>1
    <3>2. \A q \in R \ {p} : p.swapped = q.swapped
      BY <2>1
    <3> QED
      BY <3>1, <3>2 DEF Before
  <2>2. CASE T # {}
    <3>1. PICK p \in T : \A q \in T \ {p} : q.minute < p.minute
      BY <1>1, <2>2
    <3>2. \A q \in R \ {p} : ~q.swapped \/ (p.swapped = q.swapped /\ q.minute < p.minute)
      BY <3>1
    <3> QED
      BY <3>1, <3>2 DEF Before
  <2> QED
    BY <2>1, <2>2
<1> QED
  BY <1>2 DEF Head

\* The corpus lies before the clock starts.
LEMMA CorpusPast == CorpusMinutes \subseteq Minutes
BY DEF Minutes

\* Of a finite set the first n >= 1 are not nothing.
LEMMA FirstIsThere ==
    ASSUME NEW n \in Nat \ {0}, NEW S \in SUBSET Minutes, S # {}
    PROVE  First(n, S) # {}
<1>1. Earliest(S) \in S /\ \A k \in S : Earliest(S) <= k
  BY EarliestIs
<1>2. {k \in S : k < Earliest(S)} = {}
  <2>1. \A k \in S : k \in Int
    BY DEF Minutes
  <2> QED
    BY <1>1, <2>1
<1>3. Cardinality({k \in S : k < Earliest(S)}) = 0
  BY <1>2, FS_EmptySet
<1> QED
  BY <1>1, <1>3 DEF First

\* An image of a finite set is finite.
LEMMA FiniteImage ==
    ASSUME NEW f, IsFiniteSet(DOMAIN f)
    PROVE  IsFiniteSet({f[x] : x \in DOMAIN f})
<1> DEFINE T == {f[x] : x \in DOMAIN f}
<1>1. [x \in DOMAIN f |-> f[x]] \in Surjection(DOMAIN f, T)
  BY DEF Surjection
<1> HIDE DEF T
<1>2. IsFiniteSet(T)
  BY <1>1, FS_Surjection
<1> QED
  BY <1>2 DEF T

\* What a refresh puts into a view.
IsContent(content) ==
    content.candles \in [Minutes -> Binance \cup {"fixture", Null}]

\* A row of the panel: of its minute, from candles up to it.
LEMMA PanelRowSound ==
    ASSUME NEW content, IsContent(content), NEW m \in PanelMinutes(content)
    PROVE  /\ IsRow(PanelRow(content, m))
           /\ Causal(PanelRow(content, m))
           /\ PanelRow(content, m).minute = m
<1> DEFINE preceding == {k \in PanelMinutes(content) : k <= m}
           basis     == [k \in Last(RollingRows + 1, preceding) |-> content.candles[k]]
<1>1. PanelRow(content, m) = [minute |-> m, basis |-> basis, swapped |-> m \in content.swaps]
  BY DEF PanelRow
<1>2. m \in Minutes /\ m \in Int /\ m \in preceding
  BY DEF PanelMinutes, Minutes
<1>3. Last(RollingRows + 1, preceding) \subseteq preceding
  BY DEF Last
<1>4. m \in Last(RollingRows + 1, preceding)
  <2>1. {k \in preceding : k > m} = {}
    BY DEF PanelMinutes, Minutes
  <2>2. Cardinality({k \in preceding : k > m}) = 0
    BY <2>1, FS_EmptySet
  <2> HIDE DEF preceding
  <2> QED
    BY <1>2, <2>2 DEF Last
<1>5. \A k \in preceding : k \in Minutes /\ k \in 1 .. m /\ content.candles[k] \in Binance
  BY <1>2 DEF PanelMinutes, Minutes
<1> HIDE DEF preceding
<1>6. /\ DOMAIN basis = Last(RollingRows + 1, preceding)
      /\ \A k \in DOMAIN basis : basis[k] \in Binance
  BY <1>3, <1>5
<1>7. DOMAIN basis \subseteq Minutes /\ DOMAIN basis \subseteq 1 .. m /\ m \in DOMAIN basis
  BY <1>3, <1>4, <1>5, <1>6
<1> HIDE DEF basis
<1> QED
  BY <1>1, <1>2, <1>6, <1>7 DEF IsRow, Causal

\* load_feature_source_rows: one row for a minute, of the candles up to it.
LEMMA SourceRowsSound ==
    ASSUME IsContent(views["panel"])
    PROVE  /\ OneAMinute(SourceRows)
           /\ \A row \in SourceRows : IsRow(row) /\ Causal(row)
<1> DEFINE panel == views["panel"]
           Q     == {m \in PanelMinutes(panel) : candles[m] \in Binance}
           f     == [m \in Q |-> PanelRow(panel, m)]
<1>1. SourceRows \subseteq {f[m] : m \in DOMAIN f}
  BY DEF SourceRows
<1>2. IsFiniteSet(DOMAIN f)
  <2>1. Q \in SUBSET (1 .. LastMinute)
    BY DEF PanelMinutes, Minutes
  <2>2. IsFiniteSet(1 .. LastMinute)
    BY FS_Interval
  <2>3. DOMAIN f = Q
    OBVIOUS
  <2> HIDE DEF f, Q
  <2> QED
    BY <2>1, <2>2, <2>3, FS_Subset
<1>3. \A m \in Q : IsRow(f[m]) /\ Causal(f[m]) /\ f[m].minute = m
  BY PanelRowSound
<1>4. DOMAIN f = Q
  OBVIOUS
<1> HIDE DEF f, Q
<1>5. IsFiniteSet({f[m] : m \in DOMAIN f})
  BY <1>2, FiniteImage
<1>6. IsFiniteSet(SourceRows)
  BY <1>1, <1>5, FS_Subset
<1>7. \A row \in SourceRows : \E m \in Q : row = f[m]
  BY <1>1, <1>4
<1> QED
  BY <1>3, <1>6, <1>7 DEF OneAMinute

\* A window that is padded on both sides has the minute of the first event, when
\* the limit reaches across the padding.
LEMMA WindowHasFirst ==
    ASSUME TypeOK, MemoryFits, NEW r \in Runs, sample[r] # {}, KlineLimit > Padding
    PROVE  Earliest(sample[r]) \in KlineWindow(r) /\ Earliest(sample[r]) \in Minutes
<1> DEFINE first  == Earliest(sample[r])
           last   == Latest(sample[r])
           window == {m \in 1 .. now : m >= first - Padding /\ m <= last + Padding + 1}
<1>1. sample[r] \in SUBSET CorpusMinutes
  BY DEF MemoryFits
<1>2. sample[r] \in SUBSET Minutes /\ now \in Nat /\ FirstNow <= now
  <2>1. now \in Minutes /\ FirstNow <= now
    BY DEF TypeOK, MemoryFits
  <2>2. now \in Nat
    BY <2>1 DEF Minutes
  <2> QED
    BY <1>1, <2>1, <2>2, CorpusPast
<1>3. first \in sample[r] /\ last \in sample[r] /\ first <= last
  BY <1>2, EarliestIs, LatestIs
<1> HIDE DEF first, last
<1>4. first \in Minutes /\ first \in 1 .. FirstNow - 1 /\ last \in Nat
  BY <1>1, <1>2, <1>3 DEF Minutes
<1>5. first \in window
  BY <1>2, <1>3, <1>4
<1>6. {k \in window : k < first} \subseteq (first - Padding) .. (first - 1)
  BY <1>2, <1>4
<1>7. Cardinality({k \in window : k < first}) <= Padding
  <2>1. IsFiniteSet((first - Padding) .. (first - 1))
        /\ Cardinality((first - Padding) .. (first - 1)) = Padding
    <3>1. first - Padding \in Int /\ first - 1 \in Int
      BY <1>4
    <3>2. IsFiniteSet((first - Padding) .. (first - 1))
      BY <3>1, FS_Interval
    <3>3. Cardinality((first - Padding) .. (first - 1)) =
            IF first - Padding > first - 1 THEN 0 ELSE (first - 1) - (first - Padding) + 1
      BY <3>1, FS_Interval
    <3> QED
      BY <1>4, <3>2, <3>3
  <2> HIDE DEF window
  <2> QED
    BY <1>6, <2>1, FS_Subset
<1>8. Cardinality({k \in window : k < first}) \in Nat
  <2>1. IsFiniteSet({k \in window : k < first})
    <3>1. IsFiniteSet(1 .. now)
      BY <1>2, FS_Interval
    <3>2. {k \in window : k < first} \in SUBSET (1 .. now)
      OBVIOUS
    <3> HIDE DEF window
    <3> QED
      BY <3>1, <3>2, FS_Subset
  <2> QED
    BY <2>1, FS_CardinalityType
<1>9. first \in First(KlineLimit, window)
  <2> HIDE DEF window
  <2> QED
    BY <1>5, <1>7, <1>8 DEF First
<1> QED
  BY <1>4, <1>9 DEF KlineWindow, first, last, window

-----------------------------------------------------------------------------
(* The types.                                                              *)

\* TypeOK and the rest of TypeInv, by the variables that the parts are about.
ClockFits ==
    /\ now \in Minutes /\ FirstNow <= now
    /\ candles \in [Minutes -> Binance \cup {"fixture", Null}]
    /\ \A m \in Minutes : candles[m] = "final" => m < now
    /\ got \in [Runs -> [Minutes -> Binance \cup {Null}]]
    /\ \A r \in Runs : \A m \in Minutes : got[r][m] = "final" => m < now

ViewsFit ==
    /\ swaps \subseteq CorpusMinutes
    /\ sample \in [Runs -> SUBSET CorpusMinutes]
    /\ DOMAIN views = Views
    /\ \A v \in Views : views[v] # Null =>
          /\ views[v].candles \in [Minutes -> Binance \cup {"fixture", Null}]
          /\ views[v].swaps \subseteq CorpusMinutes
          /\ views[v].refresh \in 1 .. refreshes

CountsFit ==
    /\ starts \in 0 .. MaxStarts /\ refreshes \in 0 .. MaxStarts
    /\ DOMAIN since = Runs
    /\ \A r \in Runs : since[r] \in 0 .. refreshes
    /\ RefreshesCounted

CommandsFit ==
    /\ pc \in [Runs -> Places]
    /\ command \in [Runs -> Commands \cup {Null}]
    /\ PlacesFit

RowsFit ==
    /\ DOMAIN rows = Runs /\ DOMAIN origin = Runs
    /\ \A r \in Runs : \A row \in rows[r] : IsRow(row)
    /\ RowsSound

StoreFits ==
    /\ \A m \in Minutes : snapshots[m] # Null =>
          IsRow(snapshots[m].row) /\ snapshots[m].row.minute = m
    /\ \A b \in batches : \A row \in b : IsRow(row)
    /\ \A i \in items : i.batch \in batches /\ IsRow(i.row)

\* The parts make up the invariant.
LEMMA TypeParts ==
    TypeInv <=> ClockFits /\ ViewsFit /\ CountsFit /\ CommandsFit /\ RowsFit /\ StoreFits
BY DEF TypeInv, TypeOK, MemoryFits, ClockFits, ViewsFit, CountsFit, CommandsFit, RowsFit, StoreFits

\* A minute that has been fetched as final is over.
LEMMA ClockStep == TypeInv /\ [Next]_vars => ClockFits'
<1> SUFFICES ASSUME TypeInv, [Next]_vars PROVE ClockFits'
  OBVIOUS
<1> USE TypeParts
<1>0. ClockFits
  OBVIOUS
<1>1. ASSUME NEW r \in Runs, Forget(r), UNCHANGED <<now, candles>> PROVE ClockFits'
  <2>1. got' \in [Runs -> [Minutes -> Binance \cup {Null}]]
    BY <1>0, <1>1 DEF ClockFits, Forget, NoCandles
  <2>2. \A s \in Runs : \A m \in Minutes : got'[s][m] = "final" => m < now
    BY <1>0, <1>1 DEF ClockFits, Forget, NoCandles
  <2> QED
    BY <1>0, <1>1, <2>1, <2>2 DEF ClockFits
<1>2. ASSUME NEW r \in Runs, Fetch(r) PROVE ClockFits'
  <2>1. \A m \in Minutes : /\ (IF m \in KlineWindow(r) THEN Kline(m) ELSE Null) \in Binance \cup {Null}
                           /\ (IF m \in KlineWindow(r) THEN Kline(m) ELSE Null) = "final" => m < now
    BY DEF Kline, Binance
  <2>2. got' \in [Runs -> [Minutes -> Binance \cup {Null}]]
    BY <1>0, <1>2, <2>1 DEF ClockFits, Fetch
  <2>3. \A s \in Runs : \A m \in Minutes : got'[s][m] = "final" => m < now
    BY <1>0, <1>2, <2>1 DEF ClockFits, Fetch
  <2> QED
    BY <1>0, <1>2, <2>2, <2>3 DEF ClockFits, Fetch, sources
<1>3. ASSUME NEW r \in Runs, StoreCandles(r) PROVE ClockFits'
  <2>1. candles' = [m \in Minutes |-> IF got[r][m] # Null THEN got[r][m] ELSE candles[m]]
        /\ now' = now
    BY <1>3 DEF StoreCandles
  <2>2. /\ candles' \in [Minutes -> Binance \cup {"fixture", Null}]
        /\ \A m \in Minutes : candles'[m] = "final" => m < now
    BY <1>0, <2>1 DEF ClockFits
  <2>3. got' \in [Runs -> [Minutes -> Binance \cup {Null}]]
        /\ \A s \in Runs : \A m \in Minutes : got'[s][m] = "final" => m < now
    <3>1. CASE got' = got
      BY <1>0, <3>1 DEF ClockFits
    <3>2. CASE got' = [got EXCEPT ![r] = NoCandles]
      <4>1. got' \in [Runs -> [Minutes -> Binance \cup {Null}]]
        BY <1>0, <3>2 DEF ClockFits, NoCandles
      <4>2. \A s \in Runs : \A m \in Minutes : got'[s][m] = "final" => m < now
        BY <1>0, <3>2 DEF ClockFits, NoCandles
      <4> QED
        BY <4>1, <4>2
    <3> QED
      BY <1>3, <3>1, <3>2 DEF StoreCandles, Forget
  <2> QED
    BY <1>0, <2>1, <2>2, <2>3 DEF ClockFits
<1>4. ASSUME ApplyFixture PROVE ClockFits'
  BY <1>0, <1>4 DEF ClockFits, ApplyFixture, memory
<1>5. ASSUME Tick PROVE ClockFits'
  <2>1. now' = now + 1 /\ now' \in Minutes /\ candles' = candles /\ got' = got
    BY <1>0, <1>5 DEF ClockFits, Tick, memory, Minutes
  <2>2. \A m \in Minutes : m < now => m < now'
    BY <1>0, <2>1 DEF ClockFits, Minutes
  <2>3. FirstNow <= now'
    BY <1>0, <2>1 DEF ClockFits, Minutes
  <2> QED
    BY <1>0, <2>1, <2>2, <2>3 DEF ClockFits
<1>6. ASSUME UNCHANGED <<now, candles, got>> PROVE ClockFits'
  BY <1>0, <1>6 DEF ClockFits
<1>7. ASSUME NEW r \in Runs, Step(r) PROVE ClockFits'
  <2>1. \/ UNCHANGED <<now, candles, got>>
        \/ Forget(r) /\ UNCHANGED <<now, candles>>
        \/ Fetch(r) \/ StoreCandles(r)
    BY <1>7 DEF Step, Start, Corpus, CorpusFails, CreateView, Refresh, Count, ReadRaises, Look, Load,
       UpsertSnapshots, InsertBatch, InsertItems, Read, Stop, sources, memory
  <2> QED
    BY <1>1, <1>2, <1>3, <1>6, <2>1
<1> QED
  BY <1>4, <1>5, <1>6, <1>7 DEF Next, vars, sources, memory

\* Views hold tables of the past, and every sample is of the corpus.
LEMMA ViewsStep == TypeInv /\ [Next]_vars => ViewsFit'
<1> SUFFICES ASSUME TypeInv, [Next]_vars PROVE ViewsFit'
  OBVIOUS
<1> USE TypeParts
<1>0. /\ ViewsFit /\ refreshes \in Nat
      /\ candles \in [Minutes -> Binance \cup {"fixture", Null}]
  BY DEF CountsFit, ClockFits
<1>1. ASSUME NEW r \in Runs, CreateView(r) PROVE ViewsFit'
  BY <1>0, <1>1 DEF ViewsFit, CreateView, sources, memory
<1>2. ASSUME NEW r \in Runs, Refresh(r) PROVE ViewsFit'
  <2> DEFINE new == [candles |-> candles, swaps |-> swaps, refresh |-> refreshes + 1]
  <2>1. /\ views' = [views EXCEPT ![View(r)] = new] /\ refreshes' = refreshes + 1
        /\ swaps' = swaps /\ sample' = sample
    BY <1>2 DEF Refresh, sources, memory
  <2>2. /\ new.candles \in [Minutes -> Binance \cup {"fixture", Null}]
        /\ new.swaps \subseteq CorpusMinutes
        /\ new.refresh \in 1 .. refreshes + 1
    BY <1>0 DEF ViewsFit
  <2>3. \A n \in 1 .. refreshes : n \in 1 .. refreshes + 1
    BY <1>0
  <2> HIDE DEF new
  <2>4. \A v \in Views : views'[v] = new \/ views'[v] = views[v]
    BY <1>0, <2>1 DEF ViewsFit
  <2>5. DOMAIN views' = Views
    BY <1>0, <2>1 DEF ViewsFit
  <2> QED
    BY <1>0, <2>1, <2>2, <2>3, <2>4, <2>5 DEF ViewsFit
<1>3. ASSUME swaps' \subseteq CorpusMinutes, sample' \in [Runs -> SUBSET CorpusMinutes],
             UNCHANGED panels
      PROVE  ViewsFit'
  BY <1>0, <1>3 DEF ViewsFit, panels
<1>4. ASSUME NEW r \in Runs, Step(r), ~CreateView(r), ~Refresh(r)
      PROVE  /\ swaps' \subseteq CorpusMinutes /\ sample' \in [Runs -> SUBSET CorpusMinutes]
             /\ UNCHANGED panels
  <2>1. First(SampleMinutes, CorpusMinutes) \in SUBSET CorpusMinutes
    BY DEF First
  <2>2. /\ UNCHANGED panels
        /\ \/ swaps' = swaps
           \/ swaps' = CorpusMinutes
           \/ \E S \in SUBSET CorpusMinutes : swaps' = swaps \cup S
        /\ \/ sample' = sample
           \/ sample' = [sample EXCEPT ![r] = {}]
           \/ sample' = [sample EXCEPT ![r] = First(SampleMinutes, CorpusMinutes)]
    BY <1>4 DEF Step, Start, Corpus, CorpusFails, Fetch, StoreCandles, Count, ReadRaises, Look, Load,
       UpsertSnapshots, InsertBatch, InsertItems, Read, Stop, Forget, sources, memory
  <2> QED
    BY <1>0, <2>1, <2>2 DEF ViewsFit
<1>5. ASSUME NEW r \in Runs, Step(r) PROVE ViewsFit'
  BY <1>1, <1>2, <1>3, <1>4, <1>5
<1>6. ASSUME ApplyFixture \/ Tick \/ UNCHANGED vars PROVE ViewsFit'
  BY <1>0, <1>6 DEF ViewsFit, ApplyFixture, Tick, vars, sources, panels, memory
<1> QED
  BY <1>5, <1>6 DEF Next

\* Each process that is under way refreshes once at most, and its start has been
\* counted.
LEMMA CountsStep == TypeInv /\ [Next]_vars => CountsFit'
<1> SUFFICES ASSUME TypeInv, [Next]_vars PROVE CountsFit'
  OBVIOUS
<1> USE TypeParts
<1>0. /\ CountsFit /\ IsFiniteSet(Due) /\ Cardinality(Due) \in Nat
      /\ refreshes + Cardinality(Due) <= starts /\ starts \in Nat /\ refreshes \in Nat
      /\ pc \in [Runs -> Places]
  BY FS_CardinalityType DEF CountsFit, RefreshesCounted, CommandsFit
<1>1. ASSUME Due' \subseteq Due, UNCHANGED <<starts, refreshes>>, DOMAIN since' = Runs,
             \A s \in Runs : since'[s] \in 0 .. refreshes
      PROVE  CountsFit'
  <2>1. IsFiniteSet(Due') /\ Cardinality(Due') \in Nat /\ Cardinality(Due') <= Cardinality(Due)
    BY <1>0, <1>1, FS_Subset, FS_CardinalityType
  <2>2. refreshes' + Cardinality(Due') <= starts'
    BY <1>0, <1>1, <2>1
  <2> QED
    BY <1>0, <1>1, <2>1, <2>2 DEF CountsFit, RefreshesCounted
<1>2. ASSUME NEW r \in Runs, NEW c \in Commands, Start(r, c) PROVE CountsFit'
  <2>1. Due' \subseteq Due \cup {r}
    BY <1>0, <1>2 DEF Start, Due
  <2>2. /\ IsFiniteSet(Due \cup {r}) /\ Cardinality(Due \cup {r}) \in Nat
        /\ Cardinality(Due \cup {r}) <= Cardinality(Due) + 1
    <3>1. /\ IsFiniteSet(Due \cup {r})
          /\ Cardinality(Due \cup {r}) =
               IF r \in Due THEN Cardinality(Due) ELSE Cardinality(Due) + 1
      BY <1>0, FS_AddElement
    <3> QED
      BY <1>0, <3>1
  <2>3. IsFiniteSet(Due') /\ Cardinality(Due') \in Nat /\ Cardinality(Due') <= Cardinality(Due \cup {r})
    BY <2>1, <2>2, FS_Subset, FS_CardinalityType
  <2>4. starts' = starts + 1 /\ starts' \in 0 .. MaxStarts /\ UNCHANGED <<refreshes, since>>
    BY <1>0, <1>2 DEF Start, panels, memory, CountsFit
  <2>5. refreshes' + Cardinality(Due') <= starts'
    BY <1>0, <2>2, <2>3, <2>4
  <2> QED
    BY <1>0, <2>3, <2>4, <2>5 DEF CountsFit, RefreshesCounted
<1>3. ASSUME NEW r \in Runs, Refresh(r) PROVE CountsFit'
  <2>1. r \in Due /\ Due' \subseteq Due \ {r}
    BY <1>0, <1>3 DEF Refresh, Goto, Due, BeforeRefresh
  <2>2. /\ IsFiniteSet(Due \ {r}) /\ Cardinality(Due \ {r}) \in Nat
        /\ Cardinality(Due \ {r}) = Cardinality(Due) - 1
    BY <1>0, <2>1, FS_RemoveElement, FS_CardinalityType
  <2>3. IsFiniteSet(Due') /\ Cardinality(Due') \in Nat /\ Cardinality(Due') <= Cardinality(Due \ {r})
    BY <2>1, <2>2, FS_Subset, FS_CardinalityType
  <2>4. refreshes' = refreshes + 1 /\ UNCHANGED <<starts, since>>
    BY <1>3 DEF Refresh, memory
  <2>5. refreshes' + Cardinality(Due') <= starts'
    BY <1>0, <2>2, <2>3, <2>4
  <2>6. refreshes' \in 0 .. MaxStarts
    BY <1>0, <2>3, <2>4, <2>5 DEF CountsFit
  <2>7. \A s \in Runs : since'[s] \in 0 .. refreshes'
    BY <1>0, <2>4 DEF CountsFit
  <2> QED
    BY <1>0, <2>3, <2>4, <2>5, <2>6, <2>7 DEF CountsFit, RefreshesCounted
<1>4. ASSUME NEW r \in Runs, Step(r), ~Refresh(r), \A c \in Commands : ~Start(r, c)
      PROVE  CountsFit'
  <2>1. /\ UNCHANGED <<starts, refreshes>>
        /\ since' = since \/ since' = [since EXCEPT ![r] = 0] \/ since' = [since EXCEPT ![r] = refreshes]
    BY <1>4 DEF Step, Corpus, CorpusFails, Fetch, StoreCandles, CreateView, Count, ReadRaises, Look,
       Load, UpsertSnapshots, InsertBatch, InsertItems, Read, Stop, Forget, panels, memory
  <2>2. Due' \subseteq Due
    <3>1. \A s \in Runs \ {r} : pc'[s] = pc[s]
      BY <1>0, <1>4 DEF Step, Goto, Corpus, CorpusFails, Fetch, StoreCandles, CreateView, Count,
         ReadRaises, Look, Load, UpsertSnapshots, InsertBatch, InsertItems, Read, Stop
    <3>2. pc'[r] \in BeforeRefresh => pc[r] \in BeforeRefresh
      BY <1>0, <1>4 DEF Step, Goto, Corpus, CorpusFails, Fetch, StoreCandles, CreateView, Count,
         ReadRaises, Look, Load, UpsertSnapshots, InsertBatch, InsertItems, Read, Stop, BeforeRefresh
    <3> QED
      BY <3>1, <3>2 DEF Due
  <2>3. DOMAIN since' = Runs /\ \A s \in Runs : since'[s] \in 0 .. refreshes
    BY <1>0, <2>1 DEF CountsFit
  <2> QED
    BY <1>1, <2>1, <2>2, <2>3
<1>5. ASSUME NEW r \in Runs, Step(r) PROVE CountsFit'
  BY <1>2, <1>3, <1>4, <1>5
<1>6. ASSUME ApplyFixture \/ Tick \/ UNCHANGED vars PROVE CountsFit'
  <2>1. UNCHANGED <<starts, refreshes, since, pc>>
    BY <1>6 DEF ApplyFixture, Tick, vars, panels, memory
  <2> QED
    BY <1>0, <1>1, <2>1 DEF CountsFit, Due
<1> QED
  BY <1>5, <1>6 DEF Next

\* A step moves its own process, to a place its command has.
LEMMA CommandsStep == TypeInv /\ [Next]_vars => CommandsFit'
<1> SUFFICES ASSUME TypeInv, [Next]_vars PROVE CommandsFit'
  OBVIOUS
<1> USE TypeParts
<1>0. CommandsFit /\ pc \in [Runs -> Places] /\ command \in [Runs -> Commands \cup {Null}]
  BY DEF CommandsFit
<1> DEFINE Fits(p, c) ==
              /\ p \in Places /\ c \in Commands \cup {Null}
              /\ p \notin Ended => c \in Commands
              /\ p \notin Ended \cup {"fetching", "storing"} => c # "candles"
              /\ p \in {"loading", "reading"} => c \in {"store", "batch"}
              /\ p = "upserting" => c = "store"
              /\ p \in {"batching", "filling"} => c = "batch"
<1>1. \A s \in Runs : Fits(pc[s], command[s])
  BY <1>0 DEF CommandsFit, PlacesFit
<1>2. ASSUME NEW r \in Runs, NEW p, NEW c, pc' = [pc EXCEPT ![r] = p],
             command' = [command EXCEPT ![r] = c], Fits(p, c)
      PROVE  CommandsFit'
  <2>1. pc' \in [Runs -> Places] /\ command' \in [Runs -> Commands \cup {Null}]
    BY <1>0, <1>2
  <2>2. \A s \in Runs : Fits(pc'[s], command'[s])
    BY <1>0, <1>1, <1>2
  <2> QED
    BY <2>1, <2>2 DEF CommandsFit, PlacesFit
<1>3. ASSUME NEW r \in Runs, NEW p, pc' = [pc EXCEPT ![r] = p], command' = command,
             Fits(p, command[r])
      PROVE  CommandsFit'
  <2>1. command' = [command EXCEPT ![r] = command[r]]
    BY <1>0, <1>3
  <2> HIDE DEF Fits
  <2> QED
    BY <1>2, <1>3, <2>1
<1>4. ASSUME NEW r \in Runs, NEW p \in {"done", "failed"}, pc' = [pc EXCEPT ![r] = p], Forget(r)
      PROVE  CommandsFit'
  <2>1. command' = [command EXCEPT ![r] = Null] /\ Fits(p, Null)
    BY <1>4 DEF Forget, Places, Ended
  <2> HIDE DEF Fits
  <2> QED
    BY <1>2, <1>4, <2>1
<1>5. ASSUME NEW r \in Runs, NEW c \in Commands, Start(r, c) PROVE CommandsFit'
  <2>1. PICK p : p = IF c = "candles" THEN "fetching" ELSE "corpus"
    OBVIOUS
  <2>2. Fits(p, c) /\ pc' = [pc EXCEPT ![r] = p] /\ command' = [command EXCEPT ![r] = c]
    BY <1>5, <2>1 DEF Start, Places, Ended
  <2> HIDE DEF Fits
  <2> QED
    BY <1>2, <2>2
<1>6. ASSUME NEW r \in Runs, Fetch(r) PROVE CommandsFit'
  <2>1. Fits("storing", command[r]) /\ pc' = [pc EXCEPT ![r] = "storing"] /\ command' = command
    BY <1>1, <1>6 DEF Fetch, Goto, Places, Ended
  <2> HIDE DEF Fits
  <2> QED
    BY <1>3, <2>1
<1>7. ASSUME NEW r \in Runs, Corpus(r) PROVE CommandsFit'
  <2>1. Fits("fetching", command[r]) /\ pc' = [pc EXCEPT ![r] = "fetching"] /\ command' = command
    BY <1>1, <1>7 DEF Corpus, Goto, Places, Ended
  <2> HIDE DEF Fits
  <2> QED
    BY <1>3, <2>1
<1>8. ASSUME NEW r \in Runs, StoreCandles(r) PROVE CommandsFit'
  <2>1. CASE command[r] = "candles"
    BY <1>4, <1>8, <2>1 DEF StoreCandles
  <2>2. CASE command[r] # "candles"
    <3>1. /\ Fits("creating", command[r])
          /\ pc' = [pc EXCEPT ![r] = "creating"] /\ command' = command
      BY <1>1, <1>8, <2>2 DEF StoreCandles, Places, Ended
    <3> HIDE DEF Fits
    <3> QED
      BY <1>3, <3>1
  <2> QED
    BY <2>1, <2>2
<1>9. ASSUME NEW r \in Runs, CreateView(r) PROVE CommandsFit'
  <2>1. /\ Fits("refreshing", command[r])
        /\ pc' = [pc EXCEPT ![r] = "refreshing"] /\ command' = command
    BY <1>1, <1>9 DEF CreateView, Goto, Places, Ended, memory
  <2> HIDE DEF Fits
  <2> QED
    BY <1>3, <2>1
<1>10. ASSUME NEW r \in Runs, Refresh(r) PROVE CommandsFit'
  <2>1. /\ Fits("counting", command[r])
        /\ pc' = [pc EXCEPT ![r] = "counting"] /\ command' = command
    BY <1>1, <1>10 DEF Refresh, Goto, Places, Ended, memory
  <2> HIDE DEF Fits
  <2> QED
    BY <1>3, <2>1
<1>11. ASSUME NEW r \in Runs, Count(r) PROVE CommandsFit'
  <2>1. PICK p : p = IF command[r] \in {"olap", "summary"} THEN "looking" ELSE "loading"
    OBVIOUS
  <2>2. Fits(p, command[r]) /\ pc' = [pc EXCEPT ![r] = p] /\ command' = command
    BY <1>1, <1>11, <2>1 DEF Count, Goto, Places, Ended, Commands, memory
  <2> HIDE DEF Fits
  <2> QED
    BY <1>3, <2>2
<1>12. ASSUME NEW r \in Runs, Load(r) PROVE CommandsFit'
  <2>1. CASE Accepted(r)
    <3>1. PICK p : p = IF command[r] = "store" THEN "upserting" ELSE "batching"
      OBVIOUS
    <3>2. Fits(p, command[r]) /\ pc' = [pc EXCEPT ![r] = p] /\ command' = command
      BY <1>1, <1>12, <2>1, <3>1 DEF Load, Places, Ended
    <3> HIDE DEF Fits
    <3> QED
      BY <1>3, <3>2
  <2>2. CASE ~Accepted(r)
    BY <1>4, <1>12, <2>2 DEF Load
  <2> QED
    BY <2>1, <2>2
<1>13. ASSUME NEW r \in Runs, UpsertSnapshots(r) \/ InsertItems(r) PROVE CommandsFit'
  <2>1. /\ Fits("reading", command[r])
        /\ pc' = [pc EXCEPT ![r] = "reading"] /\ command' = command
    BY <1>1, <1>13 DEF UpsertSnapshots, InsertItems, Goto, Places, Ended, memory
  <2> HIDE DEF Fits
  <2> QED
    BY <1>3, <2>1
<1>14. ASSUME NEW r \in Runs, InsertBatch(r) PROVE CommandsFit'
  <2>1. /\ Fits("filling", command[r])
        /\ pc' = [pc EXCEPT ![r] = "filling"] /\ command' = command
    BY <1>1, <1>14 DEF InsertBatch, Goto, Places, Ended, memory
  <2> HIDE DEF Fits
  <2> QED
    BY <1>3, <2>1
<1>15. ASSUME NEW r \in Runs,
              \/ \E S \in SUBSET CorpusMinutes : CorpusFails(r, S)
              \/ ReadRaises(r) \/ Look(r) \/ Read(r) \/ Stop(r)
       PROVE  CommandsFit'
  <2>1. Forget(r) /\ \E p \in {"done", "failed"} : pc' = [pc EXCEPT ![r] = p]
    BY <1>15 DEF CorpusFails, ReadRaises, Look, Read, Stop, Goto
  <2> QED
    BY <1>4, <2>1
<1>16. ASSUME NEW r \in Runs, Step(r) PROVE CommandsFit'
  <2> HIDE DEF Fits
  <2> QED
    BY <1>5, <1>6, <1>7, <1>8, <1>9, <1>10, <1>11, <1>12, <1>13, <1>14, <1>15, <1>16 DEF Step
<1>17. ASSUME ApplyFixture \/ Tick \/ UNCHANGED vars PROVE CommandsFit'
  <2>1. UNCHANGED <<pc, command>>
    BY <1>17 DEF ApplyFixture, Tick, vars
  <2> QED
    BY <1>0, <2>1 DEF CommandsFit, PlacesFit
<1> QED
  BY <1>16, <1>17 DEF Next

\* Rows are loaded as one query gave them.
LEMMA RowsStep == TypeInv /\ [Next]_vars => RowsFit'
<1> SUFFICES ASSUME TypeInv, [Next]_vars PROVE RowsFit'
  OBVIOUS
<1> USE TypeParts
<1>0. RowsFit /\ CommandsFit /\ DOMAIN rows = Runs /\ DOMAIN origin = Runs
      /\ pc \in [Runs -> Places] /\ command \in [Runs -> Commands \cup {Null}]
  BY DEF RowsFit, CommandsFit
<1> DEFINE Sound(R, p, c) ==
              /\ OneAMinute(R) /\ \A row \in R : IsRow(row) /\ Causal(row)
              /\ p \in WithRows => R # {}
              /\ p \in WithRows /\ c = "batch" => \E row \in R : row.swapped
<1>1. \A s \in Runs : Sound(rows[s], pc[s], command[s])
  BY <1>0 DEF RowsFit, RowsSound
<1>2. ASSUME DOMAIN rows' = Runs, DOMAIN origin' = Runs,
             \A s \in Runs : Sound(rows'[s], pc'[s], command'[s])
      PROVE  RowsFit'
  BY <1>2 DEF RowsFit, RowsSound
<1>3. ASSUME NEW r \in Runs, Forget(r), NEW p \in {"done", "failed"}, pc' = [pc EXCEPT ![r] = p]
      PROVE  RowsFit'
  <2>1. /\ DOMAIN rows' = Runs /\ DOMAIN origin' = Runs
        /\ rows'[r] = {} /\ pc'[r] \notin WithRows
        /\ \A s \in Runs \ {r} : rows'[s] = rows[s] /\ pc'[s] = pc[s] /\ command'[s] = command[s]
    BY <1>0, <1>3 DEF Forget, WithRows
  <2>2. OneAMinute({})
    BY FS_EmptySet DEF OneAMinute
  <2>3. Sound(rows'[r], pc'[r], command'[r])
    BY <2>1, <2>2
  <2> HIDE DEF Sound
  <2> QED
    BY <1>1, <1>2, <2>1, <2>3
<1>4. ASSUME NEW r \in Runs, rows' = rows, origin' = origin,
             \A s \in Runs \ {r} : pc'[s] = pc[s] /\ command'[s] = command[s],
             pc'[r] \in WithRows => pc[r] \in WithRows /\ command'[r] = command[r]
      PROVE  RowsFit'
  <2>1. Sound(rows'[r], pc'[r], command'[r])
    BY <1>1, <1>4
  <2>2. \A s \in Runs \ {r} : Sound(rows'[s], pc'[s], command'[s])
    <3> HIDE DEF Sound
    <3> QED
      BY <1>1, <1>4
  <2> HIDE DEF Sound
  <2> QED
    BY <1>0, <1>2, <1>4, <2>1, <2>2
<1>5. ASSUME NEW r \in Runs, Load(r), Accepted(r) PROVE RowsFit'
  <2>1. /\ rows' = [rows EXCEPT ![r] = SourceRows] /\ DOMAIN origin' = Runs
        /\ command' = command /\ \A s \in Runs \ {r} : pc'[s] = pc[s]
    BY <1>0, <1>5 DEF Load
  <2>2. IsContent(views["panel"])
    BY <1>5 DEF Load, IsContent, ViewsFit, Views
  <2>3. OneAMinute(SourceRows) /\ \A row \in SourceRows : IsRow(row) /\ Causal(row)
    BY <2>2, SourceRowsSound
  <2>4. SourceRows # {} /\ (command[r] = "batch" => \E row \in SourceRows : row.swapped)
    <3>1. SourceRows # {} /\ (command[r] = "batch" => Head(SourceRows).swapped)
      BY <1>5 DEF Accepted
    <3>2. \A row \in SourceRows : row.minute \in Minutes /\ row.swapped \in BOOLEAN
      BY <2>3 DEF IsRow
    <3>3. Head(SourceRows) \in SourceRows
      BY <2>3, <3>1, <3>2, HeadIs
    <3> QED
      BY <3>1, <3>3
  <2>5. rows'[r] = SourceRows /\ DOMAIN rows' = Runs /\ \A s \in Runs \ {r} : rows'[s] = rows[s]
    BY <1>0, <2>1
  <2>6. Sound(rows'[r], pc'[r], command'[r])
    BY <2>1, <2>3, <2>4, <2>5
  <2> HIDE DEF Sound
  <2> QED
    BY <1>1, <1>2, <2>1, <2>5, <2>6
<1>6. ASSUME NEW r \in Runs, Step(r), ~Load(r) PROVE RowsFit'
  <2> DEFINE Ending == \E p \in {"done", "failed"} : Forget(r) /\ pc' = [pc EXCEPT ![r] = p]
             Going  == /\ rows' = rows /\ origin' = origin
                       /\ \E c \in Commands : Start(r, c) \/ command' = command
                       /\ \E p \in Places :
                             /\ pc' = [pc EXCEPT ![r] = p]
                             /\ p \in WithRows => pc[r] \in WithRows
                             /\ command' # command => p \in {"fetching", "corpus"}
  <2>1. Ending \/ Going
    <3>1. CASE \E c \in Commands : Start(r, c)
      <4>1. Going
        BY <1>0, <3>1 DEF Start, memory, Places, WithRows
      <4> QED
        BY <4>1
    <3>2. CASE \/ \E S \in SUBSET CorpusMinutes : CorpusFails(r, S)
               \/ ReadRaises(r) \/ Look(r) \/ Read(r) \/ Stop(r)
               \/ StoreCandles(r) /\ command[r] = "candles"
      BY <3>2 DEF CorpusFails, ReadRaises, Look, Read, Stop, StoreCandles, Goto
    <3>3. CASE \/ Corpus(r) \/ Fetch(r) \/ CreateView(r) \/ Refresh(r) \/ Count(r)
               \/ StoreCandles(r) /\ command[r] # "candles"
      <4>1. rows' = rows /\ origin' = origin /\ command' = command
        BY <3>3 DEF Corpus, Fetch, StoreCandles, CreateView, Refresh, Count, memory
      <4>2. \E p \in Places : pc' = [pc EXCEPT ![r] = p] /\ p \notin WithRows
        BY <3>3 DEF Corpus, Fetch, StoreCandles, CreateView, Refresh, Count, Goto, Places, WithRows
      <4>3. "olap" \in Commands
        BY DEF Commands
      <4> QED
        BY <4>1, <4>2, <4>3
    <3>4. CASE UpsertSnapshots(r) \/ InsertBatch(r) \/ InsertItems(r)
      <4>1. rows' = rows /\ origin' = origin /\ command' = command
        BY <3>4 DEF UpsertSnapshots, InsertBatch, InsertItems, memory
      <4>2. pc[r] \in WithRows /\ \E p \in Places : pc' = [pc EXCEPT ![r] = p]
        BY <3>4 DEF UpsertSnapshots, InsertBatch, InsertItems, Goto, Places, WithRows
      <4>3. "olap" \in Commands
        BY DEF Commands
      <4> QED
        BY <4>1, <4>2, <4>3
    <3> QED
      BY <1>6, <3>1, <3>2, <3>3, <3>4 DEF Step
  <2>2. CASE Ending
    BY <1>3, <2>2
  <2>3. CASE Going
    <3>1. PICK p \in Places :
             /\ pc' = [pc EXCEPT ![r] = p]
             /\ p \in WithRows => pc[r] \in WithRows
             /\ command' # command => p \in {"fetching", "corpus"}
      BY <2>3
    <3>2. pc'[r] = p /\ \A s \in Runs \ {r} : pc'[s] = pc[s]
      BY <1>0, <3>1
    <3>3. \A s \in Runs \ {r} : command'[s] = command[s]
      BY <1>0, <2>3 DEF Start
    <3>4. pc'[r] \in WithRows => pc[r] \in WithRows /\ command'[r] = command[r]
      BY <3>1, <3>2 DEF WithRows
    <3> QED
      BY <1>4, <2>3, <3>2, <3>3, <3>4
  <2> QED
    BY <2>1, <2>2, <2>3
<1>7. ASSUME NEW r \in Runs, Load(r), ~Accepted(r) PROVE RowsFit'
  BY <1>3, <1>7 DEF Load
<1>8. ASSUME ApplyFixture \/ Tick \/ UNCHANGED vars PROVE RowsFit'
  <2>1. UNCHANGED <<rows, origin, pc, command>>
    BY <1>8 DEF ApplyFixture, Tick, vars, memory
  <2> QED
    BY <1>0, <2>1 DEF RowsFit, RowsSound
<1> QED
  BY <1>5, <1>6, <1>7, <1>8 DEF Next

\* What a step may write to the feature store.
LEMMA Written ==
    ASSUME TypeInv, [Next]_vars
    PROVE  /\ \A m \in Minutes :
                \/ snapshots'[m] = snapshots[m]
                \/ \E r \in Runs : \E row \in rows[r] : row.minute = m /\ snapshots'[m].row = row
           /\ batches' = batches \/ \E r \in Runs : InsertBatch(r)
           /\ items' = items \/ \E r \in Runs : InsertItems(r)
<1>1. ASSUME NEW r \in Runs, UpsertSnapshots(r)
      PROVE  \A m \in Minutes :
                \/ snapshots'[m] = snapshots[m]
                \/ \E row \in rows[r] : row.minute = m /\ snapshots'[m].row = row
  <2> TAKE m \in Minutes
  <2>1. CASE \E row \in rows[r] : row.minute = m
    <3>1. PICK row : row = CHOOSE x \in rows[r] : x.minute = m
      OBVIOUS
    <3>2. row \in rows[r] /\ row.minute = m
      BY <2>1, <3>1
    <3>3. snapshots'[m] = [row |-> row, refresh |-> origin[r]]
      BY <1>1, <2>1, <3>1 DEF UpsertSnapshots
    <3> QED
      BY <3>2, <3>3
  <2>2. CASE ~\E row \in rows[r] : row.minute = m
    BY <1>1, <2>2 DEF UpsertSnapshots
  <2> QED
    BY <2>1, <2>2
<1>2. ASSUME NEW r \in Runs, UpsertSnapshots(r) PROVE UNCHANGED <<batches, items>>
  BY <1>2 DEF UpsertSnapshots
<1>3. ASSUME NEW r \in Runs, InsertBatch(r) PROVE UNCHANGED <<snapshots, items>>
  BY <1>3 DEF InsertBatch
<1>4. ASSUME NEW r \in Runs, InsertItems(r) PROVE UNCHANGED <<snapshots, batches>>
  BY <1>4 DEF InsertItems
<1>5. ASSUME NEW r \in Runs, Step(r), ~UpsertSnapshots(r), ~InsertBatch(r), ~InsertItems(r)
      PROVE  UNCHANGED store
  BY <1>5 DEF Step, Start, Corpus, CorpusFails, Fetch, StoreCandles, CreateView, Refresh, Count,
     ReadRaises, Look, Load, Read, Stop
<1>6. ASSUME ApplyFixture \/ Tick \/ UNCHANGED vars PROVE UNCHANGED store
  BY <1>6 DEF ApplyFixture, Tick, vars
<1> QED
  BY <1>1, <1>2, <1>3, <1>4, <1>5, <1>6 DEF Next, store

\* What the store holds are panel rows, items of batches.
LEMMA StoreStep == TypeInv /\ BatchSound /\ [Next]_vars => StoreFits'
<1> SUFFICES ASSUME TypeInv, BatchSound, [Next]_vars PROVE StoreFits'
  OBVIOUS
<1> USE TypeParts
<1>0. StoreFits /\ \A r \in Runs : \A row \in rows[r] : IsRow(row)
  BY DEF RowsFit
<1>1. \A m \in Minutes : snapshots'[m] # Null =>
          IsRow(snapshots'[m].row) /\ snapshots'[m].row.minute = m
  BY <1>0, Written DEF StoreFits
<1>2. batches \subseteq batches' /\ \A b \in batches' : \A row \in b : IsRow(row)
  BY <1>0, Written DEF StoreFits, InsertBatch, BatchId
<1>3. \A i \in items' : i.batch \in batches' /\ IsRow(i.row)
  <2>1. ASSUME NEW r \in Runs, InsertItems(r), NEW i \in NewItems(r)
        PROVE  i.batch \in batches /\ IsRow(i.row)
    <3>1. rows[r] \in batches
      BY <2>1 DEF InsertItems, Goto, BatchSound
    <3> QED
      BY <1>0, <2>1, <3>1 DEF NewItems, BatchId
  <2>2. CASE items' = items
    BY <1>0, <1>2, <2>2 DEF StoreFits
  <2>3. ASSUME NEW r \in Runs, InsertItems(r)
        PROVE  \A i \in items' : i.batch \in batches' /\ IsRow(i.row)
    BY <1>0, <1>2, <2>1, <2>3 DEF StoreFits, InsertItems
  <2> QED
    BY <2>2, <2>3, Written
<1> QED
  BY <1>1, <1>2, <1>3 DEF StoreFits

\* Initially nothing is there and nobody runs.
LEMMA TypeInit == Init => TypeInv
<1> SUFFICES ASSUME Init PROVE TypeInv
  OBVIOUS
<1> USE DEF Init
<1>1. now \in Minutes /\ 1 <= now
  BY DEF Minutes
<1>2. ClockFits
  BY <1>1 DEF ClockFits, NoCandles
<1>3. ViewsFit
  BY DEF ViewsFit, Views
<1>4. IsFiniteSet(Due) /\ Cardinality(Due) = 0
  <2>1. Due = {}
    BY DEF Due, BeforeRefresh
  <2> QED
    BY <2>1, FS_EmptySet
<1>5. CountsFit
  BY <1>4 DEF CountsFit, RefreshesCounted
<1>6. CommandsFit
  BY DEF CommandsFit, PlacesFit, Places, Ended
<1>7. RowsFit
  <2>1. OneAMinute({})
    BY FS_EmptySet DEF OneAMinute
  <2> QED
    BY <2>1 DEF RowsFit, RowsSound, WithRows
<1>8. StoreFits
  BY DEF StoreFits, NoCandles
<1> QED
  BY <1>2, <1>3, <1>5, <1>6, <1>7, <1>8, TypeParts

\* The types with what they rest on.
LEMMA TypeStep == TypeInv /\ BatchSound /\ [Next]_vars => TypeInv'
<1> SUFFICES ASSUME TypeInv, BatchSound, [Next]_vars PROVE TypeInv'
  OBVIOUS
<1>1. ClockFits' /\ ViewsFit' /\ CountsFit' /\ CommandsFit' /\ RowsFit' /\ StoreFits'
  BY ClockStep, ViewsStep, CountsStep, CommandsStep, RowsStep, StoreStep
<1> QED
  BY <1>1 DEF TypeInv, TypeOK, MemoryFits, ClockFits, ViewsFit, CountsFit, CommandsFit, RowsFit, StoreFits

-----------------------------------------------------------------------------
(* The feature rows and the batches.                                       *)

\* NoLookahead, row by row.
LEMMA WrittenCausal ==
    NoLookahead <=> /\ \A m \in Minutes : snapshots[m] # Null => Causal(snapshots[m].row)
                    /\ \A i \in items : Causal(i.row)
BY DEF NoLookahead, Causal

\* The store only gets rows of one query, and those look back.
LEMMA LookaheadStep == TypeInv /\ NoLookahead /\ [Next]_vars => NoLookahead'
<1> SUFFICES ASSUME TypeInv, NoLookahead, [Next]_vars PROVE NoLookahead'
  OBVIOUS
<1>0. \A r \in Runs : \A row \in rows[r] : Causal(row)
  BY DEF TypeInv, RowsSound
<1>1. \A m \in Minutes : snapshots'[m] # Null => Causal(snapshots'[m].row)
  BY <1>0, Written, WrittenCausal
<1>2. \A i \in items' : Causal(i.row)
  <2>1. ASSUME NEW r \in Runs, InsertItems(r) PROVE \A i \in items' : Causal(i.row)
    BY <1>0, <2>1, WrittenCausal DEF InsertItems, NewItems
  <2> QED
    BY <2>1, Written, WrittenCausal
<1> QED
  BY <1>1, <1>2 DEF NoLookahead, Causal

\* A process does not touch the memory of another one.
LEMMA OthersStay ==
    ASSUME TypeInv, NEW r \in Runs, Step(r), NEW s \in Runs \ {r}
    PROVE  /\ pc'[s] = pc[s] /\ command'[s] = command[s] /\ rows'[s] = rows[s]
           /\ sample'[s] = sample[s] /\ got'[s] = got[s] /\ since'[s] = since[s]
<1>1. /\ DOMAIN pc = Runs /\ DOMAIN command = Runs /\ DOMAIN rows = Runs
      /\ DOMAIN sample = Runs /\ DOMAIN got = Runs /\ DOMAIN since = Runs
  BY DEF TypeInv, TypeOK, MemoryFits
<1>2. pc'[s] = pc[s] /\ command'[s] = command[s]
  BY <1>1 DEF Step, Start, Corpus, CorpusFails, Fetch, StoreCandles, CreateView, Refresh, Count,
     ReadRaises, Look, Load, UpsertSnapshots, InsertBatch, InsertItems, Read, Stop, Goto, Forget, memory
<1>3. rows'[s] = rows[s] /\ since'[s] = since[s]
  BY <1>1 DEF Step, Start, Corpus, CorpusFails, Fetch, StoreCandles, CreateView, Refresh, Count,
     ReadRaises, Look, Load, UpsertSnapshots, InsertBatch, InsertItems, Read, Stop, Goto, Forget, memory
<1>4. sample'[s] = sample[s] /\ got'[s] = got[s]
  BY <1>1 DEF Step, Start, Corpus, CorpusFails, Fetch, StoreCandles, CreateView, Refresh, Count,
     ReadRaises, Look, Load, UpsertSnapshots, InsertBatch, InsertItems, Read, Stop, Goto, Forget, memory
<1> QED
  BY <1>2, <1>3, <1>4

\* Where a run gets to, by which step.
LEMMA ComesBy ==
    ASSUME TypeInv, NEW r \in Runs, Step(r)
    PROVE  /\ pc'[r] = "filling" => InsertBatch(r)
           /\ pc'[r] = "reading" => UpsertSnapshots(r) \/ InsertItems(r)
<1>1. r \in DOMAIN pc
  BY DEF TypeInv, TypeOK
<1> QED
  BY <1>1 DEF Step, Start, Corpus, CorpusFails, Fetch, StoreCandles, CreateView, Refresh, Count,
     ReadRaises, Look, Load, UpsertSnapshots, InsertBatch, InsertItems, Read, Stop, Goto

\* What a step leaves alone when nobody moves.
LEMMA NobodyMoves ==
    ASSUME ApplyFixture \/ Tick \/ UNCHANGED vars
    PROVE  UNCHANGED <<swaps, panels, store, starts, pc, command, memory>>
BY DEF ApplyFixture, Tick, vars, sources, store, panels

\* All items of a batch.
Whole(b, o) == {[batch |-> b, row |-> row, refresh |-> o] : row \in b}

\* insert_batch_items fills an empty batch with all of the run's rows, or it
\* finds each of their minutes taken and adds nothing.
LEMMA FillsOnce ==
    ASSUME TypeInv, BatchInv, NEW r \in Runs, InsertItems(r)
    PROVE  /\ rows[r] \in batches /\ UNCHANGED batches
           /\ \/ items' = items /\ ItemRows(rows[r]) = rows[r]
              \/ ItemsOf(rows[r]) = {} /\ items' = items \cup Whole(rows[r], origin[r])
<1>1. rows[r] \in batches /\ UNCHANGED batches /\ items' = items \cup NewItems(r)
  BY DEF InsertItems, Goto, BatchInv, BatchSound
<1>2. CASE ItemsOf(rows[r]) = {}
  <2>1. NewItems(r) = Whole(rows[r], origin[r])
    BY <1>2 DEF NewItems, BatchId, Whole
  <2> QED
    BY <1>1, <1>2, <2>1
<1>3. CASE ItemsOf(rows[r]) # {}
  <2>1. ItemRows(rows[r]) = rows[r]
    BY <1>1, <1>3 DEF BatchInv, BatchAllOrNothing
  <2>2. \A row \in rows[r] : \E i \in ItemsOf(rows[r]) : i.row.minute = row.minute
    BY <2>1 DEF ItemRows
  <2>3. NewItems(r) = {}
    BY <2>2 DEF NewItems, BatchId
  <2> QED
    BY <1>1, <2>1, <2>3
<1> QED
  BY <1>2, <1>3

\* One item for a row.
LEMMA ItemEach ==
    ASSUME NEW b, IsFiniteSet(b), b # {}, NEW o
    PROVE  /\ {i.row : i \in Whole(b, o)} = b
           /\ \A i \in Whole(b, o) : i.batch = b
           /\ Cardinality(Whole(b, o)) = Cardinality(b)
           /\ Cardinality({i.refresh : i \in Whole(b, o)}) = 1
<1> DEFINE N == Whole(b, o)
           f == [row \in b |-> [batch |-> b, row |-> row, refresh |-> o]]
<1>0. /\ DOMAIN f = b
      /\ \A row \in b : f[row] \in N /\ f[row].row = row /\ f[row].refresh = o
      /\ \A i \in N : \E row \in b : i = f[row]
      /\ f \in [b -> N]
      /\ \A i \in N : i.batch = b
  BY DEF Whole
<1> HIDE DEF f, N
<1>1. {i.row : i \in N} = b
  <2>1. \A i \in N : i.row \in b
    BY <1>0
  <2>2. \A row \in b : \E i \in N : i.row = row
    BY <1>0
  <2> QED
    BY <2>1, <2>2
<1>2. f \in Bijection(b, N)
  BY <1>0 DEF Bijection, Injection, Surjection, IsInjective
<1>3. Cardinality(N) = Cardinality(b)
  BY <1>2, FS_Bijection DEF ExistsBijection
<1>4. {i.refresh : i \in N} = {o}
  <2>1. \A i \in N : i.refresh = o
    BY <1>0
  <2>2. \E i \in N : i.refresh = o
    BY <1>0
  <2> QED
    BY <2>1, <2>2
<1> QED
  BY <1>0, <1>1, <1>3, <1>4, FS_Singleton DEF N

\* Whoever writes items, each batch has all of them or none, of one refresh.
LEMMA WholeStep == TypeInv /\ BatchInv /\ [Next]_vars => BatchAllOrNothing'
<1> SUFFICES ASSUME TypeInv, BatchInv, [Next]_vars PROVE BatchAllOrNothing'
  OBVIOUS
<1>1. BatchAllOrNothing
  BY DEF BatchInv
<1>2. CASE items' = items
  <2>1. ASSUME NEW b \in batches', b \notin batches PROVE ItemsOf(b)' = {}
    BY <1>2, <2>1 DEF ItemsOf, TypeInv, TypeOK
  <2>2. \A b : ItemsOf(b)' = ItemsOf(b) /\ ItemRows(b)' = ItemRows(b)
    BY <1>2 DEF ItemsOf, ItemRows
  <2> QED
    BY <1>1, <2>1, <2>2 DEF BatchAllOrNothing
<1>3. ASSUME NEW r \in Runs, InsertItems(r), items' # items PROVE BatchAllOrNothing'
  <2>0. PICK N : N = Whole(rows[r], origin[r])
    OBVIOUS
  <2>1. /\ rows[r] \in batches /\ UNCHANGED batches /\ ItemsOf(rows[r]) = {}
        /\ items' = items \cup N
    BY <1>3, <2>0, FillsOnce
  <2>3. IsFiniteSet(rows[r]) /\ rows[r] # {}
    BY <2>1 DEF BatchInv, BatchSound
  <2>4. /\ {i.row : i \in N} = rows[r]
        /\ \A i \in N : i.batch = rows[r]
        /\ Cardinality(N) = Cardinality(rows[r])
        /\ Cardinality({i.refresh : i \in N}) = 1
    BY <2>0, <2>3, ItemEach
  <2>5. \A b : ItemsOf(b)' = IF b = rows[r] THEN N ELSE ItemsOf(b)
    BY <2>1, <2>4 DEF ItemsOf
  <2>6. \A b : b # rows[r] => ItemsOf(b)' = ItemsOf(b) /\ ItemRows(b)' = ItemRows(b)
    BY <2>5 DEF ItemRows
  <2>8. ASSUME NEW b, b = rows[r]
        PROVE  /\ ItemRows(b)' = b /\ Cardinality(ItemsOf(b)') = Cardinality(b)
               /\ Cardinality({i.refresh : i \in ItemsOf(b)'}) = 1
    <3>1. ItemsOf(b)' = N
      BY <2>5, <2>8
    <3>2. ItemRows(b)' = {i.row : i \in N}
      BY <3>1 DEF ItemRows
    <3> QED
      BY <2>4, <2>8, <3>1, <3>2
  <2>9. ASSUME NEW b \in batches', b # rows[r]
        PROVE  \/ ItemsOf(b)' = {}
               \/ /\ ItemRows(b)' = b /\ Cardinality(ItemsOf(b)') = Cardinality(b)
                  /\ Cardinality({i.refresh : i \in ItemsOf(b)'}) = 1
    <3>1. b \in batches
      BY <2>1, <2>9
    <3>2. ItemsOf(b)' = ItemsOf(b) /\ ItemRows(b)' = ItemRows(b)
      BY <2>6, <2>9
    <3> QED
      BY <1>1, <3>1, <3>2 DEF BatchAllOrNothing
  <2> QED
    BY <2>8, <2>9 DEF BatchAllOrNothing
<1> QED
  BY <1>2, <1>3, Written

\* A batch stays what its hash was made of.
LEMMA SoundStep == TypeInv /\ BatchInv /\ [Next]_vars => BatchSound'
<1> SUFFICES ASSUME TypeInv, BatchInv, [Next]_vars PROVE BatchSound'
  OBVIOUS
<1>0. BatchSound /\ BatchAllOrNothing
  BY DEF BatchInv
<1>1. batches \subseteq batches' /\ \A b \in batches' : IsFiniteSet(b) /\ b # {}
  <2>1. ASSUME NEW r \in Runs, InsertBatch(r)
        PROVE  IsFiniteSet(rows[r]) /\ rows[r] # {}
    BY <2>1 DEF InsertBatch, Goto, TypeInv, RowsSound, OneAMinute, WithRows
  <2> QED
    BY <1>0, <2>1, Written DEF BatchSound, InsertBatch, BatchId
<1>2. ASSUME NEW b, ItemRows(b) = b, b # {} PROVE ItemRows(b)' = b
  <2>1. ASSUME NEW r \in Runs, InsertItems(r) PROVE ItemRows(b)' = b
    <3>1. CASE items' = items
      BY <1>2, <3>1 DEF ItemRows, ItemsOf
    <3>2. CASE items' # items
      <4>1. ItemsOf(rows[r]) = {} /\ items' = items \cup Whole(rows[r], origin[r])
            /\ \A i \in Whole(rows[r], origin[r]) : i.batch = rows[r]
        BY <2>1, <3>2, FillsOnce DEF Whole
      <4>2. b # rows[r]
        BY <1>2, <4>1 DEF ItemRows
      <4>3. ItemsOf(b)' = ItemsOf(b)
        BY <4>1, <4>2 DEF ItemsOf
      <4> QED
        BY <1>2, <4>3 DEF ItemRows
    <3> QED
      BY <3>1, <3>2
  <2>2. CASE items' = items
    BY <1>2, <2>2 DEF ItemRows, ItemsOf
  <2> QED
    BY <2>1, <2>2, Written
<1>3. ASSUME NEW r \in Runs, InsertItems(r), NEW b, b = rows[r] PROVE ItemRows(b)' = b
  <2>1. CASE items' = items
    <3>1. b \in batches /\ b # {}
      BY <1>0, <1>3, FillsOnce DEF BatchSound
    <3>2. ItemRows(b) = b
      <4>1. \/ ItemRows(b) = b
            \/ ItemsOf(b) = {} /\ items' = items \cup Whole(b, origin[r])
        BY <1>3, FillsOnce
      <4>2. PICK row \in b : TRUE
        BY <3>1
      <4>3. [batch |-> b, row |-> row, refresh |-> origin[r]].batch = b
        OBVIOUS
      <4> QED
        BY <2>1, <4>1, <4>2, <4>3 DEF ItemsOf, Whole
    <3> QED
      BY <1>2, <3>1, <3>2
  <2>2. CASE items' # items
    <3> DEFINE N == Whole(b, origin[r])
    <3>1. ItemsOf(b) = {} /\ items' = items \cup N
      BY <1>3, <2>2, FillsOnce
    <3>2. (\A i \in N : i.batch = b) /\ {i.row : i \in N} = b
      <4>1. IsFiniteSet(b) /\ b # {}
        BY <1>0, <1>3, FillsOnce DEF BatchSound
      <4> QED
        BY <4>1, ItemEach
    <3> HIDE DEF N
    <3>3. ItemsOf(b)' = N
      BY <3>1, <3>2 DEF ItemsOf
    <3> QED
      BY <3>2, <3>3 DEF ItemRows
  <2> QED
    BY <2>1, <2>2
<1> DEFINE Fine(s, b) ==
              /\ pc'[s] = "filling" => b \in batches'
              /\ pc'[s] = "reading" /\ command'[s] = "batch" => ItemRows(b)' = b
<1>4. ASSUME NEW s \in Runs, pc'[s] = pc[s], command'[s] = command[s], rows'[s] = rows[s],
             NEW b, b = rows'[s]
      PROVE  Fine(s, b)
  <2>1. pc[s] = "reading" => rows[s] # {}
    BY DEF TypeInv, RowsSound, WithRows
  <2>2. pc[s] = "reading" /\ command[s] = "batch" => ItemRows(b)' = b
    BY <1>0, <1>2, <1>4, <2>1 DEF BatchSound
  <2> QED
    BY <1>0, <1>1, <1>4, <2>2 DEF BatchSound
<1>5. ASSUME NEW r \in Runs, Step(r), NEW b, b = rows'[r]
      PROVE  Fine(r, b)
  <2>1. CASE pc'[r] = "filling"
    <3>1. InsertBatch(r) /\ rows' = rows
      BY <1>5, <2>1, ComesBy DEF InsertBatch, memory
    <3> QED
      BY <1>5, <2>1, <3>1 DEF InsertBatch, BatchId
  <2>2. CASE pc'[r] = "reading" /\ command'[r] = "batch"
    <3>1. rows' = rows /\ command' = command
      BY <1>5, <2>2, ComesBy DEF UpsertSnapshots, InsertItems, memory
    <3>2. ~UpsertSnapshots(r)
      BY <2>2, <3>1 DEF UpsertSnapshots, Goto, TypeInv, PlacesFit
    <3>3. InsertItems(r)
      BY <1>5, <2>2, <3>2, ComesBy
    <3> QED
      BY <1>3, <1>5, <2>2, <3>1, <3>3
  <2> QED
    BY <2>1, <2>2
<1> HIDE DEF Fine
<1>6. ASSUME NEW s \in Runs, NEW b, b = rows'[s] PROVE Fine(s, b)
  <2>1. ASSUME NEW r \in Runs, Step(r) PROVE Fine(s, b)
    <3>1. CASE s = r
      BY <1>5, <1>6, <2>1, <3>1
    <3>2. CASE s # r
      BY <1>4, <1>6, <2>1, <3>2, OthersStay
    <3> QED
      BY <3>1, <3>2
  <2>2. ASSUME ApplyFixture \/ Tick \/ UNCHANGED vars PROVE Fine(s, b)
    BY <1>4, <1>6, <2>2, NobodyMoves DEF memory
  <2> QED
    BY <2>1, <2>2 DEF Next
<1>7. ASSUME NEW s \in Runs
      PROVE  /\ pc'[s] = "filling" => rows'[s] \in batches'
             /\ pc'[s] = "reading" /\ command'[s] = "batch" =>
                   {i.row : i \in {i \in items' : i.batch = rows'[s]}} = rows'[s]
  <2>1. PICK b : b = rows'[s]
    OBVIOUS
  <2> QED
    BY <1>6, <2>1 DEF Fine, ItemRows, ItemsOf
<1> QED
  BY <1>1, <1>7 DEF BatchSound, ItemRows, ItemsOf

\* A batch is inserted for rows whose first has a swap.
LEMMA TiedStep == TypeInv /\ BatchInv /\ [Next]_vars => BatchesTiedToSwaps'
<1> SUFFICES ASSUME TypeInv, BatchInv, [Next]_vars PROVE BatchesTiedToSwaps'
  OBVIOUS
<1>1. ASSUME NEW r \in Runs, InsertBatch(r) PROVE \E row \in rows[r] : row.swapped
  BY <1>1 DEF InsertBatch, Goto, TypeInv, RowsSound, PlacesFit, WithRows
<1> QED
  BY <1>1, Written DEF BatchInv, BatchesTiedToSwaps, InsertBatch, BatchId

\* No step takes an item away or adds one to a filled batch.
LEMMA ImmutableStep ==
    ASSUME TypeInv, BatchInv, [Next]_vars
    PROVE  /\ batches \subseteq batches'
           /\ items \subseteq items'
           /\ \A i \in items' \ items : ItemsOf(i.batch) = {}
<1>1. batches \subseteq batches'
  BY Written DEF InsertBatch
<1>2. ASSUME NEW r \in Runs, InsertItems(r)
      PROVE  items \subseteq items' /\ \A i \in items' \ items : ItemsOf(i.batch) = {}
  <2>1. \A i \in Whole(rows[r], origin[r]) : i.batch = rows[r]
    BY DEF Whole
  <2> QED
    BY <1>2, <2>1, FillsOnce
<1> QED
  BY <1>1, <1>2, Written

\* The item found as of the minute of a run's first row is that row.
LEMMA FindsItsHead == TypeInv /\ BatchSound => BatchOfItsRun
<1> SUFFICES ASSUME TypeInv, BatchSound, NEW r \in Runs, pc[r] = "reading", command[r] = "batch"
             PROVE  ItemRows(BatchId(r)) = rows[r] /\ Found(r) = {Head(rows[r])}
  BY DEF BatchOfItsRun
<1> DEFINE h == Head(rows[r])
<1>1. ItemRows(BatchId(r)) = rows[r]
  BY DEF BatchSound, BatchId
<1>2. /\ OneAMinute(rows[r]) /\ rows[r] # {}
      /\ \A p \in rows[r] : p.minute \in Minutes /\ p.swapped \in BOOLEAN
  BY DEF TypeInv, RowsSound, WithRows, TypeOK, IsRow
<1>3. h \in rows[r]
  BY <1>2, HeadIs
<1> HIDE DEF h
<1>4. AsOf(rows[r], h.minute) = {h}
  <2>1. \A p \in rows[r] : p.minute \in Int
    BY <1>2 DEF Minutes
  <2>2. h \in AsOf(rows[r], h.minute)
    BY <1>3, <2>1 DEF AsOf
  <2>3. \A p \in AsOf(rows[r], h.minute) : p \in rows[r] /\ p.minute = h.minute
    BY <1>3, <2>1 DEF AsOf
  <2>4. \A p \in AsOf(rows[r], h.minute) : p = h
    BY <1>2, <1>3, <2>3 DEF OneAMinute
  <2> QED
    BY <2>2, <2>4
<1> QED
  BY <1>1, <1>4 DEF Found, h

-----------------------------------------------------------------------------
(* The views.                                                              *)

\* The tables lose no minute and no swap.
LEMMA TablesGrow ==
    ASSUME TypeInv, [Next]_vars
    PROVE  /\ swaps \subseteq swaps'
           /\ \A m \in Minutes : candles[m] # Null => candles'[m] # Null
<1>0. /\ swaps \subseteq CorpusMinutes /\ candles \in [Minutes -> Binance \cup {"fixture", Null}]
  BY DEF TypeInv, TypeOK
<1>1. ASSUME NEW r \in Runs, Step(r) PROVE swaps \subseteq swaps'
  BY <1>0, <1>1 DEF Step, Start, Corpus, CorpusFails, Fetch, StoreCandles, CreateView, Refresh, Count,
     ReadRaises, Look, Load, UpsertSnapshots, InsertBatch, InsertItems, Read, Stop, sources
<1>2. ASSUME NEW r \in Runs, Step(r), candles' # candles
      PROVE  \A m \in Minutes : candles[m] # Null => candles'[m] # Null
  <2>1. StoreCandles(r)
    BY <1>2 DEF Step, Start, Corpus, CorpusFails, Fetch, StoreCandles, CreateView, Refresh, Count,
       ReadRaises, Look, Load, UpsertSnapshots, InsertBatch, InsertItems, Read, Stop, sources
  <2> QED
    BY <2>1 DEF StoreCandles
<1>3. ASSUME ApplyFixture
      PROVE  swaps \subseteq swaps' /\ \A m \in Minutes : candles[m] # Null => candles'[m] # Null
  BY <1>3 DEF ApplyFixture
<1> QED
  BY <1>1, <1>2, <1>3 DEF Next, Tick, vars, sources

\* The part of StoredIsThere and SampleFetched that speaks of one run.
CorpusIsThere(r) ==
    pc[r] \in BeforeRefresh \cup AtView /\ pc[r] # "corpus" /\ command[r] # "candles" =>
        CorpusMinutes \subseteq swaps /\ sample[r] # {}

KlinesAreThere(r) ==
    pc[r] \in AfterStore =>
        /\ \A m \in Minutes : got[r][m] # Null => candles[m] # Null
        /\ \A v \in Views : views[v] # Null /\ views[v].refresh > since[r] => Told(r, views[v])

ViewIsNew(r) ==
    pc[r] \in AtView /\ views[View(r)] # Null => views[View(r)].refresh > since[r]

FirstIsFetched(r) ==
    /\ KlineLimit > Padding
    /\ pc[r] \in AfterStore \cup {"storing"}
    /\ command[r] # "candles"
    => got[r][Earliest(sample[r])] # Null

\* ViewInv, run by run.
LEMMA ViewParts ==
    ViewInv <=> \A r \in Runs : /\ CorpusIsThere(r) /\ KlinesAreThere(r)
                                /\ ViewIsNew(r) /\ FirstIsFetched(r)
BY DEF ViewInv, StoredIsThere, SampleFetched, CorpusIsThere, KlinesAreThere, ViewIsNew, FirstIsFetched

\* What a step does to a view: nothing, create it anew, or fill it.
LEMMA ViewChange ==
    ASSUME TypeInv, [Next]_vars, NEW v \in Views
    PROVE  \/ views'[v] = views[v]
           \/ views'[v] = Null
           \/ views'[v] = [candles |-> candles, swaps |-> swaps, refresh |-> refreshes + 1]
<1>1. DOMAIN views = Views
  BY DEF TypeInv, TypeOK
<1>2. ASSUME NEW r \in Runs, CreateView(r) PROVE views'[v] = views[v] \/ views'[v] = Null
  BY <1>1, <1>2 DEF CreateView
<1>3. ASSUME NEW r \in Runs, Refresh(r)
      PROVE  \/ views'[v] = views[v]
             \/ views'[v] = [candles |-> candles, swaps |-> swaps, refresh |-> refreshes + 1]
  BY <1>1, <1>3 DEF Refresh
<1>4. ASSUME NEW r \in Runs, Step(r), ~CreateView(r), ~Refresh(r) PROVE views' = views
  BY <1>4 DEF Step, Start, Corpus, CorpusFails, Fetch, StoreCandles, Count, ReadRaises, Look, Load,
     UpsertSnapshots, InsertBatch, InsertItems, Read, Stop, panels
<1>5. ASSUME ApplyFixture \/ Tick \/ UNCHANGED vars PROVE views' = views
  BY <1>5, NobodyMoves DEF panels
<1> QED
  BY <1>2, <1>3, <1>4, <1>5 DEF Next

\* What a run has stored it goes on to find, whoever refreshes, creates or stores.
LEMMA Carries ==
    ASSUME TypeInv, ViewInv, [Next]_vars, NEW s \in Runs, pc[s] \in AfterStore,
           command'[s] = command[s], sample'[s] = sample[s], got'[s] = got[s], since'[s] = since[s]
    PROVE  /\ CorpusIsThere(s)' /\ KlinesAreThere(s)' /\ FirstIsFetched(s)'
           /\ pc[s] \in AtView => ViewIsNew(s)'
<1>1. command[s] # "candles" /\ View(s) \in Views /\ View(s)' = View(s)
  BY DEF TypeInv, PlacesFit, AfterStore, Ended, View, Views
<1>2. CorpusIsThere(s) /\ KlinesAreThere(s) /\ ViewIsNew(s) /\ FirstIsFetched(s)
  BY ViewParts
<1>3. since[s] \in Nat /\ refreshes \in Nat /\ since[s] <= refreshes
  BY DEF TypeInv, TypeOK, MemoryFits
<1>4. CorpusMinutes \subseteq swaps /\ sample[s] # {}
  BY <1>1, <1>2 DEF CorpusIsThere, AfterStore, BeforeRefresh, AtView
<1>5. CorpusIsThere(s)'
  BY <1>4, TablesGrow DEF CorpusIsThere
<1>6. FirstIsFetched(s)'
  BY <1>1, <1>2 DEF FirstIsFetched
<1>7. \A m \in Minutes : got'[s][m] # Null => candles[m] # Null /\ candles'[m] # Null
  BY <1>2, TablesGrow DEF KlinesAreThere
<1> DEFINE new == [candles |-> candles, swaps |-> swaps, refresh |-> refreshes + 1]
<1>8. ASSUME NEW v \in Views, views'[v] # Null, views'[v].refresh > since[s]
      PROVE  /\ \A m \in Minutes : got'[s][m] # Null => views'[v].candles[m] # Null
             /\ CorpusMinutes \subseteq views'[v].swaps
  <2>1. CASE views'[v] = views[v]
    <3>1. Told(s, views[v])
      BY <1>2, <1>8, <2>1 DEF KlinesAreThere
    <3> QED
      BY <2>1, <3>1 DEF Told
  <2>2. CASE views'[v] = new
    <3>1. views'[v].candles = candles /\ views'[v].swaps = swaps
      BY <2>2
    <3> QED
      BY <1>4, <1>7, <3>1 DEF Told
  <2> QED
    BY <1>8, <2>1, <2>2, ViewChange
<1>9. KlinesAreThere(s)'
  BY <1>7, <1>8 DEF KlinesAreThere, Told
<1>10. ASSUME pc[s] \in AtView PROVE ViewIsNew(s)'
  <2>1. CASE views'[View(s)] = views[View(s)]
    BY <1>1, <1>2, <1>10, <2>1 DEF ViewIsNew
  <2>2. CASE views'[View(s)] = new
    <3>1. views'[View(s)].refresh > since[s]
      BY <1>3, <2>2
    <3> QED
      BY <1>1, <3>1 DEF ViewIsNew
  <2>3. CASE views'[View(s)] = Null
    BY <1>1, <2>3 DEF ViewIsNew
  <2> QED
    BY <1>1, <2>1, <2>2, <2>3, ViewChange
<1> QED
  BY <1>5, <1>6, <1>9, <1>10

\* A run that does not move keeps what it has.
LEMMA Stands ==
    ASSUME TypeInv, ViewInv, [Next]_vars, NEW s \in Runs, pc'[s] = pc[s],
           command'[s] = command[s], sample'[s] = sample[s], got'[s] = got[s], since'[s] = since[s]
    PROVE  CorpusIsThere(s)' /\ KlinesAreThere(s)' /\ FirstIsFetched(s)' /\ ViewIsNew(s)'
<1>1. CASE pc[s] \in AfterStore
  <2>1. pc[s] \notin AtView => ViewIsNew(s)'
    BY DEF ViewIsNew
  <2> QED
    BY <1>1, <2>1, Carries
<1>2. CASE pc[s] \notin AfterStore
  <2>1. KlinesAreThere(s)' /\ ViewIsNew(s)'
    BY <1>2 DEF KlinesAreThere, ViewIsNew, AtView, AfterStore
  <2>2. CorpusIsThere(s) /\ FirstIsFetched(s)
    BY ViewParts
  <2>3. CorpusIsThere(s)'
    BY <2>2, TablesGrow DEF CorpusIsThere
  <2>4. FirstIsFetched(s)'
    BY <2>2 DEF FirstIsFetched
  <2> QED
    BY <2>1, <2>3, <2>4
<1> QED
  BY <1>1, <1>2

\* A run that moves finds what it will look for.
LEMMA Moves ==
    ASSUME TypeInv, TypeInv', ViewInv, NEW r \in Runs, Step(r)
    PROVE  CorpusIsThere(r)' /\ KlinesAreThere(r)' /\ FirstIsFetched(r)' /\ ViewIsNew(r)'
<1> DEFINE Good == CorpusIsThere(r)' /\ KlinesAreThere(r)' /\ FirstIsFetched(r)' /\ ViewIsNew(r)'
<1>0. /\ CorpusIsThere(r) /\ KlinesAreThere(r) /\ ViewIsNew(r) /\ FirstIsFetched(r)
      /\ [Next]_vars
      /\ r \in DOMAIN pc /\ r \in DOMAIN command /\ r \in DOMAIN sample /\ r \in DOMAIN got
      /\ r \in DOMAIN since /\ got[r] \in [Minutes -> Binance \cup {Null}]
  BY ViewParts DEF Next, TypeInv, TypeOK, MemoryFits
<1>1. ASSUME pc'[r] \in WithRows \cup Ended PROVE Good
  BY <1>1 DEF CorpusIsThere, KlinesAreThere, FirstIsFetched, ViewIsNew, BeforeRefresh, AtView,
     AfterStore, WithRows, Ended
<1>2. ASSUME NEW c \in Commands, Start(r, c) PROVE Good
  <2>1. pc'[r] = "corpus" \/ (pc'[r] = "fetching" /\ command'[r] = "candles")
    BY <1>0, <1>2 DEF Start
  <2> QED
    BY <2>1 DEF CorpusIsThere, KlinesAreThere, FirstIsFetched, ViewIsNew, BeforeRefresh, AtView,
       AfterStore
<1>3. ASSUME Corpus(r) PROVE Good
  <2>1. /\ pc'[r] = "fetching" /\ swaps' = CorpusMinutes
        /\ sample'[r] = First(SampleMinutes, CorpusMinutes)
    BY <1>0, <1>3 DEF Corpus, Goto
  <2>2. sample'[r] # {}
    BY <2>1, FirstIsThere, CorpusPast
  <2> QED
    BY <2>1, <2>2 DEF CorpusIsThere, KlinesAreThere, FirstIsFetched, ViewIsNew, AtView, AfterStore
<1>4. ASSUME Fetch(r) PROVE Good
  <2>1. /\ pc[r] = "fetching" /\ pc'[r] = "storing" /\ swaps' = swaps /\ command' = command
        /\ sample' = sample
        /\ got'[r] = [m \in Minutes |-> IF m \in KlineWindow(r) THEN Kline(m) ELSE Null]
    BY <1>0, <1>4 DEF Fetch, Goto, sources
  <2>2. CorpusIsThere(r)'
    BY <1>0, <2>1 DEF CorpusIsThere, BeforeRefresh
  <2>3. ASSUME KlineLimit > Padding, command[r] # "candles"
        PROVE  got'[r][Earliest(sample[r])] # Null
    <3>1. sample[r] # {}
      BY <1>0, <2>1, <2>3 DEF CorpusIsThere, BeforeRefresh
    <3>2. Earliest(sample[r]) \in KlineWindow(r) /\ Earliest(sample[r]) \in Minutes
      BY <2>3, <3>1, WindowHasFirst DEF TypeInv
    <3>3. PICK m : m = Earliest(sample[r])
      OBVIOUS
    <3>4. Kline(m) # Null
      BY DEF Kline
    <3> QED
      BY <2>1, <3>2, <3>3, <3>4
  <2>4. FirstIsFetched(r)'
    BY <2>1, <2>3 DEF FirstIsFetched
  <2> QED
    BY <2>1, <2>2, <2>4 DEF KlinesAreThere, ViewIsNew, AtView, AfterStore
<1>5. ASSUME StoreCandles(r), command[r] # "candles" PROVE Good
  <2>1. /\ pc[r] = "storing" /\ pc'[r] = "creating" /\ swaps' = swaps /\ command' = command
        /\ sample' = sample /\ got' = got /\ since'[r] = refreshes /\ views' = views
        /\ refreshes' = refreshes
        /\ candles' = [m \in Minutes |-> IF got[r][m] # Null THEN got[r][m] ELSE candles[m]]
    BY <1>0, <1>5 DEF StoreCandles, panels
  <2>2. CorpusIsThere(r)'
    BY <1>0, <1>5, <2>1 DEF CorpusIsThere, BeforeRefresh
  <2>3. FirstIsFetched(r)'
    BY <1>0, <1>5, <2>1 DEF FirstIsFetched
  <2>4. ASSUME NEW v \in Views, views[v] # Null PROVE ~(views[v].refresh > refreshes)
    <3>1. views[v].refresh \in 1 .. refreshes /\ refreshes \in 0 .. MaxStarts
      BY <2>4 DEF TypeInv, TypeOK
    <3> QED
      BY <3>1
  <2>5. KlinesAreThere(r)'
    BY <2>1, <2>4 DEF KlinesAreThere
  <2> QED
    BY <2>1, <2>2, <2>3, <2>5 DEF ViewIsNew, AtView
<1>6. ASSUME CreateView(r) \/ Refresh(r) \/ Count(r)
      PROVE  /\ UNCHANGED <<command, sample, got, since>> /\ pc[r] \in AfterStore
             /\ pc'[r] \in AtView /\ ~Refresh(r) => pc[r] \in AtView
  BY <1>0, <1>6 DEF CreateView, Refresh, Count, Goto, memory, AfterStore, AtView
<1>7. ASSUME CreateView(r) \/ Refresh(r) \/ Count(r) PROVE Good
  <2>1. /\ CorpusIsThere(r)' /\ KlinesAreThere(r)' /\ FirstIsFetched(r)'
        /\ pc[r] \in AtView => ViewIsNew(r)'
    <3>1. command'[r] = command[r] /\ sample'[r] = sample[r] /\ got'[r] = got[r]
          /\ since'[r] = since[r] /\ pc[r] \in AfterStore
      BY <1>6, <1>7
    <3> QED
      BY <1>0, <3>1, Carries
  <2>2. CASE Refresh(r)
    <3>1. View(r) \in Views /\ DOMAIN views = Views
      BY DEF View, Views, TypeInv, TypeOK
    <3>2. /\ views'[View(r)] = [candles |-> candles, swaps |-> swaps, refresh |-> refreshes + 1]
          /\ command' = command /\ since' = since
      BY <2>2, <3>1 DEF Refresh, memory
    <3>3. since[r] \in 0 .. refreshes /\ refreshes \in Nat
      BY DEF TypeInv, TypeOK, MemoryFits
    <3>4. views'[View(r)].refresh > since[r]
      BY <3>2, <3>3
    <3>5. ViewIsNew(r)'
      BY <3>2, <3>4 DEF ViewIsNew, View
    <3> QED
      BY <2>1, <3>5
  <2>3. CASE ~Refresh(r)
    <3>1. pc'[r] \notin AtView => ViewIsNew(r)'
      BY DEF ViewIsNew
    <3> QED
      BY <1>6, <1>7, <2>1, <2>3, <3>1
  <2> QED
    BY <2>2, <2>3
<1>8. ASSUME \/ \E S \in SUBSET CorpusMinutes : CorpusFails(r, S)
             \/ StoreCandles(r) /\ command[r] = "candles"
             \/ ReadRaises(r) \/ Look(r) \/ Load(r) \/ UpsertSnapshots(r)
             \/ InsertBatch(r) \/ InsertItems(r) \/ Read(r) \/ Stop(r)
      PROVE  pc'[r] \in WithRows \cup Ended
  BY <1>0, <1>8 DEF CorpusFails, StoreCandles, ReadRaises, Look, Load, UpsertSnapshots, InsertBatch,
     InsertItems, Read, Stop, Goto, WithRows, Ended
<1> HIDE DEF Good
<1>9. Good
  BY <1>1, <1>2, <1>3, <1>4, <1>5, <1>7, <1>8 DEF Step
<1> QED
  BY <1>9 DEF Good

\* The views, for every run.
LEMMA ViewStep == TypeInv /\ TypeInv' /\ ViewInv /\ [Next]_vars => ViewInv'
<1> SUFFICES ASSUME TypeInv, TypeInv', ViewInv, [Next]_vars, NEW s \in Runs
             PROVE  (CorpusIsThere(s) /\ KlinesAreThere(s) /\ ViewIsNew(s) /\ FirstIsFetched(s))'
  BY DEF ViewInv, StoredIsThere, SampleFetched, CorpusIsThere, KlinesAreThere, ViewIsNew,
     FirstIsFetched
<1>1. ASSUME NEW r \in Runs, Step(r)
      PROVE  CorpusIsThere(s)' /\ KlinesAreThere(s)' /\ ViewIsNew(s)' /\ FirstIsFetched(s)'
  <2>1. CASE s = r
    BY <1>1, <2>1, Moves
  <2>2. CASE s # r
    BY <1>1, <2>2, OthersStay, Stands
  <2> QED
    BY <2>1, <2>2
<1>2. ASSUME ApplyFixture \/ Tick \/ UNCHANGED vars
      PROVE  CorpusIsThere(s)' /\ KlinesAreThere(s)' /\ ViewIsNew(s)' /\ FirstIsFetched(s)'
  BY <1>2, NobodyMoves, Stands DEF memory
<1> QED
  BY <1>1, <1>2 DEF Next

-----------------------------------------------------------------------------
(* The theorems.                                                           *)

\* Whoever reads a view finds its own klines and corpus in it.
LEMMA ReadersFindTheirs == TypeInv /\ ViewInv => FreshViews
<1> SUFFICES ASSUME TypeInv, ViewInv, NEW r \in Runs, pc[r] \in AtView, views[View(r)] # Null
             PROVE  /\ views[View(r)].refresh > since[r]
                    /\ \A m \in Minutes : got[r][m] # Null => views[View(r)].candles[m] # Null
                    /\ CorpusMinutes \subseteq views[View(r)].swaps
  BY DEF FreshViews, AtView
<1>1. View(r) \in Views /\ pc[r] \in AfterStore
  BY DEF View, Views, AtView, AfterStore
<1>2. ViewIsNew(r) /\ KlinesAreThere(r)
  BY ViewParts
<1> QED
  BY <1>1, <1>2 DEF ViewIsNew, KlinesAreThere, Told

\* The first swap of the sample has its row in the panel.
LEMMA MatchIsThere == TypeInv /\ ViewInv => MatchShown
<1> SUFFICES ASSUME TypeInv, ViewInv, NEW r \in Runs, KlineLimit > Padding, pc[r] \in AtView,
                    View(r) = "panel", views["panel"] # Null
             PROVE  \/ views["panel"].candles[Earliest(sample[r])] = "fixture"
                    \/ Earliest(sample[r]) \in PanelMinutes(views["panel"]) \cap views["panel"].swaps
  BY DEF MatchShown, AtView
<1> DEFINE first == Earliest(sample[r])
<1>1. command[r] # "candles"
  BY DEF TypeInv, PlacesFit, AtView, Ended
<1>2. CorpusIsThere(r) /\ FirstIsFetched(r)
  BY ViewParts
<1>3. sample[r] # {} /\ got[r][first] # Null
  BY <1>1, <1>2 DEF CorpusIsThere, FirstIsFetched, AtView, AfterStore, BeforeRefresh
<1>4. first \in CorpusMinutes /\ first \in Minutes
  <2>1. sample[r] \in SUBSET CorpusMinutes /\ sample[r] \in SUBSET Minutes
    BY CorpusPast DEF TypeInv, MemoryFits
  <2> QED
    BY <1>3, <2>1, EarliestIs
<1> HIDE DEF first
<1>5. views["panel"].candles[first] # Null /\ first \in views["panel"].swaps
  BY <1>3, <1>4, ReadersFindTheirs DEF FreshViews, AtView
<1>6. views["panel"].candles[first] \in Binance \cup {"fixture", Null}
  BY <1>4 DEF TypeInv, TypeOK, Views
<1>7. \/ views["panel"].candles[first] = "fixture"
      \/ first \in PanelMinutes(views["panel"]) \cap views["panel"].swaps
  BY <1>4, <1>5, <1>6 DEF PanelMinutes
<1> QED
  BY <1>7 DEF first

\* The inductive invariant holds initially and is kept by every step, however
\* many commands run side by side and wherever they stop.
THEOREM PipelineInvariance == Spec => []PipelineInv
<1>1. Init => PipelineInv
  <2> SUFFICES ASSUME Init PROVE PipelineInv
    OBVIOUS
  <2>1. ViewInv
    BY DEF Init, ViewInv, StoredIsThere, SampleFetched, BeforeRefresh, AtView, AfterStore
  <2>2. NoLookahead
    BY DEF Init, NoLookahead, NoCandles
  <2>3. BatchInv
    BY DEF Init, BatchInv, BatchSound, BatchAllOrNothing, BatchesTiedToSwaps
  <2> QED
    BY <2>1, <2>2, <2>3, TypeInit DEF PipelineInv
<1>2. PipelineInv /\ [Next]_vars => PipelineInv'
  <2> SUFFICES ASSUME PipelineInv, [Next]_vars PROVE PipelineInv'
    OBVIOUS
  <2>1. TypeInv /\ ViewInv /\ NoLookahead /\ BatchInv /\ BatchSound
    BY DEF PipelineInv, BatchInv
  <2>2. TypeInv'
    BY <2>1, TypeStep
  <2>3. ViewInv' /\ NoLookahead'
    BY <2>1, <2>2, ViewStep, LookaheadStep
  <2>4. BatchSound' /\ BatchAllOrNothing' /\ BatchesTiedToSwaps'
    BY <2>1, SoundStep, WholeStep, TiedStep
  <2> QED
    BY <2>2, <2>3, <2>4 DEF PipelineInv, BatchInv
<1> QED
  BY <1>1, <1>2, PTL DEF Spec

\* The tables, the views and what the processes remember are well typed; a
\* candle is final only when its minute is over.
THEOREM PipelineTypeCorrect == Spec => []TypeOK
<1>1. PipelineInv => TypeOK
  BY DEF PipelineInv, TypeInv
<1> QED
  BY <1>1, PipelineInvariance, PTL

\* FreshViews: a reader that is not turned away finds in the view what it stored,
\* although views are dropped, created and refreshed under it by other commands.
THEOREM ViewsAlwaysFresh == Spec => []FreshViews
<1>1. PipelineInv => FreshViews
  BY ReadersFindTheirs DEF PipelineInv
<1> QED
  BY <1>1, PipelineInvariance, PTL

\* MatchShown: when the klines outnumber the padding, the minute of the first
\* swap of the sample has its row in the panel, for any padding and any limit.
THEOREM MatchAlwaysShown == Spec => []MatchShown
<1>1. PipelineInv => MatchShown
  BY MatchIsThere DEF PipelineInv
<1> QED
  BY <1>1, PipelineInvariance, PTL

\* NoLookahead: no feature row that is ever written rests on a later close.
THEOREM NeverLooksAhead == Spec => []NoLookahead
<1>1. PipelineInv => NoLookahead
  BY DEF PipelineInv
<1> QED
  BY <1>1, PipelineInvariance, PTL

\* BatchAllOrNothing: wherever runs die and whoever fills their batches, a batch
\* has each of its items once, of one refresh, or none.
THEOREM BatchesStayWhole == Spec => []BatchAllOrNothing
<1>1. PipelineInv => BatchAllOrNothing
  BY DEF PipelineInv, BatchInv
<1> QED
  BY <1>1, PipelineInvariance, PTL

\* BatchOfItsRun: a run reads back the rows it captured, and the as-of lookup
\* finds the one it is asked for.
THEOREM RunsReadTheirBatch == Spec => []BatchOfItsRun
<1>1. PipelineInv => BatchOfItsRun
  BY FindsItsHead DEF PipelineInv, BatchInv
<1> QED
  BY <1>1, PipelineInvariance, PTL

\* BatchesTiedToSwaps: every batch has a row with a swap.
THEOREM BatchesStayTied == Spec => []BatchesTiedToSwaps
<1>1. PipelineInv => BatchesTiedToSwaps
  BY DEF PipelineInv, BatchInv
<1> QED
  BY <1>1, PipelineInvariance, PTL

\* BatchesImmutable: items are added to empty batches only and never changed.
THEOREM ItemsNeverChange == Spec => BatchesImmutable
<1>1. PipelineInv /\ [Next]_vars =>
        [/\ batches \subseteq batches'
         /\ items \subseteq items'
         /\ \A i \in items' \ items : ItemsOf(i.batch) = {}]_vars
  BY ImmutableStep DEF PipelineInv
<1> QED
  BY <1>1, PipelineInvariance, PTL DEF Spec, BatchesImmutable
=============================================================================
