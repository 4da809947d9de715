--------------------------- MODULE TradingLedger ----------------------------
(***************************************************************************)
(* The relational ledger of experiments/rdb_trading_ledger.py and          *)
(* rdb_paper_trace.py.  A ledger smoke (or the ledger benchmark) applies   *)
(* schema and fixture in one transaction and then probes the constraints;  *)
(* a paper trace fetches candles, applies the schema, seeds its account    *)
(* and records one decision as order, fill, ledger entries and position.   *)
(*                                                                         *)
(* A program is the sequence of its statements and commits.  A statement   *)
(* waits for the locks it needs until those that conflict are released,    *)
(* and keeps its own until the transaction ends; PostgreSQL aborts a       *)
(* transaction that waits in a circle.                                     *)
(*                                                                         *)
(*   order, fill, entries, position  the decision of a minute as each      *)
(*                                   table of the ledger has it            *)
(*   deposit                         occurred_at of the paper deposit      *)
(*   check                           is there a limit price CHECK on       *)
(*                                   orders, as a transaction that alters  *)
(*                                   the table has left it so far          *)
(*   candles                         the close stored for a minute         *)
(*                                                                         *)
(* The tables exist, as after any earlier run: creating what is there      *)
(* already takes no lock, but altering or indexing a table takes one.      *)
(* There is one symbol.  A decision is its minute, side and price, which   *)
(* settle every amount.  Left out: rows only the fixture writes, and the   *)
(* strategy, whose row is locked after the account's by the same programs. *)
(***************************************************************************)
EXTENDS Integers, Sequences, FiniteSets

CONSTANTS
    Papers,        \* processes that run the paper trace
    Ledgers,       \* processes that run the ledger smoke
    Close,         \* the final close of each minute
    Prices,        \* closes the minute that is still open may show
    FirstNow,      \* the minute that is open at the beginning
    KlineLimit,    \* the limit the candles are fetched with
    MaxStarts,     \* bound: how many times a process is started
    Null           \* no such row

Minutes == DOMAIN Close
Runs == Papers \cup Ledgers

ASSUME CloseAssumption  == Close \in Seq(Nat \ {0})
ASSUME PricesAssumption == Prices \subseteq Nat \ {0} /\ Prices # {}
ASSUME NowAssumption    == FirstNow \in Minutes
ASSUME LimitAssumption  == KlineLimit \in Nat \ {0}
ASSUME StartsAssumption == MaxStarts \in Nat
ASSUME RunsAssumption   == Papers \cap Ledgers = {}
ASSUME NullAssumption   == Null \notin Nat

VARIABLES
    now, starts, candles,
    order, fill, entries, position, deposit, check,
    at,            \* the statement a process comes to, 0 when it does not run
    ran,           \* the statements of its open transaction
    got,           \* the candles a paper trace has fetched
    decision       \* the decision it has loaded

rows == <<order, fill, entries, position, deposit>>
ledger == <<rows, check>>
memory == <<got, decision>>
vars == <<now, starts, candles, ledger, at, ran, memory>>

-----------------------------------------------------------------------------
(* The programs.                                                           *)

\* Faulty schema: the CHECK on orders is dropped and added in two transactions.
SchemaStatementsInTwo ==
    <<"drop_check", "commit", "add_check", "index_fills", "index_entries", "index_positions">>

\* 001_trading_ledger_schema.sql, as far as the tables are there.
SchemaStatements ==
    <<"drop_check", "add_check", "index_fills", "index_entries", "index_positions">>

\* 002_trading_ledger_fixture.sql
FixtureStatements == <<"fixture_instruments", "fixture_ledger">>

LedgerProgram == SchemaStatements \o FixtureStatements \o <<"commit", "probe", "commit">>

\* Faulty traces: the order has a transaction of its own; the position is
\* written first.
PaperProgramInTwo ==
    <<"fetch", "store", "load">> \o SchemaStatements
        \o <<"commit", "account", "instrument", "deposit", "commit">>
        \o <<"order", "commit", "fill", "entries", "position", "commit">>

PaperProgramReversed ==
    <<"fetch", "store", "load">> \o SchemaStatements
        \o <<"commit", "account", "instrument", "deposit", "commit">>
        \o <<"position", "order", "fill", "entries", "commit">>

PaperProgram ==
    <<"fetch", "store", "load">> \o SchemaStatements
        \o <<"commit", "account", "instrument", "deposit", "commit">>
        \o <<"order", "fill", "entries", "position", "commit">>

Program(r) == IF r \in Papers THEN PaperProgram ELSE LedgerProgram

\* What process r comes to.
Comes(r, statement) == at[r] # 0 /\ Program(r)[at[r]] = statement

-----------------------------------------------------------------------------
(* The locks: ACCESS EXCLUSIVE, SHARE and ROW EXCLUSIVE on a table, here    *)
(* "access", "share" and "write", and "row" on a row.                       *)

TableLock(table, mode) == [on |-> <<table, 0>>, mode |-> mode]
RowLock(table, key) == [on |-> <<table, key>>, mode |-> "row"]

\* The table a statement of the decision writes.
TableOf == [order |-> "orders", fill |-> "fills", entries |-> "entries", position |-> "positions"]

StatementLocks ==
    [drop_check          |-> {TableLock("orders", "access")},
     add_check           |-> {TableLock("orders", "access")},
     index_fills         |-> {TableLock("fills", "share")},
     index_entries       |-> {TableLock("entries", "share")},
     index_positions     |-> {TableLock("positions", "share")},
     fixture_instruments |-> {RowLock("instruments", 1)},
     fixture_ledger      |-> {TableLock(TableOf[s], "write") : s \in DOMAIN TableOf},
     probe               |-> {TableLock("orders", "write")},
     account             |-> {RowLock("accounts", 1)},
     instrument          |-> {RowLock("instruments", 1)},
     deposit             |-> {TableLock("entries", "write"), RowLock("deposits", 1)}]

Locks(r, statement) ==
    IF statement \in DOMAIN TableOf
    THEN {TableLock(TableOf[statement], "write"), RowLock(TableOf[statement], decision[r].minute)}
    ELSE IF statement \in DOMAIN StatementLocks THEN StatementLocks[statement] ELSE {}

Held(r) == UNION {Locks(r, statement) : statement \in ran[r]}

Conflicting(k, l) ==
    /\ k.on = l.on
    /\ \/ "access" \in {k.mode, l.mode}
       \/ {k.mode, l.mode} \in {{"share", "write"}, {"row"}}

\* r waits for q to end its transaction.
WaitsFor(r, q) ==
    /\ r # q /\ at[r] # 0 /\ ran[q] # {}
    /\ \E k \in Locks(r, Program(r)[at[r]]), l \in Held(q) : Conflicting(k, l)

Blocked(r) == \E q \in Runs : WaitsFor(r, q)

\* The processes of S wait for each other, each of them for the next.
Waiting(S) == S # {} /\ \A r \in S : \E q \in S : WaitsFor(r, q)

Circle(S) == Waiting(S) /\ \A T \in SUBSET S : Waiting(T) => T = S

Deadlocked(r) == Blocked(r) /\ \E S \in SUBSET Runs : r \in S /\ Circle(S)

-----------------------------------------------------------------------------
(* The steps.                                                              *)

NoCandles == [m \in Minutes |-> Null]

Buy(previous, latest) == latest >= previous

\* build_paper_decision; quantity, amounts and fee follow from side and price.
Decide(previous, m) ==
    [minute |-> m, price |-> candles[m],
     side |-> IF Buy(candles[previous], candles[m]) THEN "buy" ELSE "sell"]

Stored == {m \in Minutes : candles[m] # Null}

Latest(S) == CHOOSE m \in S : \A n \in S : n <= m

\* The next statement, or the end of the program.
Advance(r) ==
    IF at[r] = Len(Program(r))
    THEN /\ at' = [at EXCEPT ![r] = 0]
         /\ got' = [got EXCEPT ![r] = NoCandles]
         /\ decision' = [decision EXCEPT ![r] = Null]
    ELSE /\ at' = [at EXCEPT ![r] = @ + 1]
         /\ UNCHANGED memory

\* An error nothing catches, or the end of the process: a rollback, after which
\* the CHECK it has dropped is there again.
Abort(r) ==
    /\ at' = [at EXCEPT ![r] = 0]
    /\ check' = (check \/ "drop_check" \in ran[r])
    /\ ran' = [ran EXCEPT ![r] = {}]
    /\ got' = [got EXCEPT ![r] = NoCandles]
    /\ decision' = [decision EXCEPT ![r] = Null]

Start(r) ==
    /\ at[r] = 0
    /\ starts < MaxStarts
    /\ starts' = starts + 1
    /\ at' = [at EXCEPT ![r] = 1]
    /\ UNCHANGED <<now, candles, ledger, ran, memory>>

\* fetch_klines: the latest ones, the open minute's as it stands.
Fetch(r) ==
    /\ Comes(r, "fetch")
    /\ \E p \in Prices :
          got' = [got EXCEPT ![r] = [m \in Minutes |->
                     CASE m = now -> p
                       [] m < now /\ m > now - KlineLimit -> Close[m]
                       [] OTHER -> Null]]
    /\ at' = [at EXCEPT ![r] = @ + 1]
    /\ UNCHANGED <<now, starts, candles, ledger, ran, decision>>

\* upsert_klines
Store(r) ==
    /\ Comes(r, "store")
    /\ candles' = [m \in Minutes |-> IF got[r][m] = Null THEN candles[m] ELSE got[r][m]]
    /\ Advance(r)
    /\ UNCHANGED <<now, starts, ledger, ran>>

\* Faulty load: it waits for a second candle.
LoadWaiting(r) ==
    /\ Comes(r, "load")
    /\ Cardinality(Stored) >= 2
    /\ decision' = [decision EXCEPT ![r] =
                       Decide(Latest(Stored \ {Latest(Stored)}), Latest(Stored))]
    /\ at' = [at EXCEPT ![r] = @ + 1]
    /\ UNCHANGED <<now, starts, candles, ledger, ran, got>>

\* load_latest_two_binance_candles, which raises when there are not two, and the
\* decision built from them.
Load(r) ==
    /\ Comes(r, "load")
    /\ IF Cardinality(Stored) < 2
       THEN Abort(r)
       ELSE /\ decision' = [decision EXCEPT ![r] =
                               Decide(Latest(Stored \ {Latest(Stored)}), Latest(Stored))]
            /\ at' = [at EXCEPT ![r] = @ + 1]
            /\ UNCHANGED <<check, ran, got>>
    /\ UNCHANGED <<now, starts, candles, rows>>

\* A statement of a transaction gets its locks and runs.  The CHECK goes and comes
\* at once: only the lock on orders keeps the others from a table without it.
Execute(r) ==
    /\ at[r] # 0
    /\ Program(r)[at[r]] \notin {"fetch", "store", "load", "commit"}
    /\ ~Blocked(r)
    /\ ran' = [ran EXCEPT ![r] = @ \cup {Program(r)[at[r]]}]
    /\ check' = IF Program(r)[at[r]] \in {"drop_check", "add_check"}
                THEN Comes(r, "add_check") ELSE check
    /\ Advance(r)
    /\ UNCHANGED <<now, starts, candles, rows>>

\* Faulty key: the minute of the clock, not of the decision.
RecordedAtNow(r, table, statement) ==
    IF statement \in ran[r] THEN [table EXCEPT ![now] = decision[r]] ELSE table

\* The row of the decision's minute, in the tables whose statement has run.
Recorded(r, table, statement) ==
    IF statement \in ran[r] THEN [table EXCEPT ![decision[r].minute] = decision[r]] ELSE table

\* The end of a `with connect()` block.  The probes change nothing: their
\* statements are rejected, or rolled back.
Commit(r) ==
    /\ Comes(r, "commit")
    /\ order' = Recorded(r, order, "order")
    /\ fill' = Recorded(r, fill, "fill")
    /\ entries' = Recorded(r, entries, "entries")
    /\ position' = Recorded(r, position, "position")
    /\ deposit' = IF "deposit" \in ran[r] THEN decision[r].minute ELSE deposit
    /\ ran' = [ran EXCEPT ![r] = {}]
    /\ Advance(r)
    /\ UNCHANGED <<now, starts, candles, check>>

\* PostgreSQL finds the circle and aborts one of the transactions in it.
Victim(r) ==
    /\ Deadlocked(r)
    /\ Abort(r)
    /\ UNCHANGED <<now, starts, candles, rows>>

Stop(r) ==
    /\ at[r] # 0
    /\ Abort(r)
    /\ UNCHANGED <<now, starts, candles, rows>>

Tick ==
    /\ now + 1 \in Minutes
    /\ now' = now + 1
    /\ UNCHANGED <<starts, candles, ledger, at, ran, memory>>

-----------------------------------------------------------------------------
Init ==
    /\ now = FirstNow /\ starts = 0 /\ candles = NoCandles
    /\ order = NoCandles /\ fill = NoCandles /\ entries = NoCandles /\ position = NoCandles
    /\ deposit = Null /\ check = TRUE
    /\ at = [r \in Runs |-> 0]
    /\ ran = [r \in Runs |-> {}]
    /\ got = [r \in Runs |-> NoCandles]
    /\ decision = [r \in Runs |-> Null]

\* What a process does, or PostgreSQL to it, without anything else happening.
Proceed(r) == Fetch(r) \/ Store(r) \/ Load(r) \/ Execute(r) \/ Commit(r) \/ Victim(r)

Next == (\E r \in Runs : Start(r) \/ Proceed(r) \/ Stop(r)) \/ Tick

Spec == Init /\ [][Next]_vars

\* The operating system runs some process that can go on, and PostgreSQL looks for
\* deadlocks.
FairSpec == Spec /\ WF_vars(\E r \in Runs : Proceed(r))

-----------------------------------------------------------------------------
(* Properties.                                                             *)

Decision == [minute : Minutes, price : Nat \ {0}, side : {"buy", "sell"}]

TypeOK ==
    /\ now \in Minutes /\ starts \in 0 .. MaxStarts
    /\ candles \in [Minutes -> Nat \cup {Null}]
    /\ \A table \in {order, fill, entries, position} :
          table \in [Minutes -> Decision \cup {Null}]
          /\ \A m \in Minutes : table[m] # Null => table[m].minute = m
    /\ deposit \in Minutes \cup {Null} /\ check \in BOOLEAN
    /\ \A r \in Runs : /\ at[r] \in 0 .. Len(Program(r))
                       /\ at[r] = 0 => ran[r] = {}
    /\ decision \in [Runs -> Decision \cup {Null}]

\* Order, fill, ledger entries and position of a minute always tell the same
\* decision, whichever runs decided that minute, from whatever close of the
\* open candle, in whatever order, and wherever they died.
TracesOfOneDecision ==
    \A m \in Minutes :
        /\ fill[m] = order[m] /\ entries[m] = order[m] /\ position[m] = order[m]
        /\ order[m] # Null => deposit # Null

\* Processes wait for each other in one way only: a ledger smoke that has
\* indexed the ledger's tables comes to the instrument a paper trace has seeded,
\* in the transaction that comes to its deposit.  Paper traces among themselves
\* never do, nor ledger smokes.
OneDeadlock ==
    \A S \in SUBSET Runs : Circle(S) =>
        \E l \in Ledgers, p \in Papers :
            /\ S = {l, p}
            /\ Comes(l, "fixture_instruments")
            /\ Comes(p, "deposit")

\* A probe of the constraints that does not have to wait meets the CHECK on orders,
\* although every start of a ledger smoke or a paper trace drops it in one statement
\* and adds it in the next, and may die between the two.
ProbesMeetTheCheck ==
    \A r \in Runs : Comes(r, "probe") /\ ~Blocked(r) => check

\* What was started comes to its end, in spite of locks and deadlocks: sooner or
\* later, the starts being bounded, nothing runs.
RunsEnd == (\E r \in Runs : at[r] # 0) ~> (\A r \in Runs : at[r] = 0)
=============================================================================
