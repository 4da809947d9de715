------------------------ MODULE TradingLedgerProofs -------------------------
(***************************************************************************)
(* The trading ledger, for any number of paper traces and ledger smokes,   *)
(* any candles and any clock.                                              *)
(*                                                                         *)
(* An open transaction has run the statements of its program since the     *)
(* last commit (RanFits), so its locks follow from the statement it comes  *)
(* to, and no two transactions hold locks that conflict (HeldApart).  From *)
(* the two follows who can wait for whom, and that nobody but the one that *)
(* replaces the CHECK on orders comes to the table without it (CheckFits). *)
(***************************************************************************)
EXTENDS TradingLedger, NaturalBounds, FiniteSetTheorems, TLAPS

USE CloseAssumption, PricesAssumption, NowAssumption, LimitAssumption, StartsAssumption,
    RunsAssumption, NullAssumption
    DEF CloseAssumption, PricesAssumption, NowAssumption, LimitAssumption, StartsAssumption,
    RunsAssumption, NullAssumption

Schema0 == {"drop_check"}
Schema1 == Schema0 \cup {"add_check"}
Schema2 == Schema1 \cup {"index_fills"}
Schema3 == Schema2 \cup {"index_entries"}
Schema4 == Schema3 \cup {"index_positions"}

\* What the open transaction of a paper trace has run, by the place it is at.
PaperRan(r) ==
    /\ at[r] \in {0, 1, 2, 3, 4, 10, 14} => ran[r] = {}
    /\ at[r] = 5 => ran[r] = Schema0
    /\ at[r] = 6 => ran[r] = Schema1
    /\ at[r] = 7 => ran[r] = Schema2
    /\ at[r] = 8 => ran[r] = Schema3
    /\ at[r] = 9 => ran[r] = Schema4
    /\ at[r] = 11 => ran[r] = {"account"}
    /\ at[r] = 12 => ran[r] = {"account", "instrument"}
    /\ at[r] = 13 => ran[r] = {"account", "instrument", "deposit"}
    /\ at[r] = 15 => ran[r] = {"order"}
    /\ at[r] = 16 => ran[r] = {"order", "fill"}
    /\ at[r] = 17 => ran[r] = {"order", "fill", "entries"}
    /\ at[r] = 18 => ran[r] = {"order", "fill", "entries", "position"}

LedgerRan(r) ==
    /\ at[r] \in {0, 1, 9} => ran[r] = {}
    /\ at[r] = 2 => ran[r] = Schema0
    /\ at[r] = 3 => ran[r] = Schema1
    /\ at[r] = 4 => ran[r] = Schema2
    /\ at[r] = 5 => ran[r] = Schema3
    /\ at[r] = 6 => ran[r] = Schema4
    /\ at[r] = 7 => ran[r] = Schema4 \cup {"fixture_instruments"}
    /\ at[r] = 8 => ran[r] = Schema4 \cup {"fixture_instruments", "fixture_ledger"}
    /\ at[r] = 10 => ran[r] = {"probe"}

RanFits == (\A r \in Papers : PaperRan(r)) /\ (\A r \in Ledgers : LedgerRan(r))

Prized == [Minutes -> (Nat \ {0}) \cup {Null}]

MemoryFits ==
    /\ DOMAIN at = Runs /\ DOMAIN ran = Runs
    /\ candles \in Prized
    /\ got \in [Runs -> Prized]
    /\ \A r \in Papers : at[r] > 3 => decision[r] \in Decision

\* A paper trace records its decision after it has seeded its deposit.
DepositFirst == \A r \in Papers : at[r] > 13 => deposit # Null

\* r has dropped the CHECK on orders and not added it yet.
Between(r) == "drop_check" \in ran[r] /\ "add_check" \notin ran[r]

\* While there is no CHECK somebody is between the two statements.
CheckFits == check \/ \E r \in Runs : Between(r)

HeldApart ==
    \A r, q \in Runs : r # q => \A k \in Held(r), l \in Held(q) : ~Conflicting(k, l)

LedgerInv ==
    /\ TypeOK /\ MemoryFits /\ RanFits
    /\ CheckFits
    /\ DepositFirst /\ TracesOfOneDecision
    /\ HeldApart

-----------------------------------------------------------------------------
(* The programs.                                                           *)

\* The paper trace, statement by statement.
LEMMA PaperIs ==
    /\ Len(PaperProgram) = 18
    /\ PaperProgram[1] = "fetch" /\ PaperProgram[2] = "store" /\ PaperProgram[3] = "load"
    /\ PaperProgram[4] = "drop_check" /\ PaperProgram[5] = "add_check" /\ PaperProgram[6] = "index_fills"
    /\ PaperProgram[7] = "index_entries" /\ PaperProgram[8] = "index_positions"
    /\ PaperProgram[9] = "commit"
    /\ PaperProgram[10] = "account" /\ PaperProgram[11] = "instrument"
    /\ PaperProgram[12] = "deposit" /\ PaperProgram[13] = "commit"
    /\ PaperProgram[14] = "order" /\ PaperProgram[15] = "fill" /\ PaperProgram[16] = "entries"
    /\ PaperProgram[17] = "position" /\ PaperProgram[18] = "commit"
BY DEF PaperProgram, SchemaStatements

\* The ledger smoke, statement by statement.
LEMMA LedgerIs ==
    /\ Len(LedgerProgram) = 10
    /\ LedgerProgram[1] = "drop_check" /\ LedgerProgram[2] = "add_check" /\ LedgerProgram[3] = "index_fills"
    /\ LedgerProgram[4] = "index_entries" /\ LedgerProgram[5] = "index_positions"
    /\ LedgerProgram[6] = "fixture_instruments" /\ LedgerProgram[7] = "fixture_ledger"
    /\ LedgerProgram[8] = "commit" /\ LedgerProgram[9] = "probe" /\ LedgerProgram[10] = "commit"
BY DEF LedgerProgram, SchemaStatements, FixtureStatements

\* Where a process may be, and what it comes to there.
LEMMA PlacesAre ==
    ASSUME TypeOK, NEW r \in Runs
    PROVE  /\ r \in Papers => Program(r) = PaperProgram /\ at[r] \in 0 .. 18 /\ Len(Program(r)) = 18
           /\ r \in Ledgers => Program(r) = LedgerProgram /\ at[r] \in 0 .. 10 /\ Len(Program(r)) = 10
           /\ at[r] \in Nat
<1>1. at[r] \in 0 .. Len(Program(r))
  BY DEF TypeOK
<1>2. CASE r \in Papers
  <2>1. Program(r) = PaperProgram /\ r \notin Ledgers
    BY <1>2 DEF Program
  <2>2. Len(PaperProgram) = 18
    BY PaperIs
  <2> QED
    BY <1>1, <1>2, <2>1, <2>2
<1>3. CASE r \in Ledgers
  <2>1. Program(r) = LedgerProgram /\ r \notin Papers
    BY <1>3 DEF Program
  <2> QED
    BY <1>1, <1>3, <2>1, LedgerIs
<1> QED
  BY <1>2, <1>3 DEF Runs

\* Only a paper trace fetches, stores, loads or writes a decision; every program
\* ends with a commit.
LEMMA ComesAt ==
    ASSUME TypeOK, NEW r \in Runs, at[r] # 0
    PROVE  /\ Comes(r, "fetch") => r \in Papers /\ at[r] = 1
           /\ Comes(r, "store") => r \in Papers /\ at[r] = 2
           /\ Comes(r, "load") => r \in Papers /\ at[r] = 3
           /\ Comes(r, "commit") => \/ r \in Papers /\ at[r] \in {9, 13, 18}
                                    \/ r \in Ledgers /\ at[r] \in {8, 10}
           /\ at[r] = Len(Program(r)) => Comes(r, "commit")
<1>1. CASE r \in Papers
  <2>1. at[r] \in {1, 2, 3, 4, 5, 6, 7, 8, 9, 10, 11, 12, 13, 14, 15, 16, 17, 18}
    BY <1>1, PlacesAre
  <2>2. Program(r) = PaperProgram /\ Len(Program(r)) = 18
    BY <1>1, PlacesAre
  <2>3. CASE at[r] \in {1, 2, 3, 4, 5, 6, 7, 8, 9}
    BY <1>1, <2>2, <2>3, PaperIs DEF Comes
  <2>4. CASE at[r] \in {10, 11, 12, 13, 14, 15, 16, 17, 18}
    BY <1>1, <2>2, <2>4, PaperIs DEF Comes
  <2> QED
    BY <2>1, <2>3, <2>4
<1>2. CASE r \in Ledgers
  <2>1. at[r] \in {1, 2, 3, 4, 5, 6, 7, 8, 9, 10}
    BY <1>2, PlacesAre
  <2>2. Program(r) = LedgerProgram /\ Len(Program(r)) = 10
    BY <1>2, PlacesAre
  <2> QED
    BY <1>2, <2>1, <2>2, LedgerIs DEF Comes
<1> QED
  BY <1>1, <1>2 DEF Runs

-----------------------------------------------------------------------------
(* The types, and the statements of an open transaction.                   *)

\* How a step moves its process.
LEMMA StepMoves ==
    ASSUME TypeOK, MemoryFits, RanFits, NEW r \in Runs, Start(r) \/ Proceed(r) \/ Stop(r)
    PROVE  /\ \A q \in Runs \ {r} : /\ at'[q] = at[q] /\ ran'[q] = ran[q]
                                     /\ got'[q] = got[q] /\ decision'[q] = decision[q]
           /\ \/ at'[r] = 0 /\ ran'[r] = {}
              \/ at[r] = 0 /\ at'[r] = 1 /\ ran' = ran
              \/ /\ Fetch(r) \/ Store(r) \/ Load(r)
                 /\ at'[r] = at[r] + 1 /\ ran' = ran
              \/ Commit(r) /\ at'[r] = at[r] + 1 /\ ran'[r] = {} /\ UNCHANGED memory
              \/ /\ Execute(r) /\ at'[r] = at[r] + 1 /\ UNCHANGED memory
                 /\ ran'[r] = ran[r] \cup {Program(r)[at[r]]}
<1>1. /\ DOMAIN at = Runs /\ DOMAIN ran = Runs /\ DOMAIN got = Runs /\ DOMAIN decision = Runs
      /\ at[r] \in Nat /\ at[r] <= Len(Program(r))
  BY PlacesAre DEF TypeOK, MemoryFits
<1>2. CASE Start(r)
  BY <1>1, <1>2 DEF Start, memory
<1>3. CASE Abort(r)
  BY <1>1, <1>3 DEF Abort
<1>4. CASE Fetch(r)
  BY <1>1, <1>4 DEF Fetch
<1>5. CASE Store(r)
  <2>1. at[r] # Len(Program(r))
    BY <1>5, ComesAt, PlacesAre DEF Store, Comes
  <2> QED
    BY <1>1, <1>5, <2>1 DEF Store, Advance, memory
<1>6. CASE Load(r)
  BY <1>1, <1>3, <1>6 DEF Load
<1>7. CASE Execute(r)
  <2>1. at[r] # Len(Program(r))
    BY <1>7, ComesAt DEF Execute, Comes
  <2> QED
    BY <1>1, <1>7, <2>1 DEF Execute, Advance, memory
<1>8. CASE Commit(r)
  <2>1. CASE at[r] = Len(Program(r))
    BY <1>1, <1>8, <2>1 DEF Commit, Advance
  <2>2. CASE at[r] # Len(Program(r))
    BY <1>1, <1>8, <2>2 DEF Commit, Advance, memory
  <2> QED
    BY <2>1, <2>2
<1> QED
  BY <1>2, <1>3, <1>4, <1>5, <1>6, <1>7, <1>8 DEF Proceed, Victim, Stop

\* An open transaction has run the statements since the last commit.
LEMMA RanStep ==
    ASSUME TypeOK, MemoryFits, RanFits, NEW r \in Runs, Start(r) \/ Proceed(r) \/ Stop(r)
    PROVE  RanFits'
<1> DEFINE Fits(q) == (q \in Papers => PaperRan(q)') /\ (q \in Ledgers => LedgerRan(q)')
<1>1. ASSUME NEW q \in Runs, at'[q] = at[q], ran'[q] = ran[q] PROVE Fits(q)
  BY <1>1 DEF RanFits, PaperRan, LedgerRan
<1>2. ASSUME at'[r] = 0, ran'[r] = {} PROVE Fits(r)
  BY <1>2 DEF PaperRan, LedgerRan
<1>3. ASSUME at[r] = 0, at'[r] = 1, ran' = ran PROVE Fits(r)
  BY <1>3 DEF RanFits, PaperRan, LedgerRan
<1>4. ASSUME Fetch(r) \/ Store(r) \/ Load(r), at'[r] = at[r] + 1, ran' = ran PROVE Fits(r)
  <2>1. r \in Papers /\ r \notin Ledgers /\ at[r] \in {1, 2, 3}
    BY <1>4, ComesAt DEF Fetch, Store, Load, Comes
  <2>2. ran'[r] = {} /\ at'[r] \in {2, 3, 4}
    BY <1>4, <2>1 DEF RanFits, PaperRan
  <2>3. PaperRan(r)'
    BY <2>2 DEF PaperRan
  <2> QED
    BY <2>1, <2>3
<1>5. ASSUME Commit(r), at'[r] = at[r] + 1, ran'[r] = {} PROVE Fits(r)
  <2>1. \/ r \in Papers /\ at[r] \in {9, 13, 18}
        \/ r \in Ledgers /\ at[r] \in {8, 10}
    BY <1>5, ComesAt DEF Commit, Comes
  <2>2. at[r] # Len(Program(r))
    <3>1. DOMAIN at = Runs /\ at[r] \in Nat
      BY PlacesAre DEF MemoryFits
    <3>2. SUFFICES ASSUME at[r] = Len(Program(r)) PROVE FALSE
      OBVIOUS
    <3>3. at'[r] = 0
      BY <1>5, <3>1, <3>2 DEF Commit, Advance
    <3> QED
      BY <1>5, <3>1, <3>3
  <2>3. \/ r \in Papers /\ at'[r] \in {10, 14}
        \/ r \in Ledgers /\ at'[r] = 9
    <3>1. (r \in Papers => Len(Program(r)) = 18) /\ (r \in Ledgers => Len(Program(r)) = 10)
      BY PlacesAre
    <3> QED
      <4>1. \/ r \in Papers /\ at[r] \in {9, 13}
            \/ r \in Ledgers /\ at[r] = 8
        BY <2>1, <2>2, <3>1
      <4>2. at'[r] = at[r] + 1
        BY <1>5
      <4> QED
        BY <4>1, <4>2
  <2> QED
    BY <1>5, <2>3 DEF PaperRan, LedgerRan
<1>6. ASSUME Execute(r), at'[r] = at[r] + 1, ran'[r] = ran[r] \cup {Program(r)[at[r]]}
      PROVE  Fits(r)
  <2>1. CASE r \in Papers
    <3>1. Program(r) = PaperProgram /\ at[r] \in 0 .. 18 /\ r \notin Ledgers
      BY <2>1, PlacesAre
    <3>2. at[r] \in {4, 5, 6, 7, 8, 10, 11, 12, 14, 15, 16, 17}
      <4>1. at[r] \notin {0, 1, 2, 3, 9, 13, 18}
        BY <1>6, <3>1, PaperIs DEF Execute
      <4> QED
        BY <3>1, <4>1
    <3>3. PaperRan(r)
      BY <2>1 DEF RanFits
    <3>4. ran'[r] = ran[r] \cup {PaperProgram[at[r]]}
      BY <1>6, <3>1
    <3>5. SUFFICES PaperRan(r)'
      BY <3>1
    <3>6. CASE at[r] = 4
      <4>1. at'[r] = 5 /\ ran'[r] = ran[r] \cup {"drop_check"}
        BY <1>6, <3>4, <3>6, PaperIs
      <4> QED
        BY <3>3, <3>6, <4>1 DEF PaperRan, Schema0
    <3>17. CASE at[r] = 5
      <4>1. at'[r] = 6 /\ ran'[r] = ran[r] \cup {"add_check"}
        BY <1>6, <3>4, <3>17, PaperIs
      <4> QED
        BY <3>3, <3>17, <4>1 DEF PaperRan, Schema0, Schema1
    <3>7. CASE at[r] = 6
      <4>1. at'[r] = 7 /\ ran'[r] = ran[r] \cup {"index_fills"}
        BY <1>6, <3>4, <3>7, PaperIs
      <4> QED
        BY <3>3, <3>7, <4>1 DEF PaperRan, Schema0, Schema1, Schema2, Schema3, Schema4
    <3>8. CASE at[r] = 7
      <4>1. at'[r] = 8 /\ ran'[r] = ran[r] \cup {"index_entries"}
        BY <1>6, <3>4, <3>8, PaperIs
      <4> QED
        BY <3>3, <3>8, <4>1 DEF PaperRan, Schema0, Schema1, Schema2, Schema3, Schema4
    <3>9. CASE at[r] = 8
      <4>1. at'[r] = 9 /\ ran'[r] = ran[r] \cup {"index_positions"}
        BY <1>6, <3>4, <3>9, PaperIs
      <4> QED
        BY <3>3, <3>9, <4>1 DEF PaperRan, Schema0, Schema1, Schema2, Schema3, Schema4
    <3>10. CASE at[r] = 10
      <4>1. at'[r] = 11 /\ ran'[r] = ran[r] \cup {"account"}
        BY <1>6, <3>4, <3>10, PaperIs
      <4> QED
        BY <3>3, <3>10, <4>1 DEF PaperRan, Schema0, Schema1, Schema2, Schema3, Schema4
    <3>11. CASE at[r] = 11
      <4>1. at'[r] = 12 /\ ran'[r] = ran[r] \cup {"instrument"}
        BY <1>6, <3>4, <3>11, PaperIs
      <4> QED
        BY <3>3, <3>11, <4>1 DEF PaperRan, Schema0, Schema1, Schema2, Schema3, Schema4
    <3>12. CASE at[r] = 12
      <4>1. at'[r] = 13 /\ ran'[r] = ran[r] \cup {"deposit"}
        <5>1. at'[r] = 13
          BY <1>6, <3>12
        <5>2. ran'[r] = ran[r] \cup {"deposit"}
          BY <3>4, <3>12, PaperIs
        <5> QED
          BY <5>1, <5>2
      <4>2. ran[r] = {"account", "instrument"}
        BY <3>3, <3>12 DEF PaperRan
      <4>3. ran'[r] = {"account", "instrument", "deposit"}
        BY <4>1, <4>2
      <4> QED
        BY <4>1, <4>3 DEF PaperRan
    <3>13. CASE at[r] = 14
      <4>1. at'[r] = 15 /\ ran'[r] = ran[r] \cup {"order"}
        BY <1>6, <3>4, <3>13, PaperIs
      <4> QED
        BY <3>3, <3>13, <4>1 DEF PaperRan, Schema0, Schema1, Schema2, Schema3, Schema4
    <3>14. CASE at[r] = 15
      <4>1. at'[r] = 16 /\ ran'[r] = ran[r] \cup {"fill"}
        BY <1>6, <3>4, <3>14, PaperIs
      <4> QED
        BY <3>3, <3>14, <4>1 DEF PaperRan, Schema0, Schema1, Schema2, Schema3, Schema4
    <3>15. CASE at[r] = 16
      <4>1. at'[r] = 17 /\ ran'[r] = ran[r] \cup {"entries"}
        BY <1>6, <3>4, <3>15, PaperIs
      <4> QED
        BY <3>3, <3>15, <4>1 DEF PaperRan, Schema0, Schema1, Schema2, Schema3, Schema4
    <3>16. CASE at[r] = 17
      <4>1. at'[r] = 18 /\ ran'[r] = ran[r] \cup {"position"}
        BY <1>6, <3>4, <3>16, PaperIs
      <4> QED
        BY <3>3, <3>16, <4>1 DEF PaperRan, Schema0, Schema1, Schema2, Schema3, Schema4
    <3> QED
      BY <3>2, <3>6, <3>7, <3>8, <3>9, <3>10, <3>11, <3>12, <3>13, <3>14, <3>15, <3>16, <3>17
  <2>2. CASE r \in Ledgers
    <3>1. Program(r) = LedgerProgram /\ at[r] \in 0 .. 10 /\ r \notin Papers
      BY <2>2, PlacesAre
    <3>2. at[r] \in {1, 2, 3, 4, 5, 6, 7, 9}
      <4>1. at[r] \notin {0, 8, 10}
        BY <1>6, <3>1, LedgerIs DEF Execute
      <4> QED
        BY <3>1, <4>1
    <3>3. LedgerRan(r)
      BY <2>2 DEF RanFits
    <3>4. ran'[r] = ran[r] \cup {LedgerProgram[at[r]]}
      BY <1>6, <3>1
    <3>5. SUFFICES LedgerRan(r)'
      BY <3>1
    <3>6. CASE at[r] = 1
      <4>1. at'[r] = 2 /\ ran'[r] = ran[r] \cup {"drop_check"}
        BY <1>6, <3>4, <3>6, LedgerIs
      <4> QED
        BY <3>3, <3>6, <4>1 DEF LedgerRan, Schema0
    <3>17. CASE at[r] = 2
      <4>1. at'[r] = 3 /\ ran'[r] = ran[r] \cup {"add_check"}
        BY <1>6, <3>4, <3>17, LedgerIs
      <4> QED
        BY <3>3, <3>17, <4>1 DEF LedgerRan, Schema0, Schema1
    <3>7. CASE at[r] = 3
      <4>1. at'[r] = 4 /\ ran'[r] = ran[r] \cup {"index_fills"}
        BY <1>6, <3>4, <3>7, LedgerIs
      <4> QED
        BY <3>3, <3>7, <4>1 DEF LedgerRan, Schema0, Schema1, Schema2, Schema3, Schema4
    <3>8. CASE at[r] = 4
      <4>1. at'[r] = 5 /\ ran'[r] = ran[r] \cup {"index_entries"}
        BY <1>6, <3>4, <3>8, LedgerIs
      <4> QED
        BY <3>3, <3>8, <4>1 DEF LedgerRan, Schema0, Schema1, Schema2, Schema3, Schema4
    <3>9. CASE at[r] = 5
      <4>1. at'[r] = 6 /\ ran'[r] = ran[r] \cup {"index_positions"}
        BY <1>6, <3>4, <3>9, LedgerIs
      <4> QED
        BY <3>3, <3>9, <4>1 DEF LedgerRan, Schema0, Schema1, Schema2, Schema3, Schema4
    <3>10. CASE at[r] = 6
      <4>1. at'[r] = 7 /\ ran'[r] = ran[r] \cup {"fixture_instruments"}
        BY <1>6, <3>4, <3>10, LedgerIs
      <4> QED
        BY <3>3, <3>10, <4>1 DEF LedgerRan, Schema0, Schema1, Schema2, Schema3, Schema4
    <3>11. CASE at[r] = 7
      <4>1. at'[r] = 8 /\ ran'[r] = ran[r] \cup {"fixture_ledger"}
        BY <1>6, <3>4, <3>11, LedgerIs
      <4> QED
        BY <3>3, <3>11, <4>1 DEF LedgerRan, Schema0, Schema1, Schema2, Schema3, Schema4
    <3>12. CASE at[r] = 9
      <4>1. at'[r] = 10 /\ ran'[r] = ran[r] \cup {"probe"}
        BY <1>6, <3>4, <3>12, LedgerIs
      <4> QED
        BY <3>3, <3>12, <4>1 DEF LedgerRan, Schema0, Schema1, Schema2, Schema3, Schema4
    <3> QED
      BY <3>2, <3>6, <3>7, <3>8, <3>9, <3>10, <3>11, <3>12, <3>17
  <2> QED
    BY <2>1, <2>2 DEF Runs
<1>7. \A q \in Runs : Fits(q)
  <2> HIDE DEF Fits
  <2> QED
    BY <1>1, <1>2, <1>3, <1>4, <1>5, <1>6, StepMoves
<1> QED
  BY <1>7 DEF RanFits, Runs

\* Only a paper trace that has loaded its decision writes the ledger's rows.
LEMMA WritersDecide ==
    ASSUME TypeOK, RanFits, NEW r \in Runs
    PROVE  /\ {"account", "deposit", "order", "fill", "entries", "position"} \cap ran[r] # {} =>
                  r \in Papers /\ at[r] \in {11, 12, 13, 15, 16, 17, 18}
           /\ "deposit" \in ran[r] => at[r] = 13
           /\ {"order", "fill", "entries", "position"} \cap ran[r] # {} =>
                  at[r] \in {15, 16, 17, 18}
<1>1. CASE r \in Papers
  <2>1. PaperRan(r)
    BY <1>1 DEF RanFits
  <2>2. at[r] \in {0, 1, 2, 3, 4, 10, 14} \cup {5, 6, 7, 8, 9, 11, 12, 13, 15, 16, 17, 18}
    BY <1>1, PlacesAre
  <2>3. CASE at[r] \in {0, 1, 2, 3, 4, 10, 14}
    BY <2>1, <2>3 DEF PaperRan
  <2>4. CASE at[r] \in {5, 6, 7, 8, 9}
    BY <2>1, <2>4 DEF PaperRan, Schema0, Schema1, Schema2, Schema3, Schema4
  <2>5. CASE at[r] \in {11, 12, 13}
    BY <1>1, <2>1, <2>5 DEF PaperRan
  <2>6. CASE at[r] \in {15, 16, 17, 18}
    BY <1>1, <2>1, <2>6 DEF PaperRan
  <2> QED
    BY <2>2, <2>3, <2>4, <2>5, <2>6
<1>2. CASE r \in Ledgers
  <2>1. LedgerRan(r)
    BY <1>2 DEF RanFits
  <2>2. at[r] \in {0, 1, 2, 3, 4, 5, 6, 7, 8, 9, 10}
    BY <1>2, PlacesAre
  <2> QED
    BY <2>1, <2>2 DEF LedgerRan, Schema0, Schema1, Schema2, Schema3, Schema4
<1> QED
  BY <1>1, <1>2 DEF Runs

\* A row is recorded at the minute of its decision.
LEMMA RecordedRow ==
    ASSUME NEW r, NEW s, NEW STATE table, table \in [Minutes -> Decision \cup {Null}],
           \A m \in Minutes : table[m] # Null => table[m].minute = m,
           s \in ran[r] => decision[r] \in Decision
    PROVE  /\ Recorded(r, table, s) \in [Minutes -> Decision \cup {Null}]
           /\ \A m \in Minutes : Recorded(r, table, s)[m] # Null =>
                  Recorded(r, table, s)[m].minute = m
<1>1. CASE s \notin ran[r]
  BY <1>1 DEF Recorded
<1>2. CASE s \in ran[r]
  <2>1. decision[r] \in Decision /\ decision[r].minute \in Minutes
    BY <1>2 DEF Decision
  <2>2. Recorded(r, table, s) = [table EXCEPT ![decision[r].minute] = decision[r]]
    BY <1>2 DEF Recorded
  <2> QED
    BY <2>1, <2>2
<1> QED
  BY <1>1, <1>2

\* The latest of some stored minutes is one of them.
LEMMA LatestIsOne ==
    ASSUME NEW S \in SUBSET Minutes, S # {}
    PROVE  Latest(S) \in S /\ \A n \in S : n <= Latest(S)
<1>1. Len(Close) \in Nat /\ Minutes = 1 .. Len(Close)
  BY DEF Minutes
<1>2. S \in SUBSET (1 .. Len(Close))
  BY <1>1
<1>3. \E m \in S : \A n \in S : n <= m
  BY <1>1, <1>2, GreatestInRange
<1> QED
  BY <1>3 DEF Latest

\* The minutes stored are finitely many.
LEMMA StoredFinite ==
    IsFiniteSet(Stored) /\ Cardinality(Stored) \in Nat
<1>1. Stored \in SUBSET (1 .. Len(Close))
  BY DEF Stored, Minutes
<1>2. Len(Close) \in Int /\ 1 \in Int
  OBVIOUS
<1>3. IsFiniteSet(1 .. Len(Close))
  BY <1>2, FS_Interval
<1>4. IsFiniteSet(Stored)
  BY <1>1, <1>3, FS_Subset
<1> QED
  BY <1>4, FS_CardinalityType

\* A decision is of a minute whose candle is stored.
LEMMA DecisionIsWhole ==
    ASSUME candles \in Prized, Cardinality(Stored) >= 2, NEW previous
    PROVE  Decide(previous, Latest(Stored)) \in Decision
<1>1. Stored \in SUBSET Minutes
  BY DEF Stored
<1>2. Stored # {}
  <2>1. SUFFICES ASSUME Stored = {} PROVE FALSE
    OBVIOUS
  <2>2. Cardinality(Stored) = 0
    BY <2>1, FS_EmptySet
  <2> QED
    BY <2>2
<1>3. Latest(Stored) \in Stored
  BY <1>1, <1>2, LatestIsOne
<1>4. Latest(Stored) \in Minutes /\ candles[Latest(Stored)] \in Nat \ {0}
  BY <1>3 DEF Stored, Prized
<1> QED
  BY <1>4 DEF Decide, Decision

\* What the exchange shows of a minute is a price, or nothing.
LEMMA FetchedPrices ==
    ASSUME TypeOK, MemoryFits, NEW r \in Runs, Fetch(r)
    PROVE  got' \in [Runs -> Prized]
<1> DEFINE Shown(p, m) == CASE m = now -> p
                            [] m < now /\ m > now - KlineLimit -> Close[m]
                            [] OTHER -> Null
<1>1. ASSUME NEW p \in Prices, NEW m \in Minutes
      PROVE  Shown(p, m) \in (Nat \ {0}) \cup {Null}
  <2>1. p \in Nat \ {0} /\ Close[m] \in Nat \ {0}
    BY <1>1 DEF Minutes
  <2>2. Shown(p, m) = p \/ Shown(p, m) = Close[m] \/ Shown(p, m) = Null
    <3>1. CASE m = now
      BY <3>1
    <3>2. CASE m # now /\ m < now /\ m > now - KlineLimit
      BY <3>2
    <3>3. CASE m # now /\ ~(m < now /\ m > now - KlineLimit)
      BY <3>3
    <3> QED
      BY <3>1, <3>2, <3>3
  <2> QED
    BY <2>1, <2>2
<1>2. PICK p \in Prices : got' = [got EXCEPT ![r] = [m \in Minutes |-> Shown(p, m)]]
  BY Zenon DEF Fetch
<1> HIDE DEF Shown
<1>3. [m \in Minutes |-> Shown(p, m)] \in Prized
  BY <1>1 DEF Prized
<1> QED
  BY <1>2, <1>3 DEF MemoryFits

\* Every candle stored or fetched has a price.
LEMMA CandlesStep ==
    ASSUME TypeOK, MemoryFits, RanFits, NEW r \in Runs, Start(r) \/ Proceed(r) \/ Stop(r)
    PROVE  candles' \in Prized /\ got' \in [Runs -> Prized]
<1>1. candles \in Prized /\ got \in [Runs -> Prized] /\ NoCandles \in Prized
  BY DEF MemoryFits, Prized, NoCandles
<1>2. got[r] \in Prized
  BY <1>1
<1>3. CASE Start(r)
  BY <1>1, <1>3 DEF Start, memory
<1>4. CASE Abort(r) /\ UNCHANGED candles
  BY <1>1, <1>4 DEF Abort
<1>5. CASE Fetch(r)
  BY <1>1, <1>5, FetchedPrices DEF Fetch
<1>6. CASE Store(r)
  <2>1. candles' \in Prized
    BY <1>1, <1>2, <1>6 DEF Store, Prized
  <2>2. got' = got \/ got' = [got EXCEPT ![r] = NoCandles]
    BY <1>6 DEF Store, Advance, memory
  <2> QED
    BY <1>1, <2>1, <2>2
<1>7. CASE Load(r)
  BY <1>1, <1>4, <1>7 DEF Load
<1>8. CASE Execute(r) \/ Commit(r)
  <2>1. candles' = candles
    BY <1>8 DEF Execute, Commit
  <2>2. got' = got \/ got' = [got EXCEPT ![r] = NoCandles]
    BY <1>8 DEF Execute, Commit, Advance, memory
  <2> QED
    BY <1>1, <2>1, <2>2
<1>9. CASE Victim(r) \/ Stop(r)
  BY <1>4, <1>9 DEF Victim, Stop
<1> QED
  BY <1>3, <1>5, <1>6, <1>7, <1>8, <1>9 DEF Proceed

\* A paper trace past its load has a decision.
LEMMA DecidedStep ==
    ASSUME TypeOK, MemoryFits, RanFits, NEW r \in Runs, Start(r) \/ Proceed(r) \/ Stop(r),
           NEW q \in Papers, at'[q] > 3
    PROVE  decision'[q] \in Decision
<1>1. DOMAIN decision = Runs /\ candles \in Prized /\ q \in Runs
  BY DEF TypeOK, MemoryFits, Runs
<1>2. at[q] > 3 => decision[q] \in Decision
  BY DEF MemoryFits
<1>3. CASE q # r
  BY <1>1, <1>2, <1>3, StepMoves
<1>4. CASE q = r /\ (Fetch(r) \/ Store(r)) /\ at'[r] = at[r] + 1
  <2>1. at[r] \in {1, 2}
    BY <1>4, ComesAt DEF Fetch, Store, Comes
  <2> QED
    BY <1>4, <2>1
<1>5. CASE q = r /\ Load(r) /\ at'[r] = at[r] + 1
  <2>1. DOMAIN at = Runs /\ at[r] \in Nat
    BY PlacesAre DEF MemoryFits
  <2>2. ~ (Cardinality(Stored) < 2)
    <3>1. SUFFICES ASSUME Cardinality(Stored) < 2 PROVE FALSE
      OBVIOUS
    <3>2. at'[r] = 0
      BY <1>5, <2>1, <3>1 DEF Load, Abort
    <3> QED
      BY <1>5, <2>1, <3>2
  <2>3. decision' = [decision EXCEPT ![r] = Decide(Latest(Stored \ {Latest(Stored)}), Latest(Stored))]
    BY <1>5, <2>2 DEF Load
  <2>4. Cardinality(Stored) >= 2
    BY <2>2, StoredFinite
  <2> QED
    BY <1>1, <1>5, <2>3, <2>4, DecisionIsWhole
<1>6. CASE q = r /\ (Commit(r) \/ Execute(r)) /\ at'[r] = at[r] + 1 /\ UNCHANGED memory
  <2>1. at[r] \notin {1, 2, 3}
    <3>1. r \in Papers /\ Program(r) = PaperProgram
      BY <1>6, PlacesAre
    <3> QED
      BY <1>6, <3>1, PaperIs DEF Commit, Execute, Comes
  <2>2. at[r] # 0 /\ at[r] \in Nat
    BY <1>6, PlacesAre DEF Commit, Execute, Comes
  <2> QED
    BY <1>2, <1>6, <2>1, <2>2 DEF memory
<1>7. CASE q = r /\ (at'[r] = 0 \/ at'[r] = 1)
  BY <1>7
<1> QED
  BY <1>3, <1>4, <1>5, <1>6, <1>7, StepMoves

\* What processes remember stays what it should be.
LEMMA MemoryStep ==
    ASSUME TypeOK, MemoryFits, RanFits, NEW r \in Runs, Start(r) \/ Proceed(r) \/ Stop(r)
    PROVE  MemoryFits'
<1>1. DOMAIN at = Runs /\ DOMAIN ran = Runs
  BY DEF MemoryFits
<1>2. DOMAIN at' = Runs
  BY <1>1 DEF Start, Proceed, Stop, Fetch, Store, Load, Execute, Commit, Victim, Abort, Advance
<1>3. DOMAIN ran' = Runs
  BY <1>1 DEF Start, Proceed, Stop, Fetch, Store, Load, Execute, Commit, Victim, Abort, Advance
<1>4. candles' \in Prized /\ got' \in [Runs -> Prized]
  BY CandlesStep
<1>5. \A q \in Papers : at'[q] > 3 => decision'[q] \in Decision
  BY DecidedStep
<1> QED
  BY <1>2, <1>3, <1>4, <1>5 DEF MemoryFits, Prized, Decision, Runs, Minutes

\* A table of the ledger holds decisions, each at its minute.
Tabled(table) ==
    /\ table \in [Minutes -> Decision \cup {Null}]
    /\ \A m \in Minutes : table[m] # Null => table[m].minute = m

\* A commit records decisions, and the deposit its minute.
LEMMA CommitTypes ==
    ASSUME TypeOK, MemoryFits, RanFits, NEW r \in Runs, Commit(r)
    PROVE  /\ Tabled(order)' /\ Tabled(fill)' /\ Tabled(entries)' /\ Tabled(position)'
           /\ deposit' \in Minutes \cup {Null}
<1>1. ASSUME NEW s \in {"order", "fill", "entries", "position", "deposit"}, s \in ran[r]
      PROVE  decision[r] \in Decision
  <2>1. {"account", "deposit", "order", "fill", "entries", "position"} \cap ran[r] # {}
    BY <1>1
  <2>2. r \in Papers /\ at[r] \in {11, 12, 13, 15, 16, 17, 18}
    BY <2>1, WritersDecide
  <2> QED
    BY <2>2 DEF MemoryFits
<1>2. Tabled(order) /\ Tabled(fill) /\ Tabled(entries) /\ Tabled(position)
  BY DEF TypeOK, Tabled
<1>3. /\ order' = Recorded(r, order, "order") /\ fill' = Recorded(r, fill, "fill")
      /\ entries' = Recorded(r, entries, "entries")
      /\ position' = Recorded(r, position, "position")
  BY DEF Commit
<1>4. Tabled(order)'
  <2>1. Tabled(Recorded(r, order, "order"))
    BY <1>1, <1>2, RecordedRow DEF Tabled
  <2> QED
    BY <1>3, <2>1 DEF Tabled, Minutes, Decision
<1>5. Tabled(fill)'
  <2>1. Tabled(Recorded(r, fill, "fill"))
    BY <1>1, <1>2, RecordedRow DEF Tabled
  <2> QED
    BY <1>3, <2>1 DEF Tabled, Minutes, Decision
<1>6. Tabled(entries)'
  <2>1. Tabled(Recorded(r, entries, "entries"))
    BY <1>1, <1>2, RecordedRow DEF Tabled
  <2> QED
    BY <1>3, <2>1 DEF Tabled, Minutes, Decision
<1>7. Tabled(position)'
  <2>1. Tabled(Recorded(r, position, "position"))
    BY <1>1, <1>2, RecordedRow DEF Tabled
  <2> QED
    BY <1>3, <2>1 DEF Tabled, Minutes, Decision
<1>8. deposit' \in Minutes \cup {Null}
  <2>1. deposit \in Minutes \cup {Null}
    BY DEF TypeOK
  <2>2. CASE "deposit" \in ran[r]
    BY <1>1, <2>2 DEF Commit, Decision
  <2>3. CASE "deposit" \notin ran[r]
    BY <2>1, <2>3 DEF Commit
  <2> QED
    BY <2>2, <2>3
<1> QED
  BY <1>4, <1>5, <1>6, <1>7, <1>8

\* Only a commit changes the rows of the ledger.
LEMMA RowsStep ==
    ASSUME NEW r \in Runs, Start(r) \/ Proceed(r) \/ Stop(r)
    PROVE  Commit(r) \/ UNCHANGED rows
BY DEF Start, Proceed, Stop, Fetch, Store, Load, Execute, Victim, ledger

\* The places of the programs are the same ones after a step.
LEMMA AtStep ==
    ASSUME TypeOK, MemoryFits, RanFits, NEW r \in Runs, Start(r) \/ Proceed(r) \/ Stop(r),
           NEW q \in Runs
    PROVE  at'[q] \in 0 .. Len(Program(q))
<1>1. DOMAIN at = Runs /\ at[r] \in Nat
  BY PlacesAre DEF MemoryFits
<1>2. at[q] \in 0 .. Len(Program(q)) /\ Len(Program(q)) \in {10, 18}
  BY PlacesAre DEF TypeOK, Runs
<1>3. CASE q # r
  BY <1>2, <1>3, StepMoves
<1>4. CASE q = r /\ (at'[r] = 0 \/ at'[r] = 1)
  <2>1. PICK n \in {10, 18} : Len(Program(q)) = n
    BY <1>2
  <2>2. 0 \in 0 .. n /\ 1 \in 0 .. n
    BY <2>1
  <2> QED
    BY <1>4, <2>1, <2>2
<1>5. CASE q = r /\ at'[r] = at[r] + 1 /\ at[r] # Len(Program(r))
  <2>1. PICK n \in {10, 18} : Len(Program(r)) = n /\ at[r] \in 0 .. n
    BY <1>2, <1>5
  <2>2. at'[r] \in 0 .. n
    BY <1>5, <2>1
  <2> QED
    BY <1>5, <2>1, <2>2
<1>6. ASSUME at'[r] = at[r] + 1, at[r] # 0 PROVE at[r] # Len(Program(r))
  <2>1. SUFFICES ASSUME at[r] = Len(Program(r)) PROVE FALSE
    OBVIOUS
  <2>2. Comes(r, "commit")
    BY <1>6, <2>1, ComesAt
  <2>3. ~Start(r) /\ ~Fetch(r) /\ ~Store(r) /\ ~Load(r) /\ ~Execute(r)
    BY <1>6, <2>2 DEF Start, Fetch, Store, Load, Execute, Comes
  <2>4. Commit(r) \/ Abort(r)
    BY <2>3 DEF Proceed, Victim, Stop
  <2>5. at'[r] = 0
    BY <1>1, <2>1, <2>4 DEF Commit, Advance, Abort
  <2> QED
    BY <1>1, <1>6, <2>5
<1> QED
  BY <1>1, <1>3, <1>4, <1>5, <1>6, StepMoves

\* Every step keeps the types.
LEMMA TypeStep ==
    ASSUME TypeOK, MemoryFits, RanFits, NEW r \in Runs, Start(r) \/ Proceed(r) \/ Stop(r)
    PROVE  TypeOK'
<1>1. now' = now /\ now \in Minutes /\ starts \in 0 .. MaxStarts
  BY DEF TypeOK, Start, Proceed, Stop, Fetch, Store, Load, Execute, Commit, Victim
<1>2. starts' \in 0 .. MaxStarts
  <2>1. starts' = starts \/ (starts < MaxStarts /\ starts' = starts + 1)
    BY DEF Start, Proceed, Stop, Fetch, Store, Load, Execute, Commit, Victim
  <2>2. starts \in Nat /\ starts <= MaxStarts /\ MaxStarts \in Nat
    BY <1>1
  <2> QED
    BY <2>1, <2>2
<1>3. candles' \in [Minutes -> Nat \cup {Null}]
  BY CandlesStep DEF Prized
<1>4. /\ Tabled(order)' /\ Tabled(fill)' /\ Tabled(entries)' /\ Tabled(position)'
      /\ deposit' \in Minutes \cup {Null}
  <2>1. CASE UNCHANGED rows
    BY <2>1 DEF TypeOK, Tabled, rows, Minutes, Decision
  <2> QED
    BY <2>1, CommitTypes, RowsStep
<1>5. check' \in BOOLEAN
  <2>1. check \in BOOLEAN
    BY DEF TypeOK
  <2>2. CASE check' = check
    BY <2>1, <2>2
  <2>3. CASE Abort(r)
    BY <2>1, <2>3 DEF Abort
  <2>4. CASE Execute(r)
    BY <2>1, <2>4 DEF Execute, Comes
  <2> QED
    BY <2>2, <2>3, <2>4 DEF Start, Proceed, Stop, Fetch, Store, Load, Commit, Victim, ledger
<1>6. \A q \in Runs : at'[q] \in 0 .. Len(Program(q))
  BY AtStep
<1>7. \A q \in Runs : at'[q] = 0 => ran'[q] = {}
  BY RanStep DEF RanFits, PaperRan, LedgerRan, Runs
<1>8. decision' \in [Runs -> Decision \cup {Null}]
  <2>1. decision \in [Runs -> Decision \cup {Null}] /\ candles \in Prized
    BY DEF TypeOK, MemoryFits
  <2>2. CASE Load(r) /\ ~ (Cardinality(Stored) < 2)
    <3>1. Cardinality(Stored) >= 2
      BY <2>2, StoredFinite
    <3>2. Decide(Latest(Stored \ {Latest(Stored)}), Latest(Stored)) \in Decision
      BY <2>1, <3>1, DecisionIsWhole
    <3> QED
      BY <2>1, <2>2, <3>2 DEF Load
  <2>3. CASE decision' = decision \/ decision' = [decision EXCEPT ![r] = Null]
    BY <2>1, <2>3
  <2> QED
    BY <2>2, <2>3 DEF Start, Proceed, Stop, Fetch, Store, Load, Execute, Commit, Victim,
                      Abort, Advance, memory
<1>9. \A table \in {order, fill, entries, position}' :
         table \in [Minutes -> Decision \cup {Null}]'
         /\ \A m \in Minutes' : table[m] # Null => table[m].minute = m
  BY <1>4 DEF Tabled
<1> QED
  BY <1>1, <1>2, <1>3, <1>4, <1>5, <1>6, <1>7, <1>8, <1>9 DEF TypeOK, Minutes, Decision, Program, Runs

-----------------------------------------------------------------------------
(* The rows of the ledger.                                                 *)

\* A deposit seeded stays.
LEMMA DepositStays ==
    ASSUME TypeOK, MemoryFits, RanFits, NEW r \in Runs, Start(r) \/ Proceed(r) \/ Stop(r),
           deposit # Null
    PROVE  deposit' # Null
<1>1. CASE UNCHANGED rows
  BY <1>1 DEF rows
<1>2. CASE Commit(r) /\ "deposit" \notin ran[r]
  BY <1>2 DEF Commit
<1>3. CASE Commit(r) /\ "deposit" \in ran[r]
  <2>1. r \in Papers /\ at[r] > 3
    BY <1>3, WritersDecide
  <2>2. decision[r].minute \in Minutes
    BY <2>1 DEF MemoryFits, Decision
  <2>3. decision[r].minute \in Nat
    BY <2>2 DEF Minutes
  <2> QED
    BY <1>3, <2>3 DEF Commit
<1> QED
  BY <1>1, <1>2, <1>3, RowsStep

\* A paper trace goes on to its decision by committing its deposit.
LEMMA DepositStep ==
    ASSUME TypeOK, MemoryFits, RanFits, DepositFirst,
           NEW r \in Runs, Start(r) \/ Proceed(r) \/ Stop(r)
    PROVE  DepositFirst'
<1> SUFFICES ASSUME NEW q \in Papers, at'[q] > 13 PROVE deposit' # Null
  BY DEF DepositFirst
<1>1. CASE at[q] > 13
  BY <1>1, DepositStays DEF DepositFirst
<1>2. CASE ~ (at[q] > 13)
  <2>1. q = r
    BY <1>2, StepMoves DEF Runs
  <2>2. at[r] \in 0 .. 18 /\ at'[r] > 13 /\ ~ (at[r] > 13)
    BY <1>2, <2>1, PlacesAre DEF Runs
  <2>3. at'[r] = at[r] + 1 /\ (Fetch(r) \/ Store(r) \/ Load(r) \/ Commit(r) \/ Execute(r))
    BY <2>2, StepMoves
  <2>4. at[r] = 13
    BY <2>2, <2>3
  <2>5. Program(r) = PaperProgram
    BY <2>1 DEF Program
  <2>6. Commit(r)
    BY <2>3, <2>4, <2>5, PaperIs DEF Fetch, Store, Load, Execute, Comes
  <2>7. PaperRan(r)
    BY <2>1 DEF RanFits
  <2>8. "deposit" \in ran[r]
    BY <2>4, <2>7 DEF PaperRan
  <2>9. decision[r].minute \in Minutes
    BY <2>1, <2>4 DEF MemoryFits, Decision
  <2>10. decision[r].minute \in Nat
    BY <2>9 DEF Minutes
  <2> QED
    BY <2>6, <2>8, <2>10 DEF Commit
<1> QED
  BY <1>1, <1>2

\* The one commit that records rows records those of all four tables.
LEMMA TracesStep ==
    ASSUME TypeOK, MemoryFits, RanFits, DepositFirst, TracesOfOneDecision,
           NEW r \in Runs, Start(r) \/ Proceed(r) \/ Stop(r)
    PROVE  TracesOfOneDecision'
<1>1. deposit # Null => deposit' # Null
  BY DepositStays
<1>2. CASE UNCHANGED <<order, fill, entries, position>>
  BY <1>1, <1>2 DEF TracesOfOneDecision, Minutes
<1>3. CASE Commit(r) /\ r \in Papers /\ at[r] = 18
  <2>1. PaperRan(r)
    BY <1>3 DEF RanFits
  <2>2. ran[r] = {"order", "fill", "entries", "position"}
    BY <1>3, <2>1 DEF PaperRan
  <2>3. PICK m \in Minutes : m = decision[r].minute
    BY <1>3 DEF MemoryFits, Decision
  <2>4. PICK d : d = decision[r]
    OBVIOUS
  <2>5. /\ order' = [order EXCEPT ![m] = d] /\ fill' = [fill EXCEPT ![m] = d]
        /\ entries' = [entries EXCEPT ![m] = d] /\ position' = [position EXCEPT ![m] = d]
    BY <1>3, <2>2, <2>3, <2>4 DEF Commit, Recorded
  <2>6. /\ DOMAIN order = Minutes /\ DOMAIN fill = Minutes
        /\ DOMAIN entries = Minutes /\ DOMAIN position = Minutes
    BY DEF TypeOK
  <2>7. deposit # Null
    BY <1>3 DEF DepositFirst
  <2>8. ASSUME NEW n \in Minutes
        PROVE  /\ fill'[n] = order'[n] /\ entries'[n] = order'[n] /\ position'[n] = order'[n]
               /\ order'[n] # Null => deposit' # Null
    <3>1. CASE n = m
      BY <1>1, <2>5, <2>6, <2>7, <3>1
    <3>2. CASE n # m
      BY <1>1, <2>5, <2>6, <2>7, <3>2 DEF TracesOfOneDecision
    <3> QED
      BY <3>1, <3>2
  <2> QED
    BY <2>8 DEF TracesOfOneDecision, Minutes
<1>4. CASE Commit(r) /\ ~ (r \in Papers /\ at[r] = 18)
  <2>1. at[r] \in {8, 9, 10, 13}
    BY <1>4, ComesAt DEF Commit, Comes
  <2>2. {"order", "fill", "entries", "position"} \cap ran[r] = {}
    BY <2>1, WritersDecide
  <2>3. UNCHANGED <<order, fill, entries, position>>
    BY <1>4, <2>2 DEF Commit, Recorded
  <2> QED
    BY <1>2, <2>3
<1> QED
  BY <1>2, <1>3, <1>4, RowsStep DEF rows

\* A paper trace that has altered the orders is still applying the schema.
LEMMA SchemaPlaces ==
    ASSUME NEW q, PaperRan(q), "drop_check" \in ran[q]
    PROVE  at[q] \notin {0, 1, 2, 3, 4, 10, 14} \cup {11, 12, 13} \cup {15, 16, 17, 18}
<1>1. at[q] \notin {0, 1, 2, 3, 4, 10, 14}
  BY DEF PaperRan
<1>2. at[q] # 11
  BY DEF PaperRan
<1>3. at[q] # 12
  <2>1. at[q] = 12 => ran[q] = {"account", "instrument"}
    BY DEF PaperRan
  <2> QED
    BY <2>1
<1>4. at[q] # 13
  <2>1. at[q] = 13 => ran[q] = {"account", "instrument", "deposit"}
    BY DEF PaperRan
  <2> QED
    BY <2>1
<1>5. at[q] # 15
  BY DEF PaperRan
<1>6. at[q] # 16
  BY DEF PaperRan
<1>7. at[q] # 17
  <2>1. at[q] = 17 => ran[q] = {"order", "fill", "entries"}
    BY DEF PaperRan
  <2> QED
    BY <2>1
<1>8. at[q] # 18
  <2>1. at[q] = 18 => ran[q] = {"order", "fill", "entries", "position"}
    BY DEF PaperRan
  <2> QED
    BY <2>1
<1> QED
  BY <1>1, <1>2, <1>3, <1>4, <1>5, <1>6, <1>7, <1>8

\* A process between the two statements comes to the second, not to a commit.
LEMMA BetweenPlace ==
    ASSUME TypeOK, RanFits, NEW r \in Runs, Between(r)
    PROVE  at[r] # 0 /\ Comes(r, "add_check")
<1>1. CASE r \in Papers
  <2>1. PaperRan(r) /\ Program(r) = PaperProgram
    BY <1>1 DEF RanFits, Program
  <2>2. at[r] \in {0, 1, 2, 3, 4, 10, 14} \cup {5, 6, 7, 8, 9} \cup {11, 12, 13} \cup {15, 16, 17, 18}
    BY <1>1, PlacesAre
  <2>3. at[r] \in {5, 6, 7, 8, 9}
    BY <2>1, <2>2, SchemaPlaces DEF Between
  <2>4. at[r] = 5
    BY <2>1, <2>3 DEF PaperRan, Between, Schema1, Schema2, Schema3, Schema4
  <2> QED
    BY <2>1, <2>4, PaperIs DEF Comes
<1>2. CASE r \in Ledgers
  <2>1. LedgerRan(r) /\ Program(r) = LedgerProgram
    BY <1>2 DEF RanFits, Program
  <2>2. at[r] \in {0, 1, 2, 3, 4, 5, 6, 7, 8, 9, 10}
    BY <1>2, PlacesAre
  <2>3. at[r] = 2
    BY <2>1, <2>2 DEF LedgerRan, Between, Schema1, Schema2, Schema3, Schema4
  <2> QED
    BY <2>1, <2>3, LedgerIs DEF Comes
<1> QED
  BY <1>1, <1>2 DEF Runs

\* A process that comes to drop the CHECK has run nothing yet.
LEMMA DropIsFirst ==
    ASSUME TypeOK, RanFits, NEW r \in Runs, at[r] # 0, Comes(r, "drop_check")
    PROVE  ran[r] = {}
<1>1. CASE r \in Papers
  <2>1. PaperRan(r) /\ Program(r) = PaperProgram
    BY <1>1 DEF RanFits, Program
  <2>2. at[r] \in {1, 2, 3, 4, 5, 6, 7, 8, 9, 10, 11, 12, 13, 14, 15, 16, 17, 18}
    BY <1>1, PlacesAre
  <2>3. at[r] = 4
    BY <2>1, <2>2, PaperIs DEF Comes
  <2> QED
    BY <2>1, <2>3 DEF PaperRan
<1>2. CASE r \in Ledgers
  <2>1. LedgerRan(r) /\ Program(r) = LedgerProgram
    BY <1>2 DEF RanFits, Program
  <2>2. at[r] \in {1, 2, 3, 4, 5, 6, 7, 8, 9, 10}
    BY <1>2, PlacesAre
  <2>3. at[r] = 1
    BY <2>1, <2>2, LedgerIs DEF Comes
  <2> QED
    BY <2>1, <2>3 DEF LedgerRan
<1> QED
  BY <1>1, <1>2 DEF Runs

\* While there is no CHECK somebody is between dropping and adding it: that process
\* adds it, or is rolled back, before its transaction ends.
LEMMA CheckStep ==
    ASSUME TypeOK, MemoryFits, RanFits, CheckFits,
           NEW r \in Runs, Start(r) \/ Proceed(r) \/ Stop(r)
    PROVE  CheckFits'
<1> SUFFICES ASSUME ~check' PROVE \E q \in Runs : Between(q)'
  BY DEF CheckFits
<1>1. DOMAIN ran = Runs
  BY DEF MemoryFits
<1>2. CASE Execute(r) /\ Comes(r, "drop_check")
  <2>1. ran[r] = {}
    BY <1>2, DropIsFirst DEF Execute
  <2>2. ran'[r] = {"drop_check"}
    BY <1>1, <1>2, <2>1 DEF Execute, Comes
  <2> QED
    BY <2>2 DEF Between
<1>3. CASE ~(Execute(r) /\ Comes(r, "drop_check"))
  <2>1. ~check
    <3>1. CASE Abort(r)
      BY <3>1 DEF Abort
    <3>2. CASE Execute(r)
      BY <1>3, <3>2 DEF Execute, Comes
    <3>3. CASE Start(r) \/ Fetch(r) \/ Store(r) \/ Commit(r)
      BY <3>3 DEF Start, Fetch, Store, Commit, ledger
    <3>4. CASE Load(r)
      BY <3>1, <3>4 DEF Load
    <3> QED
      BY <3>1, <3>2, <3>3, <3>4 DEF Proceed, Victim, Stop
  <2>2. PICK q \in Runs : Between(q)
    BY <2>1 DEF CheckFits
  <2>3. CASE q # r
    BY <2>2, <2>3, StepMoves DEF Between
  <2>4. CASE q = r
    <3>1. at[r] # 0 /\ Comes(r, "add_check")
      BY <2>2, <2>4, BetweenPlace
    <3>2. Abort(r) \/ Execute(r)
      BY <3>1 DEF Start, Proceed, Stop, Fetch, Store, Load, Commit, Victim, Comes
    <3>3. "drop_check" \in ran[r]
      BY <2>2, <2>4 DEF Between
    <3>4. check'
      BY <3>1, <3>2, <3>3 DEF Abort, Execute, Comes
    <3> QED
      BY <3>4
  <2> QED
    BY <2>3, <2>4
<1> QED
  BY <1>2, <1>3

-----------------------------------------------------------------------------
(* The locks.                                                              *)

\* Locks conflict either way.
LEMMA ConflictsBothWays ==
    ASSUME NEW k, NEW l, Conflicting(k, l)
    PROVE  Conflicting(l, k)
<1>1. {k.mode, l.mode} = {l.mode, k.mode}
  OBVIOUS
<1> QED
  BY <1>1 DEF Conflicting

\* A lock held is one of a statement that has run.
LEMMA HeldIs ==
    ASSUME NEW r, NEW l
    PROVE  l \in Held(r) <=> \E s \in ran[r] : l \in Locks(r, s)
BY DEF Held

\* A process adds no lock to those it holds except those it waited for.
LEMMA HeldStep ==
    ASSUME TypeOK, MemoryFits, RanFits, NEW r \in Runs, Start(r) \/ Proceed(r) \/ Stop(r)
    PROVE  /\ \A q \in Runs \ {r} : Held(q)' = Held(q)
           /\ \A l \in Held(r)' :
                 \/ l \in Held(r)
                 \/ /\ at[r] # 0 /\ ~Blocked(r)
                    /\ l \in Locks(r, Program(r)[at[r]])
<1>1. ASSUME NEW q, NEW s, decision'[q] = decision[q] PROVE Locks(q, s)' = Locks(q, s)
  BY <1>1 DEF Locks
<1>2. ASSUME NEW q \in Runs \ {r} PROVE Held(q)' = Held(q)
  <2>1. ran'[q] = ran[q] /\ decision'[q] = decision[q]
    BY StepMoves
  <2>2. \A s : Locks(q, s)' = Locks(q, s)
    BY <1>1, <2>1
  <2> QED
    BY <2>1, <2>2 DEF Held
<1>3. ASSUME NEW l \in Held(r)'
      PROVE  \/ l \in Held(r)
             \/ /\ at[r] # 0 /\ ~Blocked(r)
                /\ l \in Locks(r, Program(r)[at[r]])
  <2>1. PICK s \in ran'[r] : l \in Locks(r, s)'
    BY <1>3 DEF Held
  <2>2. ran'[r] # {}
    BY <2>1
  <2>3. CASE Execute(r) /\ UNCHANGED memory /\ ran'[r] = ran[r] \cup {Program(r)[at[r]]}
    <3>1. l \in Locks(r, s)
      BY <1>1, <2>1, <2>3 DEF memory
    <3>2. s \in ran[r] \/ s = Program(r)[at[r]]
      BY <2>1, <2>3
    <3> QED
      BY <2>3, <3>1, <3>2, HeldIs DEF Execute
  <2>4. CASE at[r] = 0 /\ ran' = ran
    BY <2>2, <2>4 DEF TypeOK
  <2>5. CASE (Fetch(r) \/ Store(r) \/ Load(r)) /\ ran' = ran
    <3>1. r \in Papers /\ at[r] \in {1, 2, 3}
      BY <2>5, ComesAt DEF Fetch, Store, Load, Comes
    <3>2. PaperRan(r)
      BY <3>1 DEF RanFits
    <3>3. ran[r] = {}
      BY <3>1, <3>2 DEF PaperRan
    <3> QED
      BY <2>2, <2>5, <3>3
  <2> QED
    BY <2>2, <2>3, <2>4, <2>5, StepMoves
<1> QED
  BY <1>2, <1>3

\* Transactions never hold locks that conflict.
LEMMA ApartStep ==
    ASSUME TypeOK, MemoryFits, RanFits, HeldApart,
           NEW r \in Runs, Start(r) \/ Proceed(r) \/ Stop(r)
    PROVE  HeldApart'
<1>1. ASSUME NEW q \in Runs \ {r}, NEW k \in Held(r)', NEW l \in Held(q)'
      PROVE  ~Conflicting(k, l)
  <2>1. l \in Held(q)
    BY <1>1, HeldStep
  <2>2. CASE k \in Held(r)
    BY <2>1, <2>2 DEF HeldApart
  <2>3. CASE at[r] # 0 /\ ~Blocked(r) /\ k \in Locks(r, Program(r)[at[r]])
    <3>1. ~WaitsFor(r, q)
      BY <2>3 DEF Blocked
    <3>2. ran[q] # {}
      BY <2>1, HeldIs
    <3> QED
      BY <2>1, <2>3, <3>1, <3>2 DEF WaitsFor
  <2> QED
    BY <2>2, <2>3, HeldStep
<1>2. ASSUME NEW p \in Runs, NEW q \in Runs, p # q, NEW k \in Held(p)', NEW l \in Held(q)'
      PROVE  ~Conflicting(k, l)
  <2>1. CASE p = r
    BY <1>1, <1>2, <2>1
  <2>2. CASE q = r
    BY <1>1, <1>2, <2>2, ConflictsBothWays
  <2>3. CASE p # r /\ q # r
    <3>1. k \in Held(p) /\ l \in Held(q)
      BY <1>2, <2>3, HeldStep
    <3> QED
      BY <1>2, <3>1 DEF HeldApart
  <2> QED
    BY <2>1, <2>2, <2>3
<1> QED
  BY <1>2 DEF HeldApart, Runs

-----------------------------------------------------------------------------
(* The invariant.                                                          *)

\* The ledger begins with every process stopped and nothing held.
LEMMA LedgerBegins == Init => LedgerInv
<1> SUFFICES ASSUME Init PROVE LedgerInv
  OBVIOUS
<1>1. Len(PaperProgram) = 18 /\ Len(LedgerProgram) = 10
  BY PaperIs, LedgerIs
<1>2. TypeOK
  <2>1. \A r \in Runs : Len(Program(r)) \in {10, 18}
    BY <1>1 DEF Program
  <2>2. \A r \in Runs : 0 \in 0 .. Len(Program(r))
    BY <2>1
  <2>3. \A r \in Runs : at[r] \in 0 .. Len(Program(r)) /\ ran[r] = {}
    BY <2>2 DEF Init
  <2>4. \A table \in {order, fill, entries, position} : table = NoCandles
    BY DEF Init
  <2> QED
    BY <2>3, <2>4 DEF Init, TypeOK, NoCandles
<1>3. MemoryFits
  BY DEF Init, MemoryFits, Prized, NoCandles, Runs
<1>4. RanFits
  BY DEF Init, RanFits, PaperRan, LedgerRan, Runs
<1>5. DepositFirst /\ CheckFits
  BY DEF Init, DepositFirst, CheckFits, Runs
<1>6. TracesOfOneDecision
  BY DEF Init, TracesOfOneDecision, NoCandles
<1>7. HeldApart
  BY HeldIs DEF Init, HeldApart
<1> QED
  BY <1>2, <1>3, <1>4, <1>5, <1>6, <1>7 DEF LedgerInv

\* Every step keeps the invariant.
LEMMA LedgerKept == LedgerInv /\ [Next]_vars => LedgerInv'
<1> SUFFICES ASSUME LedgerInv, [Next]_vars PROVE LedgerInv'
  OBVIOUS
<1>1. /\ TypeOK /\ MemoryFits /\ RanFits /\ CheckFits
      /\ DepositFirst /\ TracesOfOneDecision /\ HeldApart
  BY DEF LedgerInv
<1>2. ASSUME NEW r \in Runs, Start(r) \/ Proceed(r) \/ Stop(r) PROVE LedgerInv'
  <2>1. TypeOK' /\ MemoryFits' /\ RanFits'
    BY <1>1, <1>2, TypeStep, MemoryStep, RanStep
  <2>2. CheckFits' /\ DepositFirst' /\ TracesOfOneDecision'
    BY <1>1, <1>2, CheckStep, DepositStep, TracesStep
  <2>3. HeldApart'
    BY <1>1, <1>2, ApartStep
  <2> QED
    BY <2>1, <2>2, <2>3 DEF LedgerInv
<1>3. ASSUME now' \in Minutes, UNCHANGED <<starts, candles, ledger, at, ran, memory>>
      PROVE  LedgerInv'
  <2>1. TypeOK'
    BY <1>1, <1>3 DEF TypeOK, ledger, rows, memory, Minutes, Decision, Program, Runs
  <2>2. MemoryFits'
    BY <1>1, <1>3 DEF MemoryFits, memory, Prized, Decision, Minutes, Runs
  <2>3. RanFits'
    BY <1>1, <1>3 DEF RanFits, PaperRan, LedgerRan
  <2>4. CheckFits' /\ DepositFirst' /\ TracesOfOneDecision'
    BY <1>1, <1>3 DEF CheckFits, Between, DepositFirst, TracesOfOneDecision, ledger, rows, Minutes, Runs
  <2>5. HeldApart'
    <3>1. \A q : Held(q)' = Held(q)
      <4>1. \A q, s : Locks(q, s)' = Locks(q, s)
        BY <1>3 DEF Locks, memory
      <4> QED
        BY <1>3, <4>1 DEF Held
    <3> QED
      BY <1>1, <3>1 DEF HeldApart, Runs
  <2> QED
    BY <2>1, <2>2, <2>3, <2>4, <2>5 DEF LedgerInv
<1>4. CASE Tick
  BY <1>3, <1>4 DEF Tick
<1>5. CASE UNCHANGED vars
  BY <1>1, <1>3, <1>5 DEF vars, TypeOK
<1> QED
  BY <1>2, <1>4, <1>5 DEF Next

\* In every state of the ledger the invariant holds: each open transaction has run
\* what its program says, and its locks are its own.
THEOREM LedgerInvariance == Spec => []LedgerInv
<1>1. Init => LedgerInv
  BY LedgerBegins
<1>2. LedgerInv /\ [Next]_vars => LedgerInv'
  BY LedgerKept
<1> QED
  BY <1>1, <1>2, PTL DEF Spec

\* The tables of the ledger only hold decisions, each at its own minute, and a
\* process that has ended keeps no transaction open.
THEOREM LedgerTypeCorrect == Spec => []TypeOK
<1>1. LedgerInv => TypeOK
  BY DEF LedgerInv
<1> QED
  BY <1>1, LedgerInvariance, PTL

\* Order, fill, ledger entries and position of a minute tell one decision and have
\* a deposit before them, however many paper traces decide that minute and
\* wherever they die.
THEOREM TracesAlwaysAgree == Spec => []TracesOfOneDecision
<1>1. LedgerInv => TracesOfOneDecision
  BY DEF LedgerInv
<1> QED
  BY <1>1, LedgerInvariance, PTL

-----------------------------------------------------------------------------
(* Who waits for whom.                                                     *)

Tables == {"orders", "fills", "entries", "positions"}

\* The rows a paper trace locks while it seeds its account.
Seeded == {<<"accounts", 1>>, <<"instruments", 1>>, <<"deposits", 1>>}

\* The locks of the statements.
LEMMA LocksAre ==
    ASSUME NEW r
    PROVE  /\ Locks(r, "commit") = {}
           /\ Locks(r, "drop_check") = {TableLock("orders", "access")}
           /\ Locks(r, "add_check") = {TableLock("orders", "access")}
           /\ Locks(r, "index_fills") = {TableLock("fills", "share")}
           /\ Locks(r, "index_entries") = {TableLock("entries", "share")}
           /\ Locks(r, "index_positions") = {TableLock("positions", "share")}
           /\ Locks(r, "fixture_instruments") = {RowLock("instruments", 1)}
           /\ \A l \in Locks(r, "fixture_ledger") :
                 \E t \in Tables : l = TableLock(t, "write")
           /\ Locks(r, "probe") = {TableLock("orders", "write")}
           /\ Locks(r, "account") = {RowLock("accounts", 1)}
           /\ Locks(r, "instrument") = {RowLock("instruments", 1)}
           /\ Locks(r, "deposit") = {TableLock("entries", "write"), RowLock("deposits", 1)}
           /\ Locks(r, "order") =
                 {TableLock("orders", "write"), RowLock("orders", decision[r].minute)}
           /\ Locks(r, "fill") =
                 {TableLock("fills", "write"), RowLock("fills", decision[r].minute)}
           /\ Locks(r, "entries") =
                 {TableLock("entries", "write"), RowLock("entries", decision[r].minute)}
           /\ Locks(r, "position") =
                 {TableLock("positions", "write"), RowLock("positions", decision[r].minute)}
<1>1. /\ DOMAIN TableOf = {"order", "fill", "entries", "position"}
      /\ TableOf["order"] = "orders" /\ TableOf["fill"] = "fills"
      /\ TableOf["entries"] = "entries" /\ TableOf["position"] = "positions"
  BY DEF TableOf
<1>2. /\ DOMAIN StatementLocks =
            {"drop_check", "add_check", "index_fills", "index_entries",
             "index_positions", "fixture_instruments", "fixture_ledger", "probe", "account",
             "instrument", "deposit"}
      /\ StatementLocks["drop_check"] = {TableLock("orders", "access")}
      /\ StatementLocks["add_check"] = {TableLock("orders", "access")}
      /\ StatementLocks["index_fills"] = {TableLock("fills", "share")}
      /\ StatementLocks["index_entries"] = {TableLock("entries", "share")}
      /\ StatementLocks["index_positions"] = {TableLock("positions", "share")}
      /\ StatementLocks["fixture_instruments"] = {RowLock("instruments", 1)}
      /\ StatementLocks["fixture_ledger"] = {TableLock(TableOf[s], "write") : s \in DOMAIN TableOf}
      /\ StatementLocks["probe"] = {TableLock("orders", "write")}
      /\ StatementLocks["account"] = {RowLock("accounts", 1)}
      /\ StatementLocks["instrument"] = {RowLock("instruments", 1)}
      /\ StatementLocks["deposit"] = {TableLock("entries", "write"), RowLock("deposits", 1)}
  BY DEF StatementLocks
<1>3. /\ Locks(r, "commit") = {}
      /\ Locks(r, "drop_check") = {TableLock("orders", "access")}
      /\ Locks(r, "add_check") = {TableLock("orders", "access")}
      /\ Locks(r, "index_fills") = {TableLock("fills", "share")}
      /\ Locks(r, "index_entries") = {TableLock("entries", "share")}
      /\ Locks(r, "index_positions") = {TableLock("positions", "share")}
      /\ Locks(r, "fixture_instruments") = {RowLock("instruments", 1)}
  BY <1>1, <1>2 DEF Locks
<1>4. \A l \in Locks(r, "fixture_ledger") : \E t \in Tables : l = TableLock(t, "write")
  BY <1>1, <1>2 DEF Locks, Tables
<1>5. /\ Locks(r, "probe") = {TableLock("orders", "write")}
      /\ Locks(r, "account") = {RowLock("accounts", 1)}
      /\ Locks(r, "instrument") = {RowLock("instruments", 1)}
      /\ Locks(r, "deposit") = {TableLock("entries", "write"), RowLock("deposits", 1)}
  BY <1>1, <1>2 DEF Locks
<1>6. /\ Locks(r, "order") =
            {TableLock("orders", "write"), RowLock("orders", decision[r].minute)}
      /\ Locks(r, "fill") =
            {TableLock("fills", "write"), RowLock("fills", decision[r].minute)}
      /\ Locks(r, "entries") =
            {TableLock("entries", "write"), RowLock("entries", decision[r].minute)}
      /\ Locks(r, "position") =
            {TableLock("positions", "write"), RowLock("positions", decision[r].minute)}
  BY <1>1 DEF Locks
<1> QED
  BY <1>3, <1>4, <1>5, <1>6

\* Whoever is between dropping and adding the CHECK keeps the probes waiting.
LEMMA ProbeWaits == LedgerInv => ProbesMeetTheCheck
<1> SUFFICES ASSUME LedgerInv, NEW r \in Runs, Comes(r, "probe"), ~check PROVE Blocked(r)
  BY DEF ProbesMeetTheCheck, LedgerInv, TypeOK
<1>1. TypeOK /\ RanFits /\ CheckFits
  BY DEF LedgerInv
<1>2. PICK q \in Runs : Between(q)
  BY <1>1 DEF CheckFits
<1>3. r # q
  <2>1. Comes(q, "add_check")
    BY <1>1, <1>2, BetweenPlace
  <2> QED
    BY <2>1 DEF Comes
<1>4. "drop_check" \in ran[q]
  BY <1>2 DEF Between
<1>5. TableLock("orders", "access") \in Held(q)
  <2>1. TableLock("orders", "access") \in Locks(q, "drop_check")
    BY LocksAre
  <2> QED
    BY <1>4, <2>1, HeldIs
<1>6. TableLock("orders", "write") \in Locks(r, Program(r)[at[r]])
  BY LocksAre DEF Comes
<1>7. Conflicting(TableLock("orders", "write"), TableLock("orders", "access"))
  BY DEF Conflicting, TableLock
<1>8. at[r] # 0
  BY DEF Comes
<1>9. WaitsFor(r, q)
  BY <1>3, <1>4, <1>5, <1>6, <1>7, <1>8 DEF WaitsFor
<1> QED
  BY <1>9 DEF Blocked

\* A probe that does not have to wait meets the CHECK on orders, however many
\* programs replace it meanwhile and wherever they are rolled back: it is missing
\* only under the lock of a transaction that has yet to add it.
THEOREM ProbesAlwaysMeetTheCheck == Spec => []ProbesMeetTheCheck
<1>1. LedgerInv => ProbesMeetTheCheck
  BY ProbeWaits
<1> QED
  BY <1>1, LedgerInvariance, PTL

\* An open transaction applies the schema, seeds an account, records a decision or
\* probes.
LEMMA Openings ==
    ASSUME TypeOK, RanFits, NEW r \in Runs, ran[r] # {}
    PROVE  \/ "drop_check" \in ran[r]
           \/ "account" \in ran[r] /\ r \in Papers /\ at[r] \in {11, 12, 13}
           \/ "order" \in ran[r] /\ r \in Papers /\ at[r] \in {15, 16, 17, 18}
           \/ "probe" \in ran[r] /\ r \in Ledgers /\ at[r] = 10
<1>1. CASE r \in Papers
  <2>1. PaperRan(r)
    BY <1>1 DEF RanFits
  <2>2. at[r] \in {5, 6, 7, 8, 9} \cup {11, 12, 13} \cup {15, 16, 17, 18}
    <3>1. at[r] \in {0, 1, 2, 3, 4, 10, 14} \cup {5, 6, 7, 8, 9, 11, 12, 13, 15, 16, 17, 18}
      BY <1>1, PlacesAre
    <3> QED
      BY <2>1, <3>1 DEF PaperRan
  <2>3. CASE at[r] \in {5, 6, 7, 8, 9}
    BY <2>1, <2>3 DEF PaperRan, Schema0, Schema1, Schema2, Schema3, Schema4
  <2>4. CASE at[r] \in {11, 12, 13}
    BY <1>1, <2>1, <2>4 DEF PaperRan
  <2>5. CASE at[r] \in {15, 16, 17, 18}
    BY <1>1, <2>1, <2>5 DEF PaperRan
  <2> QED
    BY <2>2, <2>3, <2>4, <2>5
<1>2. CASE r \in Ledgers
  <2>1. LedgerRan(r)
    BY <1>2 DEF RanFits
  <2>2. at[r] \in {2, 3, 4, 5, 6, 7, 8} \cup {10}
    <3>1. at[r] \in {0, 1, 2, 3, 4, 5, 6, 7, 8, 9, 10}
      BY <1>2, PlacesAre
    <3> QED
      BY <2>1, <3>1 DEF LedgerRan
  <2> QED
    BY <1>2, <2>1, <2>2 DEF LedgerRan, Schema0, Schema1, Schema2, Schema3, Schema4
<1> QED
  BY <1>1, <1>2 DEF Runs

\* The lock l is for writing a table, or on a row of what r seeds or decides.
Light(r, l) ==
    \/ l.mode = "write"
    \/ /\ l.mode = "row"
       /\ \/ "account" \in ran[r] /\ l.on \in Seeded
          \/ "order" \in ran[r] /\ \E t \in Tables : l.on = <<t, decision[r].minute>>

\* A transaction that does not apply the schema holds, and waits for, such locks only.
LEMMA LightLocks ==
    ASSUME TypeOK, RanFits, NEW r \in Runs, ran[r] # {}, "drop_check" \notin ran[r],
           NEW l, l \in Held(r) \/ l \in Locks(r, Program(r)[at[r]])
    PROVE  Light(r, l)
<1>1. PICK s : l \in Locks(r, s) /\ (s \in ran[r] \/ s = Program(r)[at[r]])
  BY HeldIs
<1>2. CASE "account" \in ran[r] /\ r \in Papers /\ at[r] \in {11, 12, 13}
  <2>1. PaperRan(r) /\ Program(r) = PaperProgram
    BY <1>2 DEF RanFits, Program
  <2>2. s \in {"account", "instrument", "deposit", "commit"}
    <3>1. ran[r] \subseteq {"account", "instrument", "deposit"}
      BY <1>2, <2>1 DEF PaperRan
    <3>2. PaperProgram[at[r]] \in {"instrument", "deposit", "commit"}
      BY <1>2, PaperIs
    <3> QED
      BY <1>1, <2>1, <3>1, <3>2
  <2>3. l \in {RowLock("accounts", 1), RowLock("instruments", 1), RowLock("deposits", 1),
               TableLock("entries", "write")}
    BY <1>1, <2>2, LocksAre
  <2> QED
    BY <1>2, <2>3 DEF Light, RowLock, TableLock, Seeded
<1>3. CASE "order" \in ran[r] /\ r \in Papers /\ at[r] \in {15, 16, 17, 18}
  <2>1. PaperRan(r) /\ Program(r) = PaperProgram
    BY <1>3 DEF RanFits, Program
  <2>2. s \in {"order", "fill", "entries", "position", "commit"}
    <3>1. ran[r] \subseteq {"order", "fill", "entries", "position"}
      BY <1>3, <2>1 DEF PaperRan
    <3>2. PaperProgram[at[r]] \in {"fill", "entries", "position", "commit"}
      BY <1>3, PaperIs
    <3> QED
      BY <1>1, <2>1, <3>1, <3>2
  <2>3. \E t \in Tables : l \in {TableLock(t, "write"), RowLock(t, decision[r].minute)}
    BY <1>1, <2>2, LocksAre DEF Tables
  <2> QED
    BY <1>3, <2>3 DEF Light, RowLock, TableLock
<1>4. CASE "probe" \in ran[r] /\ r \in Ledgers /\ at[r] = 10
  <2>1. LedgerRan(r) /\ Program(r) = LedgerProgram
    BY <1>4, RunsAssumption DEF RanFits, Program
  <2>2. s \in {"probe", "commit"}
    BY <1>1, <1>4, <2>1, LedgerIs DEF LedgerRan
  <2>3. l = TableLock("orders", "write")
    BY <1>1, <2>2, LocksAre
  <2> QED
    BY <2>3 DEF Light, TableLock
<1> QED
  BY <1>2, <1>3, <1>4, Openings

\* Two such transactions never wait for each other: a seeding holds the account, a
\* decision the order of its minute.
LEMMA LightPass ==
    ASSUME TypeOK, RanFits, HeldApart, NEW r \in Runs, NEW q \in Runs, ran[r] # {},
           "drop_check" \notin ran[r], "drop_check" \notin ran[q]
    PROVE  ~WaitsFor(r, q)
<1> SUFFICES ASSUME WaitsFor(r, q) PROVE FALSE
  OBVIOUS
<1>1. r # q /\ ran[q] # {}
  BY DEF WaitsFor
<1>2. PICK k \in Locks(r, Program(r)[at[r]]), l \in Held(q) : Conflicting(k, l)
  BY DEF WaitsFor
<1>3. Light(r, k) /\ Light(q, l)
  BY <1>1, <1>2, LightLocks
<1>4. k.mode = "row" /\ l.mode = "row" /\ k.on = l.on
  <2>1. k.mode \in {"write", "row"} /\ l.mode \in {"write", "row"}
    BY <1>3 DEF Light
  <2>2. {k.mode, l.mode} \in {{"share", "write"}, {"row"}} /\ k.on = l.on
    BY <1>2, <2>1 DEF Conflicting
  <2>3. "share" \notin {k.mode, l.mode}
    BY <2>1
  <2>4. {k.mode, l.mode} = {"row"}
    BY <2>2, <2>3
  <2>5. k.mode \in {k.mode, l.mode} /\ l.mode \in {k.mode, l.mode}
    OBVIOUS
  <2> QED
    BY <2>2, <2>4, <2>5
<1>5. ASSUME NEW m \in Held(r), NEW n \in Held(q), m = n, m.mode = "row" PROVE FALSE
  <2>1. Conflicting(m, n)
    BY <1>5 DEF Conflicting
  <2> QED
    BY <1>1, <1>5, <2>1 DEF HeldApart
<1>6. CASE "account" \in ran[r] /\ "account" \in ran[q]
  <2>1. RowLock("accounts", 1) \in Held(r) /\ RowLock("accounts", 1) \in Held(q)
    <3>1. RowLock("accounts", 1) \in Locks(r, "account") /\ RowLock("accounts", 1) \in Locks(q, "account")
      BY LocksAre
    <3> QED
      BY <1>6, <3>1, HeldIs
  <2> QED
    BY <1>5, <2>1 DEF RowLock
<1>7. CASE "order" \in ran[r] /\ "order" \in ran[q] /\ decision[r].minute = decision[q].minute
  <2>1. PICK x : x = RowLock("orders", decision[r].minute)
    OBVIOUS
  <2>2. x \in Held(r) /\ x \in Held(q)
    BY <1>7, <2>1, HeldIs, LocksAre
  <2> QED
    BY <1>5, <2>1, <2>2 DEF RowLock
<1>8. ASSUME "order" \in ran[r], "order" \in ran[q], NEW t \in Tables, NEW u \in Tables,
             k.on = <<t, decision[r].minute>>, l.on = <<u, decision[q].minute>>
      PROVE  FALSE
  <2>1. decision[r].minute = decision[q].minute
    <3>1. <<t, decision[r].minute>> = <<u, decision[q].minute>>
      BY <1>4, <1>8
    <3>2. <<t, decision[r].minute>>[2] = <<u, decision[q].minute>>[2]
      BY <3>1
    <3> QED
      BY <3>2
  <2> QED
    BY <1>7, <1>8, <2>1
<1>9. ASSUME NEW x \in Seeded, NEW t \in Tables, NEW m PROVE x # <<t, m>>
  BY <1>9 DEF Seeded, Tables
<1> QED
  BY <1>3, <1>4, <1>6, <1>8, <1>9 DEF Light

\* A transaction that applies the schema comes to one of the rows a paper trace seeds
\* only in a ledger smoke, at its instrument.
LEMMA SchemaComesTo ==
    ASSUME TypeOK, RanFits, NEW r \in Runs, "drop_check" \in ran[r],
           NEW k \in Locks(r, Program(r)[at[r]]), k.on \in Seeded
    PROVE  r \in Ledgers /\ Comes(r, "fixture_instruments") /\ k.on = <<"instruments", 1>>
<1>1. ASSUME NEW t \in Tables, NEW mode, k = TableLock(t, mode) PROVE FALSE
  BY <1>1 DEF TableLock, Seeded, Tables
<1>2. Program(r)[at[r]] \notin {"add_check", "index_fills", "index_entries", "index_positions",
                               "fixture_ledger", "commit"}
  BY <1>1, LocksAre DEF Tables
<1>3. CASE r \in Papers
  <2>1. PaperRan(r) /\ Program(r) = PaperProgram
    BY <1>3 DEF RanFits, Program
  <2>2. at[r] \in {0, 1, 2, 3, 4, 10, 14} \cup {5, 6, 7, 8, 9} \cup {11, 12, 13} \cup {15, 16, 17, 18}
    BY <1>3, PlacesAre
  <2>3. at[r] \in {5, 6, 7, 8, 9}
    BY <2>1, <2>2, SchemaPlaces
  <2> QED
    BY <1>2, <2>1, <2>3, PaperIs
<1>4. CASE r \in Ledgers
  <2>1. LedgerRan(r) /\ Program(r) = LedgerProgram
    BY <1>4 DEF RanFits, Program
  <2>2. at[r] \in {0, 1, 2, 3, 4, 5, 6, 7, 8, 9, 10}
    BY <1>4, PlacesAre
  <2>3. at[r] \in {2, 3, 4, 5, 6, 7, 8}
    BY <2>1, <2>2 DEF LedgerRan
  <2>4. at[r] = 6
    BY <1>2, <2>1, <2>3, LedgerIs
  <2>5. k = RowLock("instruments", 1)
    BY <2>1, <2>4, LedgerIs, LocksAre
  <2> QED
    BY <1>4, <2>1, <2>4, <2>5, LedgerIs DEF Comes, RowLock
<1> QED
  BY <1>3, <1>4 DEF Runs

\* Nobody else writes or alters the orders while a transaction applies the schema.
LEMMA SchemaAlone ==
    ASSUME TypeOK, RanFits, HeldApart, NEW r \in Runs, NEW q \in Runs, r # q,
           "drop_check" \in ran[r], ran[q] # {}
    PROVE  "account" \in ran[q] /\ q \in Papers /\ at[q] \in {11, 12, 13}
<1>1. TableLock("orders", "access") \in Held(r)
  <2>1. TableLock("orders", "access") \in Locks(r, "drop_check")
    BY LocksAre
  <2> QED
    BY <2>1, HeldIs
<1>2. ASSUME NEW l \in Held(q), NEW mode, l = TableLock("orders", mode) PROVE FALSE
  <2>1. Conflicting(TableLock("orders", "access"), l)
    BY <1>2 DEF Conflicting, TableLock
  <2> QED
    BY <1>1, <1>2, <2>1 DEF HeldApart
<1>3. "drop_check" \notin ran[q]
  <2>1. TableLock("orders", "access") \in Locks(q, "drop_check")
    BY LocksAre
  <2> QED
    BY <1>2, <2>1, HeldIs
<1>4. "order" \notin ran[q]
  <2>1. TableLock("orders", "write") \in Locks(q, "order")
    BY LocksAre
  <2> QED
    BY <1>2, <2>1, HeldIs
<1>5. "probe" \notin ran[q]
  <2>1. TableLock("orders", "write") \in Locks(q, "probe")
    BY LocksAre
  <2> QED
    BY <1>2, <2>1, HeldIs
<1> QED
  BY <1>3, <1>4, <1>5, Openings

\* Applying the schema and seeding an account are not in one transaction.
LEMMA SeederNoSchema ==
    ASSUME TypeOK, RanFits, NEW q \in Runs, "account" \in ran[q]
    PROVE  "drop_check" \notin ran[q]
<1>1. q \in Papers /\ at[q] \in {11, 12, 13, 15, 16, 17, 18}
  <2>1. {"account", "deposit", "order", "fill", "entries", "position"} \cap ran[q] # {}
    OBVIOUS
  <2> QED
    BY <2>1, WritersDecide
<1>2. PaperRan(q)
  BY <1>1 DEF RanFits
<1> QED
  BY <1>1, <1>2, SchemaPlaces

\* What a paper trace holds of the rows it seeds, by its place.
LEMMA SeederHolds ==
    ASSUME TypeOK, RanFits, NEW q \in Papers, NEW l \in Held(q)
    PROVE  /\ at[q] = 11 => l.on = <<"accounts", 1>>
           /\ at[q] = 12 => l.on \in {<<"accounts", 1>>, <<"instruments", 1>>}
<1>1. PaperRan(q)
  BY DEF RanFits
<1>2. PICK s \in ran[q] : l \in Locks(q, s)
  BY HeldIs
<1>3. CASE at[q] = 11
  <2>1. s = "account"
    BY <1>1, <1>2, <1>3 DEF PaperRan
  <2> QED
    BY <1>2, <1>3, <2>1, LocksAre DEF RowLock
<1>4. CASE at[q] = 12
  <2>1. s \in {"account", "instrument"}
    BY <1>1, <1>2, <1>4 DEF PaperRan
  <2> QED
    BY <1>2, <1>4, <2>1, LocksAre DEF RowLock
<1> QED
  BY <1>3, <1>4

\* A seeding waits for a transaction that applies the schema, and the other way
\* round, in one place only.
LEMMA TheTwoPlaces ==
    ASSUME TypeOK, RanFits, NEW a \in Runs, NEW b \in Papers, "drop_check" \in ran[a],
           at[b] \in {11, 12, 13}, WaitsFor(a, b), WaitsFor(b, a)
    PROVE  a \in Ledgers /\ Comes(a, "fixture_instruments") /\ Comes(b, "deposit")
<1>1. Program(b) = PaperProgram
  BY DEF Program
<1>2. at[b] # 13
  <2>1. SUFFICES ASSUME at[b] = 13 PROVE FALSE
    OBVIOUS
  <2>2. Program(b)[at[b]] = "commit"
    BY <1>1, <2>1, PaperIs
  <2> QED
    BY <2>2, LocksAre DEF WaitsFor
<1>3. PICK k \in Locks(a, Program(a)[at[a]]), l \in Held(b) : Conflicting(k, l)
  BY DEF WaitsFor
<1>4. /\ at[b] = 11 => l.on = <<"accounts", 1>>
      /\ at[b] = 12 => l.on \in {<<"accounts", 1>>, <<"instruments", 1>>}
  BY <1>3, SeederHolds
<1>5. k.on = l.on /\ k.on \in Seeded
  BY <1>2, <1>3, <1>4 DEF Conflicting, Seeded
<1>6. a \in Ledgers /\ Comes(a, "fixture_instruments") /\ k.on = <<"instruments", 1>>
  BY <1>3, <1>5, SchemaComesTo
<1>7. at[b] = 12
  BY <1>2, <1>4, <1>5, <1>6
<1> QED
  BY <1>1, <1>6, <1>7, PaperIs DEF Comes

\* Processes wait for each other in one way only.
LEMMA CirclesAre == LedgerInv => OneDeadlock
<1> SUFFICES ASSUME LedgerInv, NEW S \in SUBSET Runs, Circle(S)
             PROVE  \E l \in Ledgers, p \in Papers :
                       S = {l, p} /\ Comes(l, "fixture_instruments") /\ Comes(p, "deposit")
  BY DEF OneDeadlock
<1>1. TypeOK /\ RanFits /\ HeldApart
  BY DEF LedgerInv
<1>2. /\ \A r \in S : \E q \in S : WaitsFor(r, q)
      /\ \A T \in SUBSET S : Waiting(T) => T = S
      /\ S # {}
  BY DEF Circle, Waiting
<1>3. \A r, q : WaitsFor(r, q) => r # q /\ ran[q] # {}
  BY DEF WaitsFor
<1>4. \A r, q \in S : ran[r] # {} /\ WaitsFor(r, q) =>
          "drop_check" \in ran[r] \/ "drop_check" \in ran[q]
  BY <1>1, LightPass
<1>5. PICK a \in S : "drop_check" \in ran[a]
  <2>1. PICK r \in S : ran[r] # {}
    BY <1>2, <1>3
  <2>2. PICK q \in S : WaitsFor(r, q)
    BY <1>2
  <2> QED
    BY <1>4, <2>1, <2>2
<1>6. PICK b \in S : WaitsFor(a, b)
  BY <1>2
<1>7. \A q \in S \ {a} : ran[q] # {} =>
          "account" \in ran[q] /\ q \in Papers /\ at[q] \in {11, 12, 13}
  BY <1>1, <1>5, SchemaAlone
<1>8. "account" \in ran[b] /\ b \in Papers /\ at[b] \in {11, 12, 13} /\ a # b /\ ran[b] # {}
  BY <1>3, <1>6, <1>7
<1>9. \A q \in S \ {a} : "account" \in ran[q] => "drop_check" \notin ran[q]
  BY <1>1, <1>5, SeederNoSchema
<1>10. WaitsFor(b, a)
  <2>1. PICK q \in S : WaitsFor(b, q)
    BY <1>2
  <2>2. "drop_check" \in ran[q]
    BY <1>4, <1>8, <1>9, <2>1
  <2>3. q = a
    BY <1>3, <1>7, <1>9, <2>1, <2>2
  <2> QED
    BY <2>1, <2>3
<1>11. S = {a, b}
  <2>1. Waiting({a, b})
    BY <1>6, <1>10 DEF Waiting
  <2> QED
    BY <1>2, <2>1
<1>12. a \in Ledgers /\ Comes(a, "fixture_instruments") /\ Comes(b, "deposit")
  BY <1>1, <1>5, <1>6, <1>8, <1>10, TheTwoPlaces
<1> QED
  BY <1>8, <1>11, <1>12

\* The only deadlock of the ledger's programs, with any number of them: a ledger
\* smoke that has indexed the tables and comes to the instrument, and the paper
\* trace that has seeded it and comes to its deposit.
THEOREM OnlyOneDeadlock == Spec => []OneDeadlock
<1>1. LedgerInv => OneDeadlock
  BY CirclesAre
<1> QED
  BY <1>1, LedgerInvariance, PTL
=============================================================================
