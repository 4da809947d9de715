\* Two processes, three starts, one symbol of six minutes.
CONSTANTS
    r1 = r1
    r2 = r2
    Null = Null
    Runs = {r1, r2}
    FirstNow = 5
    LastMinute = 6
    CorpusMinutes = {2, 3}
    SampleMinutes = 1
    Padding = 1
    KlineLimit = 3
    RollingRows = 2
    SourceLimit = 2
    FixtureMinutes = {2, 3}
    MaxStarts = 3
SYMMETRY RunSymmetry
SPECIFICATION Spec
INVARIANTS TypeOK FreshViews MatchShown NoLookahead BatchAllOrNothing BatchOfItsRun BatchesTiedToSwaps
PROPERTIES BatchesImmutable
