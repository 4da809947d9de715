\* Candles around the corpus, and the latest ones: minutes apart.
CONSTANTS
    r1 = r1
    r2 = r2
    Null = Null
    Runs = {r1}
    FirstNow = 5
    LastMinute = 6
    CorpusMinutes = {2}
    SampleMinutes = 1
    Padding = 1
    KlineLimit = 2
    RollingRows = 2
    SourceLimit = 3
    FixtureMinutes = {}
    MaxStarts = 3
SPECIFICATION Spec
INVARIANT OneMinuteReturns
