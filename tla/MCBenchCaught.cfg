\* A benchmark between two claims, and the start of another program.
CONSTANTS
    j1 = j1
    j2 = j2
    f1 = f1
    f2 = f2
    w1 = w1
    w2 = w2
    staleSmoke = staleSmoke
    queueSmoke = queueSmoke
    b1 = b1
    b2 = b2
    c1 = c1
    c2 = c2
    d1 = d1
    d2 = d2
    d3 = d3
    Null = Null
    Jobs = {j1, j2, f1, f2}
    Priority <- MCPriority
    MaxAttempts <- MCMaxAttempts
    Clients = {w1, w2, staleSmoke, queueSmoke, c1, c2, d1, d2, d3}
    Workers = {w1, w2}
    Janitors = {}
    IdOf <- MCIdOf
    SeedOrder <- MCSeedOrder
    Reach <- MCReach
    Sweep <- MCSweep
    MaxStarts = 2
    WorkerIds = {w1, w2, staleSmoke, queueSmoke, c1, c2, d1, d2, d3}
    Timeout = 1
    RetryDelays = {0}
    Limits = {100}
    Smokes = {staleSmoke, queueSmoke}
    Plays <- MCPlays
    Benches = {b1, b2}
    Line <- MCLine
    Seeds <- MCSeeds
    Prefixed <- MCPrefixed
    Casts <- MCTwo
SPECIFICATION FairSmokesSpec
PROPERTIES ClaimsHappen
