\* No recovery: a second start of the same run key while the first one runs.
CONSTANTS
    j1 = j1
    j2 = j2
    w1 = w1
    w2 = w2
    m1 = m1
    Null = Null
    Letters = {"a", "b"}
    Jobs <- MCJobs
    Priority <- MCPriority
    MaxAttempts <- MCMaxAttempts
    Clients = {w1, w2}
    Workers = {w1, w2}
    Janitors = {}
    IdOf <- MCIdOf
    SeedOrder <- MCSeedOrder
    Reach <- MCReach
    Sweep <- MCSweep
    MaxStarts = 2
    WorkerIds = {w1, w2}
    Timeout = 1
    RetryDelays = {0}
    Limits = {100}
SPECIFICATION WorkersSpec
INVARIANTS NoDuplicateProcessing
