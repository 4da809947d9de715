\* Safety: three starts among two workers, stale locks recovered at any time,
\* crashes anywhere.
CONSTANTS
    j1 = j1
    j2 = j2
    w1 = w1
    w2 = w2
    m1 = m1
    Null = Null
    Letters = {"a", "b"}
    Jobs <- MCJobs
    Priority <- MCPriority
    MaxAttempts <- MCMaxAttempts
    Clients = {w1, w2, m1}
    Workers = {w1, w2}
    Janitors = {m1}
    IdOf <- MCIdOf
    SeedOrder <- MCSeedOrder
    Reach <- MCReach
    Sweep <- MCSweep
    MaxStarts = 3
    WorkerIds = {w1, w2}
    Timeout = 1
    RetryDelays = {0}
    Limits = {100}
SYMMETRY WorkerSymmetry
SPECIFICATION WorkersSpec
INVARIANTS WorkersTypeOK AttemptsNotShared LockNamesRunner WorkersDrain
PROPERTIES ImplementsQueue
