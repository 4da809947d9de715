\* Every client operation on three jobs, by two interchangeable clients.
CONSTANTS
    high = high
    mid = mid
    low = low
    c1 = c1
    c2 = c2
    Null = Null
    Jobs <- MCJobs
    Priority <- MCPriority
    MaxAttempts <- MCMaxAttempts
    Clients = {c1, c2}
    WorkerIds = {"w1"}
    Timeout = 1
    RetryDelays = {0, 1}
    Limits = {1, 2}
SYMMETRY ClientSymmetry
SPECIFICATION Spec
INVARIANTS TypeOK RowsAgree NoJobLost
PROPERTIES SettledUntilSeeded AttemptsCountClaims ImplementsLifecycle
