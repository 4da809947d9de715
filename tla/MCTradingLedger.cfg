\* Two paper traces and a ledger smoke, three starts between them.
CONSTANTS
    p1 = p1
    p2 = p2
    l1 = l1
    Null = Null
    Papers = {p1, p2}
    Ledgers = {l1}
    Close <- MCClose
    Prices = {1, 2}
    FirstNow = 1
    KlineLimit = 2
    MaxStarts = 3
SPECIFICATION FairSpec
INVARIANTS TypeOK TracesOfOneDecision OneDeadlock ProbesMeetTheCheck
PROPERTIES RunsEnd
CHECK_DEADLOCK FALSE
