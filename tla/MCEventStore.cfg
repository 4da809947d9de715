SPECIFICATION Spec
CONSTANTS
    a = a
    b = b
    Runs = {a, b}
    Keys <- MCKeys
    Kind <- MCKind
    Rank <- MCRank
    Window <- MCWindow
    Recent <- MCRecent
    MaxVersion <- MCMaxVersion
    Mixes <- MCMixes
    Limit <- MCLimit
    ResultLimit = 1
    Aligned = "minute"
    MaxAudits = 1
    Null = Null
INVARIANTS TypeOK NoStalerThanQuiet AuditIsWhole NoWaitCircle
