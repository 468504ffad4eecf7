SPECIFICATION MCSpec
CONSTANTS
    Accounts = {a1, a2}
    PoolIDs = {p1, p2}
    WorkerIDs = {w1, w2}
    None = None
    Window = 2
    MaxLatency = 1
    MaxLookup = 1
    MaxTime = 4
    MaxFaults = 1
INVARIANTS NoLeak AtMostOne RecordsHold NothingLeft
PROPERTIES ImplementsContract ClaimsSettle
CHECK_DEADLOCK FALSE
