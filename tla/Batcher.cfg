SPECIFICATION FairSpec
CONSTANTS
    c1 = c1
    c2 = c2
    c3 = c3
    e1 = e1
    e2 = e2
    e3 = e3
    Callers <- MCCallers
    Entries <- MCEntries
    EntryOf <- MCEntryOf
    HashOf <- MCHashOf
    MaxItems = 2
    MaxWorkers = 1
INVARIANTS NoLostWakeup ExactlyOnce OwnAnswer
PROPERTIES RequestsEnd
CHECK_DEADLOCK FALSE
