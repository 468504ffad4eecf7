SPECIFICATION MCSpec
CONSTANTS
    Accounts = {a1, a2}
    Configs = {c1, c2}
    InstanceIDs = {i1, i2}
    None = None
    Window = 2
    MaxLatency = 1
    MaxLookup = 1
    MaxTime = 6
    MaxWrites = 4
    MaxFaults = 1
INVARIANTS NoLeak AtMostOne PublishesOwn
PROPERTIES ImplementsContract DeletesOwn DeletedIsReleased LaunchResolves
CHECK_DEADLOCK FALSE
