SPECIFICATION MCSpec
CONSTANTS
    c1 = c1
    i1 = i1
    i2 = i2
    a1 = a1
    a2 = a2
    None = None
    Claims = {c1}
    Instances = {i1, i2}
    Owner <- OneOwner
    Accounts = {a1, a2}
    OrphanTimeout = 1
    MaxTime = 2
    MaxWrites = 2
    MaxForced = 1
    MaxFaults = 1
PROPERTIES OnlyOrphansGo OrphansGo
CHECK_DEADLOCK FALSE
