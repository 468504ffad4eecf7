SPECIFICATION FairSpec
CONSTANTS
    t1 = t1
    t2 = t2
    Targets = {t1, t2}
    Integrations <- MCIntegrations
    DeregisterFails = TRUE
    MaxFailures = 1
    MaxEdits = 1
INVARIANTS NodesAreProtected
PROPERTIES DeletionsComplete
CHECK_DEADLOCK FALSE
