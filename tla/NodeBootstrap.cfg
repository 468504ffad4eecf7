SPECIFICATION MCSpec
CONSTANTS
    a = a
    b = b
    Launches = {a, b}
    TTL = 2
    Renew = 1
    MaxTime = 3
    MaxTokens = 3
    MaxFailures = 1
INVARIANTS BootIsSafe
PROPERTIES BootCompletes
CHECK_DEADLOCK FALSE
