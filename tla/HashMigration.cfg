SPECIFICATION FairSpec
CONSTANTS
    c1 = c1
    c2 = c2
    a = a
    b = b
    Claims = {c1, c2}
    Parts = {a, b}
    MaxEdits = 1
    MaxWrites = 2
    MaxRestarts = 1
INVARIANTS NoMissedDrift BumpDoesNotDrift PinnedStayExact
PROPERTIES MigrationCompletes
CHECK_DEADLOCK FALSE
