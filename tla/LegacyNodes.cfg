SPECIFICATION MCSpec
CONSTANTS
    MaxTouches = 1
    MaxNodes = 2
PROPERTIES MigrationIsSafe MigrationSettles
CHECK_DEADLOCK FALSE
