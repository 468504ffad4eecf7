SPECIFICATION FairSpec
CONSTANTS
    FailureThreshold = 2
    FailureWindow = 2
    RecoveryTimeout = 2
    HalfOpenMaxRequests = 1
    RateLimitPerMinute = 2
    MaxConcurrentInstances = 2
    Minute = 1
    UnusedAge = 3
    CleanupInterval = 2
    MaxDuration = 3
    ManualResets = TRUE
    Keys = {k1}
    Calls = {c1, c2, c3}
INVARIANTS NoLeakedSlot NoLeakedProbe ProbeLimit
PROPERTIES BlocksWhileOpen NeverBlockedForGood
