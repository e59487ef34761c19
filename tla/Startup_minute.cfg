SPECIFICATION StartupFairSpec
CONSTANTS
    Requests = {1, 2, 3}
    Loop = Loop
    Nobody = Nobody
    RequestTimeout = 2
    RetryDelay = 1
    MaxAttempts = 3
CHECK_DEADLOCK FALSE
INVARIANTS
    GivesUpWithinAMinute
