SPECIFICATION StartupFairSpec
CONSTANTS
    Requests = {1, 2}
    Loop = Loop
    Nobody = Nobody
    RequestTimeout = 2
    RetryDelay = 1
    MaxAttempts = 2
CHECK_DEADLOCK FALSE
INVARIANTS
    StartupTypeOK
    StartupIsBounded
    HealthyNodeIsFound
PROPERTIES
    StartupEnds
