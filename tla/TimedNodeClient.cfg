SPECIFICATION TimedSpec
CONSTANTS
    Requests = {r1, r2, r3}
    Loop = Loop
    Nobody = Nobody
    RequestTimeout = 2
    RetryDelay = 1
SYMMETRY Symmetry
INVARIANTS
    TimedTypeOK
    BoundedWait
