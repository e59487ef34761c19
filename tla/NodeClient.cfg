SPECIFICATION FairSpec
CONSTANTS
    Requests = {r1, r2, r3}
    Loop = Loop
    Nobody = Nobody
INVARIANTS
    TypeOK
    OneInProgress
    WaiterIsRegistered
    DrainFindsNoWaiter
    LeaksAreDroppedCalls
    MapEmptyWhileDown
    AnswersAreHonest
PROPERTIES
    EveryCallReturns
    SinkIsRestored
    ImplementsRpc
