SPECIFICATION HubFairSpec
CONSTANTS
    Requests <- MCCalls
    Loop = Loop
    Nobody = Nobody
    Subs = {s1}
    Queries = {}
    MaxPolls = 1
    MaxGen = 2
    Jobs = {j1}
    Users = {alice}
    Owner <- MCOwner
    Elsewhere = Elsewhere
    Texts <- MCTexts
    MaxSubmits <- MCSubmits
    MaxElsewhere = 1
    MaxU64 = 15
    MaxI64 = 7
    Doubles <- MCDoubles
CHECK_DEADLOCK FALSE
INVARIANT
    HubTypeOK
PROPERTIES
    WritesAreSeen
    ImplementsStreams
    ImplementsTransactions
    StreamGoesOn
