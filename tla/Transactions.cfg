SPECIFICATION TxSpec
CONSTANTS
    j1 = j1
    j2 = j2
    alice = alice
    Jobs = {j1, j2}
    Users = {alice}
    Owner <- MCOwner
    Elsewhere = Elsewhere
    MaxSubmits <- MCSubmits
    MaxElsewhere = 1
    Requests <- TxCalls
    MaxU64 = 15
    MaxI64 = 7
    Doubles <- MCDoubles
    Texts <- MCTexts
CHECK_DEADLOCK FALSE
INVARIANTS
    TxTypeOK
    RefusalsAreRaces
    AcceptedIsApplied
    BurnIsExact
    ListsAreExact
