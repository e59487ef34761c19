SPECIFICATION SubFairSpec
CONSTANTS
    Subs = {s1, f1, f2}
    Queries = {{f1, f2}}
    MaxPolls = 2
    MaxGen = 1
    Requests <- Polls
CHECK_DEADLOCK FALSE
INVARIANTS
    SubTypeOK
    OneOpenPoll
PROPERTIES
    FetchedInOrder
    SnapshotIsFresh
    StreamGoesOn
