SPECIFICATION FairSpec
CONSTANTS
    Events = {e1, e2, e3}
    MaxNow = 2
CHECK_DEADLOCK FALSE
INVARIANTS
    SeqTypeOK
    AcknowledgedInOrder
PROPERTIES
    BacklogDrains
