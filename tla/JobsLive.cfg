SPECIFICATION FairSpec
CONSTANTS
    p1 = p1
    Docs = {d1}
    Jobs = {j1, j2}
    Principals = {p1}
    Owner <- MCOwner
    MaxTries = 2
    MaxWaits = 1
    MaxFaults = 1
    CronDies = FALSE
    HasReplica = FALSE
    NoDoc = NoDoc
    Free = Free
    Abandoned = Abandoned
INVARIANTS
    DoneProcessing
PROPERTIES
    JobsEnd
    PendingEnds
    ProcessingEnds
CHECK_DEADLOCK FALSE
