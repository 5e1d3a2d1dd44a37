SPECIFICATION Spec
CONSTANTS
    p1 = p1
    Docs = {d1, d2}
    Jobs = {j1, j2}
    Principals = {p1}
    Owner <- MCOwner
    MaxTries = 3
    MaxWaits = 1
    MaxFaults = 1
    CronDies = TRUE
    HasReplica = TRUE
    NoDoc = NoDoc
    Free = Free
    Abandoned = Abandoned
SYMMETRY MCSymmetry
INVARIANTS
    TypeOK
    RowsHaveObjects
    WaitsCostNoRetry
    DoneDeletion
    NoOrphanObject
CHECK_DEADLOCK FALSE
