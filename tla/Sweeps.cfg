SPECIFICATION FairSpec
CONSTANTS
    Sweeps = {s1, s2}
    Jobs = {j1, j2}
    Configs = {c1}
    MaxFaults = 1
    NoJob = NoJob
INVARIANTS
    TypeOK
    DoneHasResults
PROPERTIES
    CancellationHolds
    CheckpointsKept
    SweepsEnd
\* Nobody need ask for another sweep: the system may stop.
CHECK_DEADLOCK FALSE
