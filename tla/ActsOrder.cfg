SPECIFICATION Spec
CONSTANTS
    Acts = {a1}
    NoAct = NoAct
    MaxVersions = 3
    MaxPending = 1
    MaxDate = 2
    Requests <- Corrections
    Commands = {c1, c2}
SYMMETRY Symmetry
CONSTRAINT Bounded
INVARIANTS
    TypeOK
    NoConflict
    Adjacent
    ActServed
\* The uploads are bounded: the system may stop.
CHECK_DEADLOCK FALSE
