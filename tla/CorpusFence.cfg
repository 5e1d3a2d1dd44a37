SPECIFICATION UpToDate
CONSTANTS
    a1 = a1
    a2 = a2
    w1 = w1
    Procs = {a1, w1}
    Late = {}
    Role <- MCRole
    Switches = {s1, s2}
    First = First
    Collections = {c0, c1}
    FirstCollection = c0
    Contents = {x, y}
    Mixed = Mixed
    MaxEdits = 1
    MaxFaults = 1
    Nobody = Nobody
SYMMETRY Requests
INVARIANTS
    TypeOK
    WritesFenced
    ActiveHoldsCorpus
    ServedIsPublished
PROPERTIES
    InstalledByBothRoles
    RegisterRefined
\* Processes end and requests are refused: the system may stop.
CHECK_DEADLOCK FALSE
