SPECIFICATION FairSpec
CONSTANTS
    a1 = a1
    a2 = a2
    w1 = w1
    Procs = {a1, a2, w1}
    Late = {a2}
    Role <- MCRole
    Switches = {s1}
    First = First
    Collections = {c0}
    FirstCollection = c0
    Contents = {x}
    Mixed = Mixed
    MaxEdits = 0
    MaxFaults = 1
    Nobody = Nobody
PROPERTIES
    PreparingEnds
    CommittingEnds
\* Processes end and requests are refused: the system may stop.
CHECK_DEADLOCK FALSE
