\* Two tariff versions, two jobs of one principal and two ticks of the clock.
SPECIFICATION Spec
CONSTANTS
    o1 = o1
    o2 = o2
    j1 = j1
    j2 = j2
    s1 = s1
    s2 = s2
    a1 = a1
    a2 = a2
    p1 = p1
    p2 = p2
    Ops = {o1, o2}
    Principals = {p1}
    Owner <- MCOneOwner
    Versions = {1, 2}
    Price <- MCPrice
    Limits <- MCTightLimit
    Hour = 1
    Day = 2
    Charges = {0, 2}
    MaxTime = 2
    Jobs = {j1, j2}
    OpsOf <- MCOpsOf
    Slots = {s1, s2}
    Attempts = {a1, a2}
    SlotOf <- MCSlotOf
    Admins = {}
    Nobody = Nobody
    NoJob = NoJob
    NoOp = NoOp
INVARIANTS
    WithinBudget
PROPERTIES
    LedgerRefined
