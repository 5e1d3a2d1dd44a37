\* Two tariff versions and an administrator: the property is violated.
SPECIFICATION Spec
CONSTANTS
    o1 = o1
    o2 = o2
    j1 = j1
    j2 = j2
    s1 = s1
    s2 = s2
    a1 = a1
    a2 = a2
    p1 = p1
    p2 = p2
    Ops = {o1, o2}
    Principals = {p1, p2}
    Owner <- MCOwners
    Versions = {1, 2}
    Price <- MCPrice
    Limits <- MCTightLimit
    Hour = 1
    Day = 1
    Charges = {0, 2}
    MaxTime = 0
    Jobs = {j1, j2}
    OpsOf <- MCOpsOf
    Slots = {s1, s2}
    Attempts = {a1, a2}
    SlotOf <- MCSlotOf
    Admins = {adm}
    Nobody = Nobody
    NoJob = NoJob
    NoOp = NoOp
PROPERTIES
    ViolatedTariffRefused
