SPECIFICATION FairSpec
CONSTANTS
    s1 = s1
    None = None
    Sessions = {s1}
    Payments = {p1}
    SessionOf <- AllOfOne
    Jobs = {j1, j2}
    MaxFaults = 0
PROPERTIES
    PaidLeadsToAccess
CHECK_DEADLOCK FALSE
