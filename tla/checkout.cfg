SPECIFICATION Spec
CONSTANTS
    s1 = s1
    None = None
    Sessions = {s1}
    Payments = {p1, p2}
    SessionOf <- AllOfOne
    Jobs = {j1, j2}
    MaxFaults = 0
SYMMETRY Symmetry
INVARIANTS
    TypeOK
    RecordedBeforeAccess
    AdjustedMeansPlanPrice
PROPERTIES
    SettledChangesByEntityOnly
CHECK_DEADLOCK FALSE
