SPECIFICATION Spec
CONSTANTS
    s1 = s1
    None = None
    Sessions = {s1}
    Payments = {p1}
    SessionOf <- AllOfOne
    Jobs = {j1, j2}
    MaxFaults = 2
SYMMETRY Symmetry
INVARIANTS
    PaidIsServed
PROPERTIES
    ProvisionsOnce
CHECK_DEADLOCK FALSE
