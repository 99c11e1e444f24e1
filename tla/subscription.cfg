CONSTANTS
    Bought = {s1}
    Given = {}
    Users = {u1}
    Jobs = {j1, j2}
    Period = 1
    MaxTime = 2
    MaxFaults = 1
    MaxPatches = 1
    None = None
SPECIFICATION Spec
SYMMETRY Symmetry
CHECK_DEADLOCK FALSE
INVARIANTS TypeOK PaidKeepsAccess ActiveMeansPaid
