CONSTANTS
    Bought = {s1}
    Given = {s2}
    Users = {u1}
    Jobs = {j1}
    Period = 1
    MaxTime = 2
    MaxFaults = 1
    MaxPatches = 0
    None = None
SPECIFICATION FairSpec
CHECK_DEADLOCK FALSE
PROPERTIES ExpiredIsDeactivated
