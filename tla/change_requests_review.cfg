SPECIFICATION Spec
CONSTANTS
    v1 = v1
    None = None
    Requests = {r1}
    Voters = {v1}
    VoterOf <- AllOfOne
    Changes = {c1, c2}
    Jobs = {j1, j2}
    MaxFaults = 0
SYMMETRY Symmetry
CHECK_DEADLOCK FALSE
PROPERTIES AnalysedStaysUnaltered
