SPECIFICATION Spec
CONSTANTS
    v1 = v1
    None = None
    Requests = {r1}
    Voters = {v1}
    VoterOf <- AllOfOne
    Changes = {c1, c2}
    Jobs = {j1, j2}
    MaxFaults = 1
SYMMETRY Symmetry
INVARIANTS
    TypeOK
    ApprovedInForce
    AppliedIsApproved
    AuditIsComplete
    PendingIsAnnounced
CHECK_DEADLOCK FALSE
