SPECIFICATION Spec
CONSTANTS
    e1 = e1
    None = None
    Elsewhere = Elsewhere
    Tokens = {t1, t2}
    Emails = {e1}
    EmailOf <- SameAddress
    Tenants = {n1, n2}
    Jobs = {j1, j2}
    Savers = {v1}
    MaxFaults = 1
SYMMETRY Symmetry
INVARIANTS
    TypeOK
    EquippedBeforeUse
    CompletedGivesAccess
    StuckHasCause
    OrphanHasCause
    NamesUsedTenant
CHECK_DEADLOCK FALSE
