SPECIFICATION FairSpec
CONSTANTS
    e1 = e1
    None = None
    Elsewhere = Elsewhere
    Tokens = {t1, t2}
    Emails = {e1}
    EmailOf <- SameAddress
    Tenants = {n1}
    Jobs = {j1, j2}
    Savers = {}
    MaxFaults = 0
PROPERTIES
    UserLeadsToCompleted
CHECK_DEADLOCK FALSE
