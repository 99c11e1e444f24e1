CONSTANTS
    Users = {u1}
    Tenants <- OneTenant
    Passwords = {p1, p2}
    SessionJobs = {j1, j2}
    TicksPerSecond = 2
    MaxTick = 2
    MaxKicks = 1
    MaxTokens = 1
    MaxWrites = 1
    Roles = {r1}
    Members = {m1}
    MemberRole <- RoleOf
    SuperAdmin = SuperAdmin
    Modules = {"visits", "core"}
    CoreModules = {"core"}
    Catalog <- Catalogue
    Seeded <- SeededRows
    Editors = {j1, j2}
    Queries = {q1}
    NoKey = NoKey
    MaxEdits = 2
    Leaders = {l1}
    Staff = {f1}
    Logins = {a1, a2}
    LinkJobs = {j1, j2}
    NoLogin = NoLogin
    NoHolder = NoHolder
    MaxEditsOfUserId = 1
    TenantJobs = {j1, j2}
    Kinds = {"logo"}
    Plans = {"p", "q"}
    NoPlan = "no plan"
    Officers = {"ana"}
    MaxTenantAsks = 3
    LeadJobs = {j1, j2}
    Written = {"ana", "Ana"}
    Normal <- InSmallLetters
    Offers = {"p", "q"}
    NoOffer = "no plan"
    MaxLeadRows = 2
    MaxLeadAsks = 3
SPECIFICATION Spec
SYMMETRY Symmetry
CHECK_DEADLOCK FALSE
INVARIANTS AccessTypeOK KickEndsSessions RowsAreKept RowsAsRequested PermissionsAreCurrent LeaderLinkHasCause
