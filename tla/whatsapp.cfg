CONSTANTS
    Connections = {c1, c2, c3}
    ConnectJobs = {j1, j2}
    MaxRequests = 3
    MaxRemote = 2
    MaxLosses = 1
    MaxEvents = 4
    OwnIds = {o1}
    ContactIds = {i1}
    Senders = {s1, s2}
    MaxRows = 2
    MessageJobs = {j1, j2}
    MaxReports = 2
    MaxAsked = 2
    MediaKeys = {k1, k2}
    Sizes = {1, 2, 4}
    MaxBytes = 3
    TTL = 1
    MaxTime = 2
    MaxUses = 5
    Lines = {j1, j2}
    Phones = {p1, p2}
    MaxDay = 1
    MaxMessages = 3
    MaxEdits = 2
    MaxWrites = 4
    PageLimit = 1
    TopContacts = 1
SPECIFICATION Spec
SYMMETRY Symmetry
CHECK_DEADLOCK FALSE
INVARIANTS WhatsappTypeOK DefaultConnection DeletedLeavesNothing StatusHasCause MessagesFollowWebhooks ReadsAreTrue
