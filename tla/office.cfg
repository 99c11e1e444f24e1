CONSTANTS
    ChatUsers = {u1, u2, u3}
    Founder = u1
    MaxMessages = 2
    MaxJoins = 2
    MaxChatRequests = 3
    ChatJobs = {j1, j2}
    Sockets = {j1, j2, b1}
    SocketUser <- UserOfSocket
    Sends = 2
    MaxVoters = 4
    MaxLeaders = 4
    LeaderNames = {"ana", "bia"}
    Keys = {"key"}
    Towns = {"t"}
    States = {"s1", "s2"}
    Files <- VoterFiles
    Imports = {j1, j2}
    VoterJobs = {j1, j2}
    BatchSize = 2
    MaxWork = 2
    NoKey = "no key"
    NoLeader = "no leader"
    ListVoters = 3
    ListLeaders = 2
    Neighborhoods = {"centro"}
    NoHood = "none"
    PerPage = 1
    MaxChanges = 2
    Callers = {j1, j2}
    Addresses <- AttemptsMade
    Places = {"town"}
    Gap = 2
    GeoTime = 5
    MaxVisits = 2
    MaxAppointments = 2
    MaxVisitRequests = 4
    VisitJobs = {j1, j2}
    AskedStatuses = {"AGENDADA", "CONCLUIDA"}
    MaxRecords = 3
    MaxVisitsIn = 2
    MaxHelpWork = 3
    HelpJobs = {j1, j2}
    HelpImports = {m1}
    TypeNames = {"Saude", "saude", "Visita ao Gabinete"}
    CabinetType = "Visita ao Gabinete"
    LowerCase <- InLowerCase
    People = {"rui"}
    Hoods = {"centro", "norte"}
    Leads = {"ana"}
    Sheets <- HelpSheets
    SheetBatch = 2
    None = "none"
    Visitors = {"v"}
    Names = {"rui"}
    Phones <- PhonesWritten
    Electors = {"rui", "bia"}
    Card <- CardOf
    NoOne = "nobody"
    VisitDays = {0, 1, 31}
    Today = 31
    DeskJobs = {m1}
    MaxDeskVisits = 2
    MaxDeskWork = 3
SPECIFICATION Spec
SYMMETRY Symmetry
CHECK_DEADLOCK FALSE
INVARIANTS  ChatIsFollowed  VisitsInStep 
