SPECIFICATION Spec
CONSTANTS
    Tenants = {"t1"}
    Months = {"m1", "m2"}
    Writers = {x1, x2}
    Archivers = {z1}
    MaxWrites = 2
    Thresholds <- MCThresholds
    Measures <- MCMeasures
    MaxInt = 15
    Dim = 1
    MaxLag = 1
    MaxTime = 4
    Unset = Unset
    Sources <- MCSources
    Present <- MCPresent
    MaxImports = 2
    NoReport = NoReport
    GeneIds = {"g1", "g2"}
    CapsuleIds = {"c1"}
    GeneDefs <- MCGeneDefs
    Queries <- MCQueries
    MaxCalls = 4
    Nothing = Nothing
    Tokens = {"t1", "u2"}
    UserOf <- MCUserOf
    Orgs = {"o1", "o2"}
    HeaderMaps <- MCHeaderMaps
    Uuids = {"id"}
    Callers = {x1, x2}
    Managers = {x1, x2}
    CacheTTL = 1
    MaxMoves = 1
    ProfileTTL = 1
    LastTime = 2
    MaxProfile = 4
    Absent = Absent
    ApiCallers = {x1, x2}
    Memories = {"m"}
    ApiTenants = {"o1", "o2"}
    ApiUsers = {"u1", "u2"}
    ScopeOrder <- MCScopeOrder
    MaxApiCalls = 3
    Roles = {"enterprise", "editor"}
    RolePermissions <- MCRolePermissions
    PageSizes = {0, 1, 2, 3}
    MaxTotal = 4
    Missing = Missing
    Results <- MCResults
    MaxAttempts = 3
    ContextLimit = 2
    AgentTexts <- MCAgentTexts
    AgentBudgets = {0, 1, 3}
    ToolCallers = {x1, x2}
    Unanswered = Unanswered
    Payers = {x1, x2}
    Recorders = {z1}
    Amounts = {2}
    Budgets <- MCBudgets
    DayHours = 2
    MonthHours = 3
    LastHour = 3
    MaxEntries = 2
    Latencies = {1, 5, 6}
    Target = 5
    MaxSamples = 4
    OneIn = 3
    MaxCount = 1
    Engines = {"e"}
    Scores = {1, 4}
    Unmetered = Unmetered
    Texts <- MCTexts
    BankWindow = 3
    PassportBefore = 3
    PassportAfter = 1
    Payloads <- MCPayloads
    Rotators = {x1, x2}
    Secrets = {"s1", "s2"}
    MaxRotations = 3
    NoMask = NoMask
    Connections = {x1, x2}
    Mirrored = {"m"}
    MaxEngineCalls = 3
    Monitors = {x1, x2}
    MaxEvents = 3
    Silence = Silence
    Whole = 72
    TypeGap = 6
    MaxPerType = 1
    SmallK = 1
    LargeK = 2
    Contents <- MCContents
    TokenBudget = 4
    Widths = {0, 2}
    MaxRequests = 4
    Millis = {0, 3}
    Grades = {0, 36, 72}
SYMMETRY Symmetry
INVARIANTS
    StorageSound
    RequestsSound
    AccountsSound
CHECK_DEADLOCK FALSE
