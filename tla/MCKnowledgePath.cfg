SPECIFICATION Spec
CONSTANTS
    EntityRequests <- MCEntityRequests
    RelationRequests <- MCRelationRequests
    MaxHops = 5
    MaxUpdated = 1
    Depths = {0, 1, 2, 3}
    None = None
    Facts <- MCFacts
    Profiles <- MCProfiles
    MaxReports = 3
    Missing = Missing
    EpisodeKinds <- MCEpisodeKinds
    MaxEpisodes = 4
    Interval = 1
    MaxDays = 2
    Historical = {{"line"}, {"press"}}
    TwinMemories <- MCTwinMemories
    CaptureConfigs <- MCCaptureConfigs
    All = All
    MaxRuns = 2
    Callers = {c1, c2}
    Systems = {"erp", "mes"}
    Memories <- MCMemories
    MaxNow = 3
    Blank = Blank
    Submitters = {s1, s2}
    Submissions <- MCSubmissions
    Nil = Nil
    BaseTokens = 40
    NoCap = NoCap
    Unset = Unset
    TopK = 2
    MaxTopK = 3
    EfSearch = 2
    User = "u1"
    Agent = "g1"
    Tenant = "t1"
    OtherTenant = "t2"
    MaxChanges = 1
    HotTexts <- MCHotTexts
    PackageBudgets = {20, 24, 30}
    Stores <- MCStores
    Items <- MCItems
    Requests <- MCRequests
    UserProfiles <- MCUserProfiles
    Tasks <- MCTasks
    Searches <- MCSearches
    PreFilters <- MCPreFilters
INVARIANTS
    BudgetKept
    SharedVetted
    SearchSound
    PathsReal
    ConclusionsGrounded
    RecordsKept
CHECK_DEADLOCK FALSE
