SPECIFICATION Spec
CONSTANTS
    People = {1, 2}
    Selections <- MCSelections
    BatchSize = 1
    MaxReminders = 1
    Runners = {r1, r2}
    MaxJobs = 2
    MaxDeaths = 0
    Confirming = {1}
    Owners = {1, 2, 3}
    BatchScan = 2
    BatchPushes = 1
    Workers = {w1, w2}
    MaxChanges = 3
    MaxBatchDeaths = 1
    Keys = {k1, k2, k3}
    Requests = {q1, q2}
    MaxSize = 2
    Quota = 3
    Callers = {c1, c2}
    MaxHits = 1
    MaxWindow = 1
    MaxCalls = 4
    Users = {1, 2, 3}
    Chunk = 2
    MaxSubmits = 2
    MaxMoves = 1
    MaxOwnActs = 1
    Blocks = {1, 2, 3, 4}
    MaxColumns = 2
    MaxNesting = 2
    MaxLocks = 1
    Tabs = {p1, p2}
    MaxTick = 4
    FileBlocks = {1, 2}
    Contents = {1, 2}
    MaxEdits = 1
    TextBlocks = {1}
    CompanyWords = {1, 2}
    Words = {1, 2, 3}
    Editors = {e1, e2}
    MaxTemplateUpdates = 2
    MaxTypings = 2
    StaleTexts = FALSE
    FullWidth = 12
    MinWidth = 2
    MostColumns = 4
    Children = {1, 2}
    RawWidths = {0, 1, 3}
    Upgraders = {u1, u2}
    LastTemplate = 2
    MaxRelease = 3
    MaxFaults = 1
    Mailboxes = {1, 2}
    MaxEvents = 3
    MaxOpen = 2
    MaxSiteChanges = 1
    CacheTtl = 1
    StaleMax = 2
    MaxHour = 2
    PageSize = 2
    MaxRows = 3
    MaxDataChanges = 1
    Staff = {1, 2}
    Groups = {1, 2}
    FirstGroups = {1}
    CampaignGroups = {2}
    Footers = {2}
    Profiles = {0, 1}
    Clerks = {d1, d2}
    MaxTasks = 2
    MaxImported = 1
    MaxTaskDeaths = 1
    RacedDeletion = FALSE
PROPERTY CancelStops
CHECK_DEADLOCK FALSE
