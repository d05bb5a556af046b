SPECIFICATION PlatformSpec
CONSTANTS
    u1 = u1  u2 = u2  i1 = i1  i2 = i2  d1 = d1  d2 = d2  d3 = d3  x1 = x1  x2 = x2
    NoRow = NoRow
    Users = {u1, u2}
    Founder = u1
    Invitations = {i1, i2}
    Domains = {d1, d2, d3}
    TenantTxns = {x1, x2}
    InvitedRoles = {"owner", "editor"}
    Plans = {"starter"}
    SiteLimit <- MCSiteLimit
    UserLimit <- MCUserLimit
    BillTxns = {x1, x2}
    InOrder = FALSE
    MaxEvents = 2
    MaxRedeliver = 1
    MaxBillCalls = 4
    AloneEvents = 3
    AloneCalls = 5
    Processes = {x1, x2}
    FAILURE_THRESHOLD = 5
    OPEN_SECONDS = 2
    BreakerSeconds = 5
    ApiProcesses = {x1, x2}
    Limit = 2
    Window = 2
    LimitSeconds = 3
    Notifiers = {x1, x2}
    Subjects = {"a", "b"}
    DedupeHours <- MCDedupeHours
    MaxHours = 2
    MaxNews = 3
    OpsJobs <- NoJobs
    HealthTasks = {x1, x2}
    FAILED_JOBS_WARN = 1
    FAILED_JOBS_CRITICAL = 2
    MaxOpsRetries = 1
    MaxHealthFaults = 1
    Members = {"founder", "partner"}
    WsRoles = {"owner", "admin", "editor"}
    CredentialNames = {"default", "other"}
    WsTxns = {d1, d2}
    MaxWsRequests = 6
    DueSites = {"a", "b"}
    BeatTasks = {x1, x2}
    MaxRetries = 1
SYMMETRY Symmetries
CHECK_DEADLOCK FALSE
INVARIANTS
    PlatformTypeOK
    AccountFollows
    LoadIsHeldBack
    NewsIsToldOnce
    CountedIsThere
PROPERTIES
    MembershipHolds
    DeletionIsFinal
