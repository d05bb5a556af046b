SPECIFICATION BackgroundSpec
CONSTANTS
    t1 = t1  t2 = t2  r1 = r1  r2 = r2  r3 = r3  w1 = w1  w2 = w2
    wsA = wsA  wsB = wsB  k1 = k1
    Txns = {t1, t2}
    Workers = {w1, w2}
    Runs = {r1, r2}
    Workspaces = {wsA}
    Keys = {k1}
    NoKey = NoKey  NoRun = NoRun  NoCall = NoCall
    Calls <- OneWorkspaceCalls
    MaxQueued = 2
    QuotaLimit = 2
    MaxRetries = 1
    MaxCalls = 3
    MaxCrashes = 0
    MaxDuplicates = 0
    MaxDbErrors = 1
    j1 = j1
    sitemap_missing = sitemap_missing
    sitemap_unreachable = sitemap_unreachable
    page_noindex = page_noindex
    SyncWorkers = {w1, w2}
    Lag = 2
    Backfill = 0
    SyncDays = 3
    MaxSyncErrors = 1
    IssueJobs = {w1, w2}
    SitemapFaults = {sitemap_missing, sitemap_unreachable}
    PageFaults = {page_noindex}
    MaxChanges = 3
    MaxIssueAborts = 1
    OpsJobs = {j1}
    HealthTasks = {w1}
    FAILED_JOBS_WARN = 1
    FAILED_JOBS_CRITICAL = 2
    MaxOpsRetries = 1
    MaxHealthFaults = 1
    Sections = 2
    CallLimit = 2
    SEO_PASS_THRESHOLD = 85
    SEO_MAX_RETRIES = 3
    Varying <- MCVarying
CHECK_DEADLOCK FALSE
INVARIANTS
    BackgroundTypeOK
    NoGapBelowCursor
    
PROPERTIES
    WorkEnds
    PublishedIsIngested
    SitemapIssuesFollow
    LostIsReported
