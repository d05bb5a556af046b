SPECIFICATION PlanningSpec
CONSTANTS
    page1 = page1  page2 = page2  b1 = b1
    WeekNumbers = {1, 3}
    LastDay = 7
    WeekBatches = 2
    Batches = {b1}
    Candidates = {1, 2}
    NoContent = {2}
    WeekDays <- MCWeekDays
    PerWeek = {0, 3}
    OtherSites = TRUE
    MaxDay = 3
    MaxBatches = 2
    MaxUpdates = 1
    Urls <- MCUrls
    NoUrl = NoUrl
    MaxRows = 3
    Features <- MCFeatures
    Signals <- MCSignals
    Volumes = {0, 500, 5000}
    Counts = {0, 4, 6, 9}
    Demands = {0, 5, 10}
    Queries <- MCQueries
    Keywords <- MCKeywords
    Pages <- MCPages
    PathPrefix <- MCPathPrefix
    Impressions <- MCImpressions
    WordChoices <- MCWordChoices
    TopChoices <- MCTopChoices
SYMMETRY UrlSymmetry
CHECK_DEADLOCK FALSE
INVARIANTS
    PlanningTypeOK
    BatchesKeepToSchedule
    RiskBuckets
    DependencyIsLastFix
    ClustersAreGroups

    
