SPECIFICATION DecisionsSpec
CONSTANTS
    q1 = q1  q2 = q2
    k1 = k1  k2 = k2  c1 = c1  c2 = c2  c3 = c3  b1 = b1  b2 = b2
    striking_query = striking_query
    many_urls = many_urls
    sitemap_missing = sitemap_missing
    SitemapFindings <- MCSitemapFindings
    Prompts = {k1}
    BrandNames = {b1, b2}
    NoName = NoName
    MaxEntities = 1
    Keywords = {k1}
    WrongLoss = 60
    NegativeLoss = 30
    MaxIntakes = 3
    ClusterIds = {c1, c2, c3}
    NoCluster = NoCluster
    MaxExecRequests = 6
    MaxAiRequests = 3
    Findings <- MCSitemapFindings
    MultiUrlFindings <- None
    Requests = {q1, q2}
    StratTxns = {q1, q2}
    AiTxns = {q1, q2}
    ExecTxns = {q1, q2}
    GraphTxns = {q1, q2}
    Company = {"site"}
    Pages = {"page"}
    MaxFacts = 2
    KnowTxns = {q1, q2}
    IngestTasks = {k1}
    MaxKnowRequests = 0
    SlotTypes <- MCSlotTypes
    Results <- MCResults
    Urls = {"/a"}
    NoUrl = "none"
    SerpTxns = {q1, q2}
    MaxSerpRequests = 0
    MaxRequests = 5
    MaxStratRequests = 4
    MaxAnswers = 1
    MaxGraphRequests = 3
    Queries = {k1, k2}
SYMMETRY Symmetries
CHECK_DEADLOCK FALSE
INVARIANTS
    OneCandidatePerOpportunity
    OnlyApprovalsScheduled
    DuplicatesBounded
    CompletedIsEarned
PROPERTIES
    LockedStays
