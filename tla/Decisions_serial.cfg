SPECIFICATION DecisionsSpec
CONSTANTS
    q1 = q1  q2 = q2
    k1 = k1  k2 = k2  c1 = c1  c2 = c2  c3 = c3  b1 = b1  b2 = b2
    striking_query = striking_query
    many_urls = many_urls
    sitemap_missing = sitemap_missing
    SitemapFindings <- MCSitemapFindings
    Prompts = {k1}
    BrandNames = {b1, b2}
    NoName = NoName
    MaxEntities = 1
    Keywords = {k1}
    WrongLoss = 60
    NegativeLoss = 30
    MaxIntakes = 3
    ClusterIds = {c1, c2, c3}
    NoCluster = NoCluster
    MaxExecRequests = 6
    MaxAiRequests = 3
    Findings <- MCAllFindings
    MultiUrlFindings <- MCMultiUrl
    Requests = {q1}
    StratTxns = {q1}
    AiTxns = {q1}
    ExecTxns = {q1}
    GraphTxns = {q1}
    Company = {"site"}
    Pages = {"page"}
    MaxFacts = 2
    KnowTxns = {q1}
    IngestTasks = {k1}
    MaxKnowRequests = 5
    SlotTypes <- MCSlotTypes
    Results <- MCResults
    Urls = {"/a"}
    NoUrl = "none"
    SerpTxns = {q1}
    MaxSerpRequests = 4
    MaxRequests = 5
    MaxStratRequests = 6
    MaxAnswers = 2
    MaxGraphRequests = 4
    Queries = {k1}
SYMMETRY BrandSymmetry
CHECK_DEADLOCK FALSE
INVARIANTS
    DecisionsTypeOK
    DecisionsAreSound
    PacksAreVetted
PROPERTIES
    ConstraintsHold
    SlotsAreKept
    HistoryIsKept
    ScoresAreSound
