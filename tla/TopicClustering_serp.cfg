SPECIFICATION ClusterSpec
CONSTANTS
    Queries <- MCQueries
    Keywords <- MCKeywords
    Pages <- MCPages
    PathPrefix <- MCPathPrefix
    Impressions <- MCImpressions
    WordChoices <- MCWordChoices
    TopChoices <- MCTopChoices
CHECK_DEADLOCK FALSE
INVARIANTS GraphIsBuilt
