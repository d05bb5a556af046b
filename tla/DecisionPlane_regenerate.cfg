SPECIFICATION Spec
CONSTANTS
    Requests = {q1}
    striking_query = striking_query
    many_urls = many_urls
    sitemap_missing = sitemap_missing
    Findings <- MCAllFindings
    SitemapFindings <- MCSitemapFindings
    MultiUrlFindings <- MCMultiUrl
    MaxRequests = 4
INVARIANTS
    GenerateIdempotent
CHECK_DEADLOCK FALSE
