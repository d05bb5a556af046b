-------------------------- MODULE MCDecisionPlane --------------------------
(* Small instances of DecisionPlane: model values for requests and         *)
(* findings: one of the sitemap rules, one of OG-004, one of another rule.  *)
EXTENDS DecisionPlane, TLC

CONSTANTS striking_query, many_urls, sitemap_missing

MCFindings        == {striking_query, sitemap_missing}
MCAllFindings     == MCFindings \cup {many_urls}
MCSitemapFindings == {sitemap_missing}
MCMultiUrl        == {many_urls}
None              == {}
=============================================================================
