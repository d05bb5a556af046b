------------------------- MODULE MCTopicClustering -------------------------
(* Three queries, four pages and two keywords with snapshots, for TLC: one  *)
(* of the keywords is a query of Search Console, the other is not.          *)
EXTENDS TopicClustering, TLC

MCQueries    == {"audit", "audit tool", "audit tool free"}
MCKeywords   == {"audit", "crawler"}
MCPages      == {"/seo/a", "/seo/b", "/"}
MCPathPrefix == [p \in MCPages |-> IF p = "/" THEN "" ELSE "seo"]

MCImpressions ==
    [qp \in MCQueries \X MCPages |-> IF qp[1] = "audit" THEN 60 ELSE IF qp[2] = "/" THEN 120 ELSE 100]

(* Similar in a chain, similar enough to compete, and not at all.          *)
MCWordChoices ==
    {[q \in MCQueries |-> CASE q = "audit"           -> {1, 2}
                            [] q = "audit tool"      -> {1, 2, 3}
                            [] q = "audit tool free" -> {1, 2, 3, 4}],
     [q \in MCQueries |-> CASE q = "audit"           -> {1}
                            [] q = "audit tool"      -> {2, 3}
                            [] q = "audit tool free" -> {3}]}

(* The first two share one result in four, the first and the last one in one. *)
MCTopChoices == {{}, {1, 2, 3, 4}, {4, 5, 6, 7}, {4}}
=============================================================================
