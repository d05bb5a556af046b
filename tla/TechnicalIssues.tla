--------------------------- MODULE TechnicalIssues ---------------------------
(***************************************************************************)
(* Technical issues of one site, opened and resolved by the indexability   *)
(* and crawl jobs (indexability/technical_issues.py, jobs/handlers/        *)
(* indexability_sitemap_health.py, indexability_published_noindex.py,      *)
(* tech_seo_crawl.py). What is wrong with the site is external; a job      *)
(* looks at it first and writes later, and jobs of a site overlap.         *)
(***************************************************************************)
EXTENDS Naturals, FiniteSets

CONSTANTS
    IssueJobs,      \* jobs of the site that can run at once
    SitemapFaults,  \* gsc_sitemap_* issue types: matched by type alone
    PageFaults,     \* issue type and URL of a page: matched by both
    MaxChanges,     \* bound: changes of the site
    MaxIssueAborts  \* bound: jobs that are rolled back

ASSUME TechnicalIssuesAssumption ==
    /\ IsFiniteSet(IssueJobs) /\ SitemapFaults \cap PageFaults = {}
    /\ MaxChanges \in Nat /\ MaxIssueAborts \in Nat

VARIABLES
    faulty,       \* external: what is wrong with the site now
    changes,      \* changes of the site so far
    openRows,     \* committed technical_issues with status open, by key
    issueJob,     \* the jobs
    issueAborts   \* jobs rolled back so far

issueVars == <<faulty, changes, openRows, issueJob, issueAborts>>

Faults == SitemapFaults \cup PageFaults
Waiting == [pc |-> "waiting"]

(* add: keys a row is inserted for; gone: open rows to resolve, by key.    *)
IssuesTypeOK ==
    /\ faulty \subseteq Faults /\ changes \in 0 .. MaxChanges
    /\ openRows \in [Faults -> 0 .. Cardinality(IssueJobs)]
    /\ \A j \in IssueJobs : issueJob[j] \in {Waiting}
         \cup [pc : {"looked"}, kind : {"sitemap", "pages"}, report : SUBSET Faults]
         \cup [pc : {"matched"}, add : SUBSET Faults, gone : [SitemapFaults -> Nat]]
    /\ issueAborts \in 0 .. MaxIssueAborts

IssuesInit ==
    /\ faulty = {} /\ changes = 0
    /\ openRows = [f \in Faults |-> 0]
    /\ issueJob = [j \in IssueJobs |-> Waiting]
    /\ issueAborts = 0

----------------------------------------------------------------------------
(* External: something breaks or is mended.                                *)
SiteChanges(f) ==
    /\ changes < MaxChanges /\ changes' = changes + 1
    /\ faulty' = IF f \in faulty THEN faulty \ {f} ELSE faulty \cup {f}
    /\ UNCHANGED <<openRows, issueJob, issueAborts>>

Look(j, kind, report) ==
    /\ issueJob[j] = Waiting
    /\ issueJob' = [issueJob EXCEPT ![j] = [pc |-> "looked", kind |-> kind, report |-> report]]
    /\ UNCHANGED <<faulty, changes, openRows, issueAborts>>

(* audit_gsc_sitemap_health; audit_recent_published_urls, the crawl of     *)
(* some pages.                                                             *)
LookAtSitemap(j) == Look(j, "sitemap", faulty \cap SitemapFaults)
LookAtPages(j)   == \E pages \in SUBSET PageFaults : Look(j, "pages", faulty \cap pages)

Matched(j, add, gone) ==
    /\ issueJob' = [issueJob EXCEPT ![j] = [pc |-> "matched", add |-> add, gone |-> gone]]
    /\ UNCHANGED <<faulty, changes, openRows, issueAborts>>

NoneGone == [f \in SitemapFaults |-> 0]

(* Fault: one open row is enough for all that is found. *)
UpsertIssuesTogether(j) ==
    /\ issueJob[j].pc = "looked" /\ issueJob[j].report # {}
    /\ \A f \in issueJob[j].report : openRows[f] <= 1
    /\ Matched(j, IF \E f \in Faults : openRows[f] = 1 THEN {} ELSE issueJob[j].report, NoneGone)

(* upsert_technical_issue for each finding: scalar_one_or_none takes no    *)
(* row or one, and raises at two.                                          *)
UpsertIssues(j) ==
    /\ issueJob[j].pc = "looked" /\ issueJob[j].report # {}
    /\ \A f \in issueJob[j].report : openRows[f] <= 1
    /\ Matched(j, {f \in issueJob[j].report : openRows[f] = 0}, NoneGone)

(* ... at two open rows of a finding: the sitemap and crawl handlers catch *)
(* it and commit the findings before it, the noindex handler fails.        *)
UpsertFindsTwo(j) ==
    /\ issueJob[j].pc = "looked"
    /\ \E f \in issueJob[j].report : openRows[f] > 1
    /\ \E before \in SUBSET {f \in issueJob[j].report : openRows[f] <= 1} :
         Matched(j, {f \in before : openRows[f] = 0}, NoneGone)

(* A healthy report: resolve_open_technical_issues takes every open row of *)
(* the sitemap types, however many.                                        *)
Resolve(j) ==
    /\ issueJob[j].pc = "looked" /\ issueJob[j].kind = "sitemap" /\ issueJob[j].report = {}
    /\ Matched(j, {}, [f \in SitemapFaults |-> openRows[f]])

(* Nothing found on the pages: issues of pages are never resolved.         *)
PagesFine(j) ==
    /\ issueJob[j].pc = "looked" /\ issueJob[j].kind = "pages" /\ issueJob[j].report = {}
    /\ Matched(j, {}, NoneGone)

(* A row that two jobs resolve is resolved once.                           *)
Least(a, b) == IF a < b THEN a ELSE b

CommitIssues(j) ==
    /\ issueJob[j].pc = "matched"
    /\ openRows' = [f \in Faults |->
         LET gone == IF f \in SitemapFaults THEN Least(issueJob[j].gone[f], openRows[f]) ELSE 0
         IN openRows[f] - gone + (IF f \in issueJob[j].add THEN 1 ELSE 0)]
    /\ issueJob' = [issueJob EXCEPT ![j] = Waiting]
    /\ UNCHANGED <<faulty, changes, issueAborts>>

(* The job fails or its worker dies: rolled back.                          *)
AbortIssues(j) ==
    /\ issueJob[j] # Waiting /\ issueAborts < MaxIssueAborts
    /\ issueJob' = [issueJob EXCEPT ![j] = Waiting]
    /\ issueAborts' = issueAborts + 1
    /\ UNCHANGED <<faulty, changes, openRows>>

IssuesNext ==
    \/ \E f \in Faults : SiteChanges(f)
    \/ \E j \in IssueJobs : \/ LookAtSitemap(j) \/ LookAtPages(j) \/ UpsertIssues(j) \/ UpsertFindsTwo(j)
                            \/ Resolve(j) \/ PagesFine(j) \/ CommitIssues(j) \/ AbortIssues(j)

IssuesSpec == IssuesInit /\ [][IssuesNext]_issueVars

(* Beat asks for a sitemap check every day, and a job that runs goes on.   *)
IssuesProgress(j) ==
    UpsertIssues(j) \/ UpsertFindsTwo(j) \/ Resolve(j) \/ PagesFine(j) \/ CommitIssues(j)

----------------------------------------------------------------------------
(* Once a sitemap stays well, its issues are all resolved in the end, the  *)
(* duplicated ones and those that a stale look opened late.                *)
SitemapIssuesClear ==
    <>[](faulty \cap SitemapFaults = {}) => <>[](\A f \in SitemapFaults : openRows[f] = 0)

(* Once it stays ill of something, that has an open issue in the end, but  *)
(* for one obstacle: two open rows of another finding stop every check     *)
(* before it comes to this one.                                            *)
SitemapIssuesOpen ==
    \A f \in SitemapFaults :
        <>[](f \in faulty) => <>(openRows[f] > 0 \/ \E g \in SitemapFaults : openRows[g] > 1)

(* The issues follow the sitemap, whatever jobs overlap or are aborted.    *)
SitemapIssuesFollow == SitemapIssuesClear /\ SitemapIssuesOpen
=============================================================================
