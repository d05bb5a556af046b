--------------------------- MODULE DecisionPlane ---------------------------
(***************************************************************************)
(* From a finding to the roadmap of one site: opportunities are opened     *)
(* (exposure/service.py), each becomes an action candidate, a person       *)
(* decides on the candidate, and approved decisions are scheduled          *)
(* (decision/service.py, decision/router.py and the jobs that call them).  *)
(*                                                                         *)
(* A request or job is a database transaction of several statements, each  *)
(* of which sees what is committed when it runs. The database allows one   *)
(* candidate per opportunity; nothing else of this plane is constrained.   *)
(***************************************************************************)
EXTENDS Naturals

CONSTANTS
    Requests,         \* concurrent requests and jobs
    Findings,         \* (rule_id, keyword, current_url) of an opportunity
    SitemapFindings,  \* those of the OG-SITEMAP rules, which the code closes again
    MultiUrlFindings, \* those of OG-004: looked up without a url, stored with one
    MaxRequests       \* bound: transactions in a behaviour

ASSUME DecisionAssumption ==
    /\ SitemapFindings \subseteq Findings
    /\ MultiUrlFindings \subseteq Findings \ SitemapFindings
    /\ MaxRequests \in Nat

VARIABLES
    opps,       \* exposure_opportunities: finding, transaction that opened it, status
    cands,      \* action_candidates: opportunity, transaction that made it, status
    decisions,  \* action_decisions: candidate, decision, transaction
    items,      \* roadmap_items: decision, transaction of the build
    req,        \* the requests
    clock       \* transactions begun so far

vars == <<opps, cands, decisions, items, req, clock>>

Times     == 0 .. MaxRequests
OppIds    == [finding : Findings, at : Times]
CandIds   == [opp : OppIds, at : Times]
Decisions == {"approve", "reject", "defer"}
Decided   == [cand : CandIds, decision : Decisions, at : Times]
Ops       == {"scan", "generate", "sitemap", "sitemap_ok", "intake", "roadmap"} \cup Decisions

Refs      == OppIds \cup CandIds \cup Decided   \* what a statement returns

Request == [pc : {"idle", "begun", "scanned", "read", "ready"}, op : Ops, at : Times,
            new : SUBSET Findings, seen : SUBSET Refs, rows : SUBSET Refs]

Opp  == [id : OppIds, status : {"open", "completed", "rejected"}]
Cand == [id : CandIds, status : {"pending", "approved", "rejected", "deferred"}]

Idle == [pc |-> "idle", op |-> "scan", at |-> 0, new |-> {}, seen |-> {}, rows |-> {}]

TypeOK ==
    /\ opps \subseteq Opp
    /\ cands \subseteq Cand
    /\ decisions \subseteq Decided
    /\ items \subseteq [decision : Decided, at : Times]
    /\ clock \in Times
    /\ req \in [Requests -> Request]

Init ==
    /\ opps = {}
    /\ cands = {}
    /\ decisions = {}
    /\ items = {}
    /\ req = [q \in Requests |-> Idle]
    /\ clock = 0

----------------------------------------------------------------------------
At(q, pc, ops)   == req[q].pc = pc /\ req[q].op \in ops
OpenOpps         == {o.id : o \in {p \in opps : p.status = "open"}}
Opened(q)        == {[finding |-> f, at |-> req[q].at] : f \in req[q].new}
Opening(q)       == {[id |-> o, status |-> "open"] : o \in Opened(q)}
Finished(q)      == req' = [req EXCEPT ![q] = Idle]

Begin(q) ==
    /\ req[q].pc = "idle"
    /\ clock < MaxRequests
    /\ clock' = clock + 1
    /\ \E op \in Ops : req' = [req EXCEPT ![q] = [Idle EXCEPT !.pc = "begun", !.op = op, !.at = clock']]
    /\ UNCHANGED <<opps, cands, decisions, items>>

(* The generators of opportunities. Fault: what is open is opened again.   *)
ReadOpenKeysRepeating(q) ==
    /\ At(q, "begun", {"scan", "sitemap"})
    /\ \E found \in SUBSET (IF req[q].op = "sitemap" THEN SitemapFindings
                                                     ELSE Findings \ SitemapFindings) :
         req' = [req EXCEPT ![q].pc = "scanned", ![q].new = found]
    /\ UNCHANGED <<opps, cands, decisions, items, clock>>

(* _existing_opportunity_keys and the loop that skips those keys. Reports  *)
(* of an unhealthy sitemap and the other rules have findings of their own. *)
(* The key of an OG-004 finding is not the key of the row it becomes.      *)
ReadOpenKeys(q) ==
    /\ At(q, "begun", {"scan", "sitemap"})
    /\ \E found \in SUBSET (IF req[q].op = "sitemap" THEN SitemapFindings
                                                     ELSE Findings \ SitemapFindings) :
         req' = [req EXCEPT ![q].pc = "scanned",
                            ![q].new = {f \in found : \A o \in OpenOpps :
                                          o.finding # f \/ f \in MultiUrlFindings}]
    /\ UNCHANGED <<opps, cands, decisions, items, clock>>

CommitScan(q) ==
    /\ At(q, "scanned", {"scan"})
    /\ opps' = opps \cup Opening(q)
    /\ Finished(q)
    /\ UNCHANGED <<cands, decisions, items, clock>>

(* resolve_open_sitemap_opportunities, when the sitemaps are healthy.      *)
LoadOpenSitemap(q) ==
    /\ At(q, "begun", {"sitemap_ok"})
    /\ req' = [req EXCEPT ![q].pc = "ready",
                          ![q].rows = {o \in OpenOpps : o.finding \in SitemapFindings}]
    /\ UNCHANGED <<opps, cands, decisions, items, clock>>

(* The end of apply_intake_impact: the open opportunities whose keyword    *)
(* the approved intake blocks. The sitemap rules have no keyword.          *)
LoadBlocked(q) ==
    /\ At(q, "begun", {"intake"})
    /\ \E blocked \in SUBSET {o \in OpenOpps : o.finding \notin SitemapFindings} :
         req' = [req EXCEPT ![q].pc = "ready", ![q].rows = blocked]
    /\ UNCHANGED <<opps, cands, decisions, items, clock>>

ClosedAs == [sitemap_ok |-> "completed", intake |-> "rejected"]

CommitResolve(q) ==
    /\ At(q, "ready", {"sitemap_ok", "intake"})
    /\ opps' = {[o EXCEPT !.status = IF o.id \in req[q].rows THEN ClosedAs[req[q].op] ELSE @] : o \in opps}
    /\ Finished(q)
    /\ UNCHANGED <<cands, decisions, items, clock>>

(* generate_action_candidates, first statement: opportunities that have a  *)
(* candidate. The sitemap job calls it in the transaction of its scan.     *)
ReadCandidates(q) ==
    /\ At(q, "begun", {"generate"}) \/ At(q, "scanned", {"sitemap"})
    /\ req' = [req EXCEPT ![q].pc = "read", ![q].seen = {c.id.opp : c \in cands}]
    /\ UNCHANGED <<opps, cands, decisions, items, clock>>

(* Its second statement and the insert. Fault: without the constraint.     *)
InsertCandidatesUnconstrained(q) ==
    /\ At(q, "read", {"generate", "sitemap"})
    /\ req' = [req EXCEPT ![q].pc = "ready", ![q].rows = OpenOpps \ req[q].seen]
    /\ UNCHANGED <<opps, cands, decisions, items, clock>>

(* uq_action_candidate_opportunity: the insert waits for another one of    *)
(* the same opportunity and fails, as Abort, once that is committed.       *)
InsertCandidates(q) ==
    /\ At(q, "read", {"generate", "sitemap"})
    /\ LET rows == OpenOpps \ req[q].seen
       IN  /\ \A c \in cands : c.id.opp \notin rows
           /\ \A r \in Requests \ {q} :
                At(r, "ready", {"generate", "sitemap"}) => req[r].rows \cap rows = {}
           /\ req' = [req EXCEPT ![q].pc = "ready", ![q].rows = rows]
    /\ UNCHANGED <<opps, cands, decisions, items, clock>>

CommitGenerate(q) ==
    /\ At(q, "ready", {"generate", "sitemap"})
    /\ opps' = opps \cup Opening(q)
    /\ cands' = cands \cup {[id |-> [opp |-> o, at |-> req[q].at], status |-> "pending"] :
                              o \in req[q].rows \cup Opened(q)}
    /\ Finished(q)
    /\ UNCHANGED <<decisions, items, clock>>

(* The approve, reject and defer routes: record_decision loads the         *)
(* candidate and refuses one that is decided.                              *)
LoadCandidate(q) ==
    /\ At(q, "begun", Decisions)
    /\ \E c \in cands : /\ c.status = "pending"
                        /\ req' = [req EXCEPT ![q].pc = "ready", ![q].rows = {c.id}]
    /\ UNCHANGED <<opps, cands, decisions, items, clock>>

StatusMap == [approve |-> "approved", reject |-> "rejected", defer |-> "deferred"]

(* Fault: the decision itself becomes the status.                          *)
RecordDecisionUnmapped(q) ==
    /\ At(q, "ready", Decisions)
    /\ cands' = {[c EXCEPT !.status = IF c.id \in req[q].rows THEN req[q].op ELSE @] : c \in cands}
    /\ decisions' = decisions \cup
         {[cand |-> c, decision |-> req[q].op, at |-> req[q].at] : c \in req[q].rows}
    /\ Finished(q)
    /\ UNCHANGED <<opps, items, clock>>

RecordDecision(q) ==
    /\ At(q, "ready", Decisions)
    /\ cands' = {[c EXCEPT !.status = IF c.id \in req[q].rows THEN StatusMap[req[q].op] ELSE @] : c \in cands}
    /\ decisions' = decisions \cup
         {[cand |-> c, decision |-> req[q].op, at |-> req[q].at] : c \in req[q].rows}
    /\ Finished(q)
    /\ UNCHANGED <<opps, items, clock>>

(* build_site_roadmap: the decisions of all roadmap items of the site, ... *)
ReadScheduled(q) ==
    /\ At(q, "begun", {"roadmap"})
    /\ req' = [req EXCEPT ![q].pc = "read", ![q].seen = {i.decision : i \in items}]
    /\ UNCHANGED <<opps, cands, decisions, items, clock>>

ApprovedCands == {c.id : c \in {d \in cands : d.status = "approved"}}

(* Fault: every decision on an approved candidate.                         *)
ReadApprovedAnyDecision(q) ==
    /\ At(q, "read", {"roadmap"})
    /\ req' = [req EXCEPT ![q].pc = "ready",
                          ![q].rows = {d \in decisions : d.cand \in ApprovedCands} \ req[q].seen]
    /\ UNCHANGED <<opps, cands, decisions, items, clock>>

(* ... and the approvals of approved candidates that are not among them.   *)
ReadApproved(q) ==
    /\ At(q, "read", {"roadmap"})
    /\ req' = [req EXCEPT ![q].pc = "ready",
                          ![q].rows = {d \in decisions : /\ d.decision = "approve"
                                                         /\ d.cand \in ApprovedCands} \ req[q].seen]
    /\ UNCHANGED <<opps, cands, decisions, items, clock>>

CommitRoadmap(q) ==
    /\ At(q, "ready", {"roadmap"})
    /\ items' = items \cup {[decision |-> d, at |-> req[q].at] : d \in req[q].rows}
    /\ Finished(q)
    /\ UNCHANGED <<opps, cands, decisions, clock>>

(* Refused, failed or crashed before its commit: nothing remains.          *)
Abort(q) ==
    /\ req[q].pc # "idle"
    /\ Finished(q)
    /\ UNCHANGED <<opps, cands, decisions, items, clock>>

Next == \E q \in Requests :
    \/ Begin(q) \/ ReadOpenKeys(q) \/ CommitScan(q)
    \/ LoadOpenSitemap(q) \/ LoadBlocked(q) \/ CommitResolve(q)
    \/ ReadCandidates(q) \/ InsertCandidates(q) \/ CommitGenerate(q)
    \/ LoadCandidate(q) \/ RecordDecision(q)
    \/ ReadScheduled(q) \/ ReadApproved(q) \/ CommitRoadmap(q) \/ Abort(q)

Spec == Init /\ [][Next]_vars

----------------------------------------------------------------------------
(* However generators overlap, an opportunity has at most one candidate.   *)
OneCandidatePerOpportunity ==
    \A c, d \in cands : c.id.opp = d.id.opp => c = d

(* However builders and deciders overlap, a roadmap item stands for a      *)
(* recorded approval of a candidate that is no longer pending.             *)
OnlyApprovalsScheduled ==
    \A i \in items : /\ i.decision \in decisions
                     /\ i.decision.decision = "approve"
                     /\ \E c \in cands : c.id = i.decision.cand /\ c.status # "pending"

(* One request at a time: a decision is on one roadmap only ...            *)
ScheduledOnce == \A i, j \in items : i.decision = j.decision => i = j

(* ... a scheduled candidate stays approved, because a decided candidate   *)
(* takes no second decision ...                                            *)
ScheduledStaysApproved ==
    \A i \in items : i.decision.cand \in ApprovedCands

(* ... and a finding has at most one open opportunity, across any number   *)
(* of scans, rejections, sitemap failures and recoveries; but for OG-004.  *)
OpenOncePerFinding ==
    \A o, p \in OpenOpps : o.finding = p.finding => o = p \/ o.finding \in MultiUrlFindings

(* What was decided about a site holds together.                           *)
DecisionsAreSound == ScheduledOnce /\ ScheduledStaysApproved /\ OpenOncePerFinding

(* phase-3-review: the generation of opportunities is idempotent, by       *)
(* rule_id, keyword and url.                                               *)
GenerateIdempotent ==
    \A o, p \in OpenOpps : o.finding = p.finding => o = p
=============================================================================
