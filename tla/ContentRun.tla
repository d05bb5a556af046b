----------------------------- MODULE ContentRun -----------------------------
(***************************************************************************)
(* One content generation run: its row in content_generation_runs, its     *)
(* claim verification and publish gates in content_gate_results, and the   *)
(* post it becomes on the site (content/service.py, execution/             *)
(* publish_gate.py, execution/claim_verifier.py, execution/agents/         *)
(* orchestrator.py).                                                       *)
(*                                                                         *)
(* A request is a database transaction: it loads the row first, works on   *)
(* what it loaded, and its commit writes only the columns it changed.      *)
(* Two requests for the same run may overlap; nothing locks or versions    *)
(* the row.                                                                *)
(***************************************************************************)
EXTENDS Naturals

CONSTANTS
    Requests,     \* concurrent requests (and gate or publish jobs)
    Drafts,       \* texts compile and the pipeline may write
    NoDraft,      \* output_markdown is null
    Supported,    \* drafts whose every claim has a source and none is forbidden
    Compliant,    \* drafts with no other high-severity finding of the publish gate
    Levels,       \* review levels a run may be created with
    Providers,    \* publish integrations a site may have
    MaxRequests   \* bound: requests in a behaviour

ASSUME ContentRunAssumption ==
    /\ NoDraft \notin Drafts
    /\ Supported \subseteq Drafts /\ Compliant \subseteq Drafts
    /\ Levels \subseteq {"auto_with_gate", "editor_review", "editor",
                         "legal_review_required", "manager_review"}
    /\ Providers \subseteq {"contentflow", "wordpress"}
    /\ MaxRequests \in Nat

VARIABLES
    row,           \* the committed row: status and output_markdown
    claimGates,    \* committed gates of type claim_verification
    publishGates,  \* committed gates of type publish
    req,           \* the requests
    clock,         \* now() of the transactions: each begins at its own instant
    site,          \* the site: how many posts, and what the last one shows
    level,         \* review_level of the run
    provider,      \* the integration of its site
    approvedDraft  \* history: the draft the last approval looked at

vars == <<row, claimGates, publishGates, req, clock, site, level, provider, approvedDraft>>
fixed == <<level, provider>>

Status == {"queued", "draft", "claim_verified", "claim_blocked", "needs_review",
           "publish_ready", "approved", "needs_changes", "published"}
Ops    == {"compile", "pipeline", "verify", "gate", "approve", "changes", "publish", "publish_live"}
ReqPc  == {"idle", "begun", "loaded", "allowed", "pushed"}
Text   == Drafts \cup {NoDraft}
Times  == 0 .. MaxRequests

Row  == [status : Status, draft : Text]
Idle == [pc |-> "idle", op |-> "gate", seen |-> [status |-> "queued", draft |-> NoDraft], at |-> 0]

TypeOK ==
    /\ row \in Row
    /\ claimGates \subseteq [status : {"passed", "blocked", "stale"}, draft : Text, at : Times]
    /\ publishGates \subseteq [status : {"passed", "needs_review", "blocked"}, draft : Text, at : Times]
    /\ req \in [Requests -> [pc : ReqPc, op : Ops, seen : Row, at : Times]]
    /\ clock \in Times
    /\ site \in [posts : Nat, draft : Text]
    /\ level \in Levels
    /\ provider \in Providers
    /\ approvedDraft \in Text

(* create_generation_run without a draft yet.                              *)
Init ==
    /\ row = [status |-> "queued", draft |-> NoDraft]
    /\ claimGates = {}
    /\ publishGates = {}
    /\ req = [q \in Requests |-> Idle]
    /\ clock = 0
    /\ site = [posts |-> 0, draft |-> NoDraft]
    /\ level \in Levels
    /\ provider \in Providers
    /\ approvedDraft = NoDraft

----------------------------------------------------------------------------
Loaded(q, op) == req[q].pc = "loaded" /\ req[q].op = op
Done(q)       == req' = [req EXCEPT ![q] = Idle]

(* The flush of the unit of work: a column is in the UPDATE only if it     *)
(* differs from what the request loaded.                                   *)
Changed(new, old, current) == IF new = old THEN current ELSE new
Save(q, status, draft) ==
    row' = [status |-> Changed(status, req[q].seen.status, row.status),
            draft  |-> Changed(draft, req[q].seen.draft, row.draft)]

(* The transaction of a request begins when its caller is authenticated    *)
BeginRequest(q) ==
    /\ req[q].pc = "idle"
    /\ clock < MaxRequests
    /\ clock' = clock + 1
    /\ \E op \in Ops : req' = [req EXCEPT ![q] = [Idle EXCEPT !.pc = "begun", !.op = op, !.at = clock']]
    /\ UNCHANGED <<row, claimGates, publishGates, site, fixed, approvedDraft>>

(* and get_generation_run loads the row, which is not read again.          *)
LoadRun(q) ==
    /\ req[q].pc = "begun"
    /\ req' = [req EXCEPT ![q].pc = "loaded", ![q].seen = row]
    /\ UNCHANGED <<row, claimGates, publishGates, clock, site, fixed, approvedDraft>>

(* verify_claims_against_sources, and the gate and status it leads to.     *)
Verdict(d)       == IF d \in Supported \cup {NoDraft} THEN "passed" ELSE "blocked"
ClaimGate(q, d)  == [status |-> Verdict(d), draft |-> d, at |-> req[q].at]
ClaimStatus(d)   == IF Verdict(d) = "passed" THEN "claim_verified" ELSE "claim_blocked"

(* Definitions whose names end in a word such as Kept or Unchecked are     *)
(* faulty variants of the definition that follows them: no action uses     *)
(* them, and each breaks a property of this module.                        *)

(* Fault: a recompiled run keeps its passed claim gate.                    *)
CompileGatesKept(q) ==
    /\ Loaded(q, "compile")
    /\ \E d \in Drafts : Save(q, "draft", d)
    /\ Done(q)
    /\ UNCHANGED <<claimGates, publishGates, clock, site, fixed, approvedDraft>>

(* compile_generation_run: any status, a new text, passed claim gates made *)
(* stale; publish gates are left alone.                                    *)
Compile(q) ==
    /\ Loaded(q, "compile")
    /\ \E d \in Drafts : Save(q, "draft", d)
    /\ claimGates' = {[g EXCEPT !.status = IF @ = "passed" THEN "stale" ELSE @] : g \in claimGates}
    /\ Done(q)
    /\ UNCHANGED <<publishGates, clock, site, fixed, approvedDraft>>

(* run_generation_pipeline: a new text and its claim gate; no gate is made *)
(* stale.                                                                  *)
Pipeline(q) ==
    /\ Loaded(q, "pipeline")
    /\ \E d \in Drafts : /\ Save(q, ClaimStatus(d), d)
                         /\ claimGates' = claimGates \cup {ClaimGate(q, d)}
    /\ Done(q)
    /\ UNCHANGED <<publishGates, clock, site, fixed, approvedDraft>>

(* verify_generation_run_claims judges the text it loaded.                 *)
Verify(q) ==
    /\ Loaded(q, "verify")
    /\ Save(q, ClaimStatus(req[q].seen.draft), req[q].seen.draft)
    /\ claimGates' = claimGates \cup {ClaimGate(q, req[q].seen.draft)}
    /\ Done(q)
    /\ UNCHANGED <<publishGates, clock, site, fixed, approvedDraft>>

(* The latest claim gate: checked_at is when its transaction began.        *)
LatestClaimPassed ==
    \E g \in claimGates : g.status = "passed" /\ \A h \in claimGates : h.at <= g.at

HumanReview(l) == l \in {"legal_review_required", "editor_review", "editor"}

(* evaluate_publish_readiness.                                             *)
Readiness(seen) ==
    IF \/ seen.status \notin {"draft", "claim_verified", "approved", "publish_ready"}
       \/ seen.draft \notin Compliant
       \/ ~LatestClaimPassed
    THEN "blocked"
    ELSE IF HumanReview(level) /\ seen.status # "approved" THEN "needs_review" ELSE "passed"

(* Fault: a blocked gate is written to the row as well.                    *)
CheckPublishGateBlocking(q) ==
    /\ Loaded(q, "gate")
    /\ LET verdict == Readiness(req[q].seen)
           status  == IF verdict = "passed" THEN "publish_ready" ELSE verdict
       IN  /\ publishGates' = publishGates \cup
                 {[status |-> verdict, draft |-> req[q].seen.draft, at |-> req[q].at]}
           /\ Save(q, status, req[q].seen.draft)
    /\ Done(q)
    /\ UNCHANGED <<claimGates, clock, site, fixed, approvedDraft>>

(* check_publish_gate and run_publish_gate; a blocked gate leaves the row. *)
CheckPublishGate(q) ==
    /\ Loaded(q, "gate")
    /\ LET verdict == Readiness(req[q].seen)
           status  == CASE verdict = "passed"       -> "publish_ready"
                        [] verdict = "needs_review" -> "needs_review"
                        [] verdict = "blocked"      -> req[q].seen.status
       IN  /\ publishGates' = publishGates \cup
                 {[status |-> verdict, draft |-> req[q].seen.draft, at |-> req[q].at]}
           /\ Save(q, status, req[q].seen.draft)
    /\ Done(q)
    /\ UNCHANGED <<claimGates, clock, site, fixed, approvedDraft>>

(* approve_generation_run; claim_blocked needs the override flag, which    *)
(* the caller may set.                                                     *)
Approve(q) ==
    /\ Loaded(q, "approve")
    /\ req[q].seen.status \in {"needs_review", "draft", "claim_verified", "claim_blocked"}
    /\ Save(q, "approved", req[q].seen.draft)
    /\ approvedDraft' = req[q].seen.draft
    /\ Done(q)
    /\ UNCHANGED <<claimGates, publishGates, clock, site, fixed>>

(* request_changes: from any status.                                       *)
RequestChanges(q) ==
    /\ Loaded(q, "changes")
    /\ Save(q, "needs_changes", req[q].seen.draft)
    /\ Done(q)
    /\ UNCHANGED <<claimGates, publishGates, clock, site, fixed, approvedDraft>>

(* _assert_publish_allowed, skipped by the live update of a published run  *)
(* (ContentFlow only; WordPress takes no live status).                     *)
LiveUpdate(q) ==
    provider = "contentflow" /\ req[q].op = "publish_live" /\ req[q].seen.status = "published"

(* Fault: the status is not looked at.                                     *)
AssertPublishAllowedAnyStatus(q) == \E g \in publishGates : g.status = "passed"

(* _assert_publish_allowed of a run that is not a live update.             *)
AssertPublishAllowed(q) ==
    /\ req[q].seen.status \in {"approved", "publish_ready"}
    /\ \E g \in publishGates : g.status = "passed"

AllowPublish(q) ==
    /\ \/ Loaded(q, "publish")
       \/ Loaded(q, "publish_live") /\ provider = "contentflow"
    /\ LiveUpdate(q) \/ AssertPublishAllowed(q)
    /\ req' = [req EXCEPT ![q].pc = "allowed"]
    /\ UNCHANGED <<row, claimGates, publishGates, clock, site, fixed, approvedDraft>>

(* The call to the site: ContentFlow updates the post of the slug (PUT, or *)
(* POST and PUT after a 409), WordPress makes a new post every time.       *)
Posts == IF provider = "contentflow" THEN 1 ELSE site.posts + 1

PushToSite(q) ==
    /\ req[q].pc = "allowed"
    /\ site' = [posts |-> Posts, draft |-> req[q].seen.draft]
    /\ req' = [req EXCEPT ![q].pc = "pushed"]
    /\ UNCHANGED <<row, claimGates, publishGates, clock, fixed, approvedDraft>>

CommitPublish(q) ==
    /\ req[q].pc = "pushed"
    /\ Save(q, "published", req[q].seen.draft)
    /\ Done(q)
    /\ UNCHANGED <<claimGates, publishGates, clock, site, fixed, approvedDraft>>

(* The request is refused, the site answers with an error, the commit      *)
(* fails or the process dies: nothing of the transaction remains, what the *)
(* site has taken does.                                                    *)
Abort(q) ==
    /\ req[q].pc # "idle"
    /\ Done(q)
    /\ UNCHANGED <<row, claimGates, publishGates, clock, site, fixed, approvedDraft>>

Next == \E q \in Requests :
    \/ BeginRequest(q) \/ LoadRun(q) \/ Compile(q) \/ Pipeline(q) \/ Verify(q) \/ CheckPublishGate(q)
    \/ Approve(q) \/ RequestChanges(q) \/ AllowPublish(q) \/ PushToSite(q)
    \/ CommitPublish(q) \/ Abort(q)

Spec == Init /\ [][Next]_vars

----------------------------------------------------------------------------
(* While requests for a run do not overlap: a run is ready to publish only *)
(* if its present text has its claims supported and passes the policy ...  *)
ReadyIsVerified ==
    row.status = "publish_ready" => row.draft \in Supported \cap Compliant

(* ... and, at the levels the gate knows as human review, only if a person *)
(* approved that very text; a later compile or pipeline run takes the      *)
(* approval away.                                                          *)
ApprovalIsCurrent ==
    /\ row.status = "approved" => approvedDraft = row.draft
    /\ (row.status = "publish_ready" /\ HumanReview(level)) => approvedDraft = row.draft

(* A published run and its post show the same text.                        *)
PostShowsTheRun ==
    row.status = "published" => site.posts > 0 /\ site.draft = row.draft

(* The site only ever takes a text that was verified or that a person      *)
(* approved.                                                               *)
PushIsVetted ==
    site' # site => (site'.draft \in Supported \cap Compliant \/ site'.draft = approvedDraft)

(* However requests overlap: nothing reaches the site unless a publish     *)
(* gate has passed for the run, and no run says published without a post.  *)
PublishedAfterGate ==
    /\ site.posts > 0 => \E g \in publishGates : g.status = "passed" /\ g.draft \in Compliant
    /\ row.status = "published" => site.posts > 0

(* The development plan forbids to publish what has not passed the publish *)
(* gate: the text on the site is one that a publish gate passed.           *)
PushedTextPassedGate ==
    site.posts > 0 => \E g \in publishGates : g.status = "passed" /\ g.draft = site.draft
=============================================================================
