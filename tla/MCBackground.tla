---------------------------- MODULE MCBackground ----------------------------
(* What runs in the background and must come to an end, for TLC: the job   *)
(* queue, the syncs, the checks of a site, the daily health run and the    *)
(* writing of an article. They share no state here: a behaviour is one of  *)
(* one component, named by part, while the others stay as they began.      *)
EXTENDS MCJobQueue, DataSync, TechnicalIssues, OpsHealth, ArticlePipeline

CONSTANTS j1, sitemap_missing, sitemap_unreachable, page_noindex

VARIABLE part

(* The texts of an article differ in these checks.                         *)
MCVarying == {"meta_title", "faq_section", "keyword_stuffing"}

BackgroundInit ==
    /\ part \in {"queue", "sync", "issues", "health", "article"}
    /\ Init /\ DataSyncInit /\ IssuesInit /\ OpsInit
    /\ ArtInit /\ (part # "article" => ~llm)

BackgroundNext ==
    /\ UNCHANGED part
    /\ \/ part = "queue" /\ Next /\ UNCHANGED <<syncVars, issueVars, opsVars, artVars>>
       \/ part = "sync" /\ DataSyncNext /\ UNCHANGED <<vars, issueVars, opsVars, artVars>>
       \/ part = "issues" /\ IssuesNext /\ UNCHANGED <<vars, syncVars, opsVars, artVars>>
       \/ part = "health" /\ OpsNext /\ UNCHANGED <<vars, syncVars, issueVars, artVars>>
       \/ part = "article" /\ ArtStep /\ UNCHANGED <<vars, syncVars, issueVars, opsVars>>

(* Days pass, beat asks for a check of the sitemap again and again and for *)
(* a health run every day; what runs goes on, unless it is lost or aborted. *)
BackgroundFairness ==
    /\ \A t \in Txns : WF_vars(part = "queue" /\ TxnStep(t))
    /\ \A w \in Workers : WF_vars(part = "queue" /\ WorkerStep(w))
    /\ WF_syncVars(part = "sync" /\ SyncNextDay)
    /\ \A w \in SyncWorkers : WF_syncVars(part = "sync" /\ DataSyncProgress(w))
    /\ \A j \in IssueJobs : /\ WF_issueVars(part = "issues" /\ IssuesProgress(j))
                            /\ SF_issueVars(part = "issues" /\ LookAtSitemap(j))
    /\ \A j \in OpsJobs : WF_opsVars(part = "health" /\ Ages(j))
    /\ WF_opsVars(part = "health" /\ Midnight)
    /\ WF_opsVars(part = "health" /\ \E h \in HealthTasks : BeatStarts(h))
    /\ \A h \in HealthTasks : WF_opsVars(part = "health" /\ HealthStep(h))
    /\ WF_artVars(part = "article" /\ ArtStep)

BackgroundSpec ==
    /\ BackgroundInit
    /\ [][BackgroundNext]_<<part, vars, syncVars, issueVars, opsVars, artVars>>
    /\ BackgroundFairness

(* The rows of every part keep the shapes the code gives them.             *)
BackgroundTypeOK == TypeOK /\ DataSyncTypeOK /\ IssuesTypeOK /\ OpsTypeOK /\ ArtTypeOK

(* What is begun comes to its end: a run whose message was delivered (jobs/ *)
(* service.py:120), and an article, whose check and fixes do not go round  *)
(* for ever (orchestrator.py:304).                                         *)
WorkEnds == DeliveredRunsFinish /\ (part = "article" => PipelineEnds)
=============================================================================
