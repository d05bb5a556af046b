----------------------------- MODULE MCPlanning -----------------------------
(* Plans and rankings for TLC: the roadmap, the content batches of some    *)
(* days and of a whole week, the scores, the clusters of the topic graph.  *)
(* They share no state here: a behaviour is one of one component, named by *)
(* part, while the others stay as they began.                              *)
EXTENDS ContentBatch, RoadmapPlan, Scoring, MCTopicClustering

CONSTANTS
    page1, page2, b1,
    WeekNumbers,    \* articles_per_week a user may choose where a whole week passes
    LastDay,        \* bound: MaxDay there, a whole week and the day after
    WeekBatches     \* bound: MaxBatches there

ASSUME WeekAssumption == WeekNumbers \subseteq 0 .. 20 /\ LastDay \in Nat /\ WeekBatches \in Nat

VARIABLE part

(* Two pages are enough: dependencies only ever relate rows of one page.   *)
MCUrls      == {page1, page2}
UrlSymmetry == Permutations(MCUrls)

(* The days of the default schedule: Monday, Thursday.                     *)
MCWeekDays == {0, 3}

MCFeatures == {"organic", "paa", "ai_overview"}
MCSignals  == {"has_faq_format", "has_original_data"}

(* A week and a day of a schedule that is on and that nobody edits.        *)
Week == INSTANCE ContentBatch WITH NoContent <- {}, PerWeek <- WeekNumbers, OtherSites <- FALSE,
                                   MaxDay <- LastDay, MaxBatches <- WeekBatches, MaxUpdates <- 0

PlanningInit ==
    /\ part \in {"days", "week", "roadmap", "scores", "clusters"}
    /\ IF part = "week" THEN Week!Init /\ schedule.enabled ELSE Init
    /\ part \notin {"days", "week"} => schedule.enabled /\ schedule.perWeek = 3 /\ schedule.days = MCWeekDays
    /\ PlanInit /\ (part # "roadmap" => horizon = 4)
    /\ IF part = "scores" THEN ScoreInit ELSE keyword = NoKeyword /\ opportunity = NoOpportunity
    /\ IF part = "clusters"
         THEN ClusterInit
         ELSE /\ rows = [q \in Queries |-> {}] /\ words \in WordChoices /\ words["audit"] = {1}
              /\ top = [k \in Keywords |-> {}] /\ parent = <<>> /\ rank = <<>> /\ todo = {} /\ outcome = "running"

PlanningNext ==
    /\ UNCHANGED part
    /\ \/ part = "days" /\ Next /\ UNCHANGED <<planVars, scoreVars, clusterVars>>
       \/ part = "week" /\ Week!Next /\ UNCHANGED <<planVars, scoreVars, clusterVars>>
       \/ part = "roadmap" /\ PlanNext /\ UNCHANGED <<vars, scoreVars, clusterVars>>
       \/ part = "scores" /\ ScoreNext /\ UNCHANGED <<vars, planVars, clusterVars>>
       \/ part = "clusters" /\ ClusterNext /\ UNCHANGED <<vars, planVars, scoreVars>>

PlanningSpec == PlanningInit /\ [][PlanningNext]_<<part, vars, planVars, scoreVars, clusterVars>>

(* The rows of every part keep the shapes and the ranges of the code.      *)
PlanningTypeOK ==
    /\ IF part = "week" THEN Week!TypeOK ELSE TypeOK
    /\ PlanTypeOK /\ (part = "scores" => ScoreTypeOK) /\ ClusterTypeOK

(* Scheduled batches take one turn a day, write about approved candidates  *)
(* that ask for content, whatever the query took (schedule_service.py:114), *)
(* and over a whole week and into the next take fewer articles over the    *)
(* weekly number than the schedule has days (schedule_priority.py:26).     *)
BatchesKeepToSchedule ==
    /\ OneScheduledBatchADay
    /\ part = "days" => OnlyApprovedContent
    /\ part = "week" => Week!WeeklyOvershootBounded
=============================================================================
