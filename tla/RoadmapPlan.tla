---------------------------- MODULE RoadmapPlan ----------------------------
(***************************************************************************)
(* The week and the dependency that build_roadmap_items gives to the       *)
(* approved decisions of a site (decision/roadmap_builder.py): one step of *)
(* this module is one pass of its loop. The rows come by rank_score, which *)
(* orders neither risks nor urls, so the next row is any row.              *)
(***************************************************************************)
EXTENDS Integers, Sequences

CONSTANTS
    Urls,      \* pages named by a current_url
    NoUrl,     \* the payload has no current_url
    MaxRows    \* bound: decisions in one roadmap

ASSUME RoadmapAssumption == NoUrl \notin Urls /\ MaxRows \in Nat

VARIABLES
    horizon,   \* horizon_weeks
    items,     \* the plan so far; a decision is named by its place in it
    fixOf      \* url_to_item_id: the last technical_fix of a url, 0 if none

planVars == <<horizon, items, fixOf>>

Horizons    == {4, 8, 16}
Risks       == {"high", "medium", "low", "blocked"}
ActionTypes == {"technical_fix", "entity_fix", "fix_indexability", "refresh_page", "merge_pages", "no_op"}
Technical   == {"technical_fix", "entity_fix", "fix_indexability"}

(* Candidates as opportunity_to_candidate makes them: what the business    *)
(* scope blocks is a no_op, and a technical fix comes of a critical issue. *)
CandidateKinds ==
    {c \in [type : ActionTypes, risk : Risks] :
        /\ c.type = "no_op" <=> c.risk = "blocked"
        /\ c.type = "technical_fix" => c.risk = "high"}

(* An item falls in a week of the horizon.                                 *)
Item == [action_type : ActionTypes, risk_level : Risks, url : Urls \cup {NoUrl},
         week : 1 .. horizon, dependency : 0 .. MaxRows]

PlanTypeOK ==
    /\ horizon \in Horizons
    /\ items \in Seq(Item)
    /\ fixOf \in [Urls -> 0 .. MaxRows]

PlanInit ==
    /\ horizon \in Horizons
    /\ items = <<>>
    /\ fixOf = [u \in Urls |-> 0]

----------------------------------------------------------------------------
Least(a, b)    == IF a <= b THEN a ELSE b
Greatest(a, b) == IF a <= b THEN b ELSE a

Urgent(risk, type) == risk = "high" \/ type \in Technical

(* Faults: the middle bucket, and the tail, without their upper limit.     *)
WeekForItemMiddleUncapped(index, risk, type) ==
    IF Urgent(risk, type) THEN Least(2, 1 + (index % 2))
    ELSE IF risk = "medium" THEN 2 + (index % 3)
    ELSE Least(horizon, Greatest(3, horizon - 2) + (index % 3))

WeekForItemTailUncapped(index, risk, type) ==
    IF Urgent(risk, type) THEN Least(2, 1 + (index % 2))
    ELSE IF risk = "medium" THEN Least(Greatest(2, horizon \div 2), 2 + (index % 3))
    ELSE Greatest(3, horizon - 2) + (index % 3)

(* _week_for_item, the index counted from 0.                               *)
WeekForItem(index, risk, type) ==
    IF Urgent(risk, type) THEN Least(2, 1 + (index % 2))
    ELSE IF risk = "medium" THEN Least(Greatest(2, horizon \div 2), 2 + (index % 3))
    ELSE Least(horizon, Greatest(3, horizon - 2) + (index % 3))

(* Fault: any row of a url becomes the one that later rows wait for.       *)
RememberAny(type, url) ==
    fixOf' = IF url \in Urls THEN [fixOf EXCEPT ![url] = Len(items) + 1] ELSE fixOf

(* What the end of the loop body puts in url_to_item_id.                   *)
Remember(type, url) ==
    fixOf' = IF type = "technical_fix" /\ url \in Urls
             THEN [fixOf EXCEPT ![url] = Len(items) + 1] ELSE fixOf

(* A refresh waits for the technical_fix of its page, if the plan has one. *)
Dependency(type, url) ==
    IF type = "refresh_page" /\ url \in Urls THEN fixOf[url] ELSE 0

AddItem(type, risk, url) ==
    /\ Len(items) < MaxRows
    /\ items' = Append(items, [action_type |-> type, risk_level |-> risk, url |-> url,
                               week |-> WeekForItem(Len(items), risk, type),
                               dependency |-> Dependency(type, url)])
    /\ Remember(type, url)
    /\ UNCHANGED horizon

PlanNext == \E c \in CandidateKinds, url \in Urls \cup {NoUrl} : AddItem(c.type, c.risk, url)

PlanSpec == PlanInit /\ [][PlanNext]_planVars

----------------------------------------------------------------------------
UrgentItem(i) == Urgent(i.risk_level, i.action_type)

(* The risk buckets do not interleave, at any horizon and wherever in the  *)
(* ranking an item stands: what is urgent is due no later than a medium    *)
(* risk, and both before the rest.                                         *)
RiskBuckets ==
    \A j, k \in DOMAIN items :
        ~UrgentItem(items[k]) =>
            /\ UrgentItem(items[j]) => items[j].week <= items[k].week
            /\ (items[k].risk_level # "medium" /\
                  (UrgentItem(items[j]) \/ items[j].risk_level = "medium")) =>
                    items[j].week < items[k].week

(* A dependency is the last technical_fix of the same url that is ranked   *)
(* before the refresh that waits for it, and no refresh misses one.        *)
DependencyIsLastFix ==
    \A k \in DOMAIN items :
        LET i == items[k]
            fixes == {j \in 1 .. k - 1 : items[j].action_type = "technical_fix" /\ items[j].url = i.url}
        IN  IF i.action_type = "refresh_page" /\ i.url \in Urls /\ fixes # {}
            THEN i.dependency \in fixes /\ \A j \in fixes : j <= i.dependency
            ELSE i.dependency = 0
=============================================================================
