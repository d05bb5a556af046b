-------------------------------- MODULE Scoring --------------------------------
(***************************************************************************)
(* The two scores that rank work: of a keyword, from five factors          *)
(* (strategy/keyword_scorer.py, fed by strategy/serp_enrichment_bridge.py) *)
(* and of an opportunity, from eight (exposure/scorer.py). The algorithms  *)
(* are pure; the behaviours are what may happen to a keyword or an         *)
(* opportunity between two scorings.                                       *)
(***************************************************************************)
EXTENDS Integers, FiniteSetsExt

CONSTANTS
    Features,   \* SERP features that are looked at
    Signals,    \* signals of AI citation that are looked at
    Volumes,    \* monthly searches, one value of each tier
    Counts,     \* numbers of competing domains
    Demands     \* bound: tenths of search demand an opportunity may have

ASSUME ScoreAssumption ==
    /\ IsFiniteSet(Features) /\ IsFiniteSet(Signals)
    /\ 0 \in Volumes /\ Volumes \subseteq Nat
    /\ 0 \in Counts /\ Counts \subseteq Nat
    /\ 0 \in Demands /\ Demands \subseteq 0 .. 10

VARIABLES
    keyword,      \* KeywordScoreInput
    opportunity   \* ScoreInput

scoreVars == <<keyword, opportunity>>

Estimated == -1     \* competitor strength taken from the SERP, not from a user
Unranked  == 99
NoPosition == 0

NodeTypes == {"pillar", "cluster"}

KeywordInputs ==
    [volume : Volumes, count : Counts, strong : BOOLEAN, da : {Estimated, 10, 30, 70},
     position : {15, Unranked}, features : SUBSET Features, signals : SUBSET Signals,
     node : NodeTypes, coverage : {20, 50, 80, 95}, pillarHasPage : BOOLEAN]

(* What the generators say of themselves: hundredths of confidence, tenths *)
(* of AI citation and of value without a click.                            *)
Rules ==
    {<<c, 7, 7>> : c \in {60, 70, 75, 80, 85, 90}} \cup {<<70, 3, 8>>, <<60, 9, 8>>}

OpportunityInputs ==
    [fit : {0, 3, 10}, demand : Demands, position : {NoPosition, 2, 4, 15, 40},
     authority : BOOLEAN, slots : 0 .. 5, topic : {"none", "gap", "stale"},
     urgent : BOOLEAN, rule : Rules]

-----------------------------------------------------------------------------
(* The factors of a keyword, in twentieths.                                *)
VolumeFactor(n) ==
    CASE n >= 3000 -> 20 [] n >= 1000 /\ n < 3000 -> 17 [] n >= 300 /\ n < 1000 -> 13
      [] n >= 100 /\ n < 300 -> 8 [] n >= 10 /\ n < 100 -> 4 [] OTHER -> 1

(* estimate_competition_from_slots.                                        *)
EstimateAuthority(count, strong) ==
    LET da == CASE count <= 2 -> 15 [] count \in 3 .. 5 -> 30 [] count \in 6 .. 8 -> 45 [] OTHER -> 60
    IN  IF strong THEN Min({80, da + 20}) ELSE da

Authority(k) == IF k.da = Estimated THEN EstimateAuthority(k.count, k.strong) ELSE k.da

CrowdPenalty(count) ==
    CASE count >= 8 -> -5 [] count \in 5 .. 7 -> -3 [] count <= 2 -> 2 [] OTHER -> 0

AuthorityPenalty(da) ==
    CASE da >= 60 -> -4 [] da \in 40 .. 59 -> -2 [] da <= 20 -> 2 [] OTHER -> 0

(* Fault: strong domains count for the keyword. *)
FeasibilitySwapped(k) ==
    CASE k.position <= 10 -> 19
      [] k.position \in 11 .. 20 -> 15
      [] OTHER -> Max({1, Min({20, 14 + CrowdPenalty(k.count) + AuthorityPenalty(Authority(k))
                                      + IF k.strong THEN 3 ELSE 0})})

Feasibility(k) ==
    CASE k.position <= 10 -> 19
      [] k.position \in 11 .. 20 -> 15
      [] OTHER -> Max({1, Min({20, 14 + CrowdPenalty(k.count) + AuthorityPenalty(Authority(k))
                                      - IF k.strong THEN 3 ELSE 0})})

(* 0.7 - 0.15 - 0.15, and 0.7 - 0.25 - 0.15 + 0.1, come out below 0.4 in   *)
(* floating point; every other sum that equals a threshold is exact.       *)
FallsShort(k) == k.position > 20 /\ k.strong /\ Feasibility(k) = 8 /\ k.count >= 5

(* Twentieths of all x in S, each level of weight counted: no weight is    *)
(* above six.                                                              *)
TotalWeight(weight, S) ==
    LET Reach(w) == Cardinality({x \in S : weight[x] >= w})
    IN  Reach(1) + Reach(2) + Reach(3) + Reach(4) + Reach(5) + Reach(6)

SlotWeight == [f \in Features |->
    CASE f = "featured_snippet" -> 6 [] f \in {"paa"} -> 4 [] f = "ai_overview" -> 5
      [] f \in {"image", "video"} -> 3 [] f \in {"product", "related_search"} -> 2 [] OTHER -> 1]

DiversityOf ==
    [f \in SUBSET Features |-> IF f = {} THEN 2 ELSE Min({20, TotalWeight(SlotWeight, f)})]

Diversity(k) == DiversityOf[k.features]

SignalWeight == [s \in Signals |->
    CASE s = "has_original_data" -> 6 [] s = "has_authoritative_sources" -> 5 [] s = "has_clear_structure" -> 4
      [] s = "has_faq_format" -> 3 [] s = "has_brand_entity_match" -> 2 [] OTHER -> 1]

SignalsOf == [s \in SUBSET Signals |-> TotalWeight(SignalWeight, s)]

Citation(k) == Min({20, 2 + (IF "ai_overview" \in k.features THEN 6 ELSE 0) + SignalsOf[k.signals]})

Contribution(k) ==
    LET pillar == IF k.node # "pillar" THEN 0 ELSE IF k.pillarHasPage THEN 4 ELSE 7
        gap == CASE k.coverage < 30 -> 4 [] k.coverage \in 30 .. 59 -> 2 [] k.coverage >= 90 -> -2 [] OTHER -> 0
    IN  Min({20, 10 + pillar + gap})

(* Five factors of at most twenty twentieths each. *)
MaxProduct == 20 * 20 * 20 * 20 * 20

(* The geometric mean of the factors, rounded to a tenth of a percent, is  *)
(* at least 30 when their product is at least 7712, at least 15 from 239.  *)
Product(k) ==
    VolumeFactor(k.volume) * Feasibility(k) * Diversity(k) * Citation(k) * Contribution(k)

Tier(k) ==
    CASE Feasibility(k) >= 14 /\ Product(k) >= 7712 -> 1
      [] Feasibility(k) >= 8 /\ ~FallsShort(k) /\ Product(k) >= 239
         /\ ~(Feasibility(k) >= 14 /\ Product(k) >= 7712) -> 2
      [] OTHER -> 3

-----------------------------------------------------------------------------
(* score_opportunity: tenths, but for quarters of slots and hundredths of  *)
(* confidence.                                                             *)
RankTenths(o) ==
    CASE o.position = NoPosition -> IF o.authority THEN 3 ELSE 2
      [] o.position \in 4 .. 10 -> 10 [] o.position \in 11 .. 20 -> 8
      [] o.position \in 21 .. 30 -> 6 [] o.position \in 31 .. 50 -> 4 [] OTHER -> 2

TopicTenths(o) ==
    CASE o.topic = "gap" -> IF o.urgent THEN 10 ELSE 8 [] o.topic = "stale" -> 6 [] OTHER -> 5

SlotQuarters(o) == Min({4, o.slots})

ScoreProduct(o) ==
    o.fit * o.demand * RankTenths(o) * SlotQuarters(o) * TopicTenths(o)
        * o.rule[1] * Max({o.rule[2], 7}) * Max({o.rule[3], 7})

(* A hundredth of all denominators together. *)
OnePercent == 10 * 10 * 10 * 4 * 10 * 10 * 10

(* _priority_from_score, over the product with its denominators.           *)
Priority(o) ==
    LET Reaches(percent) == ScoreProduct(o) >= percent * OnePercent
    IN  CASE Reaches(75) -> "critical" [] Reaches(55) /\ ~Reaches(75) -> "high"
          [] Reaches(35) /\ ~Reaches(55) -> "medium" [] OTHER -> "low"

-----------------------------------------------------------------------------
NoKeyword ==
    [volume |-> 0, count |-> 0, strong |-> FALSE, da |-> Estimated, position |-> Unranked, features |-> {},
     signals |-> {}, node |-> "cluster", coverage |-> 20, pillarHasPage |-> FALSE]
NoOpportunity ==
    [fit |-> 0, demand |-> 0, position |-> NoPosition, authority |-> FALSE, slots |-> 0, topic |-> "none",
     urgent |-> FALSE, rule |-> <<80, 7, 7>>]

ScoreTypeOK ==
    /\ keyword \in KeywordInputs /\ opportunity \in OpportunityInputs
    /\ Tier(keyword) \in 1 .. 3 /\ Product(keyword) \in 2 .. MaxProduct
    /\ Priority(opportunity) \in {"low", "medium"}

ScoreInit ==
    \/ keyword \in KeywordInputs /\ opportunity = NoOpportunity
    \/ keyword = NoKeyword /\ opportunity \in OpportunityInputs

(* What may have changed when a keyword is scored again.                   *)
CompetitorsAppear ==
    \/ \E n \in Counts : n > keyword.count /\ keyword' = [keyword EXCEPT !.count = n]
    \/ ~keyword.strong /\ keyword' = [keyword EXCEPT !.strong = TRUE]
    \/ \E da \in {30, 70} : keyword.da \in {10, 30} /\ da > keyword.da /\ keyword' = [keyword EXCEPT !.da = da]

ClusterFillsUp ==
    \/ \E c \in {50, 80, 95} : c > keyword.coverage /\ keyword' = [keyword EXCEPT !.coverage = c]
    \/ ~keyword.pillarHasPage /\ keyword' = [keyword EXCEPT !.pillarHasPage = TRUE]

SignalAppears ==
    \/ \E f \in Features \ keyword.features : keyword' = [keyword EXCEPT !.features = @ \cup {f}]
    \/ \E s \in Signals \ keyword.signals : keyword' = [keyword EXCEPT !.signals = @ \cup {s}]
    \/ \E n \in Volumes : n > keyword.volume /\ keyword' = [keyword EXCEPT !.volume = n]

ScoreNext ==
    /\ opportunity = NoOpportunity
    /\ CompetitorsAppear \/ ClusterFillsUp \/ SignalAppears
    /\ UNCHANGED opportunity

ScoreSpec == ScoreInit /\ [][ScoreNext]_scoreVars

-----------------------------------------------------------------------------
(* A list that weighs less than none at all: nothing was known of the      *)
(* results for k, and now they are organic ones only.                      *)
BelowBaseline(k, l) == k.features = {} /\ l.features # {} /\ Diversity(l) < Diversity(k)

(* Competition and coverage never raise a keyword to a better tier; what   *)
(* speaks for it never lowers it, but for a first list of results that     *)
(* weighs less than the baseline of a keyword without one. Estimated or    *)
(* given by a user, and whatever the sums come to in floating point        *)
(* (keyword_scorer.py:240).                                                *)
TierFollowsChange ==
    [][/\ CompetitorsAppear \/ ClusterFillsUp => Tier(keyword)' >= Tier(keyword)
       /\ SignalAppears /\ ~BelowBaseline(keyword, keyword') => Tier(keyword)' <= Tier(keyword)]_scoreVars
=============================================================================
