---------------------------- MODULE MCDecisions -----------------------------
(* What decides about the work of a site, for TLC: opportunities and       *)
(* roadmaps, the strategy, AI visibility, execution jobs, the topic graph, *)
(* the knowledge base and the slots of Google's results. They share no     *)
(* state here: a behaviour is one of one component, named by part, while   *)
(* the others stay as they began.                                          *)
EXTENDS MCDecisionPlane, Strategy, AiVisibility, ExecutionJobs, TopicGraph, Knowledge,
        SerpTargets

CONSTANTS q1, q2, k1, k2, c1, c2, c3, b1, b2

VARIABLE part

BrandSymmetry == Permutations({b1, b2})
Symmetries    == Permutations({q1, q2}) \cup Permutations({k1, k2}) \cup Permutations({c1, c2, c3}) \cup BrandSymmetry

(* What Google may show: nothing, the site itself with a competitor, a      *)
(* forum, and everything but an organic result of the site.                *)
MCSlotTypes == {"organic", "featured_snippet", "paa", "image", "product"}
Shows(slots) == [t \in MCSlotTypes |-> IF t \in DOMAIN slots THEN slots[t] ELSE {}]
MCResults ==
    {Shows(<<>>),
     Shows([organic |-> {"own", "competitor"}, paa |-> {"other"}]),
     Shows([organic |-> {"own"}, featured_snippet |-> {"own"}, image |-> {"own", "forum"}]),
     Shows([organic |-> {"forum"}, featured_snippet |-> {"competitor"}, product |-> {"own"}])}

DecisionsInit ==
    /\ part \in {"decisions", "strategy", "ai", "execution", "graph", "knowledge", "serp"}
    /\ Init /\ StratInit /\ GraphInit /\ SerpInit
    /\ AiInit /\ (part # "ai" => rivalKnown)
    /\ ExecInit /\ (part # "execution" => adapter = "missing")
    /\ KnowInit /\ (part # "knowledge" => \A s \in Sources : sources[s].status = "pending")

DecisionsNext ==
    /\ UNCHANGED part
    /\ \/ part = "decisions" /\ Next /\ UNCHANGED <<stratVars, aiVars, execVars, graphVars, knowVars, serpVars>>
       \/ part = "strategy" /\ StratNext /\ UNCHANGED <<vars, aiVars, execVars, graphVars, knowVars, serpVars>>
       \/ part = "ai" /\ AiNext /\ UNCHANGED <<vars, stratVars, execVars, graphVars, knowVars, serpVars>>
       \/ part = "execution" /\ ExecNext /\ UNCHANGED <<vars, stratVars, aiVars, graphVars, knowVars, serpVars>>
       \/ part = "graph" /\ GraphNext /\ UNCHANGED <<vars, stratVars, aiVars, execVars, knowVars, serpVars>>
       \/ part = "knowledge" /\ KnowNext /\ UNCHANGED <<vars, stratVars, aiVars, execVars, graphVars, serpVars>>
       \/ part = "serp" /\ SerpNext /\ UNCHANGED <<vars, stratVars, aiVars, execVars, graphVars, knowVars>>

DecisionsSpec ==
    DecisionsInit /\ [][DecisionsNext]_<<part, vars, stratVars, aiVars, execVars, graphVars, knowVars, serpVars>>

(* The rows of every part keep the shapes the code gives them.             *)
DecisionsTypeOK ==
    TypeOK /\ StratTypeOK /\ AiTypeOK /\ ExecTypeOK /\ GraphTypeOK /\ KnowTypeOK /\ SerpTypeOK

(* Where only a look before the insert keeps rows apart, requests that     *)
(* overlap may each add one: never more than there are of them, however    *)
(* often they overlap. Two of most of these make every later request for   *)
(* them raise (strategy/service.py:59, ai_visibility/service.py:406).      *)
DuplicatesBounded ==
    /\ DraftsBounded /\ CurrentsBounded /\ CommitmentsBounded
    /\ AiOppsBounded
    /\ ThemesBounded /\ CasesBounded
=============================================================================
