------------------------------ MODULE Strategy ------------------------------
(***************************************************************************)
(* The strategy of one site (strategy/service.py, intake_impact.py,        *)
(* business_fit.py): versions of the business intake, the constraint rules *)
(* the current one stands for, the keyword pyramid, the delivery           *)
(* commitments, and the opportunities that rules and pyramid let through.  *)
(* A request reads in Begin..., an approval reads once more in Impact, and *)
(* its columns are written by Commit... . Scores, scopes and parents of    *)
(* nodes are left out; links into the topic graph are in TopicGraph.       *)
(***************************************************************************)
EXTENDS Naturals, Sequences, FiniteSets

CONSTANTS
    StratTxns,       \* requests and job runs open at a time
    Keywords,        \* normalized keywords
    MaxIntakes,      \* bound: versions of the intake
    MaxStratRequests \* bound: transactions begun

ASSUME StrategyAssumption ==
    IsFiniteSet(StratTxns) /\ MaxIntakes \in Nat /\ MaxStratRequests \in Nat

VARIABLES
    intakes,     \* business_intakes, by creation
    rules,       \* active rows of business_constraint_rules: intake, keyword matched
    node,        \* keyword -> its keyword_pyramid_nodes row
    stratOpps,        \* open exposure_opportunities: keyword, and the scan they are of
    commitments, \* active delivery_commitments, by the request that made them
    stratTxn,    \* what each open transaction has read
    stratBegun

stratVars == <<intakes, rules, node, stratOpps, commitments, stratTxn, stratBegun>>

Fits      == {"needs_review", "in_scope", "out_of_scope", "blocked"}
NoRow     == [fit |-> "none", approved |-> FALSE]
NodeRows  == [fit : Fits, approved : BOOLEAN]
Contents  == [forbids : SUBSET Keywords, proposes : SUBSET Keywords]
NewIntake(content) == [status |-> "draft", current |-> FALSE, content |-> content]
Ended     == [op |-> "ended"]

StratInit ==
    /\ intakes = <<>> /\ rules = {} /\ stratOpps = {} /\ commitments = {}
    /\ node = [k \in Keywords |-> NoRow]
    /\ stratTxn = [t \in StratTxns |-> Ended]
    /\ stratBegun = 0

Drafts   == {i \in DOMAIN intakes : intakes[i].status = "draft"}
Currents == {i \in DOMAIN intakes : intakes[i].current /\ intakes[i].status = "approved"}

BeginStrat(t, request) ==
    /\ stratTxn[t] = Ended /\ stratBegun < MaxStratRequests
    /\ stratBegun' = stratBegun + 1
    /\ stratTxn' = [stratTxn EXCEPT ![t] = request]
    /\ UNCHANGED <<intakes, rules, node, stratOpps, commitments>>

End(t) == stratTxn' = [stratTxn EXCEPT ![t] = Ended] /\ UNCHANGED stratBegun

-----------------------------------------------------------------------------
(* Intakes. The lookups of a draft and of the current intake raise when    *)
(* they find two. A fork copies its parent.                                *)
BeginCreateIntake(t) ==
    /\ Currents = {} /\ Drafts = {}
    /\ \E c \in Contents : BeginStrat(t, [op |-> "draft", content |-> c])

BeginForkIntake(t) ==
    /\ Drafts = {}
    /\ \E i \in DOMAIN intakes : BeginStrat(t, [op |-> "draft", content |-> intakes[i].content])

CommitDraft(t) ==
    /\ stratTxn[t].op = "draft" /\ Len(intakes) < MaxIntakes
    /\ intakes' = Append(intakes, NewIntake(stratTxn[t].content))
    /\ End(t)
    /\ UNCHANGED <<rules, node, stratOpps, commitments>>

BeginUpdateIntake(t) ==
    \E i \in Drafts, c \in Contents : BeginStrat(t, [op |-> "update", intake |-> i, content |-> c])

CommitUpdateIntake(t) ==
    /\ stratTxn[t].op = "update"
    /\ intakes' = [intakes EXCEPT ![stratTxn[t].intake].content = stratTxn[t].content]
    /\ End(t)
    /\ UNCHANGED <<rules, node, stratOpps, commitments>>

(* An intake is approved, or the current one applied again: from its text  *)
(* and the pyramid come the nodes to add and the nodes to block.           *)
Apply(t, i, archive) ==
    LET c == intakes[i].content IN
    BeginStrat(t, [op |-> "apply", intake |-> i, content |-> c, archive |-> archive,
              add   |-> {k \in c.proposes : node[k] = NoRow},
              block |-> {k \in c.forbids : node[k].fit \in {"needs_review", "in_scope"}},
              off |-> {}, reject |-> {}])

BeginApproveIntake(t) ==
    /\ Cardinality(Currents) <= 1
    /\ \E i \in Drafts : Apply(t, i, Currents)

BeginReapplyIntake(t) == Cardinality(Currents) = 1 /\ \E i \in Currents : Apply(t, i, {})

(* Fault: a keyword with a node is not held against the rules. *)
FitBlocksNodeFirst(row, ruled) ==
    IF row = NoRow THEN ruled ELSE row.fit \in {"out_of_scope", "blocked"}

(* What evaluate_keyword_fit blocks: a node out of scope, or a rule.       *)
FitBlocks(row, ruled) == row.fit \in {"out_of_scope", "blocked"} \/ ruled

(* The UPDATE of the rules and the query of the opportunities come later:  *)
(* they see what others have committed in between.                         *)
Impact(t) ==
    /\ stratTxn[t].op = "apply"
    /\ LET a == stratTxn[t] IN
       stratTxn' = [stratTxn EXCEPT ![t] =
         [a EXCEPT !.op = "impact", !.off = rules,
                   !.reject = {o \in stratOpps : FitBlocks(node[o.keyword], o.keyword \in a.content.forbids)}]]
    /\ UNCHANGED <<intakes, rules, node, stratOpps, commitments, stratBegun>>

(* Nodes to block that are gone make the commit fail.                      *)
CommitImpact(t) ==
    /\ stratTxn[t].op = "impact"
    /\ LET a == stratTxn[t] IN
       /\ \A k \in a.block : node[k] # NoRow
       /\ intakes' = [i \in DOMAIN intakes |->
            IF i \in a.archive \ {a.intake} THEN [intakes[i] EXCEPT !.status = "archived", !.current = FALSE]
            ELSE IF i = a.intake THEN [intakes[i] EXCEPT !.status = "approved", !.current = TRUE]
            ELSE intakes[i]]
       /\ rules' = (rules \ a.off) \cup ({a.intake} \X a.content.forbids)
       /\ node' = [k \in Keywords |->
            IF k \in a.block THEN [node[k] EXCEPT !.fit = "blocked"]
            ELSE IF k \in a.add /\ node[k] = NoRow THEN [fit |-> "needs_review", approved |-> FALSE]
            ELSE node[k]]
       /\ stratOpps' = stratOpps \ a.reject
    /\ End(t)
    /\ UNCHANGED commitments

-----------------------------------------------------------------------------
(* The keyword pyramid. Rows are added by hand, in bulk or by cold start   *)
(* research (a second row of a keyword is left out), edited, approved and  *)
(* deleted; approval puts in scope what waits or was out of scope.         *)
AddedFits == Fits

BeginNode(t) ==
    \E k \in Keywords :
        \/ node[k] = NoRow /\ \E f \in AddedFits : BeginStrat(t, [op |-> "addNode", keyword |-> k, fit |-> f])
        \/ node[k] # NoRow /\ \E f \in Fits : BeginStrat(t, [op |-> "editNode", keyword |-> k, fit |-> f])
        \/ node[k] # NoRow /\ BeginStrat(t, [op |-> "deleteNode", keyword |-> k])

BeginApproveNode(t) ==
    \E k \in Keywords :
        /\ node[k] # NoRow
        /\ BeginStrat(t, [op |-> "approveNode", keyword |-> k,
                     widen |-> node[k].fit \in {"needs_review", "out_of_scope"}])

CommitNode(t) ==
    /\ stratTxn[t].op \in {"addNode", "editNode", "deleteNode", "approveNode"}
    /\ LET n == stratTxn[t] IN
       /\ n.op = "addNode" <=> node[n.keyword] = NoRow
       /\ node' = [node EXCEPT ![n.keyword] =
            CASE n.op = "addNode"     -> [fit |-> n.fit, approved |-> FALSE]
              [] n.op = "editNode"    -> [@ EXCEPT !.fit = n.fit]
              [] n.op = "deleteNode"  -> NoRow
              [] n.op = "approveNode" -> [fit |-> IF n.widen THEN "in_scope" ELSE @.fit, approved |-> TRUE]]
    /\ End(t)
    /\ UNCHANGED <<intakes, rules, stratOpps, commitments>>

-----------------------------------------------------------------------------
(* The scans that ask for the fit: Search Console queries are held against *)
(* pyramid and rules, approved nodes in scope are taken as they are.       *)
Ruled(k) == \E i \in DOMAIN intakes : <<i, k>> \in rules

BeginScan(t) ==
    \/ \E found \in SUBSET Keywords :
         BeginStrat(t, [op |-> "scan", source |-> "gsc",
                   opens |-> {k \in found : ~FitBlocks(node[k], Ruled(k))}])
    \/ BeginStrat(t, [op |-> "scan", source |-> "pyramid",
                 opens |-> {k \in Keywords : node[k] = [fit |-> "in_scope", approved |-> TRUE]}])

CommitStratScan(t) ==
    /\ stratTxn[t].op = "scan"
    /\ stratOpps' = stratOpps \cup [keyword : stratTxn[t].opens, source : {stratTxn[t].source}]
    /\ End(t)
    /\ UNCHANGED <<intakes, rules, node, commitments>>

(* A new commitment archives those its UPDATE sees.                        *)
BeginCommitment(t) == BeginStrat(t, [op |-> "commitment", archive |-> commitments, nr |-> stratBegun])

CommitCommitment(t) ==
    /\ stratTxn[t].op = "commitment"
    /\ commitments' = (commitments \ stratTxn[t].archive) \cup {stratTxn[t].nr}
    /\ End(t)
    /\ UNCHANGED <<intakes, rules, node, stratOpps>>

Deactivate ==
    /\ \E c \in commitments : commitments' = commitments \ {c}
    /\ UNCHANGED <<intakes, rules, node, stratOpps, stratTxn, stratBegun>>

AbortStrat(t) ==
    /\ stratTxn[t] # Ended
    /\ End(t)
    /\ UNCHANGED <<intakes, rules, node, stratOpps, commitments>>

StratNext ==
    \/ Deactivate
    \/ \E t \in StratTxns :
        \/ BeginCreateIntake(t) \/ BeginForkIntake(t) \/ CommitDraft(t)
        \/ BeginUpdateIntake(t) \/ CommitUpdateIntake(t)
        \/ BeginApproveIntake(t) \/ BeginReapplyIntake(t) \/ Impact(t) \/ CommitImpact(t)
        \/ BeginNode(t) \/ BeginApproveNode(t) \/ CommitNode(t)
        \/ BeginScan(t) \/ CommitStratScan(t)
        \/ BeginCommitment(t) \/ CommitCommitment(t) \/ AbortStrat(t)

StratSpec == StratInit /\ [][StratNext]_stratVars

-----------------------------------------------------------------------------
(* Rows have the shapes of models/strategy.py.                             *)
StratTypeOK ==
    /\ intakes \in Seq([status : {"draft", "approved", "archived"}, current : BOOLEAN, content : Contents])
    /\ \A i \in DOMAIN intakes : intakes[i].current <=> intakes[i].status = "approved"
    /\ rules \subseteq (DOMAIN intakes) \X Keywords
    /\ node \in [Keywords -> NodeRows \cup {NoRow}]
    /\ stratOpps \subseteq [keyword : Keywords, source : {"gsc", "pyramid"}]
    /\ stratBegun \in 0 .. MaxStratRequests

(* No index forbids a second draft or a second current intake, and either  *)
(* makes create, fork, approve and reapply raise from then on: there are   *)
(* never more than requests that overlap, and one if none do               *)
(* (strategy/service.py:59-110).                                           *)
DraftsBounded   == Cardinality(Drafts) <= Cardinality(StratTxns)
CurrentsBounded == Cardinality(Currents) <= Cardinality(StratTxns)

(* As many active delivery commitments as requests that overlap            *)
(* (strategy/service.py:480).                                              *)
CommitmentsBounded == Cardinality(commitments) <= Cardinality(StratTxns)

(* Requests one after the other: the active rules are those of the current *)
(* intake's text, none of them left over from a version before             *)
(* (intake_impact.py:255).                                                 *)
RulesFollowIntake == rules = UNION {{i} \X intakes[i].content.forbids : i \in Currents}

(* Requests one after the other: no open opportunity of a Search Console   *)
(* scan is for a keyword that the active rules forbid, be it from before   *)
(* or after the approval (intake_impact.py:405, exposure/service.py:182).  *)
NoOpenForbiddenQuery == \A o \in stratOpps : o.source = "gsc" => ~Ruled(o.keyword)

(* ... and a node an intake blocked stays blocked, whatever is approved or *)
(* imported, until a user edits or deletes it (strategy/service.py:411).   *)
ConstraintsHold ==
    [][/\ RulesFollowIntake' /\ NoOpenForbiddenQuery'
       /\ \A k \in Keywords : node[k].fit = "blocked" =>
            \/ node'[k].fit = "blocked"
            \/ \E t \in StratTxns :
                 stratTxn[t].op \in {"editNode", "deleteNode"} /\ stratTxn[t].keyword = k]_stratVars
=============================================================================
