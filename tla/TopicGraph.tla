----------------------------- MODULE TopicGraph -----------------------------
(***************************************************************************)
(* The topic graph of one site: its theme row, clusters, topic nodes, the  *)
(* keyword pyramid nodes and SERP slot targets that point into it, and the *)
(* cannibalization cases found beside it (topics/service.py,               *)
(* strategy/pyramid_topic_bridge.py, serp/service.py). Each request or job *)
(* is a transaction: it reads, and later commits what it made of it.       *)
(* Scores, levels, texts and internal link suggestions are left out.       *)
(***************************************************************************)
EXTENDS Naturals, FiniteSets, Functions

CONSTANTS
    GraphTxns,        \* requests and job runs open at a time
    Queries,          \* keywords of Search Console, topic nodes and pyramid nodes
    ClusterIds,       \* bound: rows of topic_clusters alive at a time
    NoCluster,        \* a foreign key that is NULL
    MaxGraphRequests  \* bound: transactions begun

ASSUME TopicGraphAssumption ==
    /\ IsFiniteSet(GraphTxns) /\ NoCluster \notin ClusterIds
    /\ MaxGraphRequests \in Nat

VARIABLES
    themes,     \* number of exposure_themes rows of the site
    clusters,   \* live topic_clusters
    topicNode,  \* keyword -> its topic_nodes row, at most one by uq_topic_node_keyword
    pyramid,    \* keyword -> cluster its approved pyramid node points to
    slotTarget, \* keyword -> cluster its serp_slot_targets point to
    cases,      \* keyword -> number of open cannibalization cases
    graphTxn,   \* what each open transaction has read
    graphBegun

graphVars == <<themes, clusters, topicNode, pyramid, slotTarget, cases, graphTxn, graphBegun>>

NoNode == [cluster |-> NoCluster, locked |-> FALSE]
Closed == [op |-> "closed"]

GraphInit ==
    /\ themes = 0 /\ clusters = {}
    /\ topicNode = [q \in Queries |-> NoNode]
    /\ pyramid = [q \in Queries |-> NoCluster]
    /\ slotTarget = [q \in Queries |-> NoCluster]
    /\ cases = [q \in Queries |-> 0]
    /\ graphTxn = [t \in GraphTxns |-> Closed]
    /\ graphBegun = 0

Locked(q) == topicNode[q].locked
KeptClusters == {topicNode[q].cluster : q \in {p \in Queries : Locked(p)}}
FreshIds == ClusterIds \ (clusters \cup UNION {graphTxn[t].del : t \in {u \in GraphTxns : graphTxn[u].op = "rebuild"}})

Open(t, request) ==
    /\ graphTxn[t] = Closed /\ graphBegun < MaxGraphRequests
    /\ graphBegun' = graphBegun + 1
    /\ graphTxn' = [graphTxn EXCEPT ![t] = request]

Close(t) == graphTxn' = [graphTxn EXCEPT ![t] = Closed] /\ UNCHANGED graphBegun

(* _get_or_create_default_theme: two rows make every later caller raise.   *)
NewTheme == IF themes = 0 THEN {1} ELSE IF themes = 1 THEN {0} ELSE {}

-----------------------------------------------------------------------------
(* Rebuild, by job or request. It reads the theme, the locked nodes and    *)
(* the clusters none of them is in; those it will delete.                  *)
BeginRebuild(t) ==
    /\ \E n \in NewTheme, byJob \in BOOLEAN :
         Open(t, [op |-> "rebuild", step |-> "read", newThemes |-> n, del |-> clusters \ KeptClusters,
                  byJob |-> byJob, gone |-> {}, adopted |-> {}, opens |-> {}])
    /\ UNCHANGED <<themes, clusters, topicNode, pyramid, slotTarget, cases>>

(* DELETE of the nodes that are not locked starts: it sees those committed *)
(* by now, and will wait for the rows another rebuild has deleted.         *)
StartSweep(t) ==
    /\ graphTxn[t].op = "rebuild" /\ graphTxn[t].step = "read"
    /\ graphTxn' = [graphTxn EXCEPT ![t].step = "deleting",
                                    ![t].gone = {q \in Queries : topicNode[q] # NoNode /\ ~Locked(q)}]
    /\ UNCHANGED <<themes, clusters, topicNode, pyramid, slotTarget, cases, graphBegun>>

(* Rows a rebuild has deleted are its own until it commits or fails.       *)
Held(t, q) ==
    \E u \in GraphTxns \ {t} :
        graphTxn[u].op = "rebuild" /\ graphTxn[u].step = "writing" /\ q \in graphTxn[u].gone

(* Fault: a row is deleted although it was locked in the meantime. *)
SweepBlindly(t) ==
    /\ graphTxn[t].op = "rebuild" /\ graphTxn[t].step = "deleting"
    /\ \A q \in graphTxn[t].gone : ~Held(t, q)
    /\ graphTxn' = [graphTxn EXCEPT ![t].step = "writing"]
    /\ UNCHANGED <<themes, clusters, topicNode, pyramid, slotTarget, cases, graphBegun>>

(* The DELETE ends: a row that was changed meanwhile is looked at again.   *)
Sweep(t) ==
    /\ graphTxn[t].op = "rebuild" /\ graphTxn[t].step = "deleting"
    /\ \A q \in graphTxn[t].gone : ~Held(t, q)
    /\ graphTxn' = [graphTxn EXCEPT ![t].step = "writing", ![t].gone = {q \in @ : ~Locked(q)}]
    /\ UNCHANGED <<themes, clusters, topicNode, pyramid, slotTarget, cases, graphBegun>>

(* The loop over the queries finds a node that is not locked: another      *)
(* rebuild made it since the DELETE. It will be moved, whatever happens to *)
(* its lock before the UPDATE.                                             *)
Adopt(t) ==
    /\ graphTxn[t].op = "rebuild" /\ graphTxn[t].step = "writing"
    /\ \E q \in Queries \ graphTxn[t].gone :
         /\ topicNode[q] # NoNode /\ ~Locked(q)
         /\ graphTxn' = [graphTxn EXCEPT ![t].adopted = @ \cup {q}]
    /\ UNCHANGED <<themes, clusters, topicNode, pyramid, slotTarget, cases, graphBegun>>

(* Fault: a case is opened although one is open. *)
ReadCasesBlindly(t) ==
    /\ \E found \in SUBSET Queries :
         \/ Open(t, [op |-> "detect", opens |-> found])
         \/ /\ graphTxn[t].op = "rebuild" /\ graphTxn[t].step = "writing"
            /\ graphTxn' = [graphTxn EXCEPT ![t].opens = found]
            /\ UNCHANGED graphBegun
    /\ UNCHANGED <<themes, clusters, topicNode, pyramid, slotTarget, cases>>

(* Detection, in a rebuild or on its own: it opens a case for a finding    *)
(* that has none and raises when one has two. The job then keeps what it   *)
(* has rebuilt, the request loses it.                                      *)
ReadCases(t) ==
    /\ \E found \in SUBSET Queries :
         \/ /\ \A q \in found : cases[q] < 2
            /\ LET new == {q \in found : cases[q] = 0}
               IN  \/ Open(t, [op |-> "detect", opens |-> new])
                   \/ /\ graphTxn[t].op = "rebuild" /\ graphTxn[t].step = "writing" /\ new # {}
                      /\ graphTxn' = [graphTxn EXCEPT ![t].opens = new]
                      /\ UNCHANGED graphBegun
         \/ /\ \E q \in found : cases[q] > 1
            /\ graphTxn[t].op = "rebuild" /\ graphTxn[t].step = "writing" /\ ~graphTxn[t].byJob
            /\ Close(t)
    /\ UNCHANGED <<themes, clusters, topicNode, pyramid, slotTarget, cases>>

CommitDetect(t) ==
    /\ graphTxn[t].op = "detect"
    /\ cases' = [q \in Queries |-> cases[q] + IF q \in graphTxn[t].opens THEN 1 ELSE 0]
    /\ Close(t)
    /\ UNCHANGED <<themes, clusters, topicNode, pyramid, slotTarget>>

(* Rows that still point at a cluster keep it from being deleted; only     *)
(* keyword_pyramid_nodes.topic_cluster_id is ON DELETE SET NULL.           *)
Referenced(del, gone) ==
    \E q \in Queries : slotTarget[q] \in del \/ (q \notin gone /\ topicNode[q].cluster \in del)

(* What another transaction is left with when rows are deleted: an UPDATE  *)
(* of one of them will fail, a DELETE that waited for them passes over.    *)
Spoiled(r, rows) ==
    \/ r.op = "assign" /\ r.query \in rows
    \/ r.op = "link" /\ ~r.insert /\ r.query \in rows
    \/ r.op = "rebuild" /\ r.adopted \cap rows # {}

Left(r, rows) ==
    IF Spoiled(r, rows) THEN [op |-> "lost"]
    ELSE IF r.op = "rebuild" /\ r.step = "deleting" THEN [r EXCEPT !.gone = @ \ rows] ELSE r

(* The queries of Search Console get new clusters, and new nodes unless    *)
(* there is one: a locked one stays where it is, one seen unlocked moves,  *)
(* and any other meets uq_topic_node_keyword.                              *)
CommitRebuild(t) ==
    /\ graphTxn[t].op = "rebuild" /\ graphTxn[t].step = "writing"
    /\ LET del == graphTxn[t].del \cap clusters
           gone == graphTxn[t].gone
           adopted == graphTxn[t].adopted
           New(q) == q \in gone \/ topicNode[q] = NoNode
       IN  /\ ~Referenced(del, gone)
           /\ \A q \in adopted : ~Held(t, q)
           /\ \E found \in SUBSET Queries : \E group \in [found -> FreshIds] :
                /\ adopted \subseteq found
                /\ \A q \in found \ adopted : New(q) \/ Locked(q)
                /\ clusters' = (clusters \ del) \cup Range(group)
                /\ topicNode' = [q \in Queries |->
                     IF q \in adopted THEN [cluster |-> group[q], locked |-> Locked(q)]
                     ELSE IF ~New(q) THEN topicNode[q]
                     ELSE IF q \in found THEN [cluster |-> group[q], locked |-> FALSE] ELSE NoNode]
           /\ pyramid' = [q \in Queries |-> IF pyramid[q] \in del THEN NoCluster ELSE pyramid[q]]
           /\ graphTxn' = [u \in GraphTxns |-> IF u = t THEN Closed ELSE Left(graphTxn[u], gone)]
    /\ themes' = themes + graphTxn[t].newThemes
    /\ cases' = [q \in Queries |-> cases[q] + IF q \in graphTxn[t].opens THEN 1 ELSE 0]
    /\ UNCHANGED <<slotTarget, graphBegun>>

-----------------------------------------------------------------------------
(* A consultant moves a node to a cluster, and may lock it there.          *)
BeginAssign(t) ==
    /\ \E q \in Queries, c \in clusters, lock \in BOOLEAN :
         /\ topicNode[q] # NoNode
         /\ Open(t, [op |-> "assign", query |-> q, cluster |-> c, lock |-> lock])
    /\ UNCHANGED <<themes, clusters, topicNode, pyramid, slotTarget, cases>>

CommitAssign(t) ==
    /\ graphTxn[t].op = "assign"
    /\ topicNode[graphTxn[t].query] # NoNode /\ graphTxn[t].cluster \in clusters
    /\ ~Held(t, graphTxn[t].query)
    /\ topicNode' = [topicNode EXCEPT ![graphTxn[t].query] =
         [cluster |-> graphTxn[t].cluster, locked |-> @.locked \/ graphTxn[t].lock]]
    /\ Close(t)
    /\ UNCHANGED <<themes, clusters, pyramid, slotTarget, cases>>

(* A pyramid node is linked when it is approved, or when an intake is: the *)
(* cluster is its own, its parent's, or new (NoCluster stands for new).    *)
BeginLink(t) ==
    /\ \E q \in Queries, n \in NewTheme :
         \E c \in IF pyramid[q] # NoCluster THEN {pyramid[q]} ELSE Range(pyramid) :
           Open(t, [op |-> "link", query |-> q, newThemes |-> n, cluster |-> c,
                    insert |-> topicNode[q] = NoNode])
    /\ UNCHANGED <<themes, clusters, topicNode, pyramid, slotTarget, cases>>

CommitLink(t) ==
    /\ graphTxn[t].op = "link"
    /\ LET q == graphTxn[t].query
       IN  /\ graphTxn[t].insert <=> topicNode[q] = NoNode
           /\ ~Held(t, q)
           /\ \E c \in IF graphTxn[t].cluster = NoCluster THEN FreshIds
                       ELSE {graphTxn[t].cluster} \cap clusters :
                /\ clusters' = clusters \cup {c}
                /\ topicNode' = [topicNode EXCEPT ![q] =
                     IF graphTxn[t].insert THEN [cluster |-> c, locked |-> TRUE]
                     ELSE [@ EXCEPT !.locked = TRUE]]
                /\ pyramid' = [pyramid EXCEPT ![q] = c]
    /\ themes' = themes + graphTxn[t].newThemes
    /\ Close(t)
    /\ UNCHANGED <<slotTarget, cases>>

(* A SERP snapshot of a keyword points its slot targets at the cluster the *)
(* topic node was in.                                                      *)
BeginSnapshot(t) ==
    /\ \E q \in Queries : Open(t, [op |-> "snapshot", query |-> q, cluster |-> topicNode[q].cluster])
    /\ UNCHANGED <<themes, clusters, topicNode, pyramid, slotTarget, cases>>

CommitSnapshot(t) ==
    /\ graphTxn[t].op = "snapshot"
    /\ graphTxn[t].cluster \in clusters \cup {NoCluster}
    /\ slotTarget' = [slotTarget EXCEPT ![graphTxn[t].query] = graphTxn[t].cluster]
    /\ Close(t)
    /\ UNCHANGED <<themes, clusters, topicNode, pyramid, cases>>

(* A foreign key, a unique index, a stale row or the database refuses.     *)
AbortGraph(t) ==
    /\ graphTxn[t] # Closed
    /\ Close(t)
    /\ UNCHANGED <<themes, clusters, topicNode, pyramid, slotTarget, cases>>

GraphNext ==
    \E t \in GraphTxns :
        \/ BeginRebuild(t) \/ StartSweep(t) \/ Sweep(t) \/ Adopt(t) \/ CommitRebuild(t)
        \/ ReadCases(t) \/ CommitDetect(t)
        \/ BeginAssign(t) \/ CommitAssign(t) \/ BeginLink(t) \/ CommitLink(t)
        \/ BeginSnapshot(t) \/ CommitSnapshot(t) \/ AbortGraph(t)

GraphSpec == GraphInit /\ [][GraphNext]_graphVars

-----------------------------------------------------------------------------
(* The rows have the shapes of models/topic.py, and no foreign key points  *)
(* at a cluster that is gone, though clusters come and go.                 *)
GraphTypeOK ==
    /\ themes \in 0 .. Cardinality(GraphTxns)
    /\ clusters \subseteq ClusterIds
    /\ \A q \in Queries :
         /\ topicNode[q] = NoNode \/ topicNode[q] \in [cluster : clusters, locked : BOOLEAN]
         /\ {pyramid[q], slotTarget[q]} \subseteq clusters \cup {NoCluster}
         /\ cases[q] \in Nat
    /\ graphBegun \in 0 .. MaxGraphRequests

(* The theme is looked up and created without a unique index: callers that *)
(* overlap leave at most one row each, and a caller that is alone only one *)
(* (topics/service.py:89, strategy/pyramid_topic_bridge.py:16).            *)
ThemesBounded ==
    themes + Cardinality({t \in GraphTxns : graphTxn[t].op \in {"rebuild", "link"} /\ graphTxn[t].newThemes = 1})
        <= Cardinality(GraphTxns)

(* As many open cases of a keyword as detections that overlap, for each    *)
(* first looks for an open one (topics/service.py:264).                    *)
CasesBounded ==
    \A q \in Queries :
        cases[q] + Cardinality({t \in GraphTxns : graphTxn[t].op \in {"rebuild", "detect"} /\ q \in graphTxn[t].opens})
            <= Cardinality(GraphTxns)

(* A locked node is never deleted nor unlocked, not even one locked while  *)
(* the DELETE of a rebuild waits, and only an assignment moves it - or a   *)
(* rebuild that saw it before it was locked, made by another rebuild       *)
(* between the DELETE and the look (topics/service.py:155, :223).          *)
LockedStays ==
    [][\A q \in Queries : Locked(q) =>
          /\ topicNode'[q].locked
          /\ \/ topicNode'[q].cluster = topicNode[q].cluster
             \/ \E t \in GraphTxns :
                   /\ graphTxn'[t] = Closed
                   /\ \/ graphTxn[t].op = "assign" /\ graphTxn[t].query = q
                      \/ graphTxn[t].op = "rebuild" /\ q \in graphTxn[t].adopted]_graphVars

(* What the Phase 4 review says was fixed: the clusters a rebuild would    *)
(* delete are free of foreign keys that make the deletion fail.            *)
RebuildIsPossible == ~Referenced(clusters \ KeptClusters, {q \in Queries : ~Locked(q)})

=============================================================================
