--------------------------- MODULE TopicClustering ---------------------------
(***************************************************************************)
(* How a rebuild of the topic graph groups the queries of Search Console   *)
(* (topics/graph_builder.py): a union-find over the queries, united when   *)
(* they rank on one page, on pages of one path, have similar words, or     *)
(* when their Google results overlap. Beside it the pairs of queries that  *)
(* compete with different pages (topics/cannibalization.py).               *)
(***************************************************************************)
EXTENDS Naturals, FiniteSets

CONSTANTS
    Queries,      \* what may be a query of Search Console
    Keywords,     \* what a SERP snapshot was taken for
    Pages,
    PathPrefix,   \* url_path_prefix: page -> prefix, "" for the home page
    Impressions,  \* [query, page] -> impressions of its row, when there is one
    WordChoices,  \* functions from queries to their tokens
    TopChoices    \* what the top ten of a keyword may be

ASSUME ClusterAssumption ==
    /\ IsFiniteSet(Queries)
    /\ \A w \in WordChoices : \A q \in Queries : IsFiniteSet(w[q])

VARIABLES
    rows,     \* query -> the pages it has rows for, {} when it is not known
    words, top,
    parent, rank,   \* UnionFind
    todo,     \* the calls of union that are left, as pairs
    outcome

clusterVars == <<rows, words, top, parent, rank, todo, outcome>>

Known == {q \in Queries : rows[q] # {}}

(* jaccard_similarity: nothing is similar to a query without tokens.       *)
Similarity(a, b, percent) ==
    /\ words[a] # {} /\ words[b] # {}
    /\ 100 * Cardinality(words[a] \cap words[b]) >= percent * Cardinality(words[a] \cup words[b])

PairsOf(S) == {{p[1], p[2]} : p \in {p \in S \X S : p[1] # p[2]}}

(* What build_query_graph unites. No query of the database has an order:   *)
(* any order of the calls is possible, but the last loop is the last.      *)
OnePage(a, b) == rows[a] \cap rows[b] # {}

OnePrefix(a, b) == \E p \in rows[a], o \in rows[b] : PathPrefix[p] = PathPrefix[o] /\ PathPrefix[p] # ""

ResultsOverlap(a, b) ==
    /\ top[a] # {} /\ top[b] # {}
    /\ LET least == IF Cardinality(top[a]) < Cardinality(top[b]) THEN Cardinality(top[a]) ELSE Cardinality(top[b])
       IN  10 * Cardinality(top[a] \cap top[b]) >= 3 * least

AlikeBySearch(a, b) == OnePage(a, b) \/ OnePrefix(a, b) \/ Similarity(a, b, 55)

SearchPairs == {pair \in PairsOf(Known) : \E a, b \in pair : a # b /\ AlikeBySearch(a, b)}
ResultPairs == {pair \in PairsOf(Keywords) : \E a, b \in pair : a # b /\ ResultsOverlap(a, b)}

ClusterInit ==
    /\ rows \in [Queries -> SUBSET Pages] /\ Known # {}
    /\ words \in WordChoices
    /\ top \in [Keywords -> TopChoices]
    /\ parent = [q \in Known |-> q] /\ rank = [q \in Known |-> 0]
    /\ todo = SearchPairs \cup ResultPairs
    /\ outcome = "running"

-----------------------------------------------------------------------------
(* The nodes find passes on its way, itself included, and the last of them. *)
Path(n) ==
    CHOOSE S \in SUBSET DOMAIN parent :
        /\ n \in S /\ \A m \in S : parent[m] \in S
        /\ \A T \in SUBSET S : n \in T /\ (\A m \in T : parent[m] \in T) => T = S

Root(n) == CHOOSE m \in Path(n) : parent[m] = m

Compressed(a, b) ==
    [n \in DOMAIN parent |-> IF n \in Path(a) THEN Root(a) ELSE IF n \in Path(b) THEN Root(b) ELSE parent[n]]

(* Fault: the second node is hung up, not its root. *)
LinkNode(a, b) ==
    /\ parent' = [Compressed(a, b) EXCEPT ![b] = Root(a)]
    /\ UNCHANGED rank

(* UnionFind.union: the root of less rank goes under the other.            *)
Link(a, b) ==
    LET under == IF rank[Root(a)] < rank[Root(b)] THEN Root(a) ELSE Root(b)
        over  == IF under = Root(a) THEN Root(b) ELSE Root(a)
    IN  IF Root(a) = Root(b)
          THEN parent' = Compressed(a, b) /\ UNCHANGED rank
          ELSE /\ parent' = [Compressed(a, b) EXCEPT ![under] = over]
               /\ rank' = IF rank[over] = rank[under] THEN [rank EXCEPT ![over] = @ + 1] ELSE rank

(* A union of a keyword that no row added raises a KeyError.               *)
Union ==
    /\ outcome = "running"
    /\ \E pair \in IF todo \cap SearchPairs # {} THEN todo \cap SearchPairs ELSE todo :
         /\ todo' = todo \ {pair}
         /\ IF pair \subseteq DOMAIN parent
              THEN (\E a, b \in pair : a # b /\ Link(a, b)) /\ UNCHANGED outcome
              ELSE outcome' = "raised" /\ UNCHANGED <<parent, rank>>
    /\ UNCHANGED <<rows, words, top>>

Finish ==
    /\ outcome = "running" /\ todo = {}
    /\ outcome' = "built"
    /\ UNCHANGED <<rows, words, top, parent, rank, todo>>

ClusterNext == Union \/ Finish

ClusterSpec == ClusterInit /\ [][ClusterNext]_clusterVars

-----------------------------------------------------------------------------
(* aggregate_query_stats: of the rows of a query the most impressions win, *)
(* of equal ones the first.                                                *)
Total(q) ==
    LET of[S \in SUBSET rows[q]] ==
            IF S = {} THEN 0 ELSE LET p == CHOOSE p \in S : TRUE IN Impressions[q, p] + of[S \ {p}]
    IN  of[rows[q]]

BestUrls(q) == {p \in rows[q] : \A o \in rows[q] : Impressions[q, o] <= Impressions[q, p]}

(* detect_semantic_cannibalization. *)
Paired(a, b) ==
    /\ {Total(a), Total(b)} \subseteq {n \in 0 .. Total(a) + Total(b) : n >= 100}
    /\ Similarity(a, b, 70)
    /\ \E p \in BestUrls(a), o \in BestUrls(b) : p # o

-----------------------------------------------------------------------------
(* The union-find stays a forest whose ranks rise to the roots: a find     *)
(* ends, in as many steps as there are ranks.                              *)
ClusterTypeOK ==
    /\ outcome \in {"running", "built", "raised"}
    /\ DOMAIN parent = Known /\ DOMAIN rank = Known
    /\ \A q \in Known :
         /\ parent[q] \in Known /\ rank[q] \in 0 .. Cardinality(Known)
         /\ parent[q] # q => rank[q] < rank[parent[q]]

(* Nothing connects a and b: some set holds a and not b, and no pair       *)
(* crosses its border.                                                     *)
Apart(a, b) ==
    \E S \in SUBSET (Known \cup Keywords) :
        /\ a \in S /\ b \notin S
        /\ \A pair \in SearchPairs \cup ResultPairs : pair \subseteq S \/ pair \cap S = {}

(* A graph that was built has exactly one cluster for all the queries that *)
(* the signals connect, whatever the order of the calls                    *)
(* (topics/graph_builder.py:100-158).                                      *)
GroupsAreComponents ==
    outcome = "built" => \A a, b \in Known : (Root(a) = Root(b)) <=> ~Apart(a, b)

(* Two queries that are told to compete are in one cluster, where the case *)
(* can be resolved: the threshold of the detection is above that of the    *)
(* clusters (topics/cannibalization.py:75, graph_builder.py:104).          *)
RivalsShareACluster ==
    outcome = "built" => \A a, b \in Known : a # b /\ Paired(a, b) => Root(a) = Root(b)

(* A query's case is where its cluster is, and a cluster is what it says.  *)
ClustersAreGroups == GroupsAreComponents /\ RivalsShareACluster

(* "GSC co-occurrence, SERP overlap, URL hierarchy, token similarity" make *)
(* the graph (docs/product/phase-4-review.md:29): a snapshot for a keyword *)
(* that Search Console does not know does not keep it from being built.    *)
GraphIsBuilt == outcome # "raised"
=============================================================================
