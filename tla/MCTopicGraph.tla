---------------------------- MODULE MCTopicGraph ----------------------------
(* One request or job at a time over a small topic graph, for TLC.         *)
EXTENDS TopicGraph, TLC

CONSTANTS g1, k1, c1, c2

ClusterSymmetry == Permutations({c1, c2})
=============================================================================
