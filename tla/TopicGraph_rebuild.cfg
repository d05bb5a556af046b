SPECIFICATION GraphSpec
CONSTANTS
    g1 = g1  k1 = k1  c1 = c1  c2 = c2
    GraphTxns = {g1}
    Queries = {k1}
    ClusterIds = {c1, c2}
    NoCluster = NoCluster
    MaxGraphRequests = 4
SYMMETRY ClusterSymmetry
CHECK_DEADLOCK FALSE
INVARIANTS
    RebuildIsPossible
