SPECIFICATION FairSpec
CONSTANTS
    t1 = t1  t2 = t2  r1 = r1  r2 = r2  r3 = r3  w1 = w1  w2 = w2
    wsA = wsA  wsB = wsB  k1 = k1
    Txns = {t1}
    Workers = {w1}
    Runs = {r1}
    Workspaces = {wsA}
    Keys = {k1}
    NoKey = NoKey  NoRun = NoRun  NoCall = NoCall
    Calls <- OneWorkspaceCalls
    MaxQueued = 2
    QuotaLimit = 2
    MaxRetries = 1
    MaxCalls = 2
    MaxCrashes = 0
    MaxDuplicates = 0
    MaxDbErrors = 0
CHECK_DEADLOCK FALSE
PROPERTIES QueuedRunsFinish
