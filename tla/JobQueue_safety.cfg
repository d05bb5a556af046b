SPECIFICATION Spec
CONSTANTS
    t1 = t1  t2 = t2  r1 = r1  r2 = r2  r3 = r3  w1 = w1  w2 = w2
    wsA = wsA  wsB = wsB  k1 = k1
    Txns = {t1, t2}
    Workers = {w1, w2}
    Runs = {r1, r2, r3}
    Workspaces = {wsA, wsB}
    Keys = {k1}
    NoKey = NoKey  NoRun = NoRun  NoCall = NoCall
    Calls <- AllCalls
    MaxQueued = 1
    QuotaLimit = 1
    MaxRetries = 1
    MaxCalls = 3
    MaxCrashes = 1
    MaxDuplicates = 1
    MaxDbErrors = 1
SYMMETRY Symmetries
CHECK_DEADLOCK FALSE
INVARIANTS
    IdempotentReply
    ChargedOnce
    ExcessIsBounded
    UnkeyedRunsAlone
PROPERTIES
    ImplementsLedger
