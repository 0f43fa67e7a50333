SPECIFICATION FairSpec
CONSTANTS
    NumTags = 2
    Request = {r1, r2}
    HistoryConcurrency = 1
    RpcLimit = 1
    DefaultAge = 0
    Ages = {1}
    Unsaid = unsaid
    MaxAge = 1
    Untimed = {}
    MaxTime = 2
    MaxPushes = 1
CHECK_DEADLOCK FALSE
INVARIANTS
    PermitsBalance
PROPERTIES
    EveryRequestAnswered
