SPECIFICATION Spec
CONSTANTS
    NumTags = 1
    Request = {r1}
    HistoryConcurrency = 1
    RpcLimit = 1
    DefaultAge = 0
    Ages = {1}
    Unsaid = unsaid
    MaxAge = 1
    Untimed = {1}
    MaxTime = 3
    MaxPushes = 2
CHECK_DEADLOCK FALSE
INVARIANTS
    UntimedOmitted
