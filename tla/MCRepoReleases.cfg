SPECIFICATION Spec
CONSTANTS
    NumTags = 1
    Request = {r1, r2}
    HistoryConcurrency = 1
    RpcLimit = 1
    DefaultAge = 1
    Ages <- MCAges
    Unsaid = unsaid
    MaxAge = 2
    Untimed = {}
    MaxTime = 4
    MaxPushes = 3
SYMMETRY RequestSymmetry
CHECK_DEADLOCK FALSE
INVARIANTS
    TypeOK
    PointInTime
    NothingMissing
