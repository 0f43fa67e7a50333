SPECIFICATION FairSpec
CONSTANTS
    Modes <- MCModes
    Call = {c1, c2}
    Loader = loader
    None = none
    ExpiryDelta = 2
    MinLife = 3
    Transit = 1
    Life = 5
    MintedLife = 4
    MaxTime = 6
CHECK_DEADLOCK FALSE
INVARIANTS
    TypeOK
    LiveOnArrival
    FailuresHaveReasons
PROPERTIES
    ShutdownFreesCalls
