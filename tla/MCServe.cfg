SPECIFICATION FairSpec
CONSTANTS
    Configs <- MCConfigs
    Conn = {c1, c2}
CHECK_DEADLOCK FALSE
INVARIANTS
    TypeOK
    CleanExit
    NoQuietExit
PROPERTIES
    SignalEnds
