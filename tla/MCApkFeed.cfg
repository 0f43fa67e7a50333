SPECIFICATION Spec
CONSTANTS
    Configs <- MCConfigs
    Line <- MCLines
    Name <- MCNames
    Epoch = 1
    MaxUnixSec = 3
    MaxLines = 6
    MaxSame = 2
CHECK_DEADLOCK FALSE
INVARIANTS
    TypeOK
    ParsesRecords
    NothingYoung
    ArchsAgree
    NothingLost
