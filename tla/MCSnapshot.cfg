SPECIFICATION FairSpec
CONSTANTS
    p1 = p1
    p2 = p2
    Process <- MCProcess
    NumPackages <- MCOneAndTwo
    Concurrency <- MCConcurrency
    TrailingSlash = FALSE
CHECK_DEADLOCK FALSE
INVARIANTS
    TypeOK
    NeverHalfWritten
    OutcomeTold
PROPERTIES
    PublishedAtomically
    Returns
