SPECIFICATION Spec
CONSTANTS
    p1 = p1
    p2 = p2
    Process = {p1}
    NumPackages <- MCTwo
    Concurrency <- MCConcurrency
    TrailingSlash = TRUE
CHECK_DEADLOCK FALSE
INVARIANTS
    NeverHalfWritten
