SPECIFICATION FairSpec
CONSTANTS
    a = a
    b = b
    c = c
    Root = root
    Group = {root, a, b, c}
    Link <- MCLink
    Repo = {r}
    NameOf <- MCNameOf
    MaxGroupDepth = 2
    MaxEdits = 2
CHECK_DEADLOCK FALSE
INVARIANTS
    TypeOK
    NothingOverlooked
    ListedOnce
    CycleIsReal
    ListedResolves
PROPERTIES
    Ends
