SPECIFICATION FairSpec
CONSTANTS
    NumArchs = 2
    NumRepos = 1
    RefreshOn = TRUE
    Name <- MCNames
    WellFormed <- MCWellFormed
    Lists <- MCLists
    Reader = {r1}
    MaxEdition = 2
INVARIANTS
    AllOrNothing
    IInv
PROPERTIES
    FreshAsOfLoadStart
    NeverGoesBack
    AtomicReads
    RefreshDelivers
    ShutdownStopsRefresh
