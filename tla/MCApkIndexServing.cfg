SPECIFICATION Spec
CONSTANTS
    NumArchs = 2
    NumRepos = 1
    RefreshOn = TRUE
    Name <- MCNames
    WellFormed <- MCWellFormed
    Lists <- MCLists
    Reader = {r1}
    MaxEdition = 2
INVARIANTS
    ServingMeansLoaded
