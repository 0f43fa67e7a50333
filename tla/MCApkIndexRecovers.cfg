SPECIFICATION FairSpec
CONSTANTS
    NumArchs = 1
    NumRepos = 2
    RefreshOn = TRUE
    Name <- MCNames
    WellFormed <- MCWellFormed
    Lists <- MCLists
    Reader = {}
    MaxEdition = 2
PROPERTIES
    RecoversAfterFailedStart
