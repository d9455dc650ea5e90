CONSTANTS
    Ids = {1, 2, 3}
    RepoOf <- MCRepoOf
    Modes = {"hide", "sink"}
    MaxPending = 2
    None = None
SPECIFICATION FairSpec
INVARIANT NoFalseRead
PROPERTY CursorKeepsUp
PROPERTY TriageIsSent
