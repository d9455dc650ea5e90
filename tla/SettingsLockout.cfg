SPECIFICATION EdgesSpec
CONSTANTS
    Ids = {"DefaultRoute", "Group"}
    Typed <- MCTyped
    MaxEdits = 1
    MaxStack = 1
    Parts = {"settings"}
    Procs = {p1, p2}
    Files = {f1, f2}
    Wanted <- MCWanted
    Pages <- MCPages
    MaxDamage = 1
    Initial <- MCInitial
    Inboxes <- MCInboxes
    Worlds <- MCWorlds
    Numbers = {"1", "7"}
    PerPage = 4
    Batch = 3
    MaxNews = 3
    Viewers = {"me", "you"}
    Corpus <- MCCorpus
    NoteQueries <- MCNoteQueries
    PullQueries <- MCPullQueries
    None = None
INVARIANT StartsAgain
