SPECIFICATION EdgesSpec
CONSTANTS
    Ids = {"Group", "RefreshDashboard"}
    Typed <- MCTyped
    MaxEdits = 2
    MaxStack = 2
    Parts = {"settings", "cache", "wire", "inboxes", "lists"}
    Procs = {p1, p2}
    Files = {f1, f2}
    Wanted <- MCWanted
    Pages <- MCPages
    MaxDamage = 1
    Initial <- MCInitial
    Inboxes <- MCInboxes
    Worlds <- MCWorlds
    Numbers = {"1", "7"}
    PerPage = 4
    Batch = 3
    MaxNews = 3
    Viewers = {"me", "you"}
    Corpus <- MCCorpus
    NoteQueries <- MCNoteQueries
    PullQueries <- MCPullQueries
    None = None
INVARIANTS SettingsAreTold OpensAsOwn RowsGetTheirAnswers ValidatorsAreOfThisPage StoresAgree
PROPERTY OthersUntouched
