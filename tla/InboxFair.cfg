\* One screen, never left: two threads, one of a page and one of a batch at a time.
SPECIFICATION FairSpec
CONSTANTS
    Ids = {a, b}
    Addressable = {a}
    PageSize = 1
    Batch = 1
    MaxClock = 2
    MaxCrashes = 0
    MayCancel = FALSE
    None = None
INVARIANT AbsentRowIsCurrent
PROPERTY DetailsArrive
