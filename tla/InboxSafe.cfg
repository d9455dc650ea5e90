\* One thread: fetches cancelled and landing late, a restart, a mark_read over them.
SPECIFICATION Spec
CONSTANTS
    Ids = {a}
    Addressable = {a}
    PageSize = 1
    Batch = 1
    MaxClock = 3
    MaxCrashes = 1
    MayCancel = TRUE
    None = None
INVARIANTS ValidatorImpliesRows DetailsAreOfThisRow
