\* One inbox, which surfaces cancel, and its details, which nothing cancels.
SPECIFICATION Spec
CONSTANTS
    Inbox = Inbox
    Details = Details
    Targets = {Inbox, Details}
    Cancellable = {Inbox}
    UI = UI
    Callers = {UI, InboxPoll}
    MayAsk <- MCMayAsk
    Jobs = {j1, j2, j3}
    None = None
SYMMETRY JobSymmetry
INVARIANTS OneRequest ClaimIsOwned HandleIsLive
PROPERTY ImplementsContract
