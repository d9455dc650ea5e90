\* A session that never leaves its surface: nothing is cancelled.
SPECIFICATION FairSpec
CONSTANTS
    Inbox = Inbox
    Details = Details
    Targets = {Inbox, Details}
    Cancellable = {}
    UI = UI
    Callers = {UI, InboxPoll}
    MayAsk <- MCMayAsk
    Jobs = {j1, j2, j3}
    None = None
PROPERTIES EveryStartIsAnswered ImplementsFairContract
