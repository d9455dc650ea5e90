\* Both poll tasks: one asks for less than the floor, one for more than the
\* back-off, and GitHub for more than either is given.
SPECIFICATION PollFairSpec
CONSTANTS
    Inbox = Inbox
    Targets = {Inbox, Dashboard}
    Base <- MCBase
    Floor = 2
    MaxBackoff = 3
    MaxFailures = 1
    Advertised = {3}
INVARIANTS NeverOversleeps
PROPERTIES NeverTooSoon KeepsLooking OnlyOverlapsHold
