\* One call after another: what ends, whatever GitHub answers.
SPECIFICATION FairSpec
CONSTANTS
    Calls = {c1}
    Limit = 2
    Window = 3
    Base = 1
    Cap = 4
    RetryAfters = {0, 3}
    MaxAttempts = 3
    MaxStrikes = 3
    None = None
PROPERTIES NeverShutForGood EveryCallReturns
