\* Two calls at a time, a budget of two, penalties of one and two ticks.
SPECIFICATION Spec
CONSTANTS
    Calls = {c1, c2}
    Limit = 2
    Window = 2
    Base = 1
    Cap = 2
    RetryAfters = {3}
    MaxAttempts = 2
    MaxStrikes = 2
    None = None
SYMMETRY CallSymmetry
INVARIANTS RefusesOnlyRightly MutationSentOnce
PROPERTY BlockNeverShortens
