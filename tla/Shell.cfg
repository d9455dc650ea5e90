CONSTANTS
    Routes = {"dashboard", "notifications"}
    Keyed = {"stub"}
    Polled = {"Dashboard"}
    Overlays = {"palette"}
    Capacity = 2
    MaxDepth = 2
    None = None
SPECIFICATION FairSpec
INVARIANT NeverBehind
INVARIANT MessageIsTrue
INVARIANT WorkIsForTheScreen
PROPERTY ScreenCatchesUp
\* The program ends when the user quits.
CHECK_DEADLOCK FALSE
