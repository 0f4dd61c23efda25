SPECIFICATION FairSpec
CONSTANTS
    Runs = {r1}
    Keys = {k1, k2}
    None = None
    MaxApprovals = 2
    MaxCallbacks = 2
    MaxLive = 2
    MaxRetained = 2
    MaxWaiting = 2
    DirectDecide = TRUE
CHECK_DEADLOCK FALSE
INVARIANTS
    PairedWithOwnCall
PROPERTIES
    CallbackAnswered
