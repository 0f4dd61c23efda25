SPECIFICATION Spec
CONSTANTS
    Turns = {t1, t2}
    t1 = t1
    t2 = t2
    CheckpointLen = 2
    MaxTokens = 3
    MaxBoundaries = 1
    MaxRewrites = 1
    MaxCrashes = 1
    Others = {"control"}
    Faults = {"write", "dirsync", "fork"}
SYMMETRY Symmetry
INVARIANTS
    UncutHistoryReplays
    TokensSurvive
    ReadersAgreeWithHistory
CONSTRAINT Uncut
CHECK_DEADLOCK FALSE
