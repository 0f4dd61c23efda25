SPECIFICATION Spec
CONSTANTS
    Turns = {t1, t2}
    t1 = t1
    t2 = t2
    CheckpointLen = 2
    MaxTokens = 2
    MaxBoundaries = 1
    MaxRewrites = 1
    MaxCrashes = 0
    Others = {}
    Faults = {}
INVARIANT TokensAreVisible
CHECK_DEADLOCK FALSE
