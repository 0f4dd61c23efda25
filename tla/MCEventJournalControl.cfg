SPECIFICATION Spec
CONSTANTS
    Turns = {t1, t2}
    t1 = t1
    t2 = t2
    CheckpointLen = 2
    MaxTokens = 2
    MaxBoundaries = 2
    MaxRewrites = 0
    MaxCrashes = 0
    Others = {"control"}
    Faults = {}
INVARIANT TokensExactlyOnce
CHECK_DEADLOCK FALSE
