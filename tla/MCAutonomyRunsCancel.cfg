SPECIFICATION FairSpec
CONSTANTS
    Runs = {r1, r2}
    Steps = 1
    MaxAttempts = 1
    MaxRequests = 1
    MaxCrashes = 0
PROPERTY CancelIsSticky
CHECK_DEADLOCK FALSE
