SPECIFICATION FairSpec
CONSTANTS
    Runs = {r1, r2}
    r1 = r1
    r2 = r2
    Steps = 2
    MaxAttempts = 2
    MaxRequests = 1
    MaxCrashes = 1
CONSTRAINT FirstStartsFirst
INVARIANTS TypeOK SuccessIsComplete RunsAreExecutedOnce
PROPERTY ExecutionEnds
CHECK_DEADLOCK FALSE
