SPECIFICATION FairSpec
CONSTANTS
    Sessions = {s1}
    MaxPlans = 3
    MaxEvents = 0
    None = None
PROPERTY ReconciledBeforeRetry
CHECK_DEADLOCK FALSE
