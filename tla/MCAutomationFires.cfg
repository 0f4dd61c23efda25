SPECIFICATION FairSpec
CONSTANTS
    Count = 1
    Cron = {}
    Threads = {t1}
    t1 = t1
    Target <- OneThread
    Period = 2
    Ends = {"completed", "failed", "unproven"}
    Refusals = {"failed", "unknown"}
    MaxTime = 4
    MaxRequests = 1
    MaxCrashes = 1
INVARIANT FiresAreExact
PROPERTY DueIsServed
CHECK_DEADLOCK FALSE
