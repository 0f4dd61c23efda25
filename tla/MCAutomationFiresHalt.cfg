SPECIFICATION FairSpec
CONSTANTS
    Count = 1
    Cron = {}
    Threads = {t1}
    t1 = t1
    Target <- OneThread
    Period = 2
    Ends = {"completed", "failed", "unproven"}
    Refusals = {"failed", "unknown"}
    MaxTime = 3
    MaxRequests = 1
    MaxCrashes = 1

PROPERTY ScheduleGoesOn
CHECK_DEADLOCK FALSE
