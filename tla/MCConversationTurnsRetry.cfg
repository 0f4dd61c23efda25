SPECIFICATION Spec
CONSTANTS
    s1 = s1
    u1 = u1
    Sends = {s1, s2, s3}
    Starts = {}
    Questions <- NoQuestions
    MaxJobs = 0
    MaxCrashes = 0
INVARIANT DeliveredOnce
CHECK_DEADLOCK FALSE
