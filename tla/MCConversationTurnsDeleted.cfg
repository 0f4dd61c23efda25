SPECIFICATION Spec
CONSTANTS
    s1 = s1
    u1 = u1
    Sends = {s1}
    Starts = {u1}
    Questions <- OneQuestionEach
    MaxJobs = 1
    MaxCrashes = 0
INVARIANT DeletedStaysDeleted
CHECK_DEADLOCK FALSE
