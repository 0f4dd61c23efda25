SPECIFICATION Spec
CONSTANTS
    s1 = s1
    u1 = u1
    Sends = {}
    Starts = {u1}
    Questions <- NoQuestions
    MaxJobs = 0
    MaxCrashes = 0
INVARIANT ActiveTurnIsOwned
CHECK_DEADLOCK FALSE
