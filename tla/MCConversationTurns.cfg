SPECIFICATION FairSpec
CONSTANTS
    s1 = s1
    u1 = u1
    Sends = {s1}
    Starts = {u1}
    Questions <- OneQuestionEach
    MaxJobs = 1
    MaxCrashes = 1
INVARIANTS TypeOK CompletedIsReachable OneHolder WaitingHasQuestion
PROPERTIES TransferSettles ReservationEnds
CHECK_DEADLOCK FALSE
