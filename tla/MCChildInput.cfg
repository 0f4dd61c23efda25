SPECIFICATION FairSpec
CONSTANTS
    MaxRuns = 4
    Modes = {"native_resume", "child_follow_up"}
    MaxAttempts = 2
    MaxCrashes = 2
INVARIANTS AnswerIsSpentOnce WorktreeIsOwned NothingIsStranded
PROPERTY AnswerSettles
CHECK_DEADLOCK FALSE
