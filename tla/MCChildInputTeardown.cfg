SPECIFICATION Spec
CONSTANTS
    MaxRuns = 3
    Modes = {"native_resume", "child_follow_up"}
    MaxAttempts = 2
    MaxCrashes = 1

PROPERTY BaselinePreserved
CHECK_DEADLOCK FALSE
