SPECIFICATION FairSpec
CONSTANTS
    Convs = {c1, c2}
    MaxRuns = 2
    c1 = c1
    c2 = c2
    IdleLimit = 1
    MaxFaults = 1
    None = None
CHECK_DEADLOCK FALSE
INVARIANTS ProcessesAreAccounted WorktreeIsQuiet TokenFollowsSession
PROPERTY CancelledEnds
