SPECIFICATION FairSpec
CONSTANTS
    Sessions = {s1}
    MaxPlans = 2
    MaxEvents = 1
    None = None
INVARIANTS TypeOK StagesInOrder TerminalIsProven ConfirmedIsExecuted
PROPERTY ExecutionEnds
CHECK_DEADLOCK FALSE
