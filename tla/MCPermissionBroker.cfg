SPECIFICATION Spec
CONSTANTS
    Runs = {r1, r2}
    Keys = {k1}
    None = None
    MaxApprovals = 2
    MaxCallbacks = 2
    MaxLive = 2
    MaxRetained = 2
    MaxWaiting = 1
    DirectDecide = FALSE
CHECK_DEADLOCK FALSE
SYMMETRY Symmetry
INVARIANTS
    TypeOK
    ReleaseIsConsented
    EndedRunForgotten
PROPERTIES
    NoReleaseAfterClose
    VerdictIsFinal
    ImplementsSingleUseConsent
