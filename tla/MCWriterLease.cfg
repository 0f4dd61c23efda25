SPECIFICATION Spec
CONSTANTS
    Hosts = {h1, h2}
    Previous = previous
    Nobody = nobody
    MaxInode = 3
    InodeReuse = FALSE
    Platforms = {TRUE, FALSE}
    Sleepers = {TRUE}
    SuspendIn = {"holding"}
    Fates = {"sameUser", "otherUser", "brief"}
    Remote = {previous}
SYMMETRY Symmetry
CHECK_DEADLOCK FALSE
INVARIANTS
    TypeOK
    ExclusiveAccess
    ExclusiveUnlessSlip
    RestartIsNotRefused
