SPECIFICATION Spec
CONSTANTS
    Hosts = {h1, h2, h3}
    Previous = previous
    Nobody = nobody
    MaxInode = 3
    InodeReuse = FALSE
    Platforms = {FALSE}
    Sleepers = {FALSE}
    SuspendIn = {"holding"}
    Fates = {}
    Remote = {}
CHECK_DEADLOCK FALSE
SYMMETRY Symmetry
INVARIANT
    ExclusiveUnlessSlip
