SPECIFICATION Spec
CONSTANTS
    Hosts = {h1, h2, h3}
    Previous = previous
    Nobody = nobody
    MaxInode = 3
    InodeReuse = FALSE
    Platforms = {TRUE}
    Sleepers = {}
    SuspendIn = {}
    Fates = {}
    Remote = {}
CHECK_DEADLOCK FALSE
INVARIANT
    OneWriter
