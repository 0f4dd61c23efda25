SPECIFICATION Spec
CONSTANTS
    Hosts = {h1}
    Previous = previous
    Nobody = nobody
    MaxInode = 2
    InodeReuse = FALSE
    Platforms = {TRUE}
    Sleepers = {}
    SuspendIn = {}
    Fates = {"otherUser"}
    Remote = {}
CHECK_DEADLOCK FALSE
INVARIANT
    GoneHolderIsReclaimed
