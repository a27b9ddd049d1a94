SPECIFICATION FairSpec
CONSTANTS
    walk = walk
    s1 = s1
    s2 = s2
    Walker = walk
    Slice = {s1, s2}
    Batches = 2
    FirstRate = "slow"
    Scopes <- Every
INVARIANTS
    NotSleptThrough
    
PROPERTIES
    Unblocked
CHECK_DEADLOCK FALSE
