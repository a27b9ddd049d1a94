SPECIFICATION FairSpec
CONSTANTS
    c1 = c1
    c2 = c2
    c3 = c3
    c4 = c4
    n1 = n1
    Client = {c1, c2, c3, c4}
    Remote = {n1}
    Bodies <- MCBodies
    AtOnce = 2
    Room = 1
    InFlightLimit = 5
    Limits = {3, 5}
    ParentLimit = 8
    RealMemory = {0, 9}
INVARIANTS
    BreakersAccounted
    PoolAccounted
PROPERTIES
    
    
    Served
