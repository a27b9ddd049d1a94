SPECIFICATION FairSpec
CONSTANTS
    a = a
    b = b
    c = c
    u = u
    v = v
    NoSearch = NoSearch
    Search = {a, b, c}
    Owner = {u, v}
    OwnerOf <- MCOwnerOf
    Size <- MCSize
    KeepAsked = {a, b, c}
    PersistFailures = FALSE
    KeepAlive = 2
    Longer = {2}
    Scopes <- Every
INVARIANTS
    RunsAtMost
    RoomHeld
    
    LetGo
    ReadFinds
    DeleteWins

    
CHECK_DEADLOCK FALSE
