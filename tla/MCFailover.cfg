SPECIFICATION SpecEstablished
CONSTANTS
    a = a
    b = b
    c = c
    Id <- IdOrder
    Node = {a, b, c}
    Eligible = {a, b, c}
    InitialConfig = {a, b, c}
    AutoShrink = TRUE
    ExclusionSets = {{}}
    LateAnswers = FALSE
    None = None
    MaxTerm = 2
    Scopes <- Every
INVARIANTS
    CommitInv
    CommitHeldByQuorum
    ManagerBuildsOnWhatItAccepted
    FollowsTheElected
PROPERTIES
    OneLog
SYMMETRY Symmetry
