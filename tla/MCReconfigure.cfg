SPECIFICATION SpecEvery
CONSTANTS
    a = a
    b = b
    c = c
    Id <- IdOrder
    Node = {a, b, c}
    Eligible = {a, b, c}
    InitialConfig = {a}
    AutoShrink = TRUE
    ExclusionSets = {{}, {a}, {b}}
    LateAnswers = FALSE
    None = None
    MaxTerm = 2
    Scopes <- Every
INVARIANTS
    NoCommitLost
    ChangedByBothQuorums
    NeverBelowThree
    ConfigurationSettled
PROPERTIES
    NothingGoesBack
CHECK_DEADLOCK FALSE
