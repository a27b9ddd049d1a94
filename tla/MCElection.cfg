SPECIFICATION Spec
CONSTANTS
    a = a
    b = b
    c = c
    Id <- IdOrder
    Node = {a, b, c}
    Eligible = {a, b, c}
    InitialConfig = {a, b, c}
    AutoShrink = TRUE
    ExclusionSets = {{}}
    LateAnswers = FALSE
    None = None
    MaxTerm = 2
    Scopes <- Only
INVARIANTS
    OneLeaderPerTerm
    ElectionInv
SYMMETRY Symmetry
CHECK_DEADLOCK FALSE
