SPECIFICATION FairSpec
CONSTANTS
    a = a
    b = b
    c = c
    Node = {a, b, c}
    None = None
    FirstTerms = {1}
    FirstStates = {0, 1}
    MaxTerm = 3
    Away = {c}
    Scopes <- Every
INVARIANTS
    Undisturbed
PROPERTY
    Settles
CHECK_DEADLOCK FALSE
