SPECIFICATION Spec
CONSTANTS
    a = a
    b = b
    c = c
    d = d
    None = None
    Node = {a, b, c}
    Doc = {d}
    MaxWrites = 2
    Scopes <- Every
INVARIANTS
    
    OnePrimaryPerTerm
    
CHECK_DEADLOCK FALSE
