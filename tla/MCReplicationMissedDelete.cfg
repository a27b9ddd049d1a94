SPECIFICATION Spec
CONSTANTS
    a = a
    b = b
    c = c
    d = d
    None = None
    Node = {a, b, c}
    Doc = {d}
    MaxWrites = 2
    Scopes <- FillingDeletes
INVARIANTS
    AckedKept
CHECK_DEADLOCK FALSE
