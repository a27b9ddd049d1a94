SPECIFICATION Spec
CONSTANTS
    x = x
    y = y
    s1 = s1
    s2 = s2
    r1 = r1
    r2 = r2
    Doc = {x, y}
    Shard = {s1, s2}
    Home <- HomeShard
    Request = {r1, r2}
    Scopes <- Every
INVARIANTS
    
    ReadsItsWrites
    OneDocumentPerId
    NumbersNotReused
    VersionsKept
SYMMETRY
    Symmetry
