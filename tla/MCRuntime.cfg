SPECIFICATION FairSpec
CONSTANTS
    p = p
    q = q
    Peer = {p, q}
    MaxTerm = 2
    MaxVersion = 2
    MaxCrashes = 1
    MaxFaults = 1
    Silent = FALSE
INVARIANTS
    PromisesKept
    OneVote
PROPERTIES
    SpeaksAgain
