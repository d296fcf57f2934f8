SPECIFICATION ExperienceSpec
CONSTANTS
    Procs = {p1, p2}
    Contexts = {c1, c2}
    MinSuccesses = 2
    MinContexts = 2
    MaxReceipts = 4
    MaxOps = 2
    None = None
    Reqs = {p1, p2}
    Agents = {a1, a2}
    Clients = {z1}
    Hexes = {c1, c2}
    Window = 2
    Limit = 2
    KeyTtl = 1
    SignatureTtl = 1
    MaxKeys = 2
    MaxNow = 2
    MaxStarts = 2
    NoValue = NoValue
SYMMETRY Symmetry
INVARIANTS
    StableWasEarned
    UnsafeNotStable
    CountersHeal
    RateLimitSound
    RevokedNeverServed
    PublishedUnderActiveKey
CHECK_DEADLOCK FALSE
