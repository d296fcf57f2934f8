SPECIFICATION GovernanceSpec
CONSTANTS
    Ids = {m1}
    Procs = {p1, p2}
    Ops <- AllOps
    MaxOps = 4
    Faults = TRUE
    Calls = {c1, c2}
    MaxApprovals = 2
    MaxVersions = 2
    RouteScopes = {2}
INVARIANTS
    ActiveWasApproved
    StatusAnnounced
    OutcomesCounted
    Earned
    ApprovalsStand
PROPERTIES
    HeldItemsTaken
    SerialWritesSafe
    PromotionsWiden
SYMMETRY Symmetry
CHECK_DEADLOCK FALSE
