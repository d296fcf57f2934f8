SPECIFICATION FairSpec
CONSTANTS
    Callers = {c1, c2, c3}
    FailureThreshold = 2
    MaxFailures = 4
    Churn = TRUE
INVARIANTS OpenIffFailing ProbesBounded
PROPERTY Recovers
CHECK_DEADLOCK TRUE
