SPECIFICATION Spec
CONSTANTS
    Workers = {w1}
    BatchSize = 2
    MaxRetries = 1
    MaxSubmissions = 2
    Submissions <- PermissionSubmissions
    Attached <- Both
    RedisFaults = FALSE
    DbFaults = FALSE
    Crashes = FALSE
INVARIANT TableKept
CHECK_DEADLOCK FALSE
