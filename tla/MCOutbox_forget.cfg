SPECIFICATION Spec
CONSTANTS
    Workers = {w1, w2}
    BatchSize = 2
    MaxRetries = 1
    MaxSubmissions = 1
    Submissions <- ForgetSubmissions
    Attached <- Both
    RedisFaults = FALSE
    DbFaults = FALSE
    Crashes = FALSE
INVARIANT DeliveredWhenHealthy
CHECK_DEADLOCK FALSE
