SPECIFICATION FairSpec
CONSTANTS
    Workers = {w1, w2}
    BatchSize = 2
    MaxRetries = 1
    MaxSubmissions = 2
    Submissions <- MixedSubmissions
    Attached <- Both
    RedisFaults = TRUE
    DbFaults = TRUE
    Crashes = TRUE
INVARIANTS SingleHolder LineageLinear SettledOnce StaleCovered
PROPERTIES FinalStatusKept ImplementsDelivery EventuallySettled GracefulStop
CHECK_DEADLOCK FALSE
