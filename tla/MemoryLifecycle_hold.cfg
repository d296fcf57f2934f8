SPECIFICATION Spec
CONSTANTS
    Ids = {m1}
    Procs = {p1, p2}
    Ops = {"Submit", "ForgetUserData", "RetentionArchive"}
    MaxOps = 3
    Faults = FALSE
PROPERTY HeldItemsKept
CHECK_DEADLOCK FALSE
