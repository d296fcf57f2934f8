SPECIFICATION Spec
CONSTANTS
    Agents = {a1, a2}
    Procs = {p1, p2, p3}
    MaxOps = 3
    Faults = TRUE
    NoEntry = NoEntry
    NoLock = NoLock
INVARIANTS HandoffExclusive LockNotLeaked StaleExplained
SYMMETRY Symmetry
CHECK_DEADLOCK FALSE
