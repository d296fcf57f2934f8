SPECIFICATION Spec
CONSTANTS
    Subsystems = {"Redis", "PermissionEngine"}
    Reporters = {r1, r2}
INVARIANT NeverFailOpen
