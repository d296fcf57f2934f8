SPECIFICATION Spec
CONSTANTS
    Ids = {r, a, b}
    Root = r
    MaxDepth = 2
    MaxDerivations = 3
    Interference = TRUE
INVARIANTS OnlyDescendants CompleteOnTrees
PROPERTY CascadeEnds
CHECK_DEADLOCK FALSE
