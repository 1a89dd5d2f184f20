SPECIFICATION Spec
CONSTANTS
    p1 = p1
    p2 = p2
    k1 = k1
    k2 = k2
    k3 = k3
    none = none
    Callers <- TwoCallers
    Keys <- AllKeys
    EmptyKey = none
    Limit <- Limits
    Window <- Windows
    MaxTime = 4
    MaxCalls = 4
SYMMETRY CallerSymmetry
INVARIANT RateIsBounded
PROPERTY WindowsAreDisjoint
CHECK_DEADLOCK FALSE
