SPECIFICATION Spec
CONSTANTS
    p1 = p1
    p2 = p2
    c1 = c1
    a = a
    b = b
    piped = piped
    Null = Null
    Clients <- TwoClients
    Codes <- OneCode
    Targets <- ThreeTargets
    Pipes <- PipeTarget
    NewRecords <- Stored
    DefaultTtl = 1
    RepoFails = FALSE
    TicksPerSecond = 2
    MaxTime = 3
    MaxChanges = 2
    MaxLate = 1
SYMMETRY ClientSymmetry
INVARIANT FreshUnlessExposed
INVARIANT ServedWasLive
CHECK_DEADLOCK FALSE
