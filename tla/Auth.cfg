SPECIFICATION Spec
CONSTANTS
    p1 = p1
    p2 = p2
    alice = alice
    bob = bob
    t1 = t1
    t2 = t2
    None = None
    Procs <- TwoProcs
    Users <- TwoUsers
    Tokens <- OneToken
    TicksPerSecond = 2
    Lifetime = 1
    MaxTime = 3
    MaxCalls = 5
    MaxFaults = 1
SYMMETRY Symmetry
INVARIANT GrantsWereLive
INVARIANT AuthorityChain
INVARIANT OneFirstAdminEach
INVARIANT AuditAccountsForRows
PROPERTY RevocationIsFinal
PROPERTY LiveTokensAreHonoured
CHECK_DEADLOCK FALSE
