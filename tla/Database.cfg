SPECIFICATION Spec
CONSTANTS
    t1 = t1
    t2 = t2
    c1 = c1
    c2 = c2
    m1 = m1
    m2 = m2
    r1 = r1
    r2 = r2
    e1 = e1
    e2 = e2
    NoTime = NoTime
    Threads <- TwoThreads
    Servers <- TwoThreads
    ServerOf <- OneEach
    Codes <- TwoCodes
    Migrators <- TwoMigrators
    Repos <- TwoRepos
    Events <- TwoEvents
    OccurredAt <- Occurred
    StatusOf <- Statuses
    SlugOf <- Slugs
    DomainOf <- Domains
    Batches <- OneBatch
    Queries <- TwoQueries
    Expiries = {3}
    Retention = 2
    TicksPerSecond = 2
    PageSize = 1
    MaxRetries = 1
    StartTime = 3
    MaxTime = 4
    MaxCalls = 4
    MaxFaults = 2
INVARIANT TypeOK
INVARIANT TablesAreThere
INVARIANT WritesReportTruth
INVARIANT RowsStayTrue
INVARIANT PagesCover
INVARIANT BatchesCanBeRepeated
INVARIANT StatsAddUp
PROPERTY RetentionKeepsYoung
SYMMETRY Symmetry
CHECK_DEADLOCK FALSE
