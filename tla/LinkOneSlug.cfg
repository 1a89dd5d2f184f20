SPECIFICATION Spec
CONSTANTS
    s1 = s1
    s2 = s2
    reserved = reserved
    i1 = i1
    i2 = i2
    t1 = t1
    l1 = l1
    l2 = l2
    Null = Null
    Absent = Absent
    BadLabels = BadLabels
    Names <- OneSlugNames
    ValidSlugs <- OneSlug
    ReservedSlugs <- ReservedNames
    GeneratedSlugs <- OneSlug
    Ids <- OneId
    Targets <- OneTarget
    Labels <- OneLabel
    DefaultExpiry = Null
    DefaultRedirectType = "temporary"
    AnalyticsEnabled = TRUE
    QueueCapacity = 1
    CreateCommands <- OneSlugCommands
    Patches <- OneSlugPatches
    StatsWindows <- Windows
    MaxTime = 1
    MaxClicks = 2
INVARIANT CacheCoherent
INVARIANT CountersAgree
PROPERTY ImplementsDirectory
CHECK_DEADLOCK FALSE
