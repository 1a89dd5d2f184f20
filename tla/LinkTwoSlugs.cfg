SPECIFICATION Spec
CONSTANTS
    s1 = s1
    s2 = s2
    reserved = reserved
    i1 = i1
    i2 = i2
    t1 = t1
    l1 = l1
    l2 = l2
    Null = Null
    Absent = Absent
    BadLabels = BadLabels
    Names <- TwoSlugNames
    ValidSlugs <- TwoValid
    ReservedSlugs <- ReservedNames
    GeneratedSlugs <- TwoSlugs
    Ids <- TwoIds
    Targets <- OneTarget
    Labels <- TwoLabels
    DefaultExpiry = Null
    DefaultRedirectType = "temporary"
    AnalyticsEnabled = TRUE
    QueueCapacity = 1
    CreateCommands <- TwoSlugCommands
    Patches <- TwoSlugPatches
    StatsWindows <- Windows
    MaxTime = 0
    MaxClicks = 2
SYMMETRY SlugIdSymmetry
INVARIANT IndexConsistent
PROPERTY SlugNeverRebound
CHECK_DEADLOCK FALSE
