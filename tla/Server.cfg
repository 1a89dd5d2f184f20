SPECIFICATION FairSpec
CONSTANTS
    c1 = c1
    c2 = c2
    u = u
    short = short
    long = long
    renamed = renamed
    ended = ended
    good1 = good1
    good2 = good2
    bad = bad
    Null = Null
    Conns <- TwoConns
    Uris <- OneUri
    Bodies <- AllBodies
    ReadBack <- CutAll
    Renames <- NamesU
    Incomplete <- Ended
    Certs <- AllCerts
    GoodCerts <- Accepted
    Listeners <- Both
    RedirectToHttps = TRUE
    MaxAccepts = 2
    MaxReloads = 1
    MaxStarts = 2
INVARIANT ConnectionsAccounted
INVARIANT ServesGoodContext
INVARIANT StopSavesEverything
PROPERTY SessionKeepsContext
PROPERTY SessionsEnd
CHECK_DEADLOCK FALSE
