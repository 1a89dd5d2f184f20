SPECIFICATION Spec
CONSTANTS
    c1 = c1
    c2 = c2
    u = u
    short = short
    long = long
    renamed = renamed
    ended = ended
    good1 = good1
    good2 = good2
    bad = bad
    Null = Null
    Conns <- OneConn
    Uris <- OneUri
    Bodies <- TwoBodies
    ReadBack <- CutTwo
    Renames <- NamesNone
    Incomplete = {}
    Certs <- OneCert
    GoodCerts <- OneCert
    Listeners <- PlainOnly
    RedirectToHttps = FALSE
    MaxAccepts = 2
    MaxReloads = 0
    MaxStarts = 2
INVARIANT StoredUrisAreFound
CHECK_DEADLOCK FALSE
