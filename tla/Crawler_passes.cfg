\* Passes of two levels over a graph of three and an unconnected zen, a cache of
\* three, misses, locks and a cancelled pass.
SPECIFICATION FairSpec
CONSTANTS
    a = a
    b = b
    c = c
    d = d
    Ids = {a, b, c, d}
    Follows <- Chain
    maxDepth = 2
    maxCache = 3
    CanMiss = TRUE
    CanLock = TRUE
INVARIANTS
    TypeOK
    CacheBounded
    FrontierKept
    CrawlExact
PROPERTIES
    CrawlCompletes
