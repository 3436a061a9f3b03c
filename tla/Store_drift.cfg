\* Two handlers in parallel: the follow-state cache.
SPECIFICATION Spec
CONSTANTS
    Nil = Nil
    w1 = w1
    w2 = w2
    t1 = t1
    t2 = t2
    p1 = p1
    Workers = {w1, w2}
    Targets = {t1}
    Posts = {p1}
    MaxEvents = 3
    MaxCrashes = 0
    MaxImports = 0
INVARIANTS
    CacheMatchesLog
CHECK_DEADLOCK FALSE
