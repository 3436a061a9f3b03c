\* Two handlers in parallel, crashes, and backup imports.
SPECIFICATION Spec
CONSTANTS
    Nil = Nil
    w1 = w1
    w2 = w2
    t1 = t1
    t2 = t2
    p1 = p1
    Workers = {w1, w2}
    Targets = {t1}
    Posts = {p1}
    MaxEvents = 3
    MaxCrashes = 1
    MaxImports = 2
SYMMETRY WorkerSymmetry
INVARIANTS
    TypeOK
    OneLikePerPost
    PinnedAreFollowed
    LikeTakesEffect
    ImportRestores
CHECK_DEADLOCK FALSE
