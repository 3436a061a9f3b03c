\* Two calls, failing dials, one restart and one imported identity; zens that name others.
SPECIFICATION Spec
CONSTANTS
    Ids = {i1, i2}
    Tokens = {t1, t2}
    Seeds = {}
    Flaky = {t1, t2}
    Hints = {i1, i2}
    Calls = {c1, c2}
    Boots = {b1}
    Nil = Nil
    StartLocked = FALSE
    MaxLocks = 0
    syncConcurrency = 2
    MaxCalls = 2
    MaxRestarts = 1
    MaxRekeys = 1
SYMMETRY FullSymmetry
INVARIANTS
    TypeOK
    RoutingTruthful
    
    SignalKept
CONSTRAINT NamesOrChanges
