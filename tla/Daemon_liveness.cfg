\* A daemon that starts locked, with or without seeds; every zen but t2's answers.
SPECIFICATION FairSpec
CONSTANTS
    Ids = {i1, i2}
    Tokens = {t1, t2}
    Seeds = {t1, t2}
    Flaky = {t2}
    Hints = {}
    Calls = {c1}
    Boots = {b1, b2}
    Nil = Nil
    StartLocked = TRUE
    MaxLocks = 1
    syncConcurrency = 1
    MaxCalls = 1
    MaxRestarts = 1
    MaxRekeys = 1
PROPERTIES
    FollowResolves
    SeedsTried
CONSTRAINT Scenario
