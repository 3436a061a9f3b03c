\* Two goroutines publish, or change a zen record and a follow edge; one viewer that is
\* dropped, disconnected and returns.
SPECIFICATION FairSpec
CONSTANTS
    w1 = w1
    w2 = w2
    v1 = v1
    me = me
    ann = ann
    bob = bob
    t1 = t1
    Writers = {w1, w2}
    Viewers = {v1}
    Posts <- TwoPosts
    AuthorOf <- Authors
    Me = me
    Friends = {ann}
    Tokens = {t1}
    Targets = {bob}
    QueueCap = 1
    PageLimit = 1
    Nil = Nil
    MaxEdits = 3
    MaxBreaks = 1
    MaxSubs = 4
INVARIANTS
    TypeOK
    CacheCurrent
    NoPostLost
    PanelsConverge
PROPERTIES
    PostsReachViewers
CONSTRAINT Scenario
CHECK_DEADLOCK FALSE
