\* Two broadcasts and a viewer that does not read.
SPECIFICATION Spec
CONSTANTS
    w1 = w1
    w2 = w2
    v1 = v1
    me = me
    ann = ann
    bob = bob
    t1 = t1
    Writers = {w1, w2}
    Viewers = {v1}
    Posts <- ThreePosts
    AuthorOf <- Authors
    Me = me
    Friends = {ann}
    Tokens = {}
    Targets = {}
    QueueCap = 1
    PageLimit = 2
    Nil = Nil
    MaxEdits = 0
    MaxBreaks = 0
    MaxSubs = 1
INVARIANT DropIsSafe
CHECK_DEADLOCK FALSE
