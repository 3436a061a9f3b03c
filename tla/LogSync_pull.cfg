\* One author, one reader, two overlapping pulls of one log.
SPECIFICATION FairSpec
CONSTANTS
    a1 = a1
    r1 = r1
    p1 = p1
    p2 = p2
    post = post
    like = like
    Authors = {a1}
    Readers = {r1}
    Logs = {"PostLog"}
    PostLog = "PostLog"
    Bodies = {post, like}
    Likes = {like}
    Pulls = {p1, p2}
    Skew = 2
    Lag = 1
    MaxClock = 4
    MaxEvents = 2
    MaxFaults = 1
INVARIANTS
    TypeOK
    CursorSafe
    IndInv
PROPERTIES
    Converges
