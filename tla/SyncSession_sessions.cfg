\* Two sessions on an unbuffered connection that breaks once, while both zens
\* write.
SPECIFICATION Spec
CONSTANTS
    z1 = z1
    z2 = z2
    post = post
    like = like
    Zens = {z1, z2}
    First = z1
    PostLog = "PostLog"
    ProfileLog = "ProfileLog"
    Bodies = {post}
    Likes = {}
    Writers = {z1, z2}
    Skew = 1
    Lag = 0
    MaxClock = 2
    MaxEvents = 2
    BatchSize = 1
    Cap = 0
    MaxSessions = 2
    MaxBreaks = 1
INVARIANTS
    InStep
    SessionComplete
PROPERTIES
    Terminates
    ImplementsLogSync
CHECK_DEADLOCK FALSE
