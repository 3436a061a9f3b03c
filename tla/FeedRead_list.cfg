\* Pages of one post: feed, feed --mine -n 2, and feed --all-likes with two zens.
SPECIFICATION Spec
CONSTANTS
    me = me
    ann = ann
    bob = bob
    Others = {ann, bob}
    Authors = {me, ann}
    Nil = Nil
    feedPageLimit = 1
    Machines = 2
    Uses <- AllUses
    MaxPosts = 4
    MaxLikes = 3
    MaxTurns = 2
INVARIANTS
    ListingComplete
    LikesHonest
    LikesFetched
PROPERTIES
    ListingEnds
CONSTRAINT Scenario
CHECK_DEADLOCK FALSE
