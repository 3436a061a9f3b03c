---------------------------- MODULE MCFeedRead -----------------------------
(* Small instances of FeedRead for TLC.                                    *)
EXTENDS FeedRead

CONSTANTS ann, bob

\* feed, feed --mine -n 2, and feed --all-likes.
AllUses ==
    {[mine |-> FALSE, allLikes |-> FALSE, limit |-> 0],
     [mine |-> TRUE, allLikes |-> FALSE, limit |-> 2],
     [mine |-> FALSE, allLikes |-> TRUE, limit |-> 0]}

\* The bound on one behaviour: either listings of many posts while follows change,
\* or likes of a single post.  It never holds back a step of the command.
Scenario ==
    \/ likes = {} /\ ~feed.allLikes
    \/ /\ Cardinality(posts) <= 1 /\ turns = 0
       /\ feed.pc # "idle" => feed.allLikes
============================================================================
