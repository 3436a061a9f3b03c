---------------------------- MODULE MCFeedPush ----------------------------
(* Instances of FeedPush for TLC. *)
EXTENDS FeedPush, TLC

CONSTANTS w1, w2, v1, me, ann, bob, t1

\* Post 2 is own; ann, followed, wrote 1 and 3; bob, followed meanwhile, nothing.
ThreePosts == 1 .. 3
TwoPosts == 1 .. 2
Authors == [p \in ThreePosts |-> IF p = 2 THEN me ELSE ann]

\* The bound on how much happens in one behaviour: posts beside at most one change
\* of the follow graph, or changes of the records without posts.  It never holds
\* back a step that fairness asks for.
Scenario ==
    \/ edits = 0 /\ zens = {}
    \/ edits = 1 /\ zens = {} /\ breaks = 0
    \/ stored = {} /\ edits + breaks <= 3
============================================================================
