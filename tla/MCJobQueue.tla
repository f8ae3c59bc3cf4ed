---------------------------- MODULE MCJobQueue ----------------------------
\* Three lanes; jobs a and b are of one free user, so the ceiling is met.
EXTENDS JobQueue

MCTier  == [j \in Jobs |-> CASE j \in {"a", "b"} -> 1 [] j = "c" -> 2 [] OTHER -> 3]
MCOwner == [j \in Jobs |-> CASE j \in {"a", "b"} -> "u" [] j = "c" -> "v" [] OTHER -> "w"]
MCOneWeight == {<<1, 4, 4>>}
MCWeights   == {<<1, 2, 4>>, <<2, 2, 2>>}
=============================================================================
