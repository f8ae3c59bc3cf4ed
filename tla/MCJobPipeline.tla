--------------------------- MODULE MCJobPipeline ---------------------------
(* One user's jobs, so that they compete for the user's slots. *)
EXTENDS JobPipeline, TLC

CONSTANT u1

MCUsers == {u1}
MCOwner == [j \in Jobs |-> u1]
MCSymmetry == Permutations(Jobs) \cup Permutations(Requests)

=============================================================================
