-------------------------- MODULE MCScheduledCasts --------------------------
(* Instances of ScheduledCasts for TLC. *)
EXTENDS ScheduledCasts, TLC

\* All jobs belong to one user.
OneOwner == [j \in Jobs |-> CHOOSE u \in Users : TRUE]

\* For safety runs: workers are alike, and so are bodies.
Symmetry == Permutations(Workers) \cup Permutations(Bodies)
=============================================================================
