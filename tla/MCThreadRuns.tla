------------------------------ MODULE MCThreadRuns ------------------------------
(* ThreadRuns on small instances; see the .cfg files. *)
EXTENDS ThreadRuns, TLC

MCSymmetry == Permutations(Runs) \cup Permutations(Stops) \cup Permutations(Threads)

=============================================================================
