----------------------------- MODULE MCThreadService -----------------------------
(* ThreadService on small instances; see the .cfg files. *)
EXTENDS ThreadService, TLC

MCSymmetry == Permutations(Runs) \cup Permutations(Stops) \cup Permutations(Threads)

=============================================================================
