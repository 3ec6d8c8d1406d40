----------------------------- MODULE MCCheckpoints -----------------------------
(* Checkpoints on small instances; see the .cfg files. *)
EXTENDS Checkpoints, TLC

=============================================================================
