---------------------------- MODULE MCDurableTurn ----------------------------
(* Model-checking instance of DurableTurn. *)
EXTENDS DurableTurn
=============================================================================
