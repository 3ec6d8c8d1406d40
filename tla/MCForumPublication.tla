--------------------------- MODULE MCForumPublication ---------------------------
(* ForumPublication on small instances; see the .cfg files. *)
EXTENDS ForumPublication, TLC

MCSymmetry == Permutations(Workers)

=============================================================================
