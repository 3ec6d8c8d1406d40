----------------------------- MODULE MCResearchJobs -----------------------------
(* ResearchJobs on small instances; see the .cfg files. *)
EXTENDS ResearchJobs, TLC

=============================================================================
