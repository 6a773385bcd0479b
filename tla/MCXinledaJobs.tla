--------------------------- MODULE MCXinledaJobs ---------------------------
(* A small instance of XinledaJobs for TLC. *)
EXTENDS XinledaJobs, TLC

Symmetric == Permutations(Workers)
=============================================================================
