--------------------------- MODULE MCDeviceIssue ---------------------------
(* A small instance of DeviceIssue for TLC. *)
EXTENDS DeviceIssue, TLC

Symmetric == Permutations(Retriers)
=============================================================================
