------------------------------ MODULE MCConsole ------------------------------
(* A small instance of Console for TLC. *)
EXTENDS Console, TLC

Symmetric == Permutations(Users)
=============================================================================
