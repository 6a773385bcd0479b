----------------------------- MODULE MCDispatch -----------------------------
(* A small instance of Dispatch for TLC. *)
EXTENDS Dispatch

Symmetric == Permutations(Workers) \cup Permutations(Configs) \cup Permutations(Accounts)
=============================================================================
