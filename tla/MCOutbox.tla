------------------------------ MODULE MCOutbox ------------------------------
(* A small instance of Outbox for TLC. Its liveness is checked together with *)
(* its safety, so that the tasks are not taken for symmetric.                *)
EXTENDS Outbox
=============================================================================
