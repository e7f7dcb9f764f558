------------------------------ MODULE MCOutbox ------------------------------
(* Model checking Outbox. *)
EXTENDS Outbox, TLC
=============================================================================
