---------------------------- MODULE MCScheduler -----------------------------
(* Model checking Scheduler; it needs no definitions of its own. *)
EXTENDS Scheduler
=============================================================================
