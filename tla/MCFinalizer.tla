---------------------------- MODULE MCFinalizer -----------------------------
(* Model checking Finalizer; it needs no definitions of its own. *)
EXTENDS Finalizer
=============================================================================
