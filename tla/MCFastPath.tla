----------------------------- MODULE MCFastPath -----------------------------
(* A few runs of a task whose grants change.                               *)
EXTENDS FastPath
=============================================================================
