------------------------------ MODULE MCChart ------------------------------
(* Chart on a small instance. *)
EXTENDS Chart
=============================================================================
