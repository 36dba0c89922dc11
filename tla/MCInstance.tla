----------------------------- MODULE MCInstance -----------------------------
(* Model checking Instance. *)
EXTENDS Instance
=============================================================================
