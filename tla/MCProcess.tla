----------------------------- MODULE MCProcess -----------------------------
(* Model checking Process. *)
EXTENDS Process
=============================================================================
