------------------------------- MODULE Batch -------------------------------
(***************************************************************************)
(* What an instance promises to the requests that share its transaction:   *)
(* operations gather in an open batch one by one; then all of them are     *)
(* applied together, once, or none is; a batch in which an operation has   *)
(* failed takes no operation and is not committed, until it is reset.      *)
(***************************************************************************)
EXTENDS Naturals

VARIABLES
  phase,    \* "none", "open", "done" (committed), "closing", "aborted"
  reads,    \* reads gathered in the batch
  wrote,    \* whether it has gathered a write
  applied   \* what the batch the last request executed has applied

vars == <<phase, reads, wrote, applied>>

Pending == [reads |-> reads, wrote |-> wrote]
Nothing == [reads |-> 0, wrote |-> FALSE]

Init == phase = "none" /\ Pending = Nothing /\ applied = Nothing

Open ==
  /\ phase = "none" /\ phase' = "open"
  /\ UNCHANGED <<reads, wrote, applied>>

Define ==
  /\ phase = "open"
  /\ \/ reads' = reads + 1 /\ UNCHANGED wrote
     \/ wrote' = TRUE /\ UNCHANGED reads
  /\ UNCHANGED <<phase, applied>>

Commit ==
  /\ phase = "open" /\ phase' = "done"
  /\ applied' = Pending
  /\ UNCHANGED <<reads, wrote>>

\* The operations gathered are dropped.
Drop ==
  /\ \/ phase = "open"    /\ phase' \in {"closing", "aborted", "none"}
     \/ phase = "done"    /\ phase' = "none"
     \/ phase = "closing" /\ phase' \in {"aborted", "none"}
     \/ phase = "none"    /\ phase' = "aborted"
     \/ phase = "aborted" /\ phase' = "none"
  /\ Pending' = Nothing
  /\ UNCHANGED applied

\* A new request begins, and reports on what it applies itself.
NewReport ==
  /\ phase # "done"
  /\ applied' = Nothing
  /\ UNCHANGED <<phase, reads, wrote>>

Next == Open \/ Define \/ Commit \/ Drop \/ NewReport

Spec == Init /\ [][Next]_vars
=============================================================================
