------------------------------ MODULE MCAccess ------------------------------
(* The section's indexes: each is named for its kind.                        *)
EXTENDS AccessPlan

MCIndexType == [i \in Indexes |-> i]
=============================================================================
