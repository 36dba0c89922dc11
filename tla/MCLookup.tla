------------------------------ MODULE MCLookup ------------------------------
(* The section's indexes: one of each kind.                                  *)
EXTENDS Lookup

MCIndexType == [i \in Indexes |-> i]
=============================================================================
