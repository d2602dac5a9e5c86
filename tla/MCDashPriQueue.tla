--------------------------- MODULE MCDashPriQueue ---------------------------
(* Instances of DashPriQueue for TLC. *)
EXTENDS DashPriQueue

MCEqualWeights == [f \in Buckets |-> 1]

=============================================================================
