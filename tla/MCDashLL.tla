------------------------------ MODULE MCDashLL ------------------------------
(* Instances of DashLL for TLC. *)
EXTENDS DashLL

\* Segments of one and of two pieces.
MCBwList == <<8, 16>>

\* The MAC has sampled the rate of one client only.
MCBitrates == [c \in Clients |-> IF c = 1 THEN {40000} ELSE {0}]

=============================================================================
