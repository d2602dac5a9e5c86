---------------------------- MODULE MCDashSession ----------------------------
(* Instances of DashSession for TLC. *)
EXTENDS DashSession

\* With SegDuration = 8 a segment has as many bytes as its bandwidth, so
\* Payload = 2 gives one piece for 2 and two pieces for 3.
MCBwTwo == <<2, 3>>
MCBwThree == <<2, 3, 4>>
MCBwFour == <<2, 3, 4, 6>>

=============================================================================
