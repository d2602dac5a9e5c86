-------------------------- MODULE MCHttpConnection --------------------------
(* Instances of HttpConnection for TLC. *)
EXTENDS HttpConnection

\* A playlist in one segment, and media of two full segments and a rest.
MCResponses == {[media |-> FALSE, sizes |-> <<3>>], [media |-> TRUE, sizes |-> <<4, 4, 2>>]}

=============================================================================
