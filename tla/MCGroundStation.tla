--------------------------- MODULE MCGroundStation ---------------------------
(* GroundStation with two ports and up to two signals, and either two       *)
(* datagrams or one frame of a TCP client that sends without end.           *)
EXTENDS GroundStation

MCPortRange == 1..2

=============================================================================
