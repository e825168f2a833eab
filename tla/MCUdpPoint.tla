----------------------------- MODULE MCUdpPoint -----------------------------
(* Instances of UdpPoint for TLC. *)
EXTENDS UdpPoint

CONSTANTS u1, u2, u3, k1, k2
=============================================================================
