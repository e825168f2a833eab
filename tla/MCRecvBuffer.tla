---------------------------- MODULE MCRecvBuffer ----------------------------
(* Instances of RecvBuffer for TLC: uint32_t has four bits. *)
EXTENDS RecvBuffer

Uint32 == 0..(U32 - 1)
Four == {4}
=============================================================================
