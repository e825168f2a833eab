---------------------------- MODULE MCTcpSession ----------------------------
(* Instances of TcpSession for TLC: messages of two bytes, and m3, where it is *)
(* used, an empty buffer.                                                    *)
EXTENDS TcpSession, TLC

CONSTANTS m1, m2, m3, c1, c2

SizeTwo == [m \in Msg |-> IF m = m3 THEN 0 ELSE 2]

Symmetric == Permutations(Msg \ {m3}) \cup Permutations(Closer)
=============================================================================
