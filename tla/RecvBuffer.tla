----------------------------- MODULE RecvBuffer -----------------------------
(***************************************************************************)
(* The receive buffer of a TcpSession: the loop of goReceive in            *)
(* libgonet/tcp_detail.cpp, which doubles recv_buf_ up to                  *)
(* max_pack_size_hard_, hands what it holds to receive_cb_, moves what was *)
(* not consumed to the front and shrinks the buffer again.  Sizes are      *)
(* counted; the limits are uint32_t, size_t is taken to be unbounded.      *)
(***************************************************************************)
EXTENDS Integers

CONSTANTS
    U32,             \* 2^32 in the code: uint32_t arithmetic is modulo U32
    MaxPackSizes,    \* values opt.max_pack_size_ can have
    ShrinkSizes,     \* values opt.max_pack_size_shrink_ can have
    HardSizes        \* values opt.max_pack_size_hard_ can have

ASSUME U32Assumption == U32 \in Nat \ {0}
ASSUME SizesAssumption ==
    MaxPackSizes \cup ShrinkSizes \cup HardSizes \subseteq 0..(U32 - 1)

VARIABLES
    pc,       \* "loop": head of the loop, "read": before read_some, "end", or
              \* "undefined" after read_some past the buffer's end
    size,     \* recv_buf_.size()
    pos,      \* bytes held and not consumed yet
    ec,       \* the code the loop ended with
    intact,   \* the bytes held are the bytes received, in order
    max_pack_size_shrink, max_pack_size_hard,
    receive_cb   \* opt_.receive_cb_ is set

options == <<max_pack_size_shrink, max_pack_size_hard, receive_cb>>
vars == <<pc, size, pos, ec, intact, options>>

Larger(a, b) == IF a < b THEN b ELSE a
Smaller(a, b) == IF a < b THEN a ELSE b

\* The constructor: both limits are at least max_pack_size_.
Init ==
    \E pack \in MaxPackSizes, shrink \in ShrinkSizes, hard \in HardSizes :
        /\ pc = "loop" /\ size = pack /\ pos = 0 /\ ec = "ok" /\ intact = TRUE
        /\ max_pack_size_shrink = Larger(shrink, pack)
        /\ max_pack_size_hard = Larger(hard, pack)
        /\ receive_cb \in BOOLEAN

-----------------------------------------------------------------------------

\* Mutant: the capacity is doubled without regard to the limit.
ExtendedMutant == size * 2

\* min<uint32_t>(recv_buf_.size() * 2, max_pack_size_hard_).
Extended == Smaller((size * 2) % U32, max_pack_size_hard)

\* The buffer is full and may not grow: ec_recv_overflow.
Overflow ==
    /\ pc = "loop" /\ pos >= size /\ size >= max_pack_size_hard
    /\ ec' = "overflow" /\ pc' = "end"
    /\ UNCHANGED <<size, pos, intact, options>>

\* The buffer is full and is doubled.
Extend ==
    /\ pc = "loop" /\ pos >= size /\ size < max_pack_size_hard
    /\ size' = Extended
    /\ pc' = "read"
    /\ UNCHANGED <<pos, ec, intact, options>>

Enough ==
    /\ pc = "loop" /\ pos < size
    /\ pc' = "read"
    /\ UNCHANGED <<size, pos, ec, intact, options>>

\* read_some with room for at least a byte fails: end of file or a reset.
ReadFail ==
    /\ pc = "read" /\ pos # size
    /\ ec' = "io" /\ pc' = "end"
    /\ UNCHANGED <<size, pos, intact, options>>

\* read_some with a buffer of no bytes returns 0 and no error.
ReadNothing ==
    /\ pc = "read" /\ size = pos
    /\ pc' = "loop"
    /\ UNCHANGED <<size, pos, ec, intact, options>>

\* The buffer was cut off below pos: size() - pos wraps, and read_some writes past
\* the buffer's end.  What follows is not modelled.
ReadOutside ==
    /\ pc = "read" /\ pos > size
    /\ pc' = "undefined"
    /\ UNCHANGED <<size, pos, ec, intact, options>>

\* read_some returns n bytes and receive_cb_ the value -1: ec_data_parse_error.
Reject(n) ==
    /\ pc = "read" /\ receive_cb
    /\ n \in 1..(size - pos)
    /\ ec' = "parse" /\ pc' = "end"
    /\ UNCHANGED <<size, pos, intact, options>>

\* memcpy of held bytes from offset consume to the front is undefined when the
\* two ranges overlap: the bytes may or may not survive.
MoveToFront(consume, held) ==
    \/ intact' = intact
    \/ 0 < consume /\ consume < held /\ intact' = FALSE

\* Mutant: what is held is not compared with the capacity that is left.
ShrunkMutant(held) ==
    IF size >= (max_pack_size_shrink + max_pack_size_shrink \div 2) % U32
    THEN max_pack_size_shrink ELSE size

\* The buffer's size after the test for "shrink capacity".
Shrunk(held) ==
    IF /\ size >= (max_pack_size_shrink + max_pack_size_shrink \div 2) % U32
       /\ held <= max_pack_size_shrink \div 2
    THEN max_pack_size_shrink ELSE size

\* Mutant: what was held before the read is forgotten.
KeptMutant(n, consume) == n - consume

\* How many bytes are held after receive_cb_ has consumed some.
Kept(n, consume) == pos + n - consume

\* read_some returns n bytes and receive_cb_ consumes some of what is held.
Receive(n, consume) ==
    /\ pc = "read" /\ receive_cb
    /\ n \in 1..(size - pos)
    /\ consume \in 0..(pos + n)
    /\ pos' = Kept(n, consume)
    /\ MoveToFront(consume, pos')
    /\ size' = Shrunk(pos')
    /\ pc' = "loop"
    /\ UNCHANGED <<ec, options>>

\* Without receive_cb_ the bytes pile up.
Pile(n) ==
    /\ pc = "read" /\ ~receive_cb
    /\ n \in 1..(size - pos)
    /\ pos' = pos + n
    /\ pc' = "loop"
    /\ UNCHANGED <<size, ec, intact, options>>

Next ==
    \/ Overflow \/ Extend \/ Enough \/ ReadFail \/ ReadNothing \/ ReadOutside
    \/ \E n \in 1..(size - pos) :
          \/ Reject(n) \/ Pile(n)
          \/ \E consume \in 0..(pos + n) : Receive(n, consume)

Spec == Init /\ [][Next]_vars

-----------------------------------------------------------------------------
(* Properties *)

TypeOK ==
    /\ pc \in {"loop", "read", "end", "undefined"}
    /\ size \in Nat /\ pos \in Nat
    /\ ec \in {"ok", "overflow", "parse", "io"}
    /\ intact \in BOOLEAN
    /\ max_pack_size_shrink \in 0..(U32 - 1)
    /\ max_pack_size_hard \in 0..(U32 - 1)
    /\ receive_cb \in BOOLEAN

\* For every value of the three sizes no byte held is cut off by a resize, and
\* read_some has room, but for one case: a full buffer of half the uint32_t range
\* or more may still grow, and its doubled size wraps.  (With max_pack_size_ = 0
\* the buffer stays empty and goReceive spins.)
RoomToRead ==
    /\ pos <= size \/ size = 2 * pos - U32
    /\ pc = "loop" => pos <= size
    /\ pc = "read" => pos # size \/ size = 0

\* The buffer stays within the hard limit, unless one and a half times the shrink
\* limit wraps and "shrink capacity" makes a small buffer that large.  The session
\* is given up for ec_recv_overflow only when the limit, at least, is held.
HardLimit ==
    /\ \/ size <= max_pack_size_hard
       \/ /\ size = max_pack_size_shrink
          /\ max_pack_size_shrink + max_pack_size_shrink \div 2 >= U32
    /\ ec = "overflow" => pos = size /\ size >= max_pack_size_hard

\* receive_cb_ sees the bytes that were received.
BytesIntact == intact
=============================================================================
