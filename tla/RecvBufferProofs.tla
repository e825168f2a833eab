-------------------------- MODULE RecvBufferProofs --------------------------
(***************************************************************************)
(* Proofs about RecvBuffer, for every value the three sizes can have in    *)
(* uint32_t, those with which the code's arithmetic wraps included.        *)
(***************************************************************************)
EXTENDS RecvBuffer, TLAPS

BufferInv == TypeOK /\ RoomToRead /\ HardLimit

\* Taking a number modulo a larger one changes nothing.
LEMMA ModSmall ==
  ASSUME NEW n \in Nat, NEW x \in Nat, x < n
  PROVE  x % n = x
  OBVIOUS

\* What uint32_t makes of a sum that wraps once.
LEMMA ModWrap ==
  ASSUME NEW n \in Nat, NEW x \in Nat, n <= x, x < 2 * n
  PROVE  x % n = x - n
<1>1. x - n \in 0..(n - 1)
  OBVIOUS
<1> QED BY <1>1

\* The constructor establishes the invariant.
LEMMA BufferInit ==
  ASSUME Init
  PROVE  BufferInv
<1> PICK pack \in MaxPackSizes, shrink \in ShrinkSizes, hard \in HardSizes :
        /\ pc = "loop" /\ size = pack /\ pos = 0 /\ ec = "ok" /\ intact = TRUE
        /\ max_pack_size_shrink = Larger(shrink, pack)
        /\ max_pack_size_hard = Larger(hard, pack)
        /\ receive_cb \in BOOLEAN
  BY DEF Init
<1>1. pack \in 0..(U32 - 1) /\ shrink \in 0..(U32 - 1) /\ hard \in 0..(U32 - 1) /\ U32 \in Nat
  BY SizesAssumption, U32Assumption
<1> QED BY <1>1 DEF BufferInv, TypeOK, RoomToRead, HardLimit, Larger

\* The buffer is never larger than a uint32_t can say.
LEMMA SizeFits ==
  ASSUME BufferInv
  PROVE  size < U32
  BY U32Assumption DEF BufferInv, TypeOK, HardLimit

\* Doubling a full buffer that is smaller than the limit makes room, up to the
\* limit, unless the doubled size wraps.
LEMMA ExtendedRoom ==
  ASSUME BufferInv, pc = "loop", pos >= size, size < max_pack_size_hard
  PROVE  /\ Extended \in 0..max_pack_size_hard
         /\ pos <= Extended \/ Extended = 2 * pos - U32
         /\ pos # Extended \/ Extended = 0
<1>1. /\ size \in Nat /\ pos = size /\ U32 \in Nat /\ size < U32
      /\ max_pack_size_hard \in Nat /\ max_pack_size_hard < U32
  BY SizeFits, U32Assumption DEF BufferInv, TypeOK, RoomToRead
<1>2. CASE size * 2 < U32
  <2>1. (size * 2) % U32 = size * 2
    BY <1>1, <1>2, ModSmall
  <2> QED BY <1>1, <2>1 DEF Extended, Smaller
<1>3. CASE size * 2 >= U32
  <2>1. (size * 2) % U32 = size * 2 - U32
    BY <1>1, <1>3, ModWrap
  <2>2. size * 2 - U32 \in Nat /\ size * 2 - U32 < size
    BY <1>1, <1>3
  <2> QED BY <1>1, <2>1, <2>2 DEF Extended, Smaller
<1> QED BY <1>1, <1>2, <1>3

\* "shrink capacity" keeps what is held, and where the threshold does not wrap it
\* never makes the buffer larger.
LEMMA ShrunkKeeps ==
  ASSUME BufferInv, NEW held \in 0..size
  PROVE  /\ Shrunk(held) \in Nat /\ held <= Shrunk(held)
         /\ Shrunk(held) \in {size, max_pack_size_shrink}
         /\ \/ Shrunk(held) <= size
            \/ max_pack_size_shrink + max_pack_size_shrink \div 2 >= U32
<1>1. size \in Nat /\ max_pack_size_shrink \in Nat /\ U32 \in Nat
  BY U32Assumption DEF BufferInv, TypeOK
<1>2. max_pack_size_shrink \div 2 \in 0..max_pack_size_shrink
  BY <1>1
<1>3. Shrunk(held) \in {size, max_pack_size_shrink} /\ held <= Shrunk(held)
  BY <1>1, <1>2 DEF Shrunk
<1>4. CASE max_pack_size_shrink + max_pack_size_shrink \div 2 < U32
  <2>1. max_pack_size_shrink + (max_pack_size_shrink \div 2) \in Nat
    BY <1>1, <1>2
  <2>2. (max_pack_size_shrink + max_pack_size_shrink \div 2) % U32
          = max_pack_size_shrink + (max_pack_size_shrink \div 2)
    BY <1>1, <1>4, <2>1, ModSmall
  <2>3. Shrunk(held) <= size
    BY <1>1, <1>2, <2>2 DEF Shrunk
  <2> QED BY <1>1, <1>3, <2>3
<1>5. CASE max_pack_size_shrink + max_pack_size_shrink \div 2 >= U32
  BY <1>1, <1>3, <1>5
<1> QED BY <1>1, <1>2, <1>4, <1>5

\* Every step keeps the invariant.
LEMMA BufferNext ==
  ASSUME BufferInv, [Next]_vars
  PROVE  BufferInv'
<1> USE DEF BufferInv, TypeOK, RoomToRead, HardLimit, options
<1>1. CASE UNCHANGED vars
  BY <1>1 DEF vars
<1>2. CASE Overflow
  BY <1>2 DEF Overflow
<1>3. CASE Extend
  <2>1. /\ Extended \in 0..max_pack_size_hard
        /\ pos <= Extended \/ Extended = 2 * pos - U32
        /\ pos # Extended \/ Extended = 0
    BY <1>3, ExtendedRoom DEF Extend
  <2>2. ec # "overflow"
    BY <1>3 DEF Extend
  <2> QED BY <1>3, <2>1, <2>2 DEF Extend
<1>4. CASE Enough \/ ReadFail \/ ReadNothing \/ ReadOutside
  BY <1>4 DEF Enough, ReadFail, ReadNothing, ReadOutside
<1>5. CASE \E n \in 1..(size - pos) : Reject(n) \/ Pile(n)
  BY <1>5 DEF Reject, Pile
<1>6. ASSUME NEW n \in 1..(size - pos), NEW consume \in 0..(pos + n), Receive(n, consume)
      PROVE  BufferInv'
  <2>1. pos' \in 0..size
    BY <1>6 DEF Receive, Kept
  <2>2. /\ size' \in Nat /\ pos' <= size'
        /\ size' \in {size, max_pack_size_shrink}
        /\ \/ size' <= size
           \/ max_pack_size_shrink + max_pack_size_shrink \div 2 >= U32
    BY <1>6, <2>1, ShrunkKeeps DEF Receive, Kept
  <2>3. intact' \in BOOLEAN
    BY <1>6 DEF Receive, Kept, MoveToFront
  <2> QED BY <1>6, <2>1, <2>2, <2>3 DEF Receive, Kept
<1> QED BY <1>1, <1>2, <1>3, <1>4, <1>5, <1>6 DEF Next

\* The buffer's invariant holds in every reachable state, whatever the sizes.
THEOREM BufferInvariant == Spec => []BufferInv
<1>1. Init => BufferInv
  BY BufferInit
<1>2. BufferInv /\ [Next]_vars => BufferInv'
  BY BufferNext
<1> QED BY <1>1, <1>2, PTL DEF Spec

\* The buffer's variables stay natural numbers and the limits uint32_t values,
\* whatever is received.
THEOREM BufferTypes == Spec => []TypeOK
<1>1. BufferInv => TypeOK
  BY DEF BufferInv
<1> QED BY BufferInvariant, <1>1, PTL

\* No resize cuts off bytes that are held and goReceive reads only into room it
\* has, but where the doubling at line 95 wraps.
THEOREM BufferSafe == Spec => []RoomToRead
<1>1. BufferInv => RoomToRead
  BY DEF BufferInv
<1> QED BY BufferInvariant, <1>1, PTL

\* The buffer outgrows the hard limit only where the threshold at line 115 wraps,
\* and ec_recv_overflow is reported only when that many bytes are held.
THEOREM OverflowAtLimit == Spec => []HardLimit
<1>1. BufferInv => HardLimit
  BY DEF BufferInv
<1> QED BY BufferInvariant, <1>1, PTL

\* The option values with which a buffer that may still grow is smaller than half
\* of what uint32_t can say; the shrink limit may have any value.
HardBelowHalf == \A h \in HardSizes \cup MaxPackSizes : 2 * h <= U32

NeverCut ==
    /\ BufferInv
    /\ 2 * max_pack_size_hard <= U32
    /\ pos <= size /\ pc # "undefined"

\* Below half the range no step cuts off what is held.
LEMMA NeverCutNext ==
  ASSUME NeverCut, [Next]_vars
  PROVE  NeverCut'
<1> USE DEF NeverCut, options
<1>1. BufferInv'
  BY BufferNext
<1>2. TypeOK /\ U32 \in Nat
  BY U32Assumption DEF BufferInv
<1>3. CASE UNCHANGED vars
  BY <1>1, <1>3 DEF vars
<1>4. CASE Overflow \/ Enough \/ ReadFail \/ ReadNothing \/ ReadOutside
  BY <1>1, <1>2, <1>4 DEF Overflow, Enough, ReadFail, ReadNothing, ReadOutside, TypeOK
<1>5. CASE Extend
  <2>1. pc = "loop" /\ pos = size /\ size < max_pack_size_hard
    BY <1>2, <1>5 DEF Extend, TypeOK
  <2>2. Extended \in 0..max_pack_size_hard /\ (pos <= Extended \/ Extended = 2 * pos - U32)
    BY <2>1, <1>2, ExtendedRoom DEF TypeOK
  <2>3. 2 * pos - U32 < 0
    BY <1>2, <2>1 DEF TypeOK
  <2> QED BY <1>1, <1>2, <1>5, <2>2, <2>3 DEF Extend, TypeOK
<1>6. CASE \E n \in 1..(size - pos) : Reject(n) \/ Pile(n)
  BY <1>1, <1>2, <1>6 DEF Reject, Pile, TypeOK
<1>7. ASSUME NEW n \in 1..(size - pos), NEW consume \in 0..(pos + n), Receive(n, consume)
      PROVE  NeverCut'
  <2>1. pos' \in 0..size
    BY <1>2, <1>7 DEF Receive, Kept, TypeOK
  <2>2. pos' <= size'
    BY <1>7, <2>1, ShrunkKeeps DEF Receive, Kept
  <2> QED BY <1>1, <1>7, <2>2 DEF Receive
<1> QED BY <1>3, <1>4, <1>5, <1>6, <1>7 DEF Next

\* With hard limits up to 2^31 nothing held is ever cut off and nothing is read
\* past the buffer's end, whatever the shrink limit is.
THEOREM NothingCutOff ==
  ASSUME HardBelowHalf
  PROVE  Spec => [](pos <= size /\ pc # "undefined")
<1>1. Init => NeverCut
  <2> SUFFICES ASSUME Init PROVE NeverCut
    OBVIOUS
  <2> PICK pack \in MaxPackSizes, shrink \in ShrinkSizes, hard \in HardSizes :
          /\ pc = "loop" /\ size = pack /\ pos = 0
          /\ max_pack_size_hard = Larger(hard, pack)
    BY DEF Init
  <2>1. pack \in Nat /\ hard \in Nat /\ 2 * pack <= U32 /\ 2 * hard <= U32
    BY SizesAssumption, U32Assumption DEF HardBelowHalf
  <2> QED BY <2>1, BufferInit DEF NeverCut, Larger
<1>2. NeverCut /\ [Next]_vars => NeverCut'
  BY NeverCutNext
<1>3. NeverCut => pos <= size /\ pc # "undefined"
  BY DEF NeverCut
<1> QED BY <1>1, <1>2, <1>3, PTL DEF Spec
=============================================================================
