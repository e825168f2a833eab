-------------------------- MODULE TcpSessionProofs --------------------------
(***************************************************************************)
(* Proofs about TcpSession, for any number of messages, any sizes, any     *)
(* number of Shutdown calls and any c_multi.                               *)
(***************************************************************************)
EXTENDS TcpSession, SequenceTheorems, TLAPS

\* The state the closing protocol works on.
CloseTyping == pc \in [Coroutine -> CoPc] /\ CloseType


\* The closing state is as Init leaves it.
LEMMA CloseInit == Init => CloseTyping /\ CloseInv
<1> SUFFICES ASSUME Init PROVE CloseTyping /\ CloseInv
  OBVIOUS
<1>1. pc \in [Coroutine -> CoPc]
  BY DEF Init, CoPc
<1>2. disc \in Seq(Ec) /\ settled \in SUBSET Msg
  BY DEF Init
<1>3. sock \in [rd : BOOLEAN, wr : BOOLEAN, open : BOOLEAN, fin : BOOLEAN, rst : BOOLEAN]
  BY DEF Init
<1>4. CloseTyping
  BY <1>1, <1>2, <1>3 DEF Init, CloseTyping, CloseType, Ec
<1>5. CloseInv
  BY DEF Init, CloseInv, Coroutine, SndFlagged, RcvFlagged, Closing
<1> QED BY <1>4, <1>5

\* A step of goSend's loop moves goSend outside the closing protocol, or to its
\* entry, and touches nothing else of the closing state.
LEMMA LoopMoves ==
  ASSUME CloseTyping, SndLoopStep \/ Start
  PROVE  /\ UNCHANGED <<flagVars, closeVars, ecVars, sock>>
         /\ \/ /\ pc["snd"] = "off"
               /\ pc' = [co \in Coroutine |-> IF co = "snd" THEN "top" ELSE "read"]
            \/ /\ pc["snd"] \in SndLoop
               /\ \E to \in SndLoop \cup {"shut", "try_ec"} : pc' = [pc EXCEPT !["snd"] = to]
<1> USE DEF SndLoop, Goto, EndIteration
<1>1. CASE Start
  BY <1>1 DEF Start, flagVars, closeVars, ecVars
<1>2. CASE Top
  BY <1>2 DEF Top, flagVars, closeVars, ecVars
<1>3. CASE Pop
  BY <1>3 DEF Pop, Take, flagVars, closeVars, ecVars
<1>4. CASE Empty
  BY <1>4 DEF Empty, flagVars, closeVars, ecVars
<1>5. CASE Wait
  BY <1>5 DEF Wait, flagVars, closeVars, ecVars
<1>6. CASE Relock
  BY <1>6 DEF Relock, Take, flagVars, closeVars, ecVars
<1>7. CASE Build
  <2>1. pc["snd"] = "build"
    BY <1>7 DEF Build
  <2>2. pc' = pc \/ pc' = [pc EXCEPT !["snd"] = "write"] \/ pc' = [pc EXCEPT !["snd"] = "top"]
    BY <1>7 DEF Build
  <2>3. pc' = pc => pc' = [pc EXCEPT !["snd"] = "build"]
    BY <2>1 DEF CloseTyping, Coroutine
  <2>4. UNCHANGED <<flagVars, closeVars, ecVars, sock>>
    BY <1>7 DEF Build, flagVars, closeVars, ecVars
  <2> QED BY <2>1, <2>2, <2>3, <2>4
<1>8. CASE WriteSteps
  BY <1>8 DEF WriteSteps, WriteSome, flagVars, closeVars, ecVars
<1>9. CASE WriteBlocked
  BY <1>9 DEF WriteBlocked, flagVars, closeVars, ecVars
<1>10. CASE WriteError
  BY <1>10 DEF WriteError, flagVars, closeVars, ecVars
<1>11. CASE PollWritable
  BY <1>11 DEF PollWritable, flagVars, closeVars, ecVars
<1>12. CASE PollOther
  BY <1>12 DEF PollOther, flagVars, closeVars, ecVars
<1> QED BY <1>1, <1>2, <1>3, <1>4, <1>5, <1>6, <1>7, <1>8, <1>9, <1>10, <1>11, <1>12
        DEF SndLoopStep

\* Calls, timers, Shutdown and the peer leave the coroutines, the two flags,
\* closed_ and disconnect_cb_ alone; they may shut the socket, never close it.
LEMMA OthersKeepAway ==
  ASSUME CloseTyping,
         \/ \E m \in Msg : Send(m) \/ SendNoDelay(m) \/ CallStep(m) \/ TimerFires(m)
         \/ \E c \in Closer : Shutdown(c) \/ CloserStep(c)
         \/ PeerFin \/ PeerRst
  PROVE  /\ UNCHANGED <<pc, send_shutdown, recv_shutdown, closeVars>>
         /\ CloseType' /\ sock'.open = sock.open
<1> USE DEF CloseTyping, CloseType, control, flagVars, closeVars, ecVars
<1>1. CASE \E m \in Msg : Send(m) \/ SendNoDelay(m) \/ TimerFires(m)
  BY <1>1 DEF Send, SendNoDelay, TimerFires
<1>2. CASE \E m \in Msg : CallStep(m)
  BY <1>2 DEF CallStep, TryToken, SendFromNoDelay, PushMsg, PushFront, DirectWrite
<1>3. CASE \E c \in Closer : Shutdown(c)
  BY <1>3 DEF Shutdown, LockCloseEc
<1>4. CASE \E c \in Closer : ShutdownSetEc(c)
  BY <1>4 DEF ShutdownSetEc, WriteCloseEc, Ec
<1>5. CASE \E c \in Closer : ShutdownSetFlag(c) \/ ShutdownPush(c)
  BY <1>5 DEF ShutdownSetFlag, ShutdownPush
<1>6. CASE \E c \in Closer : ShutdownBoth(c)
  BY <1>6 DEF ShutdownBoth
<1>7. CASE PeerFin \/ PeerRst
  BY <1>7 DEF PeerFin, PeerRst
<1> QED BY <1>1, <1>2, <1>3, <1>4, <1>5, <1>6, <1>7 DEF CloserStep

\* The closing state is typed after every step of the closing protocol.
LEMMA CloseTypingStep ==
  ASSUME CloseTyping, NEW co \in Coroutine, CloseStep(co)
  PROVE  CloseTyping'
<1> USE DEF CloseTyping, CloseType, Goto, Return, flagVars, closeVars, ecVars
<1>0. pc \in [Coroutine -> CoPc]
  OBVIOUS
<1>1. CASE TryEc(co)
  BY <1>1 DEF TryEc, LockCloseEc, CoPc, EcPc, ClosePc
<1>2. CASE SetEc(co)
  BY <1>2 DEF SetEc, WriteCloseEc, Ec, CoPc, ClosePc
<1>3. CASE Shut(co)
  BY <1>3 DEF Shut, CoPc, ClosePc
<1>4. CASE SetFlag(co)
  BY <1>4 DEF SetFlag, CoPc, ClosePc
<1>5. CASE OnClose(co)
  BY <1>5 DEF OnClose, CoPc, ClosePc
<1>6. CASE Drain(co)
  BY <1>6 DEF Drain, CoPc, ClosePc
<1>7. CASE DoneAll(co)
  BY <1>7 DEF DoneAll, CoPc, ClosePc
<1>8. CASE Erase(co)
  BY <1>8 DEF Erase, CoPc, ClosePc
<1>9. CASE Notify(co)
  BY <1>9 DEF Notify, CoPc, ClosePc
<1> QED BY <1>1, <1>2, <1>3, <1>4, <1>5, <1>6, <1>7, <1>8, <1>9 DEF CloseStep

\* The handshake of the two flags, step by step.
LEMMA CloseInvStep ==
  ASSUME CloseTyping, CloseInv, NEW co \in Coroutine, CloseStep(co)
  PROVE  CloseInv'
<1> USE DEF CloseInv, Coroutine, CloseTyping, Goto, Return, flagVars, closeVars, ecVars,
            SndFlagged, RcvFlagged, Closing
<1>1. CASE TryEc(co) \/ SetEc(co)
  BY <1>1 DEF TryEc, SetEc, LockCloseEc
<1>2. CASE Shut(co)
  BY <1>2 DEF Shut, CloseType
<1>3. CASE SetFlag(co)
  BY <1>3 DEF SetFlag
<1>4. CASE OnClose(co)
  BY <1>4 DEF OnClose, TryLockClosed, CloseType
<1>5. CASE Drain(co) \/ DoneAll(co) \/ Erase(co)
  BY <1>5 DEF Drain, DoneAll, Erase
<1>6. CASE Notify(co)
  BY <1>6 DEF Notify, CloseType
<1> QED BY <1>1, <1>2, <1>3, <1>4, <1>5, <1>6 DEF CloseStep

\* The steps of goSend and goReceive around the shared closing steps.
LEMMA TestStep ==
  ASSUME CloseTyping, CloseInv,
         TestSend \/ TestRecv \/ WakeSend \/ ShutWr \/ RecvFail \/ RecvReject
  PROVE  CloseTyping' /\ CloseInv'
<1> USE DEF Goto, Return, flagVars, closeVars, ecVars
<1>1. CASE TestSend
  BY <1>1 DEF TestSend, CloseInv, Coroutine, CloseTyping, CloseType, SndFlagged, RcvFlagged,
              Closing, CoPc, ClosePc
<1>2. CASE TestRecv
  BY <1>2 DEF TestRecv, CloseInv, Coroutine, CloseTyping, CloseType, SndFlagged, RcvFlagged,
              Closing, CoPc, ClosePc
<1>3. CASE WakeSend
  BY <1>3 DEF WakeSend, CloseInv, Coroutine, CloseTyping, CloseType, SndFlagged, RcvFlagged,
              Closing, CoPc
<1>4. CASE ShutWr
  BY <1>4 DEF ShutWr, CloseInv, Coroutine, CloseTyping, CloseType, SndFlagged, RcvFlagged,
              Closing, CoPc, ClosePc
<1>5. CASE RecvFail
  BY <1>5 DEF RecvFail, CloseInv, Coroutine, CloseTyping, CloseType, SndFlagged, RcvFlagged,
              Closing, CoPc, EcPc, Ec
<1>6. CASE RecvReject
  BY <1>6 DEF RecvReject, CloseInv, Coroutine, CloseTyping, CloseType, SndFlagged, RcvFlagged,
              Closing, CoPc, EcPc, Ec
<1> QED BY <1>1, <1>2, <1>3, <1>4, <1>5, <1>6

\* Every step keeps the closing invariant.
LEMMA CloseNext ==
  ASSUME CloseTyping, CloseInv, [Next]_vars
  PROVE  CloseTyping' /\ CloseInv'
<1>1. CASE UNCHANGED vars
  BY <1>1 DEF vars, control, flagVars, ecVars, closeVars, CloseTyping, CloseType, CloseInv
<1>2. CASE SndLoopStep \/ Start
  <2>1. UNCHANGED <<flagVars, closeVars, ecVars, sock>>
    BY <1>2, LoopMoves
  <2>2. CASE pc["snd"] = "off" /\ pc' = [co \in Coroutine |-> IF co = "snd" THEN "top" ELSE "read"]
    BY <2>1, <2>2 DEF flagVars, closeVars, ecVars, CloseTyping, CloseType, CloseInv, Coroutine,
                      CoPc, SndLoop, SndFlagged, RcvFlagged, Closing
  <2>3. CASE /\ pc["snd"] \in SndLoop
             /\ \E to \in SndLoop \cup {"shut", "try_ec"} : pc' = [pc EXCEPT !["snd"] = to]
    BY <2>1, <2>3 DEF flagVars, closeVars, ecVars, CloseTyping, CloseType, CloseInv, Coroutine,
                      CoPc, SndLoop, EcPc, ClosePc, SndFlagged, RcvFlagged, Closing
  <2> QED BY <1>2, <2>2, <2>3, LoopMoves
<1>3. CASE \E co \in Coroutine : CloseStep(co)
  BY <1>3, CloseTypingStep, CloseInvStep
<1>4. CASE TestSend \/ TestRecv \/ WakeSend \/ ShutWr \/ RecvFail \/ RecvReject
  BY <1>4, TestStep
<1>5. CASE \/ \E m \in Msg : Send(m) \/ SendNoDelay(m) \/ CallStep(m) \/ TimerFires(m)
           \/ \E c \in Closer : Shutdown(c) \/ CloserStep(c)
           \/ PeerFin \/ PeerRst
  <2>1. /\ UNCHANGED <<pc, send_shutdown, recv_shutdown, closeVars>>
        /\ CloseType' /\ sock'.open = sock.open
    BY <1>5, OthersKeepAway
  <2> QED BY <2>1 DEF closeVars, CloseTyping, CloseInv
<1>6. CASE SndStep
  BY <1>2, <1>3, <1>4, <1>6 DEF SndStep, Coroutine
<1>7. CASE RcvStep
  BY <1>3, <1>4, <1>7 DEF RcvStep, Coroutine
<1> QED BY <1>1, <1>2, <1>5, <1>6, <1>7 DEF Next

\* The closing invariant holds in every reachable state.
THEOREM CloseInvariant == Spec => [](CloseTyping /\ CloseInv)
<1>1. CloseTyping /\ CloseInv /\ [Next]_vars => (CloseTyping /\ CloseInv)'
  BY CloseNext
<1> QED BY CloseInit, <1>1, PTL DEF Spec

\* ShutdownSend and ShutdownRecv close a session once, after both directions
\* are shut down, whatever the interleaving.
THEOREM SessionClosesOnce == Spec => []CloseOnce
<1>1. CloseTyping /\ CloseInv => CloseOnce
  <2> SUFFICES ASSUME CloseTyping, CloseInv PROVE CloseOnce
    OBVIOUS
  <2>1. Len(disc) <= 1
    <3>1. CASE disc = << >>
      BY <3>1
    <3>2. CASE disc # << >>
      <4>1. Len(disc) = 1
        BY <3>2 DEF CloseInv, Coroutine
      <4> QED BY <4>1
    <3> QED BY <3>1, <3>2
  <2> QED BY <2>1 DEF CloseInv, CloseOnce
<1> QED BY CloseInvariant, <1>1, PTL

\* Two coroutines that both return never leave the session open.
THEOREM SessionCloseNotMissed == Spec => []NoMissedClose
<1>1. CloseTyping /\ CloseInv => NoMissedClose
  BY DEF CloseTyping, CloseInv, NoMissedClose, Coroutine, SndFlagged, RcvFlagged, Closing
<1> QED BY CloseInvariant, <1>1, PTL

-----------------------------------------------------------------------------
(* Type correctness *)

Typing == TypeOK /\ CloseInv /\ SendInv

\* Sequences of messages stay sequences of messages.
LEMMA ChanOps ==
  ASSUME NEW S, NEW s \in Seq(S), NEW x \in S
  PROVE  /\ Append(s, x) \in Seq(S)
         /\ <<x>> \o s \in Seq(S)
         /\ s # << >> => Head(s) \in S /\ Tail(s) \in Seq(S)
  OBVIOUS

\* RemoveAt takes one element out of a sequence.
LEMMA RemoveAtType ==
  ASSUME NEW S, NEW s \in Seq(S), NEW i \in 1..Len(s)
  PROVE  RemoveAt(s, i) \in Seq(S) /\ Len(RemoveAt(s, i)) = Len(s) - 1
<1>1. SubSeq(s, 1, i - 1) \in Seq(S) /\ Len(SubSeq(s, 1, i - 1)) = i - 1
  OBVIOUS
<1>2. SubSeq(s, i + 1, Len(s)) \in Seq(S) /\ Len(SubSeq(s, i + 1, Len(s))) = Len(s) - i
  OBVIOUS
<1> DEFINE a == SubSeq(s, 1, i - 1)
           b == SubSeq(s, i + 1, Len(s))
<1>3. a \o b \in Seq(S) /\ Len(a \o b) = Len(a) + Len(b)
  <2> HIDE DEF a, b
  <2>1. a \in Seq(S) /\ b \in Seq(S)
    BY <1>1, <1>2 DEF a, b
  <2> QED BY <2>1, ConcatProperties
<1>4. (i - 1) + (Len(s) - i) = Len(s) - 1
  OBVIOUS
<1> QED BY <1>1, <1>2, <1>3, <1>4 DEF RemoveAt

\* Msg::Done keeps the types of what it changes.
LEMMA DoneType ==
  ASSUME MsgType, NEW S, NEW ec \in Ec, Done(S, ec)
  PROVE  /\ timer' \in [Msg -> {"off", "armed", "fired"}]
         /\ has_cb' \in [Msg -> BOOLEAN]
         /\ cbs' \in [Msg -> Seq(Ec)]
<1>1. timer' \in [Msg -> {"off", "armed", "fired"}] /\ has_cb' \in [Msg -> BOOLEAN]
  BY DEF MsgType, Done
<1>2. ASSUME NEW m \in Msg PROVE Append(cbs[m], ec) \in Seq(Ec) /\ cbs[m] \in Seq(Ec)
  BY <1>2 DEF MsgType
<1>3. cbs' \in [Msg -> Seq(Ec)]
  BY <1>2 DEF Done
<1> QED BY <1>1, <1>3

\* So does a SndCb called without a Msg.
LEMMA CallCbType ==
  ASSUME MsgType, NEW m \in Msg, NEW ec \in Ec
  PROVE  [cbs EXCEPT ![m] = Append(@, ec)] \in [Msg -> Seq(Ec)]
<1>1. cbs[m] \in Seq(Ec) /\ cbs \in [Msg -> Seq(Ec)]
  BY DEF MsgType
<1>2. Append(cbs[m], ec) \in Seq(Ec)
  BY <1>1, ChanOps
<1> QED BY <1>1, <1>2

\* make_shared<Msg> keeps the types of the messages.
LEMMA NewMsgType ==
  ASSUME MsgType, NEW m \in Msg, NEW half \in BOOLEAN, NewMsg(m, half)
  PROVE  MsgType'
  BY DEF MsgType, NewMsg

\* The types hold initially.
LEMMA TypeInit == Init => Typing
<1> SUFFICES ASSUME Init PROVE Typing
  OBVIOUS
<1>1. CloseTyping /\ CloseInv
  BY CloseInit
<1>2. ControlType
  BY <1>1 DEF Init, ControlType, CloseTyping, CallPc, CloserPc
<1>3. SendType
  <2>1. msg_send_list \in Seq(Msg) /\ room \in Nat /\ buffered \in Nat
    BY DEF Init
  <2> QED BY <2>1 DEF Init, SendType
<1>4. ChanType
  BY DEF Init, ChanType
<1>5. MsgType
  BY DEF Init, MsgType
<1>6. ByteType
  BY DEF Init, ByteType
<1>7. SendInv
  BY DEF Init, SendInv, Coroutine
<1> QED BY <1>1, <1>2, <1>3, <1>4, <1>5, <1>6, <1>7 DEF Typing, TypeOK, CloseTyping

\* What goSend takes from the channel.
LEMMA TakeType ==
  ASSUME Typing, NEW x \in Msg \cup {ShutdownMsg}, Take(x), room > 0,
         buffered' = buffered, buffered = 0
  PROVE  /\ msg_send_list' \in Seq(Msg) /\ room' \in Nat /\ msg_shutdown' \in BOOLEAN
         /\ MsgType' /\ SendInv'
<1> USE DEF Typing, TypeOK
<1>1. pc'["snd"] \in {"build", "pop"}
  BY DEF Take, Goto, ControlType, Coroutine
<1>2. msg_send_list' \in Seq(Msg) /\ room' \in Nat /\ msg_shutdown' \in BOOLEAN
  <2>1. CASE x = ShutdownMsg
    BY <2>1 DEF Take, SendType
  <2>2. CASE x # ShutdownMsg /\ timer[x] = "fired"
    BY <2>2 DEF Take, SendType
  <2>3. CASE x # ShutdownMsg /\ timer[x] # "fired"
    <3>1. x \in Msg /\ msg_send_list' = Append(msg_send_list, x) /\ room' = room - 1
      BY <2>3 DEF Take
    <3>2. msg_shutdown' = msg_shutdown
      BY <2>3 DEF Take
    <3> QED BY <3>1, <3>2, ChanOps DEF SendType
  <2> QED BY <2>1, <2>2, <2>3
<1>3. MsgType'
  <2>1. CASE x # ShutdownMsg /\ timer[x] = "fired"
    BY <2>1, DoneType DEF Take, MsgType, Ec
  <2>2. CASE ~(x # ShutdownMsg /\ timer[x] = "fired")
    BY <2>2 DEF Take, MsgType, msgVars
  <2> QED BY <2>1, <2>2
<1>4. SendInv'
  BY <1>1, <1>2 DEF SendInv, EcPc, ClosePc
<1> QED BY <1>2, <1>3, <1>4

\* A write appends chunks to the wire, counts bytes and cuts the list.
LEMMA WriteType ==
  ASSUME Typing, NEW k \in 0..buffered, NEW r \in PartAfter(k), WriteSome(k, r)
  PROVE  ByteType' /\ MsgType' /\ msg_send_list' \in Seq(Msg)
<1> USE DEF Typing, TypeOK
<1>1. pc["snd"] = "write" /\ buffered <= Len(msg_send_list)
  BY DEF WriteSome, SendInv
<1>2. buffered \in Nat /\ Len(msg_send_list) \in Nat /\ k \in Nat
  BY DEF SendType
<1>3. \A i \in 1..k : msg_send_list[i] \in Msg
  BY <1>1, <1>2 DEF SendType
<1>4. k < buffered => msg_send_list[k + 1] \in Msg
  BY <1>1, <1>2 DEF SendType
<1>5. r \in Nat /\ (r > 0 => k < buffered)
  <2>1. CASE k < buffered
    <3>1. Size[msg_send_list[k + 1]] \in Nat /\ pos[msg_send_list[k + 1]] \in Nat
      BY <1>4, <2>1, SizeAssumption DEF ByteType
    <3> QED BY <2>1, <3>1 DEF PartAfter
  <2>2. CASE ~(k < buffered)
    BY <2>2 DEF PartAfter
  <2> QED BY <2>1, <2>2
<1>6. pos' \in [Msg -> Nat]
  BY <1>5, SizeAssumption DEF WriteSome, ByteType
<1>7. wire' \in Seq(Chunk)
  <2> DEFINE whole == [i \in 1..k |-> Rest(msg_send_list[i])]
             next == msg_send_list[k + 1]
             part == IF r = 0 THEN << >>
                     ELSE <<[msg |-> next, from |-> pos[next], to |-> pos[next] + r]>>
  <2>1. whole \in Seq(Chunk)
    <3>1. \A i \in 1..k : Rest(msg_send_list[i]) \in Chunk
      BY <1>3, SizeAssumption DEF Rest, Chunk, ByteType
    <3> QED BY <1>2, <3>1, IsASeq
  <2>2. part \in Seq(Chunk)
    <3>1. CASE r = 0
      BY <3>1
    <3>2. CASE r # 0
      <4>1. next \in Msg
        BY <1>4, <1>5, <3>2
      <4>2. [msg |-> next, from |-> pos[next], to |-> pos[next] + r] \in Chunk
        BY <1>5, <4>1 DEF Chunk, ByteType
      <4> QED BY <3>2, <4>2
    <3> QED BY <3>1, <3>2
  <2>3. wire' = wire \o whole \o part
    BY DEF WriteSome
  <2> HIDE DEF whole, part
  <2>4. wire \o whole \in Seq(Chunk)
    BY <2>1, ConcatProperties DEF ByteType
  <2> QED BY <2>2, <2>3, <2>4, ConcatProperties
<1>8. send_half' \in [Msg -> BOOLEAN]
  BY DEF WriteSome, MsgType
<1>9. MsgType'
  <2>1. Done(Sent(k, r), "ok")
    BY DEF WriteSome
  <2>2. "ok" \in Ec
    BY DEF Ec
  <2> QED BY <1>8, <2>1, <2>2, DoneType DEF MsgType
<1>10. msg_send_list' \in Seq(Msg)
  <2>1. msg_send_list' = SubSeq(msg_send_list, k + 1, Len(msg_send_list))
    BY DEF WriteSome, Unsent
  <2>2. \A i \in (k + 1)..Len(msg_send_list) : msg_send_list[i] \in Msg
    BY <1>2 DEF SendType
  <2> QED BY <1>2, <2>1, <2>2, SubSeqProperties
<1> QED BY <1>6, <1>7, <1>9, <1>10 DEF ByteType

\* The part of the types that the closing lemmas do not give.
DataTyping == SendType /\ ChanType /\ MsgType /\ ByteType /\ SendInv

\* Steps of goSend's loop keep the types.
LEMMA LoopType ==
  ASSUME Typing, SndLoopStep \/ Start
  PROVE  DataTyping' /\ UNCHANGED <<call, closer, immediately>>
<1> USE DEF Typing, TypeOK, DataTyping
<1>0. pc \in [Coroutine -> CoPc] /\ "snd" \in Coroutine
  BY DEF ControlType, Coroutine
<1>1. CASE Start
  BY <1>0, <1>1 DEF Start, SendType, ChanType, MsgType, ByteType, SendInv, sendVars, chanVars,
                    msgVars, byteVars, EcPc, ClosePc
<1>2. CASE Top
  <2>1. room' \in Nat
    BY <1>2, CMultiAssumption DEF Top, SendType
  <2>2. pc'["snd"] \in {"shut", "pop"}
    BY <1>0, <1>2 DEF Top, Goto
  <2>3. SendInv'
    BY <1>2, <2>2 DEF Top, SendInv, EcPc, ClosePc
  <2> QED BY <1>2, <2>1, <2>3 DEF Top, SendType, ChanType, MsgType, ByteType, chanVars, msgVars,
                                 byteVars
<1>3. CASE Pop
  <2>1. pc["snd"] = "pop" /\ buffered = 0 /\ buffered' = buffered
    BY <1>3 DEF Pop, SendInv, EcPc, ClosePc
  <2>2. CASE HasRoom /\ msg_chan # << >> /\ msg_chan' = Tail(msg_chan) /\ Take(Head(msg_chan))
    <3>1. Head(msg_chan) \in Msg \cup {ShutdownMsg} /\ msg_chan' \in Seq(Msg \cup {ShutdownMsg})
      BY <2>2 DEF ChanType
    <3>2. /\ msg_send_list' \in Seq(Msg) /\ room' \in Nat /\ msg_shutdown' \in BOOLEAN
          /\ MsgType' /\ SendInv'
      BY <2>1, <2>2, <3>1, TakeType DEF HasRoom
    <3> QED BY <1>3, <3>1, <3>2 DEF Pop, SendType, ChanType, ByteType, byteVars
  <2>3. CASE /\ UNCHANGED <<msg_chan, msg_send_list, room, msg_shutdown, msgVars>>
             /\ \/ Goto("snd", "build")
                \/ HasRoom /\ Goto("snd", "empty")
    <3>1. SendInv'
      BY <1>0, <2>1, <2>3 DEF Goto, HasRoom, SendInv, SendType, EcPc, ClosePc
    <3> QED BY <1>3, <2>3, <3>1 DEF Pop, SendType, ChanType, MsgType, msgVars, ByteType, byteVars
  <2> QED BY <1>3, <2>2, <2>3 DEF Pop
<1>4. CASE Empty
  BY <1>0, <1>4 DEF Empty, Goto, SendType, ChanType, MsgType, ByteType, SendInv, chanVars,
                    msgVars, byteVars, EcPc, ClosePc
<1>5. CASE Wait
  <2>1. held' \in Msg \cup {ShutdownMsg} /\ msg_chan' \in Seq(Msg \cup {ShutdownMsg})
    BY <1>5 DEF Wait, ChanType
  <2>2. SendInv'
    BY <1>0, <1>5 DEF Wait, Goto, SendInv, EcPc, ClosePc
  <2> QED BY <1>5, <2>1, <2>2 DEF Wait, SendType, ChanType, MsgType, ByteType, msgVars, byteVars
<1>6. CASE Relock
  <2>1. pc["snd"] = "relock" /\ buffered = 0 /\ buffered' = buffered /\ room > 0
    BY <1>6 DEF Relock, SendInv, EcPc, ClosePc
  <2>2. held \in Msg \cup {ShutdownMsg} /\ Take(held)
    BY <1>6 DEF Relock, SendType
  <2>3. /\ msg_send_list' \in Seq(Msg) /\ room' \in Nat /\ msg_shutdown' \in BOOLEAN
        /\ MsgType' /\ SendInv'
    BY <2>1, <2>2, TakeType
  <2> QED BY <1>6, <2>3 DEF Relock, SendType, ChanType, ByteType, chanVars, byteVars
<1>7. CASE Build
  <2>1. pc["snd"] = "build" /\ buffered <= Len(msg_send_list) /\ buffered \in Nat
        /\ Len(msg_send_list) \in Nat
    BY <1>7 DEF Build, SendInv, SendType
  <2>2. /\ UNCHANGED <<call, closer, immediately, sending, held, msg_shutdown, chanVars, byteVars>>
    BY <1>7 DEF Build
  <2> DEFINE it == buffered + 1
             m == msg_send_list[it]
  <2>3. CASE /\ it <= Len(msg_send_list)
             /\ Done({m}, "timeout")
             /\ msg_send_list' = RemoveAt(msg_send_list, it)
             /\ UNCHANGED <<pc, send_mtx, room, buffered, send_half>>
    <3>1. it \in 1..Len(msg_send_list) /\ msg_send_list \in Seq(Msg)
      BY <2>1, <2>3 DEF SendType
    <3>2. msg_send_list' \in Seq(Msg) /\ Len(msg_send_list') = Len(msg_send_list) - 1
      BY <2>3, <3>1, RemoveAtType
    <3>3. MsgType'
      BY <2>3, DoneType DEF MsgType, Ec
    <3>4. SendInv'
      BY <2>1, <2>3, <3>2 DEF SendInv
    <3> QED BY <2>2, <2>3, <3>2, <3>3, <3>4 DEF SendType, ChanType, ByteType, chanVars, byteVars
  <2>4. CASE /\ it <= Len(msg_send_list)
             /\ buffered' = buffered + 1
             /\ UNCHANGED <<pc, send_mtx, msg_send_list, room, msgVars>>
    <3>1. SendInv'
      BY <2>1, <2>4 DEF SendInv
    <3> QED BY <2>1, <2>2, <2>4, <3>1 DEF SendType, ChanType, MsgType, ByteType, chanVars, msgVars,
                                         byteVars
  <2>5. CASE /\ Goto("snd", "write")
             /\ UNCHANGED <<send_mtx, msg_send_list, room, buffered, msgVars>>
    <3>1. SendInv'
      BY <1>0, <2>1, <2>5 DEF SendInv, Goto
    <3> QED BY <2>2, <2>5, <3>1 DEF SendType, ChanType, MsgType, ByteType, chanVars, msgVars, byteVars
  <2>6. CASE EndIteration /\ UNCHANGED <<msg_send_list, msgVars>>
    <3>1. SendInv'
      BY <1>0, <2>6 DEF SendInv, EndIteration, Goto
    <3> QED BY <2>2, <2>6, <3>1 DEF EndIteration, SendType, ChanType, MsgType, ByteType, chanVars,
                                   msgVars, byteVars
  <2>7. \/ /\ it <= Len(msg_send_list)
           /\ Done({m}, "timeout")
           /\ msg_send_list' = RemoveAt(msg_send_list, it)
           /\ UNCHANGED <<pc, send_mtx, room, buffered, send_half>>
        \/ /\ it <= Len(msg_send_list)
           /\ buffered' = buffered + 1
           /\ UNCHANGED <<pc, send_mtx, msg_send_list, room, msgVars>>
        \/ /\ Goto("snd", "write")
           /\ UNCHANGED <<send_mtx, msg_send_list, room, buffered, msgVars>>
        \/ EndIteration /\ UNCHANGED <<msg_send_list, msgVars>>
    <3>1. ~(it > Len(msg_send_list)) => it <= Len(msg_send_list)
      BY <2>1
    <3> QED BY <1>7, <3>1 DEF Build
  <2> QED BY <2>2, <2>3, <2>4, <2>5, <2>6, <2>7
<1>8. CASE WriteSteps
  <2> PICK k \in 0..buffered : \E r \in PartAfter(k) : WriteSome(k, r)
    BY <1>8 DEF WriteSteps
  <2> PICK r \in PartAfter(k) : WriteSome(k, r)
    OBVIOUS
  <2>1. ByteType' /\ MsgType' /\ msg_send_list' \in Seq(Msg)
    BY WriteType
  <2>2. SendInv'
    BY <1>0 DEF WriteSome, EndIteration, Goto, SendInv
  <2> QED BY <2>1, <2>2 DEF WriteSome, EndIteration, SendType, ChanType, chanVars
<1>9. CASE WriteBlocked
  <2>1. SendInv'
    BY <1>0, <1>9 DEF WriteBlocked, EndIteration, Goto, SendInv
  <2> QED BY <1>9, <2>1 DEF WriteBlocked, EndIteration, SendType, ChanType, MsgType, ByteType,
                            chanVars, msgVars, byteVars
<1>10. CASE WriteError
  BY <1>0, <1>10 DEF WriteError, Goto, SendType, ChanType, MsgType, ByteType, SendInv, sendVars,
                     chanVars, msgVars, byteVars, EcPc, ClosePc
<1>11. CASE PollWritable
  BY <1>0, <1>11 DEF PollWritable, Goto, SendType, ChanType, MsgType, ByteType, SendInv, sendVars,
                     chanVars, msgVars, byteVars, EcPc, ClosePc
<1>12. CASE PollOther
  <2>1. SendInv'
    BY <1>0, <1>12 DEF PollOther, EndIteration, Goto, SendInv
  <2> QED BY <1>12, <2>1 DEF PollOther, EndIteration, SendType, ChanType, MsgType, ByteType,
                             chanVars, msgVars, byteVars
<1> QED BY <1>1, <1>2, <1>3, <1>4, <1>5, <1>6, <1>7, <1>8, <1>9, <1>10, <1>11, <1>12
        DEF SndLoopStep

\* Steps of ShutdownSend, ShutdownRecv, OnClose and goReceive keep the types.
LEMMA ClosingType ==
  ASSUME Typing,
         \/ \E co \in Coroutine : CloseStep(co)
         \/ TestSend \/ TestRecv \/ WakeSend \/ ShutWr \/ RecvFail \/ RecvReject
  PROVE  DataTyping' /\ UNCHANGED <<call, closer, immediately>>
<1> USE DEF Typing, TypeOK, DataTyping
<1>0. pc \in [Coroutine -> CoPc] /\ Coroutine = {"snd", "rcv"}
  BY DEF ControlType, Coroutine
<1>1. ASSUME NEW co \in Coroutine, TryEc(co) \/ SetEc(co) \/ Shut(co) \/ SetFlag(co)
      PROVE  DataTyping' /\ UNCHANGED <<call, closer, immediately>>
  <2>1. UNCHANGED <<call, closer, immediately, sendVars, chanVars, msgVars, byteVars>>
    BY <1>1 DEF TryEc, SetEc, Shut, SetFlag
  <2>2. /\ pc[co] \in EcPc \cup ClosePc
        /\ \E to \in EcPc \cup ClosePc : pc' = [pc EXCEPT ![co] = to]
    BY <1>1 DEF TryEc, SetEc, Shut, SetFlag, Goto, LockCloseEc, EcPc, ClosePc
  <2>3. SendInv'
    BY <1>0, <2>1, <2>2 DEF SendInv, sendVars, EcPc, ClosePc
  <2> QED BY <2>1, <2>3 DEF SendType, ChanType, MsgType, ByteType, sendVars, chanVars, msgVars,
                            byteVars
<1>2. ASSUME NEW co \in Coroutine, OnClose(co) \/ Notify(co)
      PROVE  DataTyping' /\ UNCHANGED <<call, closer, immediately>>
  <2>1. /\ UNCHANGED <<call, closer, immediately, sending, msg_send_list, held, room, buffered,
                       msg_shutdown, chanVars, msgVars, byteVars>>
        /\ send_mtx' \in {send_mtx, "free"}
    BY <1>2 DEF OnClose, Notify, Return
  <2>2. /\ pc[co] \in ClosePc
        /\ \E to \in ClosePc : pc' = [pc EXCEPT ![co] = to]
    BY <1>2 DEF OnClose, Notify, Return, Goto, ClosePc
  <2>3. SendInv'
    BY <1>0, <2>1, <2>2 DEF SendInv, EcPc, ClosePc
  <2> QED BY <2>1, <2>3 DEF SendType, ChanType, MsgType, ByteType, chanVars, msgVars, byteVars
<1>3. ASSUME NEW co \in Coroutine, Drain(co)
      PROVE  DataTyping' /\ UNCHANGED <<call, closer, immediately>>
  <2>1. UNCHANGED <<call, closer, immediately, sendVars, pushed, byteVars>>
    BY <1>3 DEF Drain
  <2>2. msg_chan' \in Seq(Msg \cup {ShutdownMsg})
    BY <1>3 DEF Drain, ChanType
  <2>3. MsgType'
    <3>1. CASE msg_chan = << >>
      BY <1>3, <3>1 DEF Drain, MsgType, msgVars
    <3>2. CASE msg_chan # << >>
      <4>1. Done({Head(msg_chan)}, "shutdown") /\ UNCHANGED send_half /\ "shutdown" \in Ec
        BY <1>3, <3>2 DEF Drain, Ec
      <4> QED BY <4>1, DoneType DEF MsgType
    <3> QED BY <3>1, <3>2
  <2>4. SendInv'
    BY <1>0, <1>3, <2>1 DEF Drain, Goto, SendInv, sendVars, EcPc, ClosePc
  <2> QED BY <2>1, <2>2, <2>3, <2>4 DEF SendType, ChanType, ByteType, sendVars, byteVars
<1>4. ASSUME NEW co \in Coroutine, DoneAll(co)
      PROVE  DataTyping' /\ UNCHANGED <<call, closer, immediately>>
  <2>1. UNCHANGED <<call, closer, immediately, sendVars, chanVars, send_half, byteVars>>
    BY <1>4 DEF DoneAll
  <2>2. Done(ToSet(msg_send_list), "shutdown") /\ "shutdown" \in Ec
    BY <1>4 DEF DoneAll, Ec
  <2>3. MsgType'
    BY <2>1, <2>2, DoneType DEF MsgType
  <2>4. SendInv'
    BY <1>0, <1>4, <2>1 DEF DoneAll, Goto, SendInv, sendVars, EcPc, ClosePc
  <2> QED BY <2>1, <2>3, <2>4 DEF SendType, ChanType, ByteType, sendVars, chanVars, byteVars
<1>5. ASSUME NEW co \in Coroutine, Erase(co)
      PROVE  DataTyping' /\ UNCHANGED <<call, closer, immediately>>
  <2>1. /\ UNCHANGED <<call, closer, immediately, send_mtx, sending, held, room, buffered,
                       msg_shutdown, chanVars, msgVars, byteVars>>
        /\ msg_send_list' = << >>
    BY <1>5 DEF Erase
  <2>2. pc["snd"] \in SndFlagged /\ pc'["snd"] \in SndFlagged
    BY <1>0, <1>5 DEF Erase, Goto, CloseInv, Closing, SndFlagged
  <2>3. SendInv'
    BY <2>2 DEF SendInv, SndFlagged, EcPc, ClosePc
  <2> QED BY <2>1, <2>3 DEF SendType, ChanType, MsgType, ByteType, chanVars, msgVars, byteVars
<1>6. CASE TestSend
  <2>1. /\ UNCHANGED <<call, closer, immediately, sending, msg_send_list, held, room, buffered,
                       msg_shutdown, chanVars, msgVars, byteVars>>
        /\ send_mtx' \in {send_mtx, "free"}
    BY <1>6 DEF TestSend, Return
  <2>2. pc'["snd"] \in ClosePc
    BY <1>0, <1>6 DEF TestSend, Return, Goto, ClosePc
  <2>3. SendInv'
    BY <2>2 DEF SendInv, EcPc, ClosePc
  <2> QED BY <2>1, <2>3 DEF SendType, ChanType, MsgType, ByteType, chanVars, msgVars, byteVars
<1>7. CASE TestRecv \/ ShutWr \/ RecvFail \/ RecvReject
  <2>1. UNCHANGED <<call, closer, immediately, sendVars, chanVars, msgVars, byteVars>>
    BY <1>7 DEF TestRecv, ShutWr, RecvFail, RecvReject
  <2>2. pc'["snd"] = pc["snd"]
    BY <1>0, <1>7 DEF TestRecv, ShutWr, RecvFail, RecvReject, Goto
  <2>3. SendInv'
    BY <2>1, <2>2 DEF SendInv, sendVars
  <2> QED BY <2>1, <2>3 DEF SendType, ChanType, MsgType, ByteType, sendVars, chanVars, msgVars,
                            byteVars
<1>8. CASE WakeSend
  <2>1. UNCHANGED <<call, closer, immediately, sendVars, pushed, msgVars, byteVars>>
    BY <1>8 DEF WakeSend
  <2>2. pc'["snd"] = pc["snd"] /\ msg_chan' \in Seq(Msg \cup {ShutdownMsg})
    BY <1>0, <1>8 DEF WakeSend, Goto, ChanType
  <2>3. SendInv'
    BY <2>1, <2>2 DEF SendInv, sendVars
  <2> QED BY <2>1, <2>2, <2>3 DEF SendType, ChanType, MsgType, ByteType, sendVars, msgVars, byteVars
<1> QED BY <1>1, <1>2, <1>3, <1>4, <1>5, <1>6, <1>7, <1>8 DEF CloseStep

\* Calls of Send and SendNoDelay, and their timers, keep the types.
LEMMA CallType ==
  ASSUME Typing, NEW m \in Msg, Send(m) \/ SendNoDelay(m) \/ CallStep(m) \/ TimerFires(m)
  PROVE  DataTyping' /\ call' \in [Msg -> CallPc] /\ UNCHANGED <<pc, closer, immediately>>
<1> USE DEF Typing, TypeOK, DataTyping
<1>1. ASSUME NEW next \in CallPc, Accept(m, next)
      PROVE  call' \in [Msg -> CallPc] /\ cbs' \in [Msg -> Seq(Ec)]
  <2>1. call' \in [Msg -> CallPc]
    BY <1>1 DEF Accept, GotoCall, ControlType, CallPc
  <2>2. cbs' = cbs \/ \E ec \in Ec : cbs' = [cbs EXCEPT ![m] = Append(@, ec)]
    BY <1>1 DEF Accept, CallCb, Ec
  <2>3. cbs \in [Msg -> Seq(Ec)]
    BY DEF MsgType
  <2>4. \A ec \in Ec : [cbs EXCEPT ![m] = Append(@, ec)] \in [Msg -> Seq(Ec)]
    BY CallCbType
  <2>5. cbs' \in [Msg -> Seq(Ec)]
    BY <2>2, <2>3, <2>4
  <2> QED BY <2>1, <2>5
<1>2. CASE Send(m) \/ SendNoDelay(m)
  <2>1. Accept(m, "push") \/ Accept(m, "try")
    BY <1>2 DEF Send, SendNoDelay
  <2>2. "push" \in CallPc /\ "try" \in CallPc
    BY DEF CallPc
  <2>3. call' \in [Msg -> CallPc] /\ cbs' \in [Msg -> Seq(Ec)]
    BY <1>1, <2>1, <2>2
  <2>4. UNCHANGED <<pc, closer, immediately, sendVars, chanVars, timer, send_half, has_cb, byteVars>>
    BY <1>2 DEF Send, SendNoDelay
  <2> QED BY <2>3, <2>4 DEF SendType, ChanType, MsgType, ByteType, SendInv, sendVars, chanVars,
                            byteVars
<1>3. CASE TryToken(m)
  BY <1>3 DEF TryToken, GotoCall, ControlType, CallPc, SendType, ChanType, MsgType, ByteType,
              SendInv, chanVars, msgVars, byteVars
<1>4. CASE SendFromNoDelay(m)
  <2>1. Accept(m, "push") \/ Accept(m, "push_token")
    BY <1>4 DEF SendFromNoDelay
  <2>2. "push" \in CallPc /\ "push_token" \in CallPc
    BY DEF CallPc
  <2>3. call' \in [Msg -> CallPc] /\ cbs' \in [Msg -> Seq(Ec)]
    BY <1>1, <2>1, <2>2
  <2>4. send_mtx' \in {"free", "snd", "user"}
    BY <1>4 DEF SendFromNoDelay, SendType
  <2>5. UNCHANGED <<pc, closer, immediately, sending, msg_send_list, held, room, buffered,
                    msg_shutdown, chanVars, timer, send_half, has_cb, byteVars>>
    BY <1>4 DEF SendFromNoDelay
  <2> QED BY <2>3, <2>4, <2>5 DEF SendType, ChanType, MsgType, ByteType, SendInv, chanVars, byteVars
<1>5. CASE PushMsg(m)
  <2>1. MsgType'
    BY <1>5, NewMsgType DEF PushMsg
  <2>2. ChanType'
    BY <1>5 DEF PushMsg, ChanType
  <2>3. call' \in [Msg -> CallPc] /\ send_mtx' \in {"free", "snd", "user"}
    BY <1>5 DEF PushMsg, GotoCall, ControlType, CallPc, SendType
  <2> QED BY <1>5, <2>1, <2>2, <2>3 DEF PushMsg, SendType, ByteType, SendInv, byteVars
<1>6. CASE PushFront(m)
  <2>1. MsgType'
    BY <1>6, NewMsgType DEF PushFront
  <2>2. msg_send_list' \in Seq(Msg) /\ Len(msg_send_list') = Len(msg_send_list) + 1
    BY <1>6 DEF PushFront, SendType
  <2>3. call' \in [Msg -> CallPc]
    BY <1>6 DEF PushFront, GotoCall, ControlType, CallPc
  <2>4. SendInv'
    BY <1>6, <2>2 DEF PushFront, SendInv, SendType
  <2> QED BY <1>6, <2>1, <2>2, <2>3, <2>4 DEF PushFront, SendType, ChanType, ByteType, chanVars,
                                              byteVars
<1>7. CASE \E n \in 0..Size[m] : DirectWrite(m, n)
  <2> PICK n \in 0..Size[m] : DirectWrite(m, n)
    BY <1>7
  <2>1. n \in Nat /\ pos' \in [Msg -> Nat]
    BY SizeAssumption DEF DirectWrite, ByteType
  <2>2. wire' \in Seq(Chunk)
    <3>1. [msg |-> m, from |-> 0, to |-> n] \in Chunk
      BY <2>1 DEF Chunk
    <3> QED BY <3>1 DEF DirectWrite, ByteType
  <2>3. cbs' = cbs \/ cbs' = [cbs EXCEPT ![m] = Append(@, "ok")]
    BY DEF DirectWrite, CallCb
  <2>4. cbs' \in [Msg -> Seq(Ec)]
    <3>1. "ok" \in Ec /\ cbs \in [Msg -> Seq(Ec)]
      BY DEF Ec, MsgType
    <3> QED BY <2>3, <3>1, CallCbType
  <2>5. call' \in [Msg -> CallPc] /\ send_mtx' \in {"free", "snd", "user"}
    BY DEF DirectWrite, GotoCall, ControlType, CallPc, SendType
  <2>6. UNCHANGED <<pc, closer, immediately, sending, msg_send_list, held, room, buffered,
                    msg_shutdown, chanVars, timer, send_half, has_cb>>
    BY DEF DirectWrite
  <2> QED BY <2>1, <2>2, <2>4, <2>5, <2>6 DEF SendType, ChanType, MsgType, ByteType, SendInv,
                                              chanVars
<1>8. CASE TimerFires(m)
  BY <1>8 DEF TimerFires, control, ControlType, SendType, ChanType, MsgType, ByteType, SendInv,
              sendVars, chanVars, byteVars
<1> QED BY <1>2, <1>3, <1>4, <1>5, <1>6, <1>7, <1>8 DEF CallStep

\* Calls of Shutdown and the peer keep the types.
LEMMA ShutdownType ==
  ASSUME Typing, (\E c \in Closer : Shutdown(c) \/ CloserStep(c)) \/ PeerFin \/ PeerRst
  PROVE  /\ DataTyping' /\ UNCHANGED <<pc, call>>
         /\ closer' \in [Closer -> CloserPc] /\ immediately' \in [Closer -> BOOLEAN]
<1> USE DEF Typing, TypeOK, DataTyping
<1>1. CASE PeerFin \/ PeerRst
  BY <1>1 DEF PeerFin, PeerRst, control, ControlType, SendType, ChanType, MsgType, ByteType,
              SendInv, sendVars, chanVars, msgVars, byteVars
<1>2. CASE \E c \in Closer : Shutdown(c)
  BY <1>2, ShutdownArgsAssumption DEF Shutdown, LockCloseEc, GotoCloser, ControlType, CloserPc,
     EcPc, SendType, ChanType, MsgType, ByteType, SendInv, sendVars, chanVars, msgVars, byteVars
<1>3. CASE \E c \in Closer : ShutdownSetEc(c) \/ ShutdownSetFlag(c) \/ ShutdownBoth(c)
  BY <1>3 DEF ShutdownSetEc, ShutdownSetFlag, ShutdownBoth, GotoCloser, ControlType, CloserPc,
     SendType, ChanType, MsgType, ByteType, SendInv, sendVars, chanVars, msgVars, byteVars
<1>4. CASE \E c \in Closer : ShutdownPush(c)
  <2>1. ChanType'
    BY <1>4 DEF ShutdownPush, ChanType
  <2> QED BY <1>4, <2>1 DEF ShutdownPush, GotoCloser, ControlType, CloserPc, SendType, MsgType,
             ByteType, SendInv, sendVars, msgVars, byteVars
<1> QED BY <1>1, <1>2, <1>3, <1>4 DEF CloserStep

\* Every step keeps the types.
LEMMA TypeNext ==
  ASSUME Typing, [Next]_vars
  PROVE  Typing'
<1>1. CloseTyping' /\ CloseInv'
  BY CloseNext DEF Typing, TypeOK, ControlType, CloseTyping
<1>2. DataTyping' /\ ControlType'
  <2> USE DEF ControlType, CloseTyping
  <2>1. CASE UNCHANGED vars
    BY <2>1 DEF vars, control, sendVars, chanVars, msgVars, byteVars, Typing, TypeOK, DataTyping,
                SendType, ChanType, MsgType, ByteType, SendInv
  <2>2. CASE SndLoopStep \/ Start
    BY <1>1, <2>2, LoopType DEF Typing, TypeOK
  <2>3. CASE \/ \E co \in Coroutine : CloseStep(co)
             \/ TestSend \/ TestRecv \/ WakeSend \/ ShutWr \/ RecvFail \/ RecvReject
    BY <1>1, <2>3, ClosingType DEF Typing, TypeOK
  <2>4. CASE \E m \in Msg : Send(m) \/ SendNoDelay(m) \/ CallStep(m) \/ TimerFires(m)
    BY <1>1, <2>4, CallType DEF Typing, TypeOK
  <2>5. CASE (\E c \in Closer : Shutdown(c) \/ CloserStep(c)) \/ PeerFin \/ PeerRst
    BY <1>1, <2>5, ShutdownType DEF Typing, TypeOK
  <2> QED BY <2>1, <2>2, <2>3, <2>4, <2>5 DEF Next, SndStep, RcvStep, Coroutine
<1> QED BY <1>1, <1>2 DEF Typing, TypeOK, CloseTyping, DataTyping

\* The session's variables keep their types, and the prefix of msg_send_list_
\* that goSend writes is never cut from under it.
THEOREM TypeCorrect == Spec => [](TypeOK /\ SendInv)
<1>1. Typing /\ [Next]_vars => Typing'
  BY TypeNext
<1>2. Typing => TypeOK /\ SendInv
  BY DEF Typing
<1> QED BY TypeInit, <1>1, <1>2, PTL DEF Spec

\* No call finds msg_send_list_ shorter than the prefix goSend has made buffers
\* of, and goSend never waits on the channel without room for a message.
THEOREM SendPrefixKept == Spec => []SendInv
  BY TypeCorrect, PTL

-----------------------------------------------------------------------------
(* The reason disconnect_cb_ is given *)

\* Whoever locked close_ec_mutex_ has written close_ec_ or is about to; the
\* receive coroutine has been through SetCloseEc, with an error in hand.
EcInv ==
    /\ close_ec_mutex /\ close_ec = "ok" =>
           (\E co \in Coroutine : pc[co] = "set_ec") \/ (\E c \in Closer : closer[c] = "set_ec")
    /\ pc["rcv"] \in {"set_ec", "shut", "flag"} \cup RcvFlagged => close_ec_mutex
    /\ pc["rcv"] \in EcPc => recv_ec # "ok"

\* Steps that leave SetCloseEc alone: no coroutine or call is in the middle of
\* it that was not before, or comes out of it.
LEMMA EcFrame ==
  ASSUME EcInv, UNCHANGED <<ecVars, recv_ec>>,
         \A co \in Coroutine : pc[co] = "set_ec" => pc'[co] = "set_ec",
         \A c \in Closer : closer[c] = "set_ec" => closer'[c] = "set_ec",
         \/ pc'["rcv"] = pc["rcv"]
         \/ pc'["rcv"] \in {"read"}
         \/ pc["rcv"] \in {"set_ec", "shut", "flag"} \cup RcvFlagged /\ pc'["rcv"] \notin EcPc
  PROVE  EcInv'
  BY DEF EcInv, ecVars, EcPc, RcvFlagged, SndFlagged

\* The two steps of SetCloseEc in a coroutine.
LEMMA CoroutineEc ==
  ASSUME Typing, EcInv, NEW co \in Coroutine, TryEc(co) \/ SetEc(co)
  PROVE  EcInv'
<1>0. /\ pc \in [Coroutine -> CoPc] /\ close_ec_mutex \in BOOLEAN
      /\ co = "snd" \/ co = "rcv"
  BY DEF Typing, TypeOK, ControlType, CloseType, Coroutine
<1>1. UNCHANGED <<closer, recv_ec>>
  BY DEF TryEc, SetEc, closeVars
<1>2. CASE TryEc(co)
  <2>1. CASE close_ec_mutex
    <3>1. pc[co] = "try_ec" /\ pc' = [pc EXCEPT ![co] = "shut"] /\ UNCHANGED ecVars
      BY <1>2, <2>1 DEF TryEc, LockCloseEc, Goto, ecVars
    <3> QED BY <1>0, <1>1, <2>1, <3>1 DEF EcInv, ecVars, Coroutine, EcPc
  <2>2. CASE ~close_ec_mutex
    <3>1. pc[co] = "try_ec" /\ pc' = [pc EXCEPT ![co] = "set_ec"] /\ close_ec_mutex'
      BY <1>2, <2>2 DEF TryEc, LockCloseEc, Goto
    <3> QED BY <1>0, <1>1, <2>2, <3>1 DEF EcInv, Coroutine, EcPc
  <2> QED BY <1>0, <2>1, <2>2
<1>3. CASE SetEc(co)
  <2>1. /\ pc[co] = "set_ec" /\ pc' = [pc EXCEPT ![co] = "shut"] /\ close_ec_mutex' = close_ec_mutex
        /\ close_ec' = IF close_ec = "ok" THEN (IF co = "snd" THEN "io" ELSE recv_ec) ELSE close_ec
    BY <1>3 DEF SetEc, WriteCloseEc, Goto
  <2>2. close_ec' # "ok"
    BY <1>0, <2>1 DEF EcInv, EcPc
  <2> QED BY <1>0, <1>1, <2>1, <2>2 DEF EcInv, EcPc
<1> QED BY <1>2, <1>3

\* The two steps of SetCloseEc in a call of Shutdown.
LEMMA CloserEc ==
  ASSUME Typing, EcInv, NEW c \in Closer, Shutdown(c) \/ ShutdownSetEc(c)
  PROVE  EcInv'
<1>0. closer \in [Closer -> CloserPc] /\ close_ec_mutex \in BOOLEAN
  BY DEF Typing, TypeOK, ControlType, CloseType
<1>1. UNCHANGED <<pc, recv_ec>>
  BY DEF Shutdown, ShutdownSetEc, closeVars
<1>2. CASE Shutdown(c)
  <2>1. CASE close_ec_mutex
    <3>1. closer[c] = "idle" /\ closer' = [closer EXCEPT ![c] = "flag"] /\ UNCHANGED ecVars
      BY <1>2, <2>1 DEF Shutdown, LockCloseEc, GotoCloser, ecVars
    <3> QED BY <1>0, <1>1, <2>1, <3>1 DEF EcInv, ecVars
  <2>2. CASE ~close_ec_mutex
    <3>1. closer'[c] = "set_ec" /\ close_ec_mutex'
      BY <1>0, <1>2, <2>2 DEF Shutdown, LockCloseEc, GotoCloser
    <3> QED BY <1>1, <2>2, <3>1 DEF EcInv
  <2> QED BY <1>0, <2>1, <2>2
<1>3. CASE ShutdownSetEc(c)
  <2>1. close_ec_mutex' = close_ec_mutex /\ close_ec' # "ok"
    BY <1>3 DEF ShutdownSetEc, WriteCloseEc
  <2> QED BY <1>1, <2>1 DEF EcInv
<1> QED BY <1>2, <1>3

\* Every step keeps what is known about the reason.
LEMMA EcNext ==
  ASSUME Typing, EcInv, [Next]_vars
  PROVE  EcInv'
<1>0. pc \in [Coroutine -> CoPc] /\ closer \in [Closer -> CloserPc] /\ CloseTyping /\ CloseInv
  BY DEF Typing, TypeOK, ControlType, CloseTyping
<1>1. CASE UNCHANGED vars
  BY <1>1, EcFrame DEF vars, control, closeVars
<1>2. CASE SndLoopStep \/ Start
  <2>1. UNCHANGED <<ecVars, recv_ec, closer>>
    BY <1>2 DEF SndLoopStep, Start, Top, Pop, Empty, Wait, Relock, Build, WriteSteps, WriteSome,
                WriteBlocked, WriteError, PollWritable, PollOther, closeVars
  <2>2. CASE pc["snd"] = "off"
    <3>1. pc["rcv"] = "off" /\ pc'["rcv"] = "read"
      BY <1>0, <1>2, <2>2, LoopMoves DEF CloseInv, Coroutine, SndLoop
    <3> QED BY <2>1, <2>2, <3>1, EcFrame DEF Coroutine
  <2>3. CASE pc["snd"] # "off"
    <3>1. pc["snd"] # "set_ec" /\ pc'["rcv"] = pc["rcv"]
      BY <1>0, <1>2, <2>3, LoopMoves DEF Coroutine, SndLoop
    <3> QED BY <2>1, <3>1, EcFrame DEF Coroutine
  <2> QED BY <2>2, <2>3
<1>3. CASE \E co \in Coroutine : TryEc(co) \/ SetEc(co)
  BY <1>3, CoroutineEc
<1>4. CASE \E co \in Coroutine : \/ Shut(co) \/ SetFlag(co)
                                 \/ OnClose(co) \/ Drain(co) \/ DoneAll(co) \/ Erase(co) \/ Notify(co)
  <2> PICK co \in Coroutine : \/ Shut(co) \/ SetFlag(co)
                              \/ OnClose(co) \/ Drain(co) \/ DoneAll(co) \/ Erase(co) \/ Notify(co)
    BY <1>4
  <2>1. UNCHANGED <<ecVars, recv_ec, closer>>
    BY DEF Shut, SetFlag, OnClose, Drain, DoneAll, Erase, Notify, closeVars
  <2>2. /\ pc[co] \in {"shut", "flag"} \cup RcvFlagged
        /\ UNCHANGED pc \/ \E where \in {"flag"} \cup RcvFlagged : pc' = [pc EXCEPT ![co] = where]
    BY DEF Shut, SetFlag, OnClose, Drain, DoneAll, Erase, Notify, Return, Goto, RcvFlagged,
           SndFlagged
  <2> QED BY <1>0, <2>1, <2>2, EcFrame DEF RcvFlagged, SndFlagged, EcPc, Coroutine
<1>5. CASE TestSend \/ TestRecv \/ WakeSend \/ ShutWr
  <2>1. UNCHANGED <<ecVars, recv_ec, closer>>
    BY <1>5 DEF TestSend, TestRecv, WakeSend, ShutWr, closeVars
  <2>2. \E co \in Coroutine : /\ pc[co] \in RcvFlagged
                              /\ \E where \in RcvFlagged : pc' = [pc EXCEPT ![co] = where]
    BY <1>5 DEF TestSend, TestRecv, WakeSend, ShutWr, Return, Goto, RcvFlagged, SndFlagged, Coroutine
  <2> QED BY <1>0, <2>1, <2>2, EcFrame DEF RcvFlagged, SndFlagged, EcPc, Coroutine
<1>6. CASE RecvFail \/ RecvReject
  <2>1. /\ pc["rcv"] = "read" /\ pc' = [pc EXCEPT !["rcv"] = "try_ec"]
        /\ recv_ec' # "ok" /\ UNCHANGED <<ecVars, closer>>
    BY <1>6 DEF RecvFail, RecvReject, Goto
  <2> QED BY <1>0, <2>1 DEF EcInv, ecVars, Coroutine, EcPc, RcvFlagged, SndFlagged
<1>7. CASE \E m \in Msg : Send(m) \/ SendNoDelay(m) \/ CallStep(m) \/ TimerFires(m)
  <2>1. UNCHANGED <<pc, recv_ec>>
    BY <1>0, <1>7, OthersKeepAway DEF closeVars
  <2>2. UNCHANGED <<ecVars, closer>>
    BY <1>7 DEF Send, SendNoDelay, CallStep, TryToken, SendFromNoDelay, PushMsg, PushFront,
                DirectWrite, TimerFires, control
  <2> QED BY <2>1, <2>2, EcFrame
<1>8. CASE \E c \in Closer : Shutdown(c) \/ ShutdownSetEc(c)
  BY <1>8, CloserEc
<1>9. CASE \E c \in Closer : ShutdownSetFlag(c) \/ ShutdownBoth(c) \/ ShutdownPush(c)
  <2> PICK c \in Closer : ShutdownSetFlag(c) \/ ShutdownBoth(c) \/ ShutdownPush(c)
    BY <1>9
  <2>1. UNCHANGED <<pc, ecVars, recv_ec>> /\ closer[c] # "set_ec"
    BY DEF ShutdownSetFlag, ShutdownBoth, ShutdownPush, closeVars
  <2>2. \E where \in CloserPc : closer' = [closer EXCEPT ![c] = where]
    BY DEF ShutdownSetFlag, ShutdownBoth, ShutdownPush, GotoCloser, CloserPc
  <2> QED BY <1>0, <2>1, <2>2, EcFrame
<1>10. CASE PeerFin \/ PeerRst
  BY <1>10, EcFrame DEF PeerFin, PeerRst, control, closeVars
<1>11. CASE SndStep
  BY <1>2, <1>3, <1>4, <1>5, <1>11 DEF SndStep, CloseStep, Coroutine
<1>12. CASE RcvStep
  BY <1>3, <1>4, <1>5, <1>6, <1>12 DEF RcvStep, CloseStep, Coroutine
<1> QED BY <1>1, <1>2, <1>7, <1>8, <1>9, <1>10, <1>11, <1>12 DEF Next, CloserStep

\* When OnClose calls disconnect_cb_, both coroutines are past SetCloseEc, so
\* close_ec_ has been written, or a Shutdown call that took close_ec_mutex_ is
\* about to write it.
LEMMA NotifyReason ==
  ASSUME Typing, EcInv, Next, disc' # disc
  PROVE  close_ec # "ok" \/ \E c \in Closer : closer[c] = "set_ec"
<1>0. CloseTyping
  BY DEF Typing, TypeOK, ControlType, CloseTyping
<1>1. \E co \in Coroutine : Notify(co)
  <2>1. CASE SndLoopStep \/ Start
    BY <1>0, <2>1, LoopMoves DEF closeVars
  <2>2. CASE \/ \E m \in Msg : Send(m) \/ SendNoDelay(m) \/ CallStep(m) \/ TimerFires(m)
             \/ \E c \in Closer : Shutdown(c) \/ CloserStep(c)
             \/ PeerFin \/ PeerRst
    BY <1>0, <2>2, OthersKeepAway DEF closeVars
  <2>3. CASE TestSend \/ TestRecv \/ WakeSend \/ ShutWr \/ RecvFail \/ RecvReject
    BY <2>3 DEF TestSend, TestRecv, WakeSend, ShutWr, RecvFail, RecvReject, closeVars
  <2>4. ASSUME NEW co \in Coroutine, CloseStep(co)
        PROVE  Notify(co)
    BY <2>4 DEF CloseStep, TryEc, SetEc, Shut, SetFlag, OnClose, Drain, DoneAll, Erase, closeVars
  <2> QED BY <2>1, <2>2, <2>3, <2>4 DEF Next, SndStep, RcvStep, Coroutine
<1>2. closed
  BY <1>1 DEF Notify, Typing, CloseInv, Closing
<1>3. pc["snd"] \in SndFlagged /\ pc["rcv"] \in RcvFlagged
  BY <1>2 DEF Typing, CloseInv
<1>4. close_ec_mutex /\ \A co \in Coroutine : pc[co] # "set_ec"
  BY <1>3 DEF EcInv, Coroutine, RcvFlagged, SndFlagged
<1> QED BY <1>4 DEF EcInv

\* disconnect_cb_ is told why the session ended, unless a Shutdown call stands
\* between taking close_ec_mutex_ and writing close_ec_.
THEOREM CloseHasReason == Spec => CloseReason
<1>1. Init => Typing /\ EcInv
  BY TypeInit DEF Init, EcInv, Coroutine, RcvFlagged, SndFlagged, EcPc
<1>2. Typing /\ EcInv /\ [Next]_vars => (Typing /\ EcInv)'
  BY TypeNext, EcNext
<1>3. Typing /\ EcInv /\ [Next]_vars =>
        [disc' # disc => close_ec # "ok" \/ \E c \in Closer : closer[c] = "set_ec"]_vars
  BY NotifyReason
<1> QED BY <1>1, <1>2, <1>3, PTL DEF Spec, CloseReason
=============================================================================
