--------------------------- MODULE TcpOrderProofs ---------------------------
(***************************************************************************)
(* Proofs about the order in which the messages of a TcpSession leave:     *)
(* what Send queued is written in that order, and it never splits another  *)
(* message.                                                                *)
(***************************************************************************)
EXTENDS TcpMessageProofs

-----------------------------------------------------------------------------
(* One element before another *)

Before(s, a, b) == \E i, j \in 1..Len(s) : i < j /\ s[i] = a /\ s[j] = b

\* What is before another is in the sequence.
LEMMA BeforeMembers ==
  ASSUME NEW T, NEW s \in Seq(T), NEW a, NEW b, Before(s, a, b)
  PROVE  a \in ToSet(s) /\ b \in ToSet(s)
<1>1. (\E i \in 1..Len(s) : s[i] = a) /\ (\E i \in 1..Len(s) : s[i] = b)
  BY DEF Before
<1> QED BY <1>1, ToSetMember

\* push: only the new element gets others before it, all of them.
LEMMA BeforeAppend ==
  ASSUME NEW T, NEW s \in Seq(T), NEW x \in T, NEW a, NEW b
  PROVE  Before(Append(s, x), a, b) <=> Before(s, a, b) \/ (b = x /\ a \in ToSet(s))
<1> DEFINE t == Append(s, x)
<1>1. /\ Len(t) = Len(s) + 1 /\ Len(s) \in Nat
      /\ \A i \in 1..Len(s) : t[i] = s[i]
      /\ t[Len(s) + 1] = x
  OBVIOUS
<1> HIDE DEF t
<1>2. ASSUME Before(t, a, b) PROVE Before(s, a, b) \/ (b = x /\ a \in ToSet(s))
  <2> PICK i \in 1..Len(t), j \in 1..Len(t) : i < j /\ t[i] = a /\ t[j] = b
    BY <1>2 DEF Before
  <2>1. i \in 1..Len(s) /\ s[i] = a
    BY <1>1
  <2>2. a \in ToSet(s)
    BY <2>1, ToSetMember
  <2>3. CASE j \in 1..Len(s)
    BY <1>1, <2>1, <2>3 DEF Before
  <2>4. CASE j = Len(s) + 1
    BY <1>1, <2>2, <2>4
  <2> QED BY <1>1, <2>3, <2>4
<1>3. ASSUME Before(s, a, b) PROVE Before(t, a, b)
  <2> PICK i \in 1..Len(s), j \in 1..Len(s) : i < j /\ s[i] = a /\ s[j] = b
    BY <1>3 DEF Before
  <2>1. i \in 1..Len(t) /\ j \in 1..Len(t) /\ t[i] = a /\ t[j] = b
    BY <1>1
  <2> QED BY <2>1 DEF Before
<1>4. ASSUME b = x, a \in ToSet(s) PROVE Before(t, a, b)
  <2> PICK i \in 1..Len(s) : s[i] = a
    BY <1>4, ToSetMember
  <2>1. i \in 1..Len(t) /\ Len(s) + 1 \in 1..Len(t) /\ i < Len(s) + 1 /\ t[i] = a /\ t[Len(s) + 1] = b
    BY <1>1, <1>4
  <2> QED BY <2>1 DEF Before
<1> QED BY <1>2, <1>3, <1>4 DEF t

\* pop: the head was before all others, which keep their order.
LEMMA BeforeTail ==
  ASSUME NEW T, NEW s \in Seq(T), s # << >>, NEW a, NEW b
  PROVE  /\ Before(Tail(s), a, b) => Before(s, a, b)
         /\ b \in ToSet(Tail(s)) => Before(s, Head(s), b)
<1> DEFINE t == Tail(s)
<1>1. /\ t \in Seq(T) /\ Len(t) = Len(s) - 1 /\ Len(s) \in Nat \ {0} /\ Head(s) = s[1]
      /\ \A i \in 1..Len(t) : t[i] = s[i + 1]
  OBVIOUS
<1> HIDE DEF t
<1>2. ASSUME Before(t, a, b) PROVE Before(s, a, b)
  <2> PICK i \in 1..Len(t), j \in 1..Len(t) : i < j /\ t[i] = a /\ t[j] = b
    BY <1>2 DEF Before
  <2>1. i + 1 \in 1..Len(s) /\ j + 1 \in 1..Len(s) /\ i + 1 < j + 1 /\ s[i + 1] = a /\ s[j + 1] = b
    BY <1>1
  <2> QED BY <2>1 DEF Before
<1>3. ASSUME b \in ToSet(t) PROVE Before(s, Head(s), b)
  <2> PICK j \in 1..Len(t) : t[j] = b
    BY <1>1, <1>3, ToSetMember
  <2>1. 1 \in 1..Len(s) /\ j + 1 \in 1..Len(s) /\ 1 < j + 1 /\ s[j + 1] = b
    BY <1>1
  <2> QED BY <1>1, <2>1 DEF Before
<1> QED BY <1>2, <1>3 DEF t

\* push_front: only the new element comes before others.
LEMMA BeforePushFront ==
  ASSUME NEW T, NEW s \in Seq(T), NEW x \in T, NEW a, NEW b, Before(<<x>> \o s, a, b), a # x
  PROVE  Before(s, a, b)
<1> DEFINE t == <<x>> \o s
<1>1. /\ Len(t) = Len(s) + 1 /\ Len(s) \in Nat
      /\ \A i \in 1..Len(t) : t[i] = IF i = 1 THEN x ELSE s[i - 1]
  OBVIOUS
<1>2. Before(t, a, b)
  OBVIOUS
<1> HIDE DEF t
<1> PICK i \in 1..Len(t), j \in 1..Len(t) : i < j /\ t[i] = a /\ t[j] = b
  BY <1>2 DEF Before
<1>3. i # 1 /\ j # 1
  BY <1>1
<1>4. i - 1 \in 1..Len(s) /\ j - 1 \in 1..Len(s) /\ i - 1 < j - 1 /\ s[i - 1] = a /\ s[j - 1] = b
  BY <1>1, <1>3
<1> QED BY <1>4 DEF Before

\* A write takes the first k messages; the others keep their order.
LEMMA BeforeSuffix ==
  ASSUME NEW T, NEW s \in Seq(T), NEW k \in 0..Len(s), NEW a, NEW b,
         Before(SubSeq(s, k + 1, Len(s)), a, b)
  PROVE  Before(s, a, b)
<1> DEFINE t == SubSeq(s, k + 1, Len(s))
<1>1. Len(t) = Len(s) - k /\ Len(s) \in Nat /\ \A i \in 1..Len(t) : t[i] = s[k + i]
  BY SuffixQueue
<1>2. Before(t, a, b)
  OBVIOUS
<1> HIDE DEF t
<1> PICK i \in 1..Len(t), j \in 1..Len(t) : i < j /\ t[i] = a /\ t[j] = b
  BY <1>2 DEF Before
<1>3. k + i \in 1..Len(s) /\ k + j \in 1..Len(s) /\ k + i < k + j /\ s[k + i] = a /\ s[k + j] = b
  BY <1>1
<1> QED BY <1>3 DEF Before

\* One message leaves the list; the others keep their order.
LEMMA BeforeRemoveAt ==
  ASSUME NEW T, NEW s \in Seq(T), NEW k \in 1..Len(s), NEW a, NEW b, Before(RemoveAt(s, k), a, b)
  PROVE  Before(s, a, b)
<1> DEFINE t == RemoveAt(s, k)
           at(i) == IF i < k THEN i ELSE i + 1
<1>1. Len(t) = Len(s) - 1 /\ Len(s) \in Nat /\ \A i \in 1..Len(t) : t[i] = s[at(i)]
  <2>1. Len(t) = Len(s) - 1 /\ \A i \in 1..Len(t) : t[i] = IF i < k THEN s[i] ELSE s[i + 1]
    BY RemoveAtQueue
  <2> QED BY <2>1
<1>2. Before(t, a, b)
  OBVIOUS
<1> HIDE DEF t
<1> PICK i \in 1..Len(t), j \in 1..Len(t) : i < j /\ t[i] = a /\ t[j] = b
  BY <1>2 DEF Before
<1>3. at(i) \in 1..Len(s) /\ at(j) \in 1..Len(s) /\ at(i) < at(j) /\ s[at(i)] = a /\ s[at(j)] = b
  BY <1>1
<1> QED BY <1>3 DEF Before

-----------------------------------------------------------------------------
(* From msg_chan_ through goSend's hand to msg_send_list_ *)

\* In the pipeline of the list l, the message h in goSend's hand and the channel
\* c, a comes out before b.
Ahead(l, h, c, a, b) ==
    \/ Before(l, a, b) \/ Before(c, a, b)
    \/ a \in ToSet(l) /\ (b = h \/ b \in ToSet(c))
    \/ a = h /\ b \in ToSet(c)

\* goSend takes the head of the channel, with nothing in its hand.
LEMMA AheadWait ==
  ASSUME NEW T, NEW l, NEW h, NEW c \in Seq(T), c # << >>, NEW a, NEW b,
         h # a, h # b, Ahead(l, Head(c), Tail(c), a, b)
  PROVE  Ahead(l, h, c, a, b)
<1>1. /\ Before(Tail(c), a, b) => Before(c, a, b)
      /\ b \in ToSet(Tail(c)) => Before(c, Head(c), b)
  BY BeforeTail
<1>2. ToSet(c) = ToSet(Tail(c)) \cup {Head(c)}
  BY TailQueue
<1> QED BY <1>1, <1>2 DEF Ahead

\* goSend lists the head of the channel.
LEMMA AheadPop ==
  ASSUME NEW T, NEW l \in Seq(T), NEW h, NEW c \in Seq(T), c # << >>, NEW a, NEW b,
         h # a, h # b, Ahead(Append(l, Head(c)), h, Tail(c), a, b)
  PROVE  Ahead(l, h, c, a, b)
<1> DEFINE x == Head(c)
           rest == Tail(c)
<1>1. /\ Before(rest, a, b) => Before(c, a, b)
      /\ b \in ToSet(rest) => Before(c, x, b)
  BY BeforeTail
<1>2. ToSet(c) = ToSet(rest) \cup {x} /\ x \in T
  BY TailQueue
<1>3. Before(Append(l, x), a, b) <=> Before(l, a, b) \/ (b = x /\ a \in ToSet(l))
  BY <1>2, BeforeAppend
<1>4. ToSet(Append(l, x)) = ToSet(l) \cup {x}
  BY <1>2, AppendQueue
<1>5. Ahead(Append(l, x), h, rest, a, b)
  OBVIOUS
<1> HIDE DEF x, rest
<1> QED BY <1>1, <1>2, <1>3, <1>4, <1>5 DEF Ahead

\* goSend lists what it has in its hand.
LEMMA AheadRelock ==
  ASSUME NEW T, NEW l \in Seq(T), NEW h \in T, NEW c, NEW none, NEW a, NEW b,
         none # a, none # b, Ahead(Append(l, h), none, c, a, b)
  PROVE  Ahead(l, h, c, a, b)
<1>1. Before(Append(l, h), a, b) <=> Before(l, a, b) \/ (b = h /\ a \in ToSet(l))
  BY BeforeAppend
<1>2. ToSet(Append(l, h)) = ToSet(l) \cup {h}
  BY AppendQueue
<1> QED BY <1>1, <1>2 DEF Ahead

\* The head of the channel, or what is in the hand, is dropped.
LEMMA AheadDrop ==
  ASSUME NEW T, NEW l, NEW h, NEW c \in Seq(T), NEW none, NEW a, NEW b, none # a, none # b
  PROVE  /\ c # << >> /\ Ahead(l, h, Tail(c), a, b) => Ahead(l, h, c, a, b)
         /\ Ahead(l, none, c, a, b) => Ahead(l, h, c, a, b)
<1>1. ASSUME c # << >>, Ahead(l, h, Tail(c), a, b)
      PROVE  Ahead(l, h, c, a, b)
  <2>1. Before(Tail(c), a, b) => Before(c, a, b)
    BY <1>1, BeforeTail
  <2>2. ToSet(c) = ToSet(Tail(c)) \cup {Head(c)}
    BY <1>1, TailQueue
  <2> QED BY <1>1, <2>1, <2>2 DEF Ahead
<1>2. Ahead(l, none, c, a, b) => Ahead(l, h, c, a, b)
  BY DEF Ahead
<1> QED BY <1>1, <1>2

\* Messages leave the list, and the others keep their order.
LEMMA AheadList ==
  ASSUME NEW l, NEW l2, NEW h, NEW c, NEW a, NEW b,
         Before(l2, a, b) => Before(l, a, b), a \in ToSet(l2) => a \in ToSet(l),
         Ahead(l2, h, c, a, b)
  PROVE  Ahead(l, h, c, a, b)
  BY DEF Ahead

\* What is pushed to the channel is behind everything.
LEMMA AheadPush ==
  ASSUME NEW T, NEW l, NEW h, NEW c \in Seq(T), NEW x \in T, NEW a, NEW b,
         Ahead(l, h, Append(c, x), a, b), b # x
  PROVE  Ahead(l, h, c, a, b)
<1>1. Before(Append(c, x), a, b) <=> Before(c, a, b)
  BY BeforeAppend
<1>2. ToSet(Append(c, x)) = ToSet(c) \cup {x}
  BY AppendQueue
<1> QED BY <1>1, <1>2 DEF Ahead

\* A half-sent message is put before everything.
LEMMA AheadPushFront ==
  ASSUME NEW T, NEW l \in Seq(T), NEW h, NEW c, NEW x \in T, NEW a, NEW b,
         Ahead(<<x>> \o l, h, c, a, b), a # x
  PROVE  Ahead(l, h, c, a, b)
<1>1. Before(<<x>> \o l, a, b) => Before(l, a, b)
  BY BeforePushFront
<1>2. ToSet(<<x>> \o l) = ToSet(l) \cup {x}
  BY PushFrontQueue
<1> QED BY <1>1, <1>2 DEF Ahead

-----------------------------------------------------------------------------
(* How each step moves messages *)

\* Nothing moves, but a shutdown message may be pushed.
QueueFrame ==
    /\ UNCHANGED <<msg_send_list, held, pushed>>
    /\ msg_chan' = msg_chan \/ msg_chan' = Append(msg_chan, ShutdownMsg)

\* The steps that move messages.
LEMMA QueueStep ==
  ASSUME [Next]_vars
  PROVE  \/ QueueFrame
         \/ \E m \in Msg : PushMsg(m) \/ PushFront(m)
         \/ Pop \/ Wait \/ Relock \/ Build \/ WriteSteps
         \/ \E co \in Coroutine : Drain(co) \/ Erase(co)
<1> USE DEF sendVars, chanVars
<1>1. CASE UNCHANGED vars
  BY <1>1 DEF vars, QueueFrame
<1>2. CASE Start \/ Top \/ Empty \/ WriteBlocked \/ WriteError \/ PollWritable \/ PollOther
  BY <1>2 DEF Start, Top, Empty, WriteBlocked, WriteError, PollWritable, PollOther, QueueFrame
<1>3. CASE \E co \in Coroutine : CloseStep(co)
  <2> PICK co \in Coroutine : CloseStep(co)
    BY <1>3
  <2>1. CASE TryEc(co) \/ SetEc(co) \/ Shut(co) \/ SetFlag(co) \/ OnClose(co) \/ DoneAll(co) \/ Notify(co)
    BY <2>1 DEF TryEc, SetEc, Shut, SetFlag, OnClose, DoneAll, Notify, QueueFrame
  <2> QED BY <2>1 DEF CloseStep
<1>4. CASE TestSend \/ TestRecv \/ WakeSend \/ ShutWr \/ RecvFail \/ RecvReject
  BY <1>4 DEF TestSend, TestRecv, WakeSend, ShutWr, RecvFail, RecvReject, QueueFrame
<1>5. CASE \E m \in Msg : Send(m) \/ SendNoDelay(m) \/ TimerFires(m)
  BY <1>5 DEF Send, SendNoDelay, TimerFires, QueueFrame
<1>6. ASSUME NEW m \in Msg, CallStep(m)
      PROVE  QueueFrame \/ PushMsg(m) \/ PushFront(m)
  BY <1>6 DEF CallStep, TryToken, SendFromNoDelay, DirectWrite, QueueFrame
<1>7. CASE \E c \in Closer : Shutdown(c) \/ CloserStep(c)
  BY <1>7 DEF Shutdown, CloserStep, ShutdownSetEc, ShutdownSetFlag, ShutdownBoth, ShutdownPush,
              QueueFrame
<1>8. CASE PeerFin \/ PeerRst
  BY <1>8 DEF PeerFin, PeerRst, QueueFrame
<1>9. CASE SndStep
  BY <1>2, <1>3, <1>4, <1>9 DEF SndStep, SndLoopStep, Coroutine
<1>10. CASE RcvStep
  BY <1>3, <1>4, <1>10 DEF RcvStep, Coroutine
<1> QED BY <1>1, <1>2, <1>5, <1>6, <1>7, <1>8, <1>9, <1>10 DEF Next

\* Messages come along the pipeline or leave it, and none overtakes another.
PipeKeeps ==
    /\ UNCHANGED pushed
    /\ \A a, b \in Msg :
           /\ Ahead(msg_send_list', held', msg_chan', a, b) => Ahead(msg_send_list, held, msg_chan, a, b)
           /\ Before(msg_send_list', a, b) => Before(msg_send_list, a, b) \/ b \in InChan \cup InHand
    /\ \A m \in Msg : m \in Listed' => m \in Listed \cup InChan \cup InHand

\* Messages leave the list, the others keep their order.
LEMMA ListShrinks ==
  ASSUME UNCHANGED <<pushed, held, msg_chan>>,
         \A a, b \in Msg : Before(msg_send_list', a, b) => Before(msg_send_list, a, b),
         \A m \in Msg : m \in ToSet(msg_send_list') => m \in ToSet(msg_send_list)
  PROVE  PipeKeeps
<1>1. \A a, b \in Msg : Ahead(msg_send_list', held', msg_chan', a, b)
                            => Ahead(msg_send_list, held, msg_chan, a, b)
  BY AheadList
<1> QED BY <1>1 DEF PipeKeeps, Listed

\* goSend looks at what it took from the channel, or has in its hand.
LEMMA TakePipe ==
  ASSUME Typing, MsgInv, Pop \/ Relock
  PROVE  PipeKeeps
<1> DEFINE T == Msg \cup {ShutdownMsg}
<1>0. /\ msg_chan \in Seq(T) /\ msg_send_list \in Seq(Msg) /\ msg_send_list \in Seq(T) /\ held \in T
      /\ \A m \in Msg : m # ShutdownMsg
  <2>1. msg_send_list \in Seq(Msg)
    BY DEF Typing, TypeOK, SendType
  <2>2. msg_send_list \in Seq(T)
    BY <2>1
  <2> QED BY <2>1, <2>2, ShutdownMsgAssumption DEF Typing, TypeOK, SendType, ChanType
<1>1. pc["snd"] # "relock" => held = ShutdownMsg
  BY DEF MsgInv, OnePlace
<1>2. UNCHANGED pushed
  BY DEF Pop, Relock, chanVars
<1>3. ASSUME NEW x \in Msg, Take(x), x \in InChan \cup InHand,
             msg_send_list' = Append(msg_send_list, x)
      PROVE  /\ \A a, b \in Msg :
                   Before(msg_send_list', a, b) => Before(msg_send_list, a, b) \/ b \in InChan \cup InHand
             /\ \A m \in Msg : m \in Listed' => m \in Listed \cup InChan \cup InHand
  <2>1. \A a, b : Before(msg_send_list', a, b) <=>
                    Before(msg_send_list, a, b) \/ (b = x /\ a \in ToSet(msg_send_list))
    BY <1>0, <1>3, BeforeAppend
  <2>2. ToSet(msg_send_list') = ToSet(msg_send_list) \cup {x}
    BY <1>0, <1>3, AppendQueue
  <2> QED BY <1>3, <2>1, <2>2 DEF Listed
<1>4. CASE Pop
  <2>0. pc["snd"] = "pop" /\ held' = held /\ held = ShutdownMsg
    BY <1>1, <1>4 DEF Pop
  <2>1. CASE UNCHANGED <<msg_chan, msg_send_list>>
    BY <1>2, <2>0, <2>1, ListShrinks
  <2>2. CASE msg_chan # << >> /\ msg_chan' = Tail(msg_chan) /\ Take(Head(msg_chan))
    <3> DEFINE x == Head(msg_chan)
    <3>1. x \in T /\ x \in ToSet(msg_chan)
      BY <1>0, <2>2, TailQueue
    <3>2. CASE msg_send_list' = msg_send_list
      <4>1. \A a, b \in Msg : Ahead(msg_send_list, held, Tail(msg_chan), a, b)
                                => Ahead(msg_send_list, held, msg_chan, a, b)
        BY <1>0, <2>2, AheadDrop
      <4> QED BY <1>2, <2>0, <2>2, <3>2, <4>1 DEF PipeKeeps, Listed
    <3>3. CASE x # ShutdownMsg /\ msg_send_list' = Append(msg_send_list, x)
      <4>1. \A a, b \in Msg : Ahead(Append(msg_send_list, x), held, Tail(msg_chan), a, b)
                                => Ahead(msg_send_list, held, msg_chan, a, b)
        BY <1>0, <2>0, <2>2, AheadPop
      <4>2. x \in Msg /\ x \in InChan
        BY <3>1, <3>3 DEF InChan
      <4> HIDE DEF x
      <4>3. Take(x)
        BY <2>2 DEF x
      <4> QED BY <1>2, <1>3, <2>0, <2>2, <3>3, <4>1, <4>2, <4>3 DEF PipeKeeps
    <3> QED BY <2>2, <3>2, <3>3 DEF Take
  <2> QED BY <1>4, <2>1, <2>2 DEF Pop
<1>5. CASE Relock
  <2>1. Take(held) /\ held' = ShutdownMsg /\ UNCHANGED msg_chan
    BY <1>5 DEF Relock, chanVars
  <2>2. CASE msg_send_list' = msg_send_list
    <3>1. \A a, b \in Msg : Ahead(msg_send_list, ShutdownMsg, msg_chan, a, b)
                              => Ahead(msg_send_list, held, msg_chan, a, b)
      BY <1>0, AheadDrop
    <3> QED BY <1>2, <2>1, <2>2, <3>1 DEF PipeKeeps, Listed
  <2>3. CASE held # ShutdownMsg /\ msg_send_list' = Append(msg_send_list, held)
    <3>1. \A a, b \in Msg : Ahead(Append(msg_send_list, held), ShutdownMsg, msg_chan, a, b)
                              => Ahead(msg_send_list, held, msg_chan, a, b)
      BY <1>0, AheadRelock
    <3>2. held \in Msg /\ held \in InHand
      BY <1>0, <2>3 DEF InHand
    <3> QED BY <1>2, <1>3, <2>1, <2>3, <3>1, <3>2 DEF PipeKeeps
  <2> QED BY <2>1, <2>2, <2>3 DEF Take
<1> QED BY <1>4, <1>5

\* The steps that move messages, except those of a call.
LEMMA PipeStep ==
  ASSUME Typing, MsgInv,
         \/ QueueFrame \/ Pop \/ Wait \/ Relock \/ Build \/ WriteSteps
         \/ \E co \in Coroutine : Drain(co) \/ Erase(co)
  PROVE  PipeKeeps
<1> DEFINE T == Msg \cup {ShutdownMsg}
<1>0. /\ msg_chan \in Seq(T) /\ msg_send_list \in Seq(Msg) /\ buffered \in Nat
      /\ \A m \in Msg : m # ShutdownMsg
  BY ShutdownMsgAssumption DEF Typing, TypeOK, SendType, ChanType
<1>1. CASE QueueFrame
  <2>1. ASSUME NEW a \in Msg, NEW b \in Msg, Ahead(msg_send_list', held', msg_chan', a, b)
        PROVE  Ahead(msg_send_list, held, msg_chan, a, b)
    <3>1. CASE msg_chan' = msg_chan
      BY <1>1, <2>1, <3>1 DEF QueueFrame
    <3>2. CASE msg_chan' = Append(msg_chan, ShutdownMsg)
      <4>1. Ahead(msg_send_list, held, Append(msg_chan, ShutdownMsg), a, b)
        BY <1>1, <2>1, <3>2 DEF QueueFrame
      <4> QED BY <1>0, <4>1, AheadPush
    <3> QED BY <1>1, <3>1, <3>2 DEF QueueFrame
  <2> QED BY <1>1, <2>1 DEF PipeKeeps, QueueFrame, Listed
<1>2. CASE Pop \/ Relock
  BY <1>2, TakePipe
<1>3. CASE Wait
  <2>1. /\ msg_chan # << >> /\ held' = Head(msg_chan) /\ msg_chan' = Tail(msg_chan)
        /\ UNCHANGED <<msg_send_list, pushed>> /\ pc["snd"] = "wait"
    BY <1>3 DEF Wait
  <2>2. held = ShutdownMsg
    BY <2>1 DEF MsgInv, OnePlace
  <2>3. \A a, b \in Msg : Ahead(msg_send_list, Head(msg_chan), Tail(msg_chan), a, b)
                            => Ahead(msg_send_list, held, msg_chan, a, b)
    BY <1>0, <2>1, <2>2, AheadWait
  <2> QED BY <2>1, <2>3 DEF PipeKeeps, Listed
<1>4. CASE Build
  <2> DEFINE it == buffered + 1
  <2>1. /\ UNCHANGED <<pushed, held, msg_chan>>
        /\ \/ msg_send_list' = msg_send_list
           \/ it \in 1..Len(msg_send_list) /\ msg_send_list' = RemoveAt(msg_send_list, it)
    BY <1>0, <1>4 DEF Build, EndIteration, chanVars
  <2>2. CASE msg_send_list' = msg_send_list
    BY <2>1, <2>2, ListShrinks
  <2>3. CASE it \in 1..Len(msg_send_list) /\ msg_send_list' = RemoveAt(msg_send_list, it)
    <3> HIDE DEF it
    <3>1. \A a, b : Before(msg_send_list', a, b) => Before(msg_send_list, a, b)
      BY <1>0, <2>3, BeforeRemoveAt
    <3>2. ToSet(msg_send_list) = ToSet(msg_send_list') \cup {msg_send_list[it]}
      BY <1>0, <2>3, RemoveAtQueue
    <3> QED BY <2>1, <3>1, <3>2, ListShrinks
  <2> QED BY <2>1, <2>2, <2>3
<1>5. CASE WriteSteps
  <2> PICK k \in 0..buffered : \E r \in PartAfter(k) : WriteSome(k, r)
    BY <1>5 DEF WriteSteps
  <2> PICK r \in PartAfter(k) : WriteSome(k, r)
    OBVIOUS
  <2>1. /\ msg_send_list' = SubSeq(msg_send_list, k + 1, Len(msg_send_list))
        /\ UNCHANGED <<pushed, held, msg_chan>> /\ pc["snd"] = "write"
    BY DEF WriteSome, Unsent, chanVars
  <2>2. k \in 0..Len(msg_send_list)
    BY <1>0, <2>1 DEF Typing, SendInv
  <2>3. \A a, b : Before(msg_send_list', a, b) => Before(msg_send_list, a, b)
    BY <1>0, <2>1, <2>2, BeforeSuffix
  <2>4. \A m : m \in ToSet(msg_send_list') => m \in ToSet(msg_send_list)
    BY <1>0, <2>1, <2>2, SuffixQueue
  <2> QED BY <2>1, <2>3, <2>4, ListShrinks
<1>6. ASSUME NEW co \in Coroutine, Drain(co)
      PROVE  PipeKeeps
  <2>1. UNCHANGED <<pushed, held, msg_send_list>>
    BY <1>6 DEF Drain, sendVars
  <2>2. CASE msg_chan' = msg_chan
    BY <2>1, <2>2, ListShrinks
  <2>3. CASE msg_chan # << >> /\ msg_chan' = Tail(msg_chan)
    <3>1. \A a, b \in Msg : Ahead(msg_send_list, held, Tail(msg_chan), a, b)
                              => Ahead(msg_send_list, held, msg_chan, a, b)
      BY <1>0, <2>3, AheadDrop
    <3> QED BY <2>1, <2>3, <3>1 DEF PipeKeeps, Listed
  <2> QED BY <1>6, <2>2, <2>3 DEF Drain
<1>7. ASSUME NEW co \in Coroutine, Erase(co)
      PROVE  PipeKeeps
  <2>1. UNCHANGED <<pushed, held, msg_chan>> /\ msg_send_list' = << >>
    BY <1>7 DEF Erase, chanVars
  <2>2. \A a, b : ~Before(<< >>, a, b)
    BY DEF Before
  <2>3. ToSet(<< >>) = {}
    BY OneCode DEF Ec
  <2> QED BY <2>1, <2>2, <2>3, ListShrinks
<1> QED BY <1>1, <1>2, <1>3, <1>4, <1>5, <1>6, <1>7

-----------------------------------------------------------------------------
(* The channel is first in, first out *)

\* A message pushed later never comes to lie before one pushed earlier.
OrderInv ==
    \A a, b \in Msg : Before(pushed, a, b) => ~Ahead(msg_send_list, held, msg_chan, b, a)

\* Until goSend has shut down, a queued message is sent or times out.
PushedCodes ==
    SndActive => \A m \in ToSet(pushed) : \A ec \in ToSet(cbs[m]) : ec \in {"ok", "timeout"}

\* ChannelFifo, message by message.
SentInOrder ==
    \A a, b \in Msg :
        Before(pushed, a, b) /\ pos[b] > 0 => pos[a] = Size[a] \/ "timeout" \in ToSet(cbs[a])

FifoInv == Once(pushed, Msg) /\ OrderInv /\ PushedCodes /\ SentInOrder

\* A pushed message is no call's that has yet to push it.
LEMMA PushedReturned ==
  ASSUME Typing, MsgInv, NEW m \in Msg, call[m] # "returned"
  PROVE  m \notin ToSet(pushed) /\ m \notin Queued /\ cbs[m] = << >>
  BY DEF MsgInv, FreshCalls

\* The order of the pipeline is kept, and a message is pushed once.
LEMMA OrderNext ==
  ASSUME Typing, MsgInv, FifoInv, [Next]_vars
  PROVE  Once(pushed', Msg) /\ OrderInv'
<1> DEFINE T == Msg \cup {ShutdownMsg}
<1>0. /\ msg_chan \in Seq(T) /\ msg_send_list \in Seq(Msg) /\ pushed \in Seq(Msg)
      /\ \A m \in Msg : m # ShutdownMsg
  BY ShutdownMsgAssumption DEF Typing, TypeOK, SendType, ChanType
<1>1. CASE PipeKeeps
  BY <1>1 DEF PipeKeeps, OrderInv, FifoInv
<1>2. ASSUME NEW m \in Msg, PushMsg(m)
      PROVE  Once(pushed', Msg) /\ OrderInv'
  <2>1. /\ call[m] # "returned" /\ pushed' = Append(pushed, m) /\ msg_chan' = Append(msg_chan, m)
        /\ UNCHANGED <<msg_send_list, held>>
    BY <1>2 DEF PushMsg
  <2>2. m \notin ToSet(pushed) /\ m \notin Queued
    BY <2>1, PushedReturned
  <2>3. Once(pushed', Msg)
    BY <1>0, <2>1, <2>2, AppendQueue DEF FifoInv
  <2>4. ASSUME NEW a \in Msg, NEW b \in Msg, Before(pushed', a, b),
               Ahead(msg_send_list', held', msg_chan', b, a)
        PROVE  FALSE
    <3>1. Before(pushed, a, b) \/ (b = m /\ a \in ToSet(pushed))
      BY <1>0, <2>1, <2>4, BeforeAppend
    <3>2. a # m
      BY <1>0, <2>2, <3>1, BeforeMembers
    <3>3. Ahead(msg_send_list, held, msg_chan, b, a)
      <4>1. Ahead(msg_send_list, held, Append(msg_chan, m), b, a)
        BY <2>1, <2>4
      <4>2. msg_chan \in Seq(T) /\ m \in T
        BY <1>0
      <4> HIDE DEF T
      <4> QED BY <3>2, <4>1, <4>2, AheadPush
    <3>4. CASE Before(pushed, a, b)
      BY <3>3, <3>4 DEF FifoInv, OrderInv
    <3>5. CASE b = m
      <4>1. Before(msg_send_list, m, a) => m \in ToSet(msg_send_list)
        BY <1>0, BeforeMembers
      <4>2. Before(msg_chan, m, a) => m \in ToSet(msg_chan)
        BY <1>0, BeforeMembers
      <4>3. m \in ToSet(msg_send_list) \/ m \in ToSet(msg_chan) \/ m = held
        BY <3>3, <3>5, <4>1, <4>2 DEF Ahead
      <4> QED BY <2>2, <4>3 DEF Queued, Listed, InChan, InHand
    <3> QED BY <3>1, <3>4, <3>5
  <2> QED BY <2>3, <2>4 DEF OrderInv
<1>3. ASSUME NEW m \in Msg, PushFront(m)
      PROVE  Once(pushed', Msg) /\ OrderInv'
  <2>1. /\ call[m] # "returned" /\ msg_send_list' = <<m>> \o msg_send_list
        /\ UNCHANGED <<pushed, held, msg_chan>>
    BY <1>3 DEF PushFront, chanVars
  <2>2. m \notin ToSet(pushed)
    BY <2>1, PushedReturned
  <2>3. ASSUME NEW a \in Msg, NEW b \in Msg, Before(pushed, a, b),
               Ahead(msg_send_list', held', msg_chan', b, a)
        PROVE  FALSE
    <3>1. b # m
      BY <1>0, <2>2, <2>3, BeforeMembers
    <3>2. Ahead(<<m>> \o msg_send_list, held, msg_chan, b, a)
      BY <2>1, <2>3
    <3>3. Ahead(msg_send_list, held, msg_chan, b, a)
      BY <1>0, <3>1, <3>2, AheadPushFront
    <3> QED BY <2>3, <3>3 DEF FifoInv, OrderInv
  <2> QED BY <2>1, <2>3 DEF OrderInv, FifoInv
<1> QED BY <1>1, <1>2, <1>3, QueueStep, PipeStep

\* Who tells a SndCb what.
LEMMA CallbackStep ==
  ASSUME Typing, MsgInv, [Next]_vars
  PROVE  \/ UNCHANGED cbs
         \/ \E m \in Msg : call[m] # "returned" /\ \E ec \in Ec : CallCb(m, ec)
         \/ \E S : \E ec \in {"ok", "timeout"} : Done(S, ec)
         \/ ~SndActive /\ \E S : Done(S, "shutdown")
<1> USE DEF msgVars
<1>1. CASE UNCHANGED vars
  BY <1>1 DEF vars
<1>2. CASE Start \/ Top \/ Empty \/ Wait \/ WriteBlocked \/ WriteError \/ PollWritable \/ PollOther
  BY <1>2 DEF Start, Top, Empty, Wait, WriteBlocked, WriteError, PollWritable, PollOther
<1>3. ASSUME NEW x, Take(x)
      PROVE  UNCHANGED cbs \/ Done({x}, "timeout")
  BY <1>3 DEF Take
<1>4. CASE Pop \/ Relock \/ Build
  <2>1. UNCHANGED cbs \/ \E S : Done(S, "timeout")
    BY <1>3, <1>4 DEF Pop, Relock, Build
  <2> QED BY <2>1
<1>5. CASE WriteSteps
  BY <1>5 DEF WriteSteps, WriteSome
<1>6. ASSUME NEW co \in Coroutine, CloseStep(co)
      PROVE  UNCHANGED cbs \/ (~SndActive /\ \E S : Done(S, "shutdown"))
  <2>1. CASE TryEc(co) \/ SetEc(co) \/ Shut(co) \/ SetFlag(co) \/ OnClose(co) \/ Erase(co) \/ Notify(co)
    BY <2>1 DEF TryEc, SetEc, Shut, SetFlag, OnClose, Erase, Notify
  <2>2. CASE Drain(co) \/ DoneAll(co)
    <3>1. pc[co] \in Closing /\ (UNCHANGED cbs \/ \E S : Done(S, "shutdown"))
      BY <2>2 DEF Drain, DoneAll, Closing
    <3> QED BY <3>1, AloneInOnClose
  <2> QED BY <1>6, <2>1, <2>2 DEF CloseStep
<1>7. CASE TestSend \/ TestRecv \/ WakeSend \/ ShutWr \/ RecvFail \/ RecvReject
  BY <1>7 DEF TestSend, TestRecv, WakeSend, ShutWr, RecvFail, RecvReject
<1>8. ASSUME NEW m \in Msg, Send(m) \/ SendNoDelay(m) \/ CallStep(m)
      PROVE  UNCHANGED cbs \/ (call[m] # "returned" /\ \E ec \in Ec : CallCb(m, ec))
  <2>1. CASE Send(m) \/ SendNoDelay(m) \/ SendFromNoDelay(m)
    BY <2>1 DEF Send, SendNoDelay, SendFromNoDelay, Accept, Ec
  <2>2. CASE TryToken(m) \/ PushMsg(m) \/ PushFront(m)
    BY <2>2 DEF TryToken, PushMsg, PushFront, NewMsg
  <2>3. CASE \E n \in 0..Size[m] : DirectWrite(m, n)
    BY <2>3 DEF DirectWrite, Ec
  <2> QED BY <1>8, <2>1, <2>2, <2>3 DEF CallStep
<1>9. CASE \/ \E m \in Msg : TimerFires(m)
           \/ \E c \in Closer : Shutdown(c) \/ CloserStep(c)
           \/ PeerFin \/ PeerRst
  BY <1>9 DEF TimerFires, Shutdown, CloserStep, ShutdownSetEc, ShutdownSetFlag, ShutdownBoth,
              ShutdownPush, PeerFin, PeerRst
<1>10. CASE SndStep
  BY <1>2, <1>4, <1>5, <1>6, <1>7, <1>10 DEF SndStep, SndLoopStep, Coroutine
<1>11. CASE RcvStep
  BY <1>6, <1>7, <1>11 DEF RcvStep, Coroutine
<1> QED BY <1>1, <1>2, <1>8, <1>9, <1>10, <1>11 DEF Next

\* What a step tells the SndCb of a pushed message.
LEMMA PushedTold ==
  ASSUME Typing, MsgInv, [Next]_vars, NEW m \in ToSet(pushed)
  PROVE  /\ m \in Msg /\ call[m] = "returned"
         /\ \/ cbs'[m] = cbs[m]
            \/ /\ cbs[m] = << >>
               /\ \E ec \in Ec : cbs'[m] = <<ec>> /\ (SndActive => ec \in {"ok", "timeout"})
<1>0. pushed \in Seq(Msg) /\ cbs \in [Msg -> Seq(Ec)]
  BY DEF Typing, TypeOK, ChanType, MsgType
<1>1. m \in Msg
  BY <1>0, ToSetMember
<1>2. call[m] = "returned"
  BY <1>1, PushedReturned
<1>3. CASE UNCHANGED cbs
  BY <1>1, <1>2, <1>3
<1>4. CASE \E x \in Msg : call[x] # "returned" /\ \E ec \in Ec : CallCb(x, ec)
  BY <1>0, <1>1, <1>2, <1>4 DEF CallCb
<1>5. ASSUME NEW S, NEW ec \in Ec, Done(S, ec), SndActive => ec \in {"ok", "timeout"}
      PROVE  \/ cbs'[m] = cbs[m]
             \/ /\ cbs[m] = << >>
                /\ \E e \in Ec : cbs'[m] = <<e>> /\ (SndActive => e \in {"ok", "timeout"})
  <2>1. Tells(S, ec)
    BY <1>5, DoneTells
  <2> QED BY <1>1, <1>5, <2>1, TellsOnce
<1>6. CASE \E S : \E ec \in {"ok", "timeout"} : Done(S, ec)
  BY <1>1, <1>2, <1>5, <1>6 DEF Ec
<1>7. CASE ~SndActive /\ \E S : Done(S, "shutdown")
  BY <1>1, <1>2, <1>5, <1>7 DEF Ec
<1> QED BY <1>3, <1>4, <1>6, <1>7, CallbackStep

\* The steps that write bytes.
LEMMA ByteStep ==
  ASSUME [Next]_vars
  PROVE  \/ UNCHANGED byteVars
         \/ WriteSteps
         \/ \E m \in Msg : \E n \in 0..Size[m] : DirectWrite(m, n)
<1>1. CASE UNCHANGED vars
  BY <1>1 DEF vars
<1>2. CASE \/ Start \/ Top \/ Pop \/ Empty \/ Wait \/ Relock \/ Build \/ WriteBlocked \/ WriteError
           \/ PollWritable \/ PollOther
  BY <1>2 DEF Start, Top, Pop, Empty, Wait, Relock, Build, WriteBlocked, WriteError, PollWritable,
              PollOther
<1>3. CASE \E co \in Coroutine : CloseStep(co)
  BY <1>3 DEF CloseStep, TryEc, SetEc, Shut, SetFlag, OnClose, Drain, DoneAll, Erase, Notify
<1>4. CASE TestSend \/ TestRecv \/ WakeSend \/ ShutWr \/ RecvFail \/ RecvReject
  BY <1>4 DEF TestSend, TestRecv, WakeSend, ShutWr, RecvFail, RecvReject
<1>5. CASE \E m \in Msg : Send(m) \/ SendNoDelay(m) \/ TimerFires(m)
  BY <1>5 DEF Send, SendNoDelay, TimerFires
<1>6. CASE \E m \in Msg : CallStep(m)
  BY <1>6 DEF CallStep, TryToken, SendFromNoDelay, PushMsg, PushFront
<1>7. CASE (\E c \in Closer : Shutdown(c) \/ CloserStep(c)) \/ PeerFin \/ PeerRst
  BY <1>7 DEF Shutdown, CloserStep, ShutdownSetEc, ShutdownSetFlag, ShutdownBoth, ShutdownPush,
              PeerFin, PeerRst
<1>8. CASE SndStep
  BY <1>2, <1>3, <1>4, <1>8 DEF SndStep, SndLoopStep, Coroutine
<1>9. CASE RcvStep
  BY <1>3, <1>4, <1>9 DEF RcvStep, Coroutine
<1> QED BY <1>1, <1>2, <1>5, <1>6, <1>7, <1>8, <1>9 DEF Next

\* Bytes of a pushed message are written by goSend only.
LEMMA PushedBytes ==
  ASSUME Typing, MsgInv, [Next]_vars, ~WriteSteps, NEW m \in ToSet(pushed)
  PROVE  pos'[m] = pos[m]
<1>0. pos \in [Msg -> Nat] /\ m \in Msg /\ call[m] = "returned"
  BY PushedTold DEF Typing, TypeOK, ByteType
<1>1. CASE UNCHANGED byteVars
  BY <1>1 DEF byteVars
<1>2. CASE \E x \in Msg : \E n \in 0..Size[x] : DirectWrite(x, n)
  BY <1>0, <1>2 DEF DirectWrite
<1> QED BY <1>1, <1>2, ByteStep

\* A message goSend writes a byte of has no message before it that is still
\* waiting: the list is written from its head.
LEMMA WriteInOrder ==
  ASSUME Typing, MsgInv, FifoInv, [Next]_vars, WriteSteps, NEW a \in Msg, NEW b \in Msg,
         Before(pushed, a, b), pos'[b] > 0
  PROVE  pos'[a] = Size[a] \/ "timeout" \in ToSet(cbs'[a])
<1> PICK k \in 0..buffered : \E r \in PartAfter(k) : WriteSome(k, r)
  BY DEF WriteSteps
<1> PICK r \in PartAfter(k) : WriteSome(k, r)
  OBVIOUS
<1> DEFINE S == Sent(k, r)
           next == msg_send_list[k + 1]
<1>0. /\ pushed \in Seq(Msg) /\ msg_send_list \in Seq(Msg) /\ pos \in [Msg -> Nat]
      /\ Size \in [Msg -> Nat] /\ buffered \in Nat /\ cbs \in [Msg -> Seq(Ec)]
  BY SizeAssumption DEF Typing, TypeOK, ChanType, SendType, ByteType, MsgType
<1>1. /\ S = {msg_send_list[i] : i \in 1..k} /\ pc["snd"] = "write"
      /\ SndActive /\ ~closed
  <2>1. S = {msg_send_list[i] : i \in 1..k} /\ pc["snd"] = "write"
    BY DEF WriteSome, Sent
  <2>2. SndActive
    BY <2>1 DEF SndActive, SndFlagged
  <2> QED BY <2>1, <2>2, ActiveNotClosed
<1>2. k \in 0..Len(msg_send_list) /\ (r > 0 => k + 1 \in 1..Len(msg_send_list)) /\ r \in Nat
  <2>1. buffered <= Len(msg_send_list)
    BY <1>1 DEF Typing, SendInv
  <2>2. r > 0 => k < buffered
    BY DEF PartAfter
  <2>3. r \in Nat
    BY WriteMoves
  <2>4. Len(msg_send_list) \in Nat
    BY <1>0
  <2>5. k \in 0..Len(msg_send_list)
    BY <1>0, <2>1, <2>4
  <2>6. r > 0 => k + 1 \in 1..Len(msg_send_list)
    BY <1>0, <2>1, <2>2, <2>4
  <2> QED BY <2>3, <2>5, <2>6
<1>3. \A m \in Msg : /\ m \in S => pos'[m] = Size[m]
                     /\ m \notin S /\ ~(r > 0 /\ m = next) => pos'[m] = pos[m]
  BY WriteMoves
<1>4. a \in ToSet(pushed) /\ b \in ToSet(pushed) /\ a # b
  <2>1. a \in ToSet(pushed) /\ b \in ToSet(pushed)
    BY <1>0, BeforeMembers
  <2>2. a # b
    <3>1. PICK i \in 1..Len(pushed), j \in 1..Len(pushed) : i < j /\ pushed[i] = a /\ pushed[j] = b
      BY DEF Before
    <3>2. i # j
      BY <1>0, <3>1
    <3> QED BY <3>1, <3>2 DEF Once, FifoInv
  <2> QED BY <2>1, <2>2
<1>5. \/ cbs'[a] = cbs[a]
      \/ cbs[a] = << >>
  BY <1>4, PushedTold
<1>6. CASE b \notin S /\ ~(r > 0 /\ b = next)
  <2>1. pos[b] > 0
    BY <1>3, <1>6
  <2>2. pos[a] = Size[a] \/ "timeout" \in ToSet(cbs[a])
    BY <2>1 DEF FifoInv, SentInOrder
  <2>3. CASE pos[a] = Size[a]
    <3>1. a \notin Queued
      BY <1>1, <2>3, <1>0 DEF MsgInv, BytesInv
    <3>2. a \notin S /\ ~(r > 0 /\ a = next)
      <4>1. S \subseteq Listed /\ Listed' = Listed \ S /\ (r > 0 => next \in Listed')
        BY WriteMoves
      <4> QED BY <3>1, <4>1 DEF Queued
    <3> QED BY <1>3, <2>3, <3>2
  <2>4. CASE "timeout" \in ToSet(cbs[a])
    <3>1. cbs[a] # << >>
      BY <2>4, OneCode DEF Ec
    <3> QED BY <1>5, <2>4, <3>1
  <2> QED BY <2>2, <2>3, <2>4
<1>7. CASE b \in S \/ (r > 0 /\ b = next)
  <2>1. PICK q \in 1..Len(msg_send_list) : msg_send_list[q] = b /\ q <= k + 1
    BY <1>1, <1>2, <1>7
  <2>2. b \in ToSet(msg_send_list)
    BY <1>0, <2>1, ToSetMember
  <2>3. ~Ahead(msg_send_list, held, msg_chan, b, a)
    BY DEF FifoInv, OrderInv
  <2>4. CASE a \in Queued
    <3>1. a \in ToSet(msg_send_list)
      BY <2>2, <2>3, <2>4 DEF Ahead, Queued, Listed, InChan, InHand
    <3>2. PICK p \in 1..Len(msg_send_list) : msg_send_list[p] = a
      BY <1>0, <3>1, ToSetMember
    <3>3. ~(q < p)
      BY <2>1, <2>3, <3>2 DEF Ahead, Before
    <3>4. p \in 1..k
      BY <1>2, <1>4, <2>1, <3>2, <3>3
    <3> QED BY <1>1, <1>3, <3>2, <3>4
  <2>5. CASE a \notin Queued
    <3>1. call[a] = "returned"
      BY <1>4, PushedTold
    <3>2. cbs[a] # << >>
      BY <1>1, <2>5, <3>1 DEF MsgInv, NothingLost
    <3>3. cbs'[a] = cbs[a]
      BY <1>5, <3>2
    <3>4. PICK ec \in ToSet(cbs[a]) : TRUE
      <4>1. cbs[a] \in Seq(Ec) /\ 1 \in 1..Len(cbs[a])
        BY <1>0, <3>2
      <4>2. cbs[a][1] \in ToSet(cbs[a])
        BY <4>1, ToSetMember
      <4> QED BY <4>2
    <3>5. ec \in {"ok", "timeout"}
      BY <1>1, <1>4 DEF FifoInv, PushedCodes
    <3>6. CASE ec = "timeout"
      BY <3>3, <3>6
    <3>7. CASE ec = "ok"
      <4>1. pos[a] = Size[a]
        BY <3>7 DEF MsgInv, CallbackTellsTruth
      <4>2. a \notin S /\ ~(r > 0 /\ a = next)
        <5>1. S \subseteq Listed /\ Listed' = Listed \ S /\ (r > 0 => next \in Listed')
          BY WriteMoves
        <5> QED BY <2>5, <5>1 DEF Queued
      <4> QED BY <1>3, <4>1, <4>2
    <3> QED BY <3>5, <3>6, <3>7
  <2> QED BY <2>4, <2>5
<1> QED BY <1>6, <1>7

\* send_shutdown_ is never cleared.
LEMMA ActiveBefore ==
  ASSUME Typing, [Next]_vars, SndActive'
  PROVE  SndActive
<1>0. CloseTyping /\ CloseInv /\ CloseInv'
  BY CloseNext DEF Typing, TypeOK, ControlType, CloseTyping
<1>1. send_shutdown => send_shutdown'
  <2>1. CASE UNCHANGED vars
    BY <2>1 DEF vars, flagVars
  <2>2. CASE SndLoopStep \/ Start
    BY <1>0, <2>2, LoopMoves DEF flagVars
  <2>3. CASE \E co \in Coroutine : CloseStep(co)
    BY <2>3 DEF CloseStep, TryEc, SetEc, Shut, SetFlag, OnClose, Drain, DoneAll, Erase, Notify, flagVars
  <2>4. CASE TestSend \/ TestRecv \/ WakeSend \/ ShutWr \/ RecvFail \/ RecvReject
    BY <2>4 DEF TestSend, TestRecv, WakeSend, ShutWr, RecvFail, RecvReject, flagVars
  <2>5. CASE \/ \E m \in Msg : Send(m) \/ SendNoDelay(m) \/ CallStep(m) \/ TimerFires(m)
             \/ \E c \in Closer : Shutdown(c) \/ CloserStep(c)
             \/ PeerFin \/ PeerRst
    BY <1>0, <2>5, OthersKeepAway
  <2> QED BY <2>1, <2>2, <2>3, <2>4, <2>5 DEF Next, SndStep, RcvStep, Coroutine
<1> QED BY <1>0, <1>1 DEF CloseInv, SndActive

\* Every step keeps the order.
LEMMA FifoNext ==
  ASSUME Typing, MsgInv, FifoInv, [Next]_vars
  PROVE  FifoInv'
<1>0. pushed \in Seq(Msg) /\ pos \in [Msg -> Nat] /\ cbs \in [Msg -> Seq(Ec)]
  BY DEF Typing, TypeOK, ChanType, ByteType, MsgType
<1>1. \/ UNCHANGED pushed
      \/ \E m \in Msg : PushMsg(m)
  <2>1. CASE \E m \in Msg : PushFront(m)
    BY <2>1 DEF PushFront, chanVars
  <2> QED BY <2>1, QueueStep, PipeStep DEF PipeKeeps
<1>2. ASSUME NEW m \in Msg, PushMsg(m)
      PROVE  /\ m \notin ToSet(pushed) /\ pushed' = Append(pushed, m) /\ UNCHANGED <<cbs, pos>>
             /\ cbs[m] = << >> /\ pos[m] = 0
             /\ ToSet(pushed') = ToSet(pushed) \cup {m}
  <2>1. /\ call[m] \in {"push", "push_token"} /\ pushed' = Append(pushed, m)
        /\ UNCHANGED <<cbs, pos>>
    BY <1>2 DEF PushMsg, NewMsg, byteVars
  <2>2. ToSet(Append(pushed, m)) = ToSet(pushed) \cup {m}
    BY <1>0, AppendQueue
  <2>3. m \notin ToSet(pushed) /\ cbs[m] = << >> /\ pos[m] = 0
    BY <2>1 DEF MsgInv, FreshCalls
  <2> QED BY <2>1, <2>2, <2>3
<1>3. Once(pushed', Msg) /\ OrderInv'
  BY OrderNext
<1>4. PushedCodes'
  <2> SUFFICES ASSUME SndActive', NEW m \in ToSet(pushed'), NEW ec \in ToSet(cbs'[m])
               PROVE  ec \in {"ok", "timeout"}
    BY DEF PushedCodes
  <2>1. SndActive
    BY ActiveBefore
  <2>2. ASSUME m \in ToSet(pushed) PROVE ec \in {"ok", "timeout"}
    <3>1. CASE cbs'[m] = cbs[m]
      BY <2>1, <2>2, <3>1 DEF FifoInv, PushedCodes
    <3>2. ASSUME NEW e \in Ec, cbs'[m] = <<e>>, e \in {"ok", "timeout"}
          PROVE  ec \in {"ok", "timeout"}
      BY <3>2, OneCode
    <3> QED BY <2>1, <2>2, <3>1, <3>2, PushedTold
  <2>3. ASSUME NEW x \in Msg, PushMsg(x), m = x PROVE FALSE
    BY <1>2, <2>3, OneCode DEF Ec
  <2> QED BY <1>1, <1>2, <2>2, <2>3
<1>5. SentInOrder'
  <2> SUFFICES ASSUME NEW a \in Msg, NEW b \in Msg, Before(pushed', a, b), pos'[b] > 0
               PROVE  pos'[a] = Size[a] \/ "timeout" \in ToSet(cbs'[a])
    BY DEF SentInOrder
  <2>1. Before(pushed, a, b)
    <3>1. ASSUME NEW m \in Msg, PushMsg(m), b = m PROVE FALSE
      BY <1>2, <3>1
    <3>2. ASSUME NEW m \in Msg, PushMsg(m), b # m PROVE Before(pushed, a, b)
      <4>1. Before(Append(pushed, m), a, b)
        BY <1>2, <3>2
      <4> QED BY <1>0, <3>2, <4>1, BeforeAppend
    <3> QED BY <1>1, <3>1, <3>2
  <2>2. CASE WriteSteps
    BY <2>1, <2>2, WriteInOrder
  <2>3. CASE ~WriteSteps
    <3>1. a \in ToSet(pushed) /\ b \in ToSet(pushed)
      BY <1>0, <2>1, BeforeMembers
    <3>2. pos'[a] = pos[a] /\ pos'[b] = pos[b]
      BY <2>3, <3>1, PushedBytes
    <3>3. "timeout" \in ToSet(cbs[a]) => cbs[a] # << >>
      BY OneCode DEF Ec
    <3>4. cbs'[a] = cbs[a] \/ cbs[a] = << >>
      BY <3>1, PushedTold
    <3> QED BY <2>1, <3>2, <3>3, <3>4 DEF FifoInv, SentInOrder
  <2> QED BY <2>2, <2>3
<1> QED BY <1>3, <1>4, <1>5 DEF FifoInv

\* Nothing has been pushed yet.
LEMMA FifoInit == Init => FifoInv
<1> SUFFICES ASSUME Init PROVE FifoInv
  OBVIOUS
<1>1. pushed = << >>
  BY DEF Init
<1>2. ToSet(<< >>) = {} /\ \A a, b : ~Before(<< >>, a, b)
  BY OneCode DEF Ec, Before
<1> QED BY <1>1, <1>2 DEF FifoInv, Once, OrderInv, PushedCodes, SentInOrder

\* Messages leave in the order Send queued them, whatever SendNoDelay, timers
\* and partial writes do in between.
THEOREM SendsInOrder == Spec => []ChannelFifo
<1>1. Typing /\ MsgInv /\ FifoInv /\ [Next]_vars => (Typing /\ MsgInv /\ FifoInv)'
  BY TypeNext, MsgNext, FifoNext
<1>2. Typing /\ MsgInv /\ FifoInv => ChannelFifo
  <2> SUFFICES ASSUME Typing, FifoInv, NEW i \in 1..Len(pushed), NEW j \in 1..Len(pushed), i < j,
                      pos[pushed[j]] > 0
               PROVE  pos[pushed[i]] = Size[pushed[i]] \/ "timeout" \in ToSet(cbs[pushed[i]])
    BY DEF ChannelFifo
  <2>1. pushed[i] \in Msg /\ pushed[j] \in Msg
    BY DEF Typing, TypeOK, ChanType
  <2>2. Before(pushed, pushed[i], pushed[j])
    BY DEF Before
  <2> QED BY <2>1, <2>2 DEF FifoInv, SentInOrder
<1> QED BY TypeInit, MsgInit, FifoInit, <1>1, <1>2, PTL DEF Spec

-----------------------------------------------------------------------------
(* The send token *)

\* The calls that hold the token.
Holding == {"token", "half", "push_token"}

\* One call at most, or goSend, writes and looks at msg_send_list_ at a time.
TokenInv ==
    /\ \A m \in Msg : call[m] \in Holding => send_mtx = "user"
    /\ \A m, x \in Msg : call[m] \in Holding /\ call[x] \in Holding => m = x
    /\ pc["snd"] \in {"pop", "empty", "build", "write", "poll"} => send_mtx = "snd"

\* goSend locks and unlocks the token.
LEMMA LoopToken ==
  ASSUME Typing, TokenInv, SndLoopStep \/ Start
  PROVE  TokenInv'
<1>0. pc \in [Coroutine -> CoPc] /\ "snd" \in Coroutine
  BY DEF Typing, TypeOK, ControlType, Coroutine
<1> USE DEF Goto, EndIteration, sendVars
<1>1. CASE Start
  BY <1>0, <1>1 DEF Start, TokenInv
<1>2. CASE Top \/ Empty
  BY <1>0, <1>2 DEF Top, Empty, TokenInv
<1>3. CASE Pop
  BY <1>0, <1>3 DEF Pop, Take, TokenInv
<1>4. CASE Wait
  BY <1>0, <1>4 DEF Wait, TokenInv
<1>5. CASE Relock
  BY <1>0, <1>5 DEF Relock, Take, TokenInv
<1>6. CASE Build
  <2>1. /\ pc["snd"] = "build" /\ UNCHANGED call
        /\ UNCHANGED send_mtx \/ (send_mtx' = "free" /\ pc'["snd"] = "top")
    BY <1>0, <1>6 DEF Build
  <2> QED BY <2>1 DEF TokenInv, Holding
<1>7. CASE WriteSteps
  <2>1. pc["snd"] = "write" /\ UNCHANGED call /\ send_mtx' = "free" /\ pc'["snd"] = "top"
    BY <1>0, <1>7 DEF WriteSteps, WriteSome
  <2> QED BY <2>1 DEF TokenInv, Holding
<1>8. CASE WriteBlocked \/ PollOther
  <2>1. /\ pc["snd"] \in {"write", "poll"} /\ UNCHANGED call
        /\ UNCHANGED send_mtx \/ (send_mtx' = "free" /\ pc'["snd"] = "top")
    BY <1>0, <1>8 DEF WriteBlocked, PollOther
  <2> QED BY <2>1 DEF TokenInv, Holding
<1>9. CASE WriteError \/ PollWritable
  BY <1>0, <1>9 DEF WriteError, PollWritable, TokenInv
<1> QED BY <1>1, <1>2, <1>3, <1>4, <1>5, <1>6, <1>7, <1>8, <1>9 DEF SndLoopStep

\* SendNoDelay takes the token only when it is free, and gives back what it took.
LEMMA CallToken ==
  ASSUME Typing, MsgInv, TokenInv, NEW m \in Msg, Send(m) \/ SendNoDelay(m) \/ CallStep(m)
  PROVE  TokenInv'
<1>0. call \in [Msg -> CallPc]
  BY DEF Typing, TypeOK, ControlType
<1> USE DEF GotoCall, sendVars, Holding
<1>1. CASE Send(m) \/ SendNoDelay(m)
  <2>1. /\ UNCHANGED <<pc, send_mtx>> /\ call[m] = "idle"
        /\ \E to \in {"push", "try", "returned"} : call' = [call EXCEPT ![m] = to]
    BY <1>1 DEF Send, SendNoDelay, Accept
  <2> QED BY <1>0, <2>1 DEF TokenInv
<1>2. CASE TryToken(m)
  BY <1>0, <1>2 DEF TryToken, TokenInv
<1>3. CASE SendFromNoDelay(m)
  <2>1. Size[m] > 0
    BY <1>3 DEF SendFromNoDelay, MsgInv, FreshCalls
  <2>2. /\ UNCHANGED pc
        /\ \/ /\ call[m] = "send" /\ UNCHANGED send_mtx
              /\ \E to \in {"push", "returned"} : call' = [call EXCEPT ![m] = to]
           \/ call[m] = "token" /\ send_mtx' = "free" /\ call' = [call EXCEPT ![m] = "returned"]
           \/ call[m] = "token" /\ send_mtx' = "user" /\ call' = [call EXCEPT ![m] = "push_token"]
    BY <1>3, <2>1, SizeAssumption DEF SendFromNoDelay, Accept
  <2> QED BY <1>0, <2>2 DEF TokenInv
<1>4. CASE PushMsg(m)
  BY <1>0, <1>4 DEF PushMsg, TokenInv
<1>5. CASE PushFront(m)
  BY <1>0, <1>5 DEF PushFront, TokenInv
<1>6. ASSUME NEW n \in 0..Size[m], DirectWrite(m, n)
      PROVE  TokenInv'
  <2>1. /\ UNCHANGED pc /\ call[m] = "token"
        /\ \/ /\ send_mtx' = "free"
              /\ \E to \in {"send", "returned"} : call' = [call EXCEPT ![m] = to]
           \/ UNCHANGED send_mtx /\ call' = [call EXCEPT ![m] = "half"]
    BY <1>6 DEF DirectWrite
  <2> QED BY <1>0, <2>1 DEF TokenInv
<1> QED BY <1>1, <1>2, <1>3, <1>4, <1>5, <1>6 DEF CallStep

\* Every step keeps the token's holders apart.
LEMMA TokenNext ==
  ASSUME Typing, MsgInv, TokenInv, [Next]_vars
  PROVE  TokenInv'
<1>0. pc \in [Coroutine -> CoPc] /\ Coroutine = {"snd", "rcv"}
  BY DEF Typing, TypeOK, ControlType, Coroutine
<1> USE DEF sendVars, Goto, Return
<1>1. CASE UNCHANGED vars
  BY <1>1 DEF vars, control, TokenInv
<1>2. CASE SndLoopStep \/ Start
  BY <1>2, LoopToken
<1>3. ASSUME NEW co \in Coroutine, CloseStep(co)
      PROVE  TokenInv'
  <2>1. CASE TryEc(co) \/ SetEc(co) \/ Shut(co) \/ SetFlag(co) \/ Drain(co) \/ DoneAll(co) \/ Erase(co)
    <3>1. /\ UNCHANGED <<call, send_mtx>>
          /\ UNCHANGED pc \/ \E to \in EcPc \cup ClosePc : pc' = [pc EXCEPT ![co] = to]
      BY <2>1 DEF TryEc, LockCloseEc, SetEc, Shut, SetFlag, Drain, DoneAll, Erase, EcPc, ClosePc
    <3> QED BY <1>0, <3>1 DEF TokenInv, EcPc, ClosePc
  <2>2. CASE OnClose(co) \/ Notify(co)
    <3>1. /\ UNCHANGED call
          /\ \E to \in ClosePc : pc' = [pc EXCEPT ![co] = to]
          /\ send_mtx' = send_mtx \/ (co = "snd" /\ send_mtx = "snd")
      BY <2>2 DEF OnClose, Notify, ClosePc
    <3> QED BY <1>0, <3>1 DEF TokenInv, ClosePc
  <2> QED BY <1>3, <2>1, <2>2 DEF CloseStep
<1>4. CASE TestSend
  <2>1. /\ UNCHANGED call /\ \E to \in ClosePc : pc' = [pc EXCEPT !["snd"] = to]
        /\ send_mtx' = send_mtx \/ send_mtx = "snd"
    BY <1>4 DEF TestSend, ClosePc
  <2> QED BY <1>0, <2>1 DEF TokenInv, ClosePc
<1>5. CASE TestRecv \/ WakeSend \/ ShutWr \/ RecvFail \/ RecvReject
  <2>1. UNCHANGED <<call, send_mtx>> /\ \E to \in CoPc : pc' = [pc EXCEPT !["rcv"] = to]
    BY <1>5 DEF TestRecv, WakeSend, ShutWr, RecvFail, RecvReject, CoPc, ClosePc, EcPc
  <2> QED BY <1>0, <2>1 DEF TokenInv
<1>6. CASE \E m \in Msg : Send(m) \/ SendNoDelay(m) \/ CallStep(m)
  BY <1>6, CallToken
<1>7. CASE \/ \E m \in Msg : TimerFires(m)
           \/ \E c \in Closer : Shutdown(c) \/ CloserStep(c)
           \/ PeerFin \/ PeerRst
  <2>1. UNCHANGED <<pc, call, send_mtx>>
    BY <1>7 DEF TimerFires, Shutdown, CloserStep, ShutdownSetEc, ShutdownSetFlag, ShutdownBoth,
                ShutdownPush, PeerFin, PeerRst, control
  <2> QED BY <2>1 DEF TokenInv
<1>8. CASE SndStep
  BY <1>0, <1>2, <1>3, <1>4, <1>8 DEF SndStep
<1>9. CASE RcvStep
  BY <1>0, <1>3, <1>5, <1>9 DEF RcvStep
<1> QED BY <1>1, <1>2, <1>6, <1>7, <1>8, <1>9 DEF Next

-----------------------------------------------------------------------------
(* Bytes of one message between bytes of another *)

\* More bytes of m may come.
Unfinished(m) == m \in Listed \/ call[m] = "half"

\* pos counts what is on the wire.
WireCounted == \A i \in 1..Len(wire) : pos[wire[i].msg] > 0

\* In the list nothing that Send queued is before a half-sent message.
HalfSentFirst ==
    \A a, b \in Msg : Before(msg_send_list, a, b) /\ pos[b] > 0 => a \notin ToSet(pushed)

\* Nothing that Send queued is on the wire after a message of which more bytes
\* may come.
NothingBetween ==
    \A i, j \in 1..Len(wire) :
        i < j /\ Unfinished(wire[i].msg) /\ wire[j].msg # wire[i].msg
            => wire[j].msg \notin ToSet(pushed)

WireInv == WireCounted /\ HalfSentFirst /\ NothingBetween /\ SendContiguous

\* The chunks on the wire belong to messages.
LEMMA WireType ==
  ASSUME Typing
  PROVE  /\ wire \in Seq(Chunk) /\ Len(wire) \in Nat
         /\ \A i \in 1..Len(wire) : wire[i].msg \in Msg
<1>1. wire \in Seq(Chunk)
  BY DEF Typing, TypeOK, ByteType
<1>2. \A i \in 1..Len(wire) : wire[i] \in Chunk
  BY <1>1
<1> QED BY <1>1, <1>2 DEF Chunk

\* A call is left with a part of its buffer by write_f only.
LEMMA HalfStep ==
  ASSUME Typing, [Next]_vars
  PROVE  \/ \E m \in Msg : \E n \in 0..Size[m] : DirectWrite(m, n)
         \/ \A m \in Msg : call'[m] = "half" => call[m] = "half"
<1>0. call \in [Msg -> CallPc]
  BY DEF Typing, TypeOK, ControlType
<1>1. CASE UNCHANGED call
  BY <1>1
<1>2. ASSUME NEW m \in Msg, Send(m) \/ SendNoDelay(m) \/ CallStep(m)
      PROVE  \/ \E n \in 0..Size[m] : DirectWrite(m, n)
             \/ \E to \in CallPc \ {"half"} : call' = [call EXCEPT ![m] = to]
  <2>1. CASE Send(m) \/ SendNoDelay(m) \/ SendFromNoDelay(m)
    BY <2>1 DEF Send, SendNoDelay, SendFromNoDelay, Accept, GotoCall, CallPc
  <2>2. CASE TryToken(m) \/ PushMsg(m) \/ PushFront(m)
    BY <2>2 DEF TryToken, PushMsg, PushFront, GotoCall, CallPc
  <2> QED BY <1>2, <2>1, <2>2 DEF CallStep
<1>3. CASE \E m \in Msg : Send(m) \/ SendNoDelay(m) \/ CallStep(m)
  BY <1>0, <1>2, <1>3
<1>4. UNCHANGED call \/ \E m \in Msg : Send(m) \/ SendNoDelay(m) \/ CallStep(m)
  <2>1. CASE UNCHANGED vars
    BY <2>1 DEF vars, control
  <2>2. CASE Start \/ SndLoopStep
    BY <2>2 DEF Start, SndLoopStep, Top, Pop, Empty, Wait, Relock, Build, WriteSteps, WriteSome,
                WriteBlocked, WriteError, PollWritable, PollOther
  <2>3. CASE \E co \in Coroutine : CloseStep(co)
    BY <2>3 DEF CloseStep, TryEc, SetEc, Shut, SetFlag, OnClose, Drain, DoneAll, Erase, Notify
  <2>4. CASE TestSend \/ TestRecv \/ WakeSend \/ ShutWr \/ RecvFail \/ RecvReject
    BY <2>4 DEF TestSend, TestRecv, WakeSend, ShutWr, RecvFail, RecvReject
  <2>5. CASE \/ \E m \in Msg : TimerFires(m)
             \/ \E c \in Closer : Shutdown(c) \/ CloserStep(c)
             \/ PeerFin \/ PeerRst
    BY <2>5 DEF TimerFires, Shutdown, CloserStep, ShutdownSetEc, ShutdownSetFlag, ShutdownBoth,
                ShutdownPush, PeerFin, PeerRst, control
  <2> QED BY <2>1, <2>2, <2>3, <2>4, <2>5 DEF Next, SndStep, RcvStep, Coroutine
<1> QED BY <1>1, <1>3, <1>4

\* Steps that write nothing, after which no message is unfinished that was not,
\* and nothing is pushed that is on the wire.
LEMMA WireFrame ==
  ASSUME Typing, WireInv, UNCHANGED <<pos, wire>>,
         \A i \in 1..Len(wire) : Unfinished(wire[i].msg)' => Unfinished(wire[i].msg),
         \A i \in 1..Len(wire) : wire[i].msg \in ToSet(pushed') => wire[i].msg \in ToSet(pushed)
  PROVE  WireCounted' /\ NothingBetween' /\ SendContiguous'
<1>1. WireCounted'
  BY DEF WireInv, WireCounted
<1>2. NothingBetween'
  BY DEF WireInv, NothingBetween
<1>3. SendContiguous'
  BY DEF WireInv, SendContiguous
<1> QED BY <1>1, <1>2, <1>3

\* Steps that write nothing.
LEMMA WireQuiet ==
  ASSUME Typing, MsgInv, WireInv, [Next]_vars, UNCHANGED byteVars,
         \A m \in Msg : call'[m] = "half" => call[m] = "half"
  PROVE  WireInv'
<1>0. /\ msg_send_list \in Seq(Msg) /\ pushed \in Seq(Msg)
      /\ \A i \in 1..Len(wire) : wire[i].msg \in Msg /\ pos[wire[i].msg] > 0
      /\ UNCHANGED <<pos, wire>>
  BY WireType DEF Typing, TypeOK, SendType, ChanType, byteVars, WireInv, WireCounted
<1>1. ASSUME \A m \in Msg : m \in Listed' => Unfinished(m) \/ pos[m] = 0
      PROVE  \A i \in 1..Len(wire) : Unfinished(wire[i].msg)' => Unfinished(wire[i].msg)
  <2> SUFFICES ASSUME NEW i \in 1..Len(wire), Unfinished(wire[i].msg)'
               PROVE  Unfinished(wire[i].msg)
    OBVIOUS
  <2>1. wire[i].msg \in Listed' \/ call'[wire[i].msg] = "half"
    BY <1>0 DEF Unfinished
  <2>2. wire[i].msg \in Msg /\ pos[wire[i].msg] # 0
    BY <1>0
  <2> QED BY <1>1, <2>1, <2>2 DEF Unfinished
<1>2. CASE PipeKeeps
  <2>1. \A m \in Msg : m \in InChan \cup InHand => pos[m] = 0
    BY DEF MsgInv, BytesInv
  <2>2. \A m \in Msg : m \in Listed' => Unfinished(m) \/ pos[m] = 0
    BY <1>2, <2>1 DEF PipeKeeps, Unfinished
  <2>3. UNCHANGED pushed
    BY <1>2 DEF PipeKeeps
  <2>4. HalfSentFirst'
    BY <1>0, <1>2, <2>1, <2>3 DEF PipeKeeps, WireInv, HalfSentFirst
  <2> QED BY <1>0, <1>1, <2>2, <2>3, <2>4, WireFrame DEF WireInv
<1>3. ASSUME NEW m \in Msg, PushMsg(m)
      PROVE  WireInv'
  <2>1. /\ call[m] \in {"push", "push_token"} /\ pushed' = Append(pushed, m)
        /\ UNCHANGED msg_send_list
    BY <1>3 DEF PushMsg
  <2>2. ToSet(pushed') = ToSet(pushed) \cup {m}
    BY <1>0, <2>1, AppendQueue
  <2>3. pos[m] = 0 /\ m \notin ToSet(msg_send_list)
    BY <2>1 DEF MsgInv, FreshCalls, Queued, Listed
  <2>4. \A i \in 1..Len(wire) : wire[i].msg # m
    BY <1>0, <2>3
  <2>5. \A a, b : Before(msg_send_list, a, b) => a # m
    BY <1>0, <2>3, BeforeMembers
  <2>6. HalfSentFirst'
    BY <1>0, <2>1, <2>2, <2>5 DEF WireInv, HalfSentFirst
  <2>7. \A x \in Msg : x \in Listed' => Unfinished(x)
    BY <2>1 DEF Unfinished, Listed
  <2> QED BY <1>0, <1>1, <2>2, <2>4, <2>6, <2>7, WireFrame DEF WireInv
<1>4. ASSUME NEW m \in Msg, PushFront(m)
      PROVE  WireInv'
  <2>1. call[m] = "half" /\ msg_send_list' = <<m>> \o msg_send_list /\ UNCHANGED pushed
    BY <1>4 DEF PushFront, chanVars
  <2>2. m \notin ToSet(pushed)
    BY <2>1, PushedReturned
  <2>3. ToSet(msg_send_list') = ToSet(msg_send_list) \cup {m}
    BY <1>0, <2>1, PushFrontQueue
  <2>4. \A a, b : Before(msg_send_list', a, b) => Before(msg_send_list, a, b) \/ a = m
    BY <1>0, <2>1, BeforePushFront
  <2>5. HalfSentFirst'
    BY <1>0, <2>1, <2>2, <2>4 DEF WireInv, HalfSentFirst
  <2>6. \A x \in Msg : x \in Listed' => Unfinished(x)
    BY <2>1, <2>3 DEF Unfinished, Listed
  <2> QED BY <1>0, <1>1, <2>1, <2>5, <2>6, WireFrame DEF WireInv
<1> QED BY <1>2, <1>3, <1>4, QueueStep, PipeStep

\* write_f puts a part of a buffer that no coroutine knows yet behind what is
\* on the wire.
LEMMA WireDirect ==
  ASSUME Typing, MsgInv, WireInv, NEW m \in Msg, NEW n \in 0..Size[m], DirectWrite(m, n)
  PROVE  WireInv'
<1>0. /\ pos \in [Msg -> Nat] /\ call \in [Msg -> CallPc] /\ Size[m] \in Nat /\ n \in Nat
      /\ wire \in Seq(Chunk) /\ Len(wire) \in Nat
      /\ \A i \in 1..Len(wire) : wire[i].msg \in Msg
  BY SizeAssumption, WireType DEF Typing, TypeOK, ByteType, ControlType
<1>1. /\ call[m] = "token" /\ UNCHANGED <<msg_send_list, pushed>>
      /\ pos' = [pos EXCEPT ![m] = n]
      /\ \E to \in {"send", "returned", "half"} : call' = [call EXCEPT ![m] = to] /\ (n = 0 => to # "half")
  <2>1. n = 0 => n \notin 1..(Size[m] - 1)
    OBVIOUS
  <2> QED BY <2>1 DEF DirectWrite, GotoCall, chanVars
<1>2. m \notin ToSet(pushed) /\ m \notin Listed /\ pos[m] = 0
  BY <1>1, PushedReturned DEF MsgInv, FreshCalls, Queued
<1>3. \A i \in 1..Len(wire) : wire[i].msg # m
  BY <1>2 DEF WireInv, WireCounted
<1>4. \A x \in Msg : x # m => pos'[x] = pos[x] /\ (Unfinished(x)' => Unfinished(x))
  BY <1>0, <1>1 DEF Unfinished, Listed
<1>5. HalfSentFirst'
  <2> SUFFICES ASSUME NEW a \in Msg, NEW b \in Msg, Before(msg_send_list, a, b), pos'[b] > 0
               PROVE  a \notin ToSet(pushed)
    BY <1>1 DEF HalfSentFirst
  <2>1. b \in ToSet(msg_send_list)
    BY BeforeMembers DEF Typing, TypeOK, SendType
  <2>2. pos[b] > 0
    BY <1>2, <1>4, <2>1 DEF Listed
  <2> QED BY <2>2 DEF WireInv, HalfSentFirst
<1>6. CASE n = 0
  <2>1. wire' = wire /\ pos' = pos
    BY <1>0, <1>1, <1>2, <1>6 DEF DirectWrite
  <2>2. \A i \in 1..Len(wire) : Unfinished(wire[i].msg)' => Unfinished(wire[i].msg)
    BY <1>0, <1>3, <1>4, <2>1 DEF Unfinished
  <2> QED BY <1>1, <1>5, <2>1, <2>2, WireFrame DEF WireInv
<1>7. CASE n > 0
  <2> DEFINE last == Len(wire) + 1
  <2>1. /\ Len(wire') = last /\ wire'[last].msg = m
        /\ \A i \in 1..Len(wire) : wire'[i] = wire[i]
    <3>1. wire' = Append(wire, [msg |-> m, from |-> 0, to |-> n])
      BY <1>7 DEF DirectWrite
    <3> QED BY <1>0, <3>1
  <2>2. \A i \in 1..last : i = last \/ i \in 1..Len(wire)
    BY <1>0
  <2>3. \A i \in 1..Len(wire) : wire'[i].msg = wire[i].msg /\ wire[i].msg # m /\ wire[i].msg \in Msg
    BY <1>0, <1>3, <2>1
  <2>4. WireCounted'
    <3> SUFFICES ASSUME NEW i \in 1..Len(wire') PROVE pos'[wire'[i].msg] > 0
      BY DEF WireCounted
    <3>1. CASE i = last
      BY <1>0, <1>1, <1>7, <2>1, <3>1
    <3>2. CASE i \in 1..Len(wire)
      BY <1>4, <2>3, <3>2 DEF WireInv, WireCounted
    <3> QED BY <2>1, <2>2, <3>1, <3>2
  <2>5. NothingBetween'
    <3> SUFFICES ASSUME NEW i \in 1..Len(wire'), NEW j \in 1..Len(wire'), i < j,
                        Unfinished(wire[i].msg)', wire'[j].msg # wire'[i].msg
                 PROVE  wire'[j].msg \notin ToSet(pushed)
      BY <1>1 DEF NothingBetween
    <3>1. i \in 1..Len(wire)
      BY <1>0, <2>1, <2>2
    <3>2. Unfinished(wire[i].msg)
      <4>1. wire'[i].msg \in Listed' \/ call'[wire'[i].msg] = "half"
        BY DEF Unfinished
      <4> QED BY <1>0, <1>1, <2>3, <3>1, <4>1 DEF Unfinished, Listed
    <3>3. CASE j = last
      BY <1>2, <2>1, <3>3
    <3>4. CASE j \in 1..Len(wire)
      BY <2>3, <3>1, <3>2, <3>4 DEF WireInv, NothingBetween
    <3> QED BY <2>1, <2>2, <3>3, <3>4
  <2>6. SendContiguous'
    <3> SUFFICES ASSUME NEW i \in 1..Len(wire'), NEW j \in 1..Len(wire'), NEW k \in 1..Len(wire'),
                        i < j, j < k, wire'[i].msg = wire'[k].msg, wire'[j].msg # wire'[i].msg
                 PROVE  wire'[j].msg \notin ToSet(pushed)
      BY <1>1 DEF SendContiguous
    <3>1. i \in 1..Len(wire) /\ j \in 1..Len(wire)
      BY <1>0, <2>1, <2>2
    <3>2. k \in 1..Len(wire)
      BY <2>1, <2>2, <2>3, <3>1
    <3> QED BY <2>3, <3>1, <3>2 DEF WireInv, SendContiguous
  <2> QED BY <1>5, <2>4, <2>5, <2>6 DEF WireInv
<1> QED BY <1>0, <1>6, <1>7

\* Where the chunks of one writev are.
LEMMA ThreeParts ==
  ASSUME NEW T, NEW s \in Seq(T), NEW g \in Seq(T), NEW u \in Seq(T)
  PROVE  /\ Len(s \o g \o u) = Len(s) + Len(g) + Len(u)
         /\ \A i \in 1..Len(s) : (s \o g \o u)[i] = s[i]
         /\ \A i \in 1..Len(g) : (s \o g \o u)[Len(s) + i] = g[i]
         /\ \A i \in 1..Len(u) : (s \o g \o u)[Len(s) + Len(g) + i] = u[i]
<1> DEFINE t == s \o g
<1>1. /\ t \in Seq(T) /\ Len(t) = Len(s) + Len(g)
      /\ \A i \in 1..Len(s) : t[i] = s[i]
      /\ \A i \in 1..Len(g) : t[Len(s) + i] = g[i]
  OBVIOUS
<1>2. Len(s) \in Nat /\ Len(g) \in Nat /\ Len(u) \in Nat
  OBVIOUS
<1> HIDE DEF t
<1>3. /\ Len(t \o u) = Len(t) + Len(u)
      /\ \A i \in 1..Len(t) : (t \o u)[i] = t[i]
      /\ \A i \in 1..Len(u) : (t \o u)[Len(t) + i] = u[i]
  <2>1. t \in Seq(T)
    BY <1>1
  <2> QED BY ONLY <2>1, u \in Seq(T)
<1>4. \A i \in 1..Len(s) : (t \o u)[i] = s[i]
  BY <1>1, <1>2, <1>3
<1>5. \A i \in 1..Len(g) : (t \o u)[Len(s) + i] = g[i]
  BY <1>1, <1>2, <1>3
<1> QED BY <1>1, <1>2, <1>3, <1>4, <1>5 DEF t

\* writev puts one chunk for each message it takes behind what is on the wire,
\* in the order of the list; all of them but a half-sent last one are whole.
LEMMA WireAfterWrite ==
  ASSUME Typing, MsgInv, NEW k \in 0..buffered, NEW r \in PartAfter(k), WriteSome(k, r)
  PROVE  LET K == IF r = 0 THEN k ELSE k + 1
         IN /\ K \in 0..Len(msg_send_list) /\ k \in 0..Len(msg_send_list) /\ r \in Nat
            /\ Len(wire') = Len(wire) + K
            /\ \A i \in 1..Len(wire) : wire'[i] = wire[i]
            /\ \A q \in 1..K : wire'[Len(wire) + q].msg = msg_send_list[q]
<1> DEFINE K == IF r = 0 THEN k ELSE k + 1
           next == msg_send_list[k + 1]
           g == [i \in 1..k |-> Rest(msg_send_list[i])]
           part == [msg |-> next, from |-> pos[next], to |-> pos[next] + r]
           u == IF r = 0 THEN << >> ELSE <<part>>
<1>0. /\ msg_send_list \in Seq(Msg) /\ pos \in [Msg -> Nat] /\ Size \in [Msg -> Nat]
      /\ buffered \in Nat /\ wire \in Seq(Chunk) /\ k \in Nat
  BY SizeAssumption DEF Typing, TypeOK, SendType, ByteType
<1>1. pc["snd"] = "write" /\ wire' = wire \o g \o u
  BY DEF WriteSome
<1>2. K \in 0..Len(msg_send_list) /\ k \in 0..Len(msg_send_list) /\ r \in Nat /\ K \in Nat
  <2>1. buffered <= Len(msg_send_list) /\ Len(msg_send_list) \in Nat
    BY <1>0, <1>1 DEF Typing, SendInv
  <2>2. r # 0 => k < buffered
    BY DEF PartAfter
  <2>3. r \in Nat
    BY WriteMoves
  <2> QED BY <1>0, <2>1, <2>2, <2>3
<1>3. \A i \in 1..k : msg_send_list[i] \in Msg
  BY <1>0, <1>2
<1>4. \A i \in 1..k : Rest(msg_send_list[i]) \in Chunk /\ Rest(msg_send_list[i]).msg = msg_send_list[i]
  BY <1>0, <1>3 DEF Rest, Chunk
<1>5. g \in Seq(Chunk) /\ Len(g) = k
  <2>1. g \in [1..k -> Chunk]
    BY <1>4
  <2> HIDE DEF g
  <2> QED BY ONLY <2>1, k \in Nat
<1>6. r # 0 => next \in Msg /\ part \in Chunk /\ part.msg = next
  BY <1>0, <1>2 DEF Chunk
<1> HIDE DEF part
<1>7. u \in Seq(Chunk) /\ Len(u) = K - k /\ (r # 0 => u[1] = part)
  BY <1>0, <1>2, <1>6
<1>8. \A i \in 1..k : g[i].msg = msg_send_list[i]
  BY <1>4
<1> HIDE DEF g, u
<1>9. /\ Len(wire') = Len(wire) + Len(g) + Len(u)
      /\ \A i \in 1..Len(wire) : wire'[i] = wire[i]
      /\ \A i \in 1..Len(g) : wire'[Len(wire) + i] = g[i]
      /\ \A i \in 1..Len(u) : wire'[Len(wire) + Len(g) + i] = u[i]
  <2>1. wire \in Seq(Chunk) /\ g \in Seq(Chunk) /\ u \in Seq(Chunk)
    BY <1>0, <1>5, <1>7
  <2> HIDE DEF Chunk
  <2>2. LET w == wire \o g \o u
        IN /\ Len(w) = Len(wire) + Len(g) + Len(u)
           /\ \A i \in 1..Len(wire) : w[i] = wire[i]
           /\ \A i \in 1..Len(g) : w[Len(wire) + i] = g[i]
           /\ \A i \in 1..Len(u) : w[Len(wire) + Len(g) + i] = u[i]
    BY <2>1, ThreeParts
  <2> QED BY <1>1, <2>2
<1>10. Len(wire) \in Nat
  BY <1>0
<1>11. Len(wire') = Len(wire) + K
  <2>1. /\ Len(wire') = Len(wire) + Len(g) + Len(u) /\ Len(g) = k /\ Len(u) = K - k
        /\ Len(wire) \in Nat /\ k \in Nat /\ K \in Nat
    BY <1>0, <1>2, <1>5, <1>7, <1>9, <1>10
  <2> HIDE DEF K
  <2> QED BY <2>1
<1>12. ASSUME NEW q \in 1..K PROVE wire'[Len(wire) + q].msg = msg_send_list[q]
  <2>1. CASE q \in 1..k
    BY <1>5, <1>8, <1>9, <2>1
  <2>2. CASE q = k + 1 /\ r # 0
    <3>1. Len(u) = 1
      BY <1>0, <1>7, <2>2
    <3>2. wire'[Len(wire) + k + 1] = part
      BY <1>5, <1>7, <1>9, <2>2, <3>1
    <3>3. Len(wire) + q = Len(wire) + k + 1
      BY <1>0, <1>10, <2>2
    <3> QED BY <1>6, <2>2, <3>2, <3>3
  <2> QED BY <1>0, <2>1, <2>2
<1> HIDE DEF K
<1>13. \A q \in 1..K : wire'[Len(wire) + q].msg = msg_send_list[q]
  BY <1>12
<1> QED BY <1>2, <1>9, <1>11, <1>13 DEF K

\* goSend writes the list from its head: what it leaves unfinished is the first
\* of what is left, and what it writes was before a message half sent earlier
\* only if Send did not queue it.
LEMMA WireWrite ==
  ASSUME Typing, MsgInv, TokenInv, WireInv, NEW k \in 0..buffered, NEW r \in PartAfter(k),
         WriteSome(k, r)
  PROVE  WireInv'
<1> DEFINE K == IF r = 0 THEN k ELSE k + 1
           n == Len(wire)
           L == msg_send_list
           S == Sent(k, r)
           next == L[k + 1]
<1>0. /\ L \in Seq(Msg) /\ Len(L) \in Nat /\ n \in Nat /\ pos \in [Msg -> Nat]
      /\ Size \in [Msg -> Nat] /\ k \in Nat /\ Once(L, Msg)
      /\ \A i \in 1..Len(L) : L[i] \in Msg
      /\ \A i \in 1..n : wire[i].msg \in Msg
  <2>1. L \in Seq(Msg) /\ pos \in [Msg -> Nat] /\ Size \in [Msg -> Nat] /\ k \in Nat
    BY SizeAssumption DEF Typing, TypeOK, SendType, ByteType
  <2> QED BY <2>1, WireType DEF MsgInv, OnePlace
<1>1. /\ K \in 0..Len(L) /\ k \in 0..Len(L) /\ r \in Nat
      /\ Len(wire') = n + K
      /\ \A i \in 1..n : wire'[i] = wire[i]
      /\ \A q \in 1..K : wire'[n + q].msg = L[q]
  BY WireAfterWrite
<1>2. K \in {k, k + 1} /\ (K = k + 1 => r > 0) /\ K \in Nat
  BY <1>0, <1>1
<1>3. /\ S \subseteq Listed /\ Listed' = Listed \ S /\ S = {L[i] : i \in 1..k}
      /\ Once(L', Msg) /\ (r > 0 => next \in Msg)
      /\ \A m \in Msg : /\ m \in S => pos'[m] = Size[m]
                        /\ r > 0 /\ m = next => pos'[m] = pos[m] + r
                        /\ m \notin S /\ ~(r > 0 /\ m = next) => pos'[m] = pos[m]
  BY WriteMoves DEF Sent
<1>4. /\ L' = SubSeq(L, k + 1, Len(L)) /\ UNCHANGED <<call, pushed>>
      /\ pc["snd"] = "write" /\ SndActive
  BY DEF WriteSome, Unsent, chanVars, SndActive, SndFlagged
<1>5. /\ Len(L') = Len(L) - k
      /\ \A i \in 1..Len(L') : L'[i] = L[k + i]
  <2> DEFINE t == SubSeq(L, k + 1, Len(L))
  <2>1. Len(t) = Len(L) - k /\ \A i \in 1..Len(t) : t[i] = L[k + i]
    <3>1. L \in Seq(Msg) /\ k \in 0..Len(L)
      BY <1>0, <1>1
    <3> HIDE DEF L
    <3> QED BY ONLY <3>1, SuffixQueue
  <2>2. L' = t
    BY <1>4
  <2> HIDE DEF t
  <2> QED BY <2>1, <2>2
<1> HIDE DEF K, S
<1>6. \A q \in 1..K : q \in 1..Len(L)
  BY <1>0, <1>1
\* No call is between its write_f and its push_front.
<1>7. \A m \in Msg : call[m] # "half"
  BY <1>4 DEF TokenInv, Holding
<1>8. \A m \in Listed' : m \in Listed /\ \E p \in (k + 1)..Len(L) : L[p] = m
  <2> SUFFICES ASSUME NEW m \in Listed' PROVE \E p \in (k + 1)..Len(L) : L[p] = m
    BY <1>3
  <2>1. PICK i \in 1..Len(L) : L[i] = m
    BY <1>0, <1>3, ToSetMember DEF Listed
  <2>2. i \notin 1..k
    BY <1>3, <2>1
  <2> QED BY <1>0, <2>1, <2>2
<1>9. ASSUME NEW p \in 1..Len(L), NEW q \in 1..Len(L), q < p, pos[L[p]] > 0
      PROVE  L[q] \notin ToSet(pushed)
  <2>1. Before(L, L[q], L[p])
    BY <1>9 DEF Before
  <2> QED BY <1>0, <1>9, <2>1 DEF WireInv, HalfSentFirst
<1>10. \A m \in Msg : pos[m] > 0 => pos'[m] > 0
  <2> SUFFICES ASSUME NEW m \in Msg, pos[m] > 0 PROVE pos'[m] > 0
    OBVIOUS
  <2>1. pos[m] <= Size[m] /\ pos[m] \in Nat /\ Size[m] \in Nat
    BY <1>0 DEF MsgInv, BytesInv
  <2> QED BY <1>1, <1>3, <2>1
<1>11. \A q \in 1..K : pos'[L[q]] > 0
  <2> SUFFICES ASSUME NEW q \in 1..K PROVE pos'[L[q]] > 0
    OBVIOUS
  <2>1. q \in 1..Len(L)
    BY <1>0, <1>1
  <2>2. L[q] \in Msg /\ L[q] \in Queued
    BY <1>0, <2>1, ToSetMember DEF Queued, Listed
  <2>3. pos[L[q]] < Size[L[q]] /\ pos[L[q]] \in Nat /\ Size[L[q]] \in Nat
    BY <1>0, <1>4, <2>2 DEF MsgInv, BytesInv
  <2>4. CASE q \in 1..k
    <3>1. L[q] \in S
      BY <1>3, <2>4
    <3> QED BY <1>3, <2>2, <2>3, <3>1
  <2>5. CASE q = k + 1 /\ r > 0
    BY <1>1, <1>3, <2>2, <2>3, <2>5
  <2> QED BY <1>0, <1>2, <2>4, <2>5
<1>12. ASSUME NEW i \in 1..Len(wire')
       PROVE  i \in 1..n \/ \E q \in 1..K : i = n + q
  <2>1. i \notin 1..n => i - n \in 1..K /\ i = n + (i - n)
    BY <1>0, <1>1, <1>2
  <2> QED BY <2>1
<1>13. \A i \in 1..n : wire'[i].msg = wire[i].msg /\ pos[wire[i].msg] > 0
  BY <1>1 DEF WireInv, WireCounted
<1>14. WireCounted'
  <2> SUFFICES ASSUME NEW i \in 1..Len(wire') PROVE pos'[wire'[i].msg] > 0
    BY DEF WireCounted
  <2>1. CASE i \in 1..n
    BY <1>0, <1>10, <1>13, <2>1
  <2>2. ASSUME NEW q \in 1..K, i = n + q PROVE pos'[wire'[i].msg] > 0
    BY <1>1, <1>11, <2>2
  <2> QED BY <1>12, <2>1, <2>2
<1>15. HalfSentFirst'
  <2> SUFFICES ASSUME NEW a \in Msg, NEW b \in Msg, Before(L', a, b), pos'[b] > 0
               PROVE  a \notin ToSet(pushed)
    BY <1>4 DEF HalfSentFirst
  <2>1. Before(L, a, b)
    BY <1>0, <1>1, <1>4, BeforeSuffix
  <2>2. PICK i \in 1..Len(L'), j \in 1..Len(L') : i < j /\ L'[i] = a /\ L'[j] = b
    BY DEF Before
  <2> DEFINE M == Len(L')
  <2>3. L'[1] = next /\ 1 \in 1..M /\ j # 1
    <3>1. M \in Nat /\ i \in 1..M /\ j \in 1..M /\ i < j
      BY <1>0, <1>1, <1>5, <2>2
    <3> HIDE DEF M
    <3>2. 1 \in 1..M /\ j # 1
      BY <3>1
    <3> QED BY <1>5, <3>2 DEF M
  <2>4. b # next
    BY <1>3, <2>2, <2>3 DEF Once
  <2>5. b \notin S
    <3>1. j \in Nat /\ L'[j] = L[k + j] /\ k + j \in 1..Len(L)
      <4>1. M = Len(L) - k /\ j \in 1..M
        BY <1>5, <2>2
      <4> HIDE DEF M
      <4>2. j \in Nat /\ k + j \in 1..Len(L)
        BY <1>0, <1>1, <4>1
      <4> QED BY <1>5, <4>2, <2>2
    <3>2. \A q \in 1..k : L[q] # b
      BY <1>0, <1>1, <2>2, <3>1 DEF Once
    <3> QED BY <1>3, <3>2
  <2>6. pos[b] > 0
    BY <1>3, <2>4, <2>5
  <2> QED BY <2>1, <2>6 DEF WireInv, HalfSentFirst
<1>16. NothingBetween'
  <2> SUFFICES ASSUME NEW i \in 1..Len(wire'), NEW j \in 1..Len(wire'), i < j,
                      Unfinished(wire[i].msg)', wire'[j].msg # wire'[i].msg
               PROVE  wire'[j].msg \notin ToSet(pushed)
    BY <1>4 DEF NothingBetween
  <2> DEFINE x == wire'[i].msg
  <2>1. x \in Listed' \/ call[x] = "half"
    <3>1. wire'[i].msg \in Listed' \/ call'[wire'[i].msg] = "half"
      BY DEF Unfinished
    <3> QED BY <1>4, <3>1
  <2>2. CASE i \in 1..n
    <3>1. x = wire[i].msg /\ x \in Msg /\ pos[x] > 0
      BY <1>0, <1>13, <2>2
    <3>2. x \in Listed' /\ x \in Listed
      BY <1>7, <1>8, <2>1, <3>1
    <3>3. PICK p \in (k + 1)..Len(L) : L[p] = x
      BY <1>8, <3>2
    <3>4. CASE j \in 1..n
      BY <1>13, <2>2, <3>1, <3>2, <3>4 DEF WireInv, NothingBetween, Unfinished
    <3>5. ASSUME NEW q \in 1..K, j = n + q
          PROVE  wire'[j].msg \notin ToSet(pushed)
      <4>1. wire'[j].msg = L[q]
        BY <1>1, <3>5
      <4>2. q # p
        BY <3>3, <4>1
      <4>3. q \in 1..Len(L) /\ p \in 1..Len(L) /\ q < p
        BY <1>0, <1>1, <1>2, <4>2
      <4> QED BY <1>9, <3>1, <3>3, <4>1, <4>3
    <3> QED BY <1>12, <3>4, <3>5
  <2>3. ASSUME NEW q \in 1..K, i = n + q PROVE FALSE
    <3>1. x = L[q] /\ q \in 1..Len(L) /\ x \in Msg
      <4>1. x = L[q]
        BY <1>1, <2>3
      <4> QED BY <1>0, <4>1, <1>6
    <3>2. PICK p \in (k + 1)..Len(L) : L[p] = x
      BY <1>7, <1>8, <2>1, <3>1
    <3>3. q = p
      <4>1. p \in 1..Len(L)
        BY <1>0
      <4> HIDE DEF x
      <4> QED BY <1>0, <3>1, <3>2, <4>1 DEF Once
    <3>4. j <= n + K
      BY <1>1
    <3> QED BY <1>0, <1>2, <2>3, <3>3, <3>4
  <2> QED BY <1>12, <2>2, <2>3
<1>17. SendContiguous'
  <2> SUFFICES ASSUME NEW i \in 1..Len(wire'), NEW j \in 1..Len(wire'), NEW l \in 1..Len(wire'),
                      i < j, j < l, wire'[i].msg = wire'[l].msg, wire'[j].msg # wire'[i].msg
               PROVE  wire'[j].msg \notin ToSet(pushed)
    BY <1>4 DEF SendContiguous
  <2>1. CASE l \in 1..n
    <3>1. i \in 1..n /\ j \in 1..n
      BY <1>0, <1>1, <1>2, <2>1
    <3> QED BY <1>13, <2>1, <3>1 DEF WireInv, SendContiguous
  <2>2. ASSUME NEW q \in 1..K, l = n + q
        PROVE  wire'[j].msg \notin ToSet(pushed)
    <3> DEFINE x == wire'[i].msg
    <3>1. x = L[q] /\ q \in 1..Len(L) /\ x \in Msg /\ x \in Listed
      <4>1. x = L[q] /\ q \in 1..Len(L)
        BY <1>1, <2>2, <1>6
      <4> QED BY <1>0, <4>1, ToSetMember DEF Listed
    <3>2. CASE i \in 1..n
      <4>1. x = wire[i].msg /\ pos[x] > 0
        BY <1>13, <3>2
      <4>2. CASE j \in 1..n
        BY <1>13, <3>1, <3>2, <4>1, <4>2 DEF WireInv, NothingBetween, Unfinished
      <4>3. ASSUME NEW p \in 1..K, j = n + p
            PROVE  wire'[j].msg \notin ToSet(pushed)
        <5>1. wire'[j].msg = L[p]
          BY <1>1, <4>3
        <5>2. p \in 1..Len(L) /\ p < q
          BY <1>0, <1>1, <1>2, <2>2, <4>3
        <5> QED BY <1>9, <3>1, <4>1, <5>1, <5>2
      <4> QED BY <1>12, <4>2, <4>3
    <3>3. ASSUME NEW p \in 1..K, i = n + p PROVE FALSE
      <4>1. x = L[p] /\ p \in 1..Len(L)
        BY <1>1, <1>6, <3>3
      <4>2. p = q
        <5>1. L[p] = L[q] /\ L[p] \in Msg /\ p \in 1..Len(L) /\ q \in 1..Len(L)
          BY <3>1, <4>1
        <5> QED BY <1>0, <5>1 DEF Once
      <4>3. i = l
        BY <2>2, <3>3, <4>2
      <4>4. i \in Nat
        BY <1>0, <1>2, <3>3
      <4> QED BY ONLY <4>3, <4>4, i < j, j < l
    <3> QED BY <1>12, <3>2, <3>3
  <2> QED BY <1>12, <2>1, <2>2
<1> QED BY <1>14, <1>15, <1>16, <1>17 DEF WireInv

\* Every step keeps what Send queued out of other messages.
LEMMA WireNext ==
  ASSUME Typing, MsgInv, TokenInv, WireInv, [Next]_vars
  PROVE  WireInv'
<1>1. CASE WriteSteps
  BY <1>1, WireWrite DEF WriteSteps
<1>2. CASE \E m \in Msg : \E n \in 0..Size[m] : DirectWrite(m, n)
  BY <1>2, WireDirect
<1>3. CASE UNCHANGED byteVars /\ \A m \in Msg : call'[m] = "half" => call[m] = "half"
  BY <1>3, WireQuiet
<1> QED BY <1>1, <1>2, <1>3, ByteStep, HalfStep

\* Nobody holds the token and nothing is on the wire yet.
LEMMA WireInit == Init => TokenInv /\ WireInv
<1> SUFFICES ASSUME Init PROVE TokenInv /\ WireInv
  OBVIOUS
<1>1. wire = << >> /\ msg_send_list = << >>
  BY DEF Init
<1>2. Len(wire) = 0 /\ \A a, b : ~Before(msg_send_list, a, b)
  BY <1>1 DEF Before
<1>3. WireInv
  BY <1>2 DEF WireInv, WireCounted, HalfSentFirst, NothingBetween, SendContiguous
<1>4. TokenInv
  BY DEF Init, TokenInv, Holding, Coroutine
<1> QED BY <1>3, <1>4

\* The send token is held by one call of SendNoDelay or by goSend, never by two:
\* write_f and writev_f do not overlap.
THEOREM OneHolder == Spec => []TokenInv
<1>1. Typing /\ MsgInv /\ TokenInv /\ [Next]_vars => (Typing /\ MsgInv /\ TokenInv)'
  BY TypeNext, MsgNext, TokenNext
<1> QED BY TypeInit, MsgInit, WireInit, <1>1, PTL DEF Spec

\* What Send queues never splits another message: between two parts of a message
\* there are only bytes a SendNoDelay wrote itself.
THEOREM SendNeverSplits == Spec => []SendContiguous
<1>1. Typing /\ MsgInv /\ TokenInv /\ WireInv /\ [Next]_vars
        => (Typing /\ MsgInv /\ TokenInv /\ WireInv)'
  BY TypeNext, MsgNext, TokenNext, WireNext
<1>2. WireInv => SendContiguous
  BY DEF WireInv
<1> QED BY TypeInit, MsgInit, WireInit, <1>1, <1>2, PTL DEF Spec
=============================================================================
