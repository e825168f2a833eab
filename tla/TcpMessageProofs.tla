-------------------------- MODULE TcpMessageProofs --------------------------
(***************************************************************************)
(* Proofs about the messages of a TcpSession: where a message is between   *)
(* Send and its SndCb, that the SndCb is called once and tells the truth,  *)
(* that OnClose forgets none, and that a session keeps its contract.       *)
(***************************************************************************)
EXTENDS TcpSessionProofs

-----------------------------------------------------------------------------
(* Sequences as queues of distinct elements *)

\* No element of S is in s twice.
Once(s, S) == \A i, j \in 1..Len(s) : s[i] = s[j] /\ s[i] \in S => i = j

\* The members of a sequence, by index.
LEMMA ToSetMember ==
  ASSUME NEW T, NEW s \in Seq(T), NEW x
  PROVE  x \in ToSet(s) <=> \E i \in 1..Len(s) : s[i] = x
  BY DEF ToSet

\* push: Append adds one element at the end.
LEMMA AppendQueue ==
  ASSUME NEW T, NEW s \in Seq(T), NEW x \in T, NEW S
  PROVE  /\ ToSet(Append(s, x)) = ToSet(s) \cup {x}
         /\ Once(s, S) /\ (x \in S => x \notin ToSet(s)) => Once(Append(s, x), S)
<1> DEFINE t == Append(s, x)
<1>1. /\ t \in Seq(T) /\ Len(t) = Len(s) + 1 /\ Len(s) \in Nat
      /\ \A i \in 1..Len(s) : t[i] = s[i]
      /\ t[Len(s) + 1] = x
  OBVIOUS
<1> HIDE DEF t
<1>2. ToSet(t) = ToSet(s) \cup {x}
  <2>1. ASSUME NEW y PROVE y \in ToSet(t) <=> y \in ToSet(s) \cup {x}
    <3>1. y \in ToSet(t) <=> \E i \in 1..Len(t) : t[i] = y
      BY <1>1, ToSetMember
    <3>2. y \in ToSet(s) <=> \E i \in 1..Len(s) : s[i] = y
      BY ToSetMember
    <3> QED BY <1>1, <3>1, <3>2
  <2> QED BY <2>1
<1>3. ASSUME Once(s, S), x \in S => x \notin ToSet(s) PROVE Once(t, S)
  <2>1. x \in S => \A i \in 1..Len(s) : s[i] # x
    BY <1>3, ToSetMember
  <2> QED BY <1>1, <1>3, <2>1 DEF Once
<1> QED BY <1>2, <1>3 DEF t

\* push_front: one element is added at the head.
LEMMA PushFrontQueue ==
  ASSUME NEW T, NEW s \in Seq(T), NEW x \in T, NEW S
  PROVE  /\ ToSet(<<x>> \o s) = ToSet(s) \cup {x}
         /\ Once(s, S) /\ x \notin ToSet(s) => Once(<<x>> \o s, S)
<1> DEFINE t == <<x>> \o s
<1>1. /\ t \in Seq(T) /\ Len(t) = Len(s) + 1 /\ Len(s) \in Nat
      /\ \A i \in 1..Len(t) : t[i] = IF i = 1 THEN x ELSE s[i - 1]
  OBVIOUS
<1> HIDE DEF t
<1>2. ToSet(t) = ToSet(s) \cup {x}
  <2>1. ASSUME NEW y PROVE y \in ToSet(t) <=> y \in ToSet(s) \cup {x}
    <3>1. y \in ToSet(t) <=> \E i \in 1..Len(t) : t[i] = y
      BY <1>1, ToSetMember
    <3>2. y \in ToSet(s) <=> \E i \in 1..Len(s) : s[i] = y
      BY ToSetMember
    <3>3. \A i \in 1..Len(s) : t[i + 1] = s[i] /\ i + 1 \in 1..Len(t)
      BY <1>1
    <3>4. t[1] = x /\ 1 \in 1..Len(t)
      BY <1>1
    <3>5. \A i \in 1..Len(t) : t[i] = x \/ (i - 1 \in 1..Len(s) /\ t[i] = s[i - 1])
      BY <1>1
    <3>6. ASSUME NEW i \in 1..Len(t), t[i] = y PROVE y \in ToSet(s) \cup {x}
      BY <3>2, <3>5, <3>6
    <3>7. ASSUME NEW i \in 1..Len(s), s[i] = y PROVE y \in ToSet(t)
      BY <3>1, <3>3, <3>7
    <3>8. y = x => y \in ToSet(t)
      BY <3>1, <3>4
    <3> QED BY <3>1, <3>2, <3>6, <3>7, <3>8
  <2> QED BY <2>1
<1>3. ASSUME Once(s, S), x \notin ToSet(s) PROVE Once(t, S)
  <2>1. \A i \in 1..Len(s) : s[i] # x
    BY <1>3, ToSetMember
  <2>2. \A i \in 1..Len(t) : (i = 1 /\ t[i] = x) \/ (i - 1 \in 1..Len(s) /\ t[i] = s[i - 1])
    BY <1>1
  <2> SUFFICES ASSUME NEW i \in 1..Len(t), NEW j \in 1..Len(t), t[i] = t[j], t[i] \in S
               PROVE  i = j
    BY DEF Once
  <2>3. CASE i = 1 \/ j = 1
    BY <1>1, <2>1, <2>2, <2>3
  <2>4. CASE i # 1 /\ j # 1
    <3>1. s[i - 1] = s[j - 1] /\ s[i - 1] \in S /\ i - 1 \in 1..Len(s) /\ j - 1 \in 1..Len(s)
      BY <2>2, <2>4
    <3>2. i - 1 = j - 1
      BY <1>3, <3>1 DEF Once
    <3> QED BY <1>1, <3>2
  <2> QED BY <2>3, <2>4
<1> QED BY <1>2, <1>3 DEF t

\* pop: the head leaves the queue.
LEMMA TailQueue ==
  ASSUME NEW T, NEW s \in Seq(T), s # << >>, NEW S
  PROVE  /\ ToSet(s) = ToSet(Tail(s)) \cup {Head(s)} /\ Head(s) \in T
         /\ Once(s, S) => Once(Tail(s), S) /\ (Head(s) \in S => Head(s) \notin ToSet(Tail(s)))
<1> DEFINE t == Tail(s)
<1>1. /\ t \in Seq(T) /\ Len(t) = Len(s) - 1 /\ Len(s) \in Nat \ {0}
      /\ \A i \in 1..Len(t) : t[i] = s[i + 1]
      /\ Head(s) = s[1] /\ s[1] \in T
  OBVIOUS
<1> HIDE DEF t
<1>2. \A y : y \in ToSet(t) <=> \E i \in 1..Len(t) : t[i] = y
  BY <1>1, ToSetMember
<1>3. ToSet(s) = ToSet(t) \cup {Head(s)}
  <2>1. ASSUME NEW y PROVE y \in ToSet(s) <=> y \in ToSet(t) \cup {Head(s)}
    <3>1. y \in ToSet(s) <=> \E i \in 1..Len(s) : s[i] = y
      BY ToSetMember
    <3>2. \A i \in 1..Len(s) : i = 1 \/ (i - 1 \in 1..Len(t) /\ t[i - 1] = s[i])
      BY <1>1
    <3>3. \A i \in 1..Len(t) : i + 1 \in 1..Len(s) /\ t[i] = s[i + 1]
      BY <1>1
    <3>4. 1 \in 1..Len(s) /\ Head(s) = s[1]
      BY <1>1
    <3>5. ASSUME NEW i \in 1..Len(s), s[i] = y PROVE y \in ToSet(t) \cup {Head(s)}
      BY <1>2, <3>2, <3>4, <3>5
    <3>6. ASSUME NEW i \in 1..Len(t), t[i] = y PROVE y \in ToSet(s)
      BY <3>1, <3>3, <3>6
    <3>7. y = Head(s) => y \in ToSet(s)
      BY <3>1, <3>4
    <3> QED BY <1>2, <3>1, <3>5, <3>6, <3>7
  <2> QED BY <2>1
<1>4. ASSUME Once(s, S) PROVE Once(t, S) /\ (Head(s) \in S => Head(s) \notin ToSet(t))
  <2>1. Once(t, S)
    BY <1>1, <1>4 DEF Once
  <2>2. Head(s) \in S => \A i \in 1..Len(t) : t[i] # Head(s)
    BY <1>1, <1>4 DEF Once
  <2> QED BY <1>2, <2>1, <2>2
<1> QED BY <1>1, <1>3, <1>4 DEF t

\* A write takes the first k messages from the list.
LEMMA SuffixQueue ==
  ASSUME NEW T, NEW s \in Seq(T), NEW k \in 0..Len(s), NEW S
  PROVE  LET t == SubSeq(s, k + 1, Len(s)) IN
         /\ t \in Seq(T) /\ Len(t) = Len(s) - k /\ \A i \in 1..Len(t) : t[i] = s[k + i]
         /\ \A y : y \in ToSet(s) <=> y \in ToSet(t) \/ \E i \in 1..k : y = s[i]
         /\ Once(s, S) => Once(t, S) /\ \A i \in 1..k : s[i] \in S => s[i] \notin ToSet(t)
<1> DEFINE t == SubSeq(s, k + 1, Len(s))
<1>1. /\ Len(t) = Len(s) - k /\ Len(s) \in Nat
      /\ \A i \in 1..Len(t) : t[i] = s[k + i]
  BY SubSeqProperties
<1>2. t \in Seq(T)
  BY SubSeqProperties
<1> HIDE DEF t
<1>3. \A y : y \in ToSet(t) <=> \E i \in 1..Len(t) : t[i] = y
  BY <1>2, ToSetMember
<1>4. \A y : y \in ToSet(s) <=> y \in ToSet(t) \/ \E i \in 1..k : y = s[i]
  <2>1. ASSUME NEW y PROVE y \in ToSet(s) <=> y \in ToSet(t) \/ \E i \in 1..k : y = s[i]
    <3>1. y \in ToSet(s) <=> \E i \in 1..Len(s) : s[i] = y
      BY ToSetMember
    <3>2. \A i \in 1..Len(s) : i \in 1..k \/ (i - k \in 1..Len(t) /\ t[i - k] = s[i])
      BY <1>1
    <3>3. \A i \in 1..Len(t) : k + i \in 1..Len(s) /\ t[i] = s[k + i]
      BY <1>1
    <3>4. \A i \in 1..k : i \in 1..Len(s)
      BY <1>1
    <3>5. ASSUME NEW i \in 1..Len(s), s[i] = y PROVE y \in ToSet(t) \/ \E q \in 1..k : y = s[q]
      BY <1>3, <3>2, <3>5
    <3>6. ASSUME NEW i \in 1..Len(t), t[i] = y PROVE y \in ToSet(s)
      BY <3>1, <3>3, <3>6
    <3>7. ASSUME NEW i \in 1..k, y = s[i] PROVE y \in ToSet(s)
      BY <3>1, <3>4, <3>7
    <3> QED BY <1>3, <3>1, <3>5, <3>6, <3>7
  <2> QED BY <2>1
<1>5. ASSUME Once(s, S) PROVE Once(t, S) /\ \A i \in 1..k : s[i] \in S => s[i] \notin ToSet(t)
  <2>0. \A j \in 1..Len(t) : k + j \in 1..Len(s) /\ t[j] = s[k + j]
    BY <1>1
  <2>1. Once(t, S)
    <3> SUFFICES ASSUME NEW i \in 1..Len(t), NEW j \in 1..Len(t), t[i] = t[j], t[i] \in S
                 PROVE  i = j
      BY DEF Once
    <3>1. k + i = k + j
      BY <1>5, <2>0 DEF Once
    <3> QED BY <1>1, <3>1
  <2>2. \A i \in 1..k, j \in 1..Len(t) : s[i] \in S => t[j] # s[i]
    <3> SUFFICES ASSUME NEW i \in 1..k, NEW j \in 1..Len(t), s[i] \in S, t[j] = s[i]
                 PROVE  FALSE
      OBVIOUS
    <3>1. i \in 1..Len(s)
      BY <1>1
    <3>2. k + j = i
      BY <1>5, <2>0, <3>1 DEF Once
    <3> QED BY <1>1, <3>2
  <2> QED BY <1>3, <2>1, <2>2
<1> QED BY <1>1, <1>2, <1>4, <1>5 DEF t

\* A message whose time is over leaves the list.
LEMMA RemoveAtQueue ==
  ASSUME NEW T, NEW s \in Seq(T), NEW k \in 1..Len(s), NEW S
  PROVE  LET t == RemoveAt(s, k) IN
         /\ t \in Seq(T) /\ Len(t) = Len(s) - 1
         /\ \A i \in 1..Len(t) : t[i] = IF i < k THEN s[i] ELSE s[i + 1]
         /\ ToSet(s) = ToSet(t) \cup {s[k]}
         /\ Once(s, S) => Once(t, S) /\ (s[k] \in S => s[k] \notin ToSet(t))
<1> DEFINE t == RemoveAt(s, k)
           a == SubSeq(s, 1, k - 1)
           b == SubSeq(s, k + 1, Len(s))
<1>1. t \in Seq(T) /\ Len(t) = Len(s) - 1 /\ Len(s) \in Nat
  BY RemoveAtType
<1>2. a \in Seq(T) /\ Len(a) = k - 1 /\ \A i \in 1..(k - 1) : a[i] = s[i]
  OBVIOUS
<1>3. b \in Seq(T) /\ Len(b) = Len(s) - k /\ \A i \in 1..(Len(s) - k) : b[i] = s[k + i]
  BY SuffixQueue
<1>4. t = a \o b
  BY DEF RemoveAt
<1> HIDE DEF t, a, b
<1>5. \A i \in 1..Len(t) : t[i] = IF i < k THEN s[i] ELSE s[i + 1]
  <2>1. \A i \in 1..(Len(a) + Len(b)) : (a \o b)[i] = IF i <= Len(a) THEN a[i] ELSE b[i - Len(a)]
    BY <1>2, <1>3, ConcatProperties
  <2> TAKE i \in 1..Len(t)
  <2>2. CASE i < k
    BY <1>1, <1>2, <1>3, <1>4, <2>1, <2>2
  <2>3. CASE ~(i < k)
    <3>1. i - (k - 1) \in 1..(Len(s) - k) /\ k + (i - (k - 1)) = i + 1
      BY <1>1, <2>3
    <3>2. t[i] = b[i - (k - 1)]
      BY <1>1, <1>2, <1>3, <1>4, <2>1, <2>3
    <3> QED BY <1>3, <2>3, <3>1, <3>2
  <2> QED BY <2>2, <2>3
<1>6. \A y : y \in ToSet(t) <=> \E i \in 1..Len(t) : t[i] = y
  BY <1>1, ToSetMember
<1>7. ToSet(s) = ToSet(t) \cup {s[k]}
  <2>1. ASSUME NEW y PROVE y \in ToSet(s) <=> y \in ToSet(t) \cup {s[k]}
    <3>1. y \in ToSet(s) <=> \E i \in 1..Len(s) : s[i] = y
      BY ToSetMember
    <3>2. \A i \in 1..Len(s) : \/ i = k
                               \/ i \in 1..Len(t) /\ t[i] = s[i]
                               \/ i - 1 \in 1..Len(t) /\ t[i - 1] = s[i]
      BY <1>1, <1>5
    <3>3. \A i \in 1..Len(t) : \/ i \in 1..Len(s) /\ t[i] = s[i]
                               \/ i + 1 \in 1..Len(s) /\ t[i] = s[i + 1]
      BY <1>1, <1>5
    <3> QED BY <1>6, <3>1, <3>2, <3>3
  <2> QED BY <2>1
<1>8. ASSUME Once(s, S) PROVE Once(t, S) /\ (s[k] \in S => s[k] \notin ToSet(t))
  <2>1. Once(t, S)
    BY <1>1, <1>5, <1>8 DEF Once
  <2>2. s[k] \in S => \A i \in 1..Len(t) : t[i] # s[k]
    BY <1>1, <1>5, <1>8 DEF Once
  <2> QED BY <1>6, <2>1, <2>2
<1> QED BY <1>1, <1>5, <1>7, <1>8 DEF t

-----------------------------------------------------------------------------
(* The invariant about messages *)

\* Where a message can be between its call and its SndCb.
Listed == ToSet(msg_send_list)
InChan == ToSet(msg_chan) \cap Msg
InHand == {held} \cap Msg
Queued == Listed \cup InChan \cup InHand

\* goSend has not set send_shutdown_ yet, so OnClose does not run.
SndActive == pc["snd"] \notin SndFlagged

\* A call that has not returned has no Msg, and bytes on the wire only when
\* write_f took a part of its buffer.
FreshCalls ==
    \A m \in Msg :
        /\ call[m] # "returned" =>
               ~has_cb[m] /\ cbs[m] = << >> /\ m \notin Queued /\ m \notin ToSet(pushed)
        /\ call[m] \notin {"returned", "half"} => pos[m] = 0
        /\ call[m] = "half" => pos[m] > 0 /\ pos[m] < Size[m]
        /\ call[m] \notin {"idle", "returned"} => Size[m] > 0

\* A call that has returned has had its SndCb, or its Msg still holds it.
CallbackOwed ==
    \A m \in Msg : /\ call[m] = "returned" => (has_cb[m] <=> cbs[m] = << >>)
                   /\ Len(cbs[m]) <= 1

\* A message is in one place only, and goSend holds one only between msg_chan_
\* and the lock.
OnePlace ==
    /\ Once(msg_send_list, Msg) /\ Once(msg_chan, Msg)
    /\ Listed \cap InChan = {} /\ Listed \cap InHand = {} /\ InChan \cap InHand = {}
    /\ pc["snd"] # "relock" => held = ShutdownMsg

\* Until goSend has shut down, what is queued still holds its SndCb.
QueuedOwed == SndActive => \A m \in Queued : has_cb[m]

\* Part of a message is on the wire only if it is in the list and marked
\* send_half, and a queued message has bytes left.
BytesInv ==
    \A m \in Msg :
        /\ pos[m] <= Size[m]
        /\ m \in InChan \cup InHand => pos[m] = 0
        /\ m \in Listed /\ ~send_half[m] => pos[m] = 0
        /\ SndActive /\ m \in Queued => pos[m] < Size[m]

\* Until OnClose begins, what is owed a SndCb is queued; then it is where OnClose
\* has yet to look.
NothingLost ==
    /\ ~closed => \A m \in Msg : call[m] = "returned" /\ cbs[m] = << >> => m \in Queued
    /\ \A m \in settled : call[m] = "returned"
    /\ closed => \A m \in settled : cbs[m] = << >> =>
           \/ (\E co \in Coroutine : pc[co] = "drain") /\ m \in Listed \cup InChan
           \/ (\E co \in Coroutine : pc[co] = "clear") /\ m \in Listed

MsgInv ==
    /\ FreshCalls /\ CallbackOwed /\ OnePlace /\ QueuedOwed
    /\ BytesInv /\ CallbackTellsTruth /\ NothingLost

\* What a SndCb has been told.
LEMMA OneCode ==
  ASSUME NEW ec \in Ec
  PROVE  /\ ToSet(<< >>) = {} /\ ToSet(<<ec>>) = {ec}
         /\ <<ec>> # << >> /\ Len(<<ec>>) = 1 /\ Append(<< >>, ec) = <<ec>>
  BY DEF ToSet

\* Initially there are no messages.
LEMMA MsgInit == Init => MsgInv
<1> SUFFICES ASSUME Init PROVE MsgInv
  OBVIOUS
<1>0. ToSet(<< >>) = {}
  BY OneCode DEF Ec
<1>1. Listed = {} /\ InChan = {} /\ InHand = {} /\ ToSet(pushed) = {}
  BY <1>0, ShutdownMsgAssumption DEF Init, Listed, InChan, InHand
<1>2. FreshCalls
  BY <1>1 DEF Init, FreshCalls, Queued
<1>3. CallbackOwed
  BY DEF Init, CallbackOwed
<1>4. OnePlace
  BY <1>1 DEF Init, OnePlace, Once
<1>5. QueuedOwed
  BY <1>1 DEF QueuedOwed, Queued
<1>6. BytesInv
  BY <1>1, SizeAssumption DEF Init, BytesInv, Queued
<1>7. CallbackTellsTruth
  BY <1>0 DEF Init, CallbackTellsTruth
<1>8. NothingLost
  BY DEF Init, NothingLost
<1> QED BY <1>2, <1>3, <1>4, <1>5, <1>6, <1>7, <1>8 DEF MsgInv

\* Steps that neither move a message nor tell a SndCb anything.
MsgFrame ==
    /\ UNCHANGED <<call, msg_send_list, held, pushed, has_cb, cbs, send_half, pos, closed, settled>>
    /\ InChan' = InChan /\ (Once(msg_chan, Msg) => Once(msg_chan', Msg))
    /\ pc["snd"] = "relock" => pc'["snd"] = "relock"
    /\ SndActive' => SndActive
    /\ \A co \in Coroutine : pc[co] \in {"drain", "clear"} => pc'[co] = pc[co]

\* Such steps keep the invariant.
LEMMA MsgFrameKeeps ==
  ASSUME MsgInv, MsgFrame
  PROVE  MsgInv'
<1>1. UNCHANGED <<Listed, InChan, InHand, Queued>> /\ ToSet(pushed)' = ToSet(pushed)
  BY DEF MsgFrame, Listed, InHand, Queued
<1>2. FreshCalls'
  BY <1>1 DEF MsgInv, MsgFrame, FreshCalls
<1>3. CallbackOwed' /\ CallbackTellsTruth'
  BY DEF MsgInv, MsgFrame, CallbackOwed, CallbackTellsTruth
<1>4. OnePlace'
  BY <1>1 DEF MsgInv, MsgFrame, OnePlace
<1>5. QueuedOwed'
  BY <1>1 DEF MsgInv, MsgFrame, QueuedOwed
<1>6. BytesInv'
  BY <1>1 DEF MsgInv, MsgFrame, BytesInv
<1>7. NothingLost'
  BY <1>1 DEF MsgInv, MsgFrame, NothingLost
<1> QED BY <1>2, <1>3, <1>4, <1>5, <1>6, <1>7 DEF MsgInv

\* The steps of goSend that only move its program counter and the token.
QuietLoop ==
    /\ UNCHANGED <<call, closer, immediately, msg_send_list, held, msg_chan, pushed, msgVars, byteVars>>
    /\ Start \/ SndLoopStep

\* Where a quiet step of goSend's loop leads.
LEMMA QuietLoopKeeps ==
  ASSUME Typing, MsgInv, QuietLoop, pc["snd"] # "relock", Start \/ pc'["snd"] # "relock"
  PROVE  MsgInv'
<1>0. pc \in [Coroutine -> CoPc] /\ Coroutine = {"snd", "rcv"} /\ CloseTyping
  BY DEF Typing, TypeOK, ControlType, Coroutine, CloseTyping
<1>1. UNCHANGED closeVars
  BY <1>0, LoopMoves DEF QuietLoop
<1>2. \/ pc["snd"] = "off" /\ pc["rcv"] = "off"
      \/ pc["snd"] \in SndLoop /\ pc'["rcv"] = pc["rcv"]
  BY <1>0, LoopMoves DEF QuietLoop, Typing, CloseInv
<1>3. MsgFrame
  <2>1. UNCHANGED <<call, msg_send_list, held, pushed, has_cb, cbs, send_half, pos, closed, settled>>
    BY <1>1 DEF QuietLoop, msgVars, byteVars, closeVars
  <2>2. InChan' = InChan /\ Once(msg_chan', Msg) = Once(msg_chan, Msg)
    BY DEF QuietLoop, InChan
  <2>3. SndActive
    BY <1>2 DEF SndActive, SndFlagged, SndLoop
  <2>4. \A co \in Coroutine : pc[co] \in {"drain", "clear"} => pc'[co] = pc[co]
    BY <1>0, <1>2 DEF SndLoop
  <2> QED BY <2>1, <2>2, <2>3, <2>4 DEF MsgFrame
<1> QED BY <1>3, MsgFrameKeeps

\* An element that is no message does not change what is in the channel.
LEMMA ShutdownMsgPushed ==
  ASSUME ChanType, msg_chan' = Append(msg_chan, ShutdownMsg)
  PROVE  InChan' = InChan /\ (Once(msg_chan, Msg) => Once(msg_chan', Msg))
<1>1. /\ ToSet(Append(msg_chan, ShutdownMsg)) = ToSet(msg_chan) \cup {ShutdownMsg}
      /\ Once(msg_chan, Msg) /\ (ShutdownMsg \in Msg => ShutdownMsg \notin ToSet(msg_chan))
            => Once(Append(msg_chan, ShutdownMsg), Msg)
  <2>1. msg_chan \in Seq(Msg \cup {ShutdownMsg}) /\ ShutdownMsg \in Msg \cup {ShutdownMsg}
    BY DEF ChanType
  <2> QED BY <2>1, AppendQueue
<1> QED BY <1>1, ShutdownMsgAssumption DEF InChan

\* SetCloseEc, the flags, the peer, the Shutdown calls and goReceive.
LEMMA ClosingFrame ==
  ASSUME Typing, MsgInv,
         \/ \E co \in Coroutine : TryEc(co) \/ SetEc(co) \/ Shut(co) \/ SetFlag(co) \/ Notify(co)
         \/ TestSend \/ TestRecv \/ WakeSend \/ ShutWr \/ RecvFail \/ RecvReject
         \/ \E c \in Closer : Shutdown(c) \/ CloserStep(c)
         \/ PeerFin \/ PeerRst
         \/ \E m \in Msg : TimerFires(m)
  PROVE  MsgInv'
<1>0. pc \in [Coroutine -> CoPc] /\ Coroutine = {"snd", "rcv"} /\ ChanType
  BY DEF Typing, TypeOK, ControlType, Coroutine
<1>1. UNCHANGED <<call, msg_send_list, held, pushed, has_cb, cbs, send_half, pos, closed, settled>>
  <2> USE DEF sendVars, chanVars, msgVars, byteVars, closeVars, control
  <2>1. CASE \E co \in Coroutine : TryEc(co) \/ SetEc(co) \/ Shut(co) \/ SetFlag(co) \/ Notify(co)
    BY <2>1 DEF TryEc, SetEc, Shut, SetFlag, Notify
  <2>2. CASE TestSend \/ TestRecv \/ WakeSend \/ ShutWr \/ RecvFail \/ RecvReject
    BY <2>2 DEF TestSend, TestRecv, WakeSend, ShutWr, RecvFail, RecvReject
  <2>3. CASE \E c \in Closer : Shutdown(c) \/ CloserStep(c)
    BY <2>3 DEF Shutdown, CloserStep, ShutdownSetEc, ShutdownSetFlag, ShutdownBoth, ShutdownPush
  <2>4. CASE PeerFin \/ PeerRst \/ \E m \in Msg : TimerFires(m)
    BY <2>4 DEF PeerFin, PeerRst, TimerFires
  <2> QED BY <2>1, <2>2, <2>3, <2>4
<1>2. InChan' = InChan /\ (Once(msg_chan, Msg) => Once(msg_chan', Msg))
  <2>1. msg_chan' = msg_chan \/ msg_chan' = Append(msg_chan, ShutdownMsg)
    <3> USE DEF chanVars
    <3>1. CASE \E co \in Coroutine : TryEc(co) \/ SetEc(co) \/ Shut(co) \/ SetFlag(co) \/ Notify(co)
      BY <3>1 DEF TryEc, SetEc, Shut, SetFlag, Notify
    <3>2. CASE TestSend \/ TestRecv \/ WakeSend \/ ShutWr \/ RecvFail \/ RecvReject
      BY <3>2 DEF TestSend, TestRecv, WakeSend, ShutWr, RecvFail, RecvReject
    <3>3. CASE \E c \in Closer : Shutdown(c) \/ CloserStep(c)
      BY <3>3 DEF Shutdown, CloserStep, ShutdownSetEc, ShutdownSetFlag, ShutdownBoth, ShutdownPush
    <3>4. CASE PeerFin \/ PeerRst \/ \E m \in Msg : TimerFires(m)
      BY <3>4 DEF PeerFin, PeerRst, TimerFires
    <3> QED BY <3>1, <3>2, <3>3, <3>4
  <2> QED BY <1>0, <2>1, ShutdownMsgPushed DEF InChan
<1> DEFINE Moves(co) ==
             /\ pc[co] \notin {"relock", "drain", "clear"}
             /\ \E to \in CoPc : /\ pc' = [pc EXCEPT ![co] = to] /\ to # "relock"
                                 /\ co = "snd" /\ pc[co] \in SndFlagged => to \in SndFlagged
<1>3. pc' = pc \/ \E co \in Coroutine : Moves(co)
  <2> USE DEF Goto, Return, CoPc, EcPc, ClosePc
  <2>1. ASSUME NEW co \in Coroutine, TryEc(co) \/ SetEc(co) \/ Shut(co) \/ SetFlag(co) \/ Notify(co)
        PROVE  Moves(co)
    <3>1. /\ pc[co] \in {"try_ec", "set_ec", "shut", "flag", "notify"}
          /\ \E to \in {"set_ec", "shut", "flag", "test", "exit"} :
                pc' = [pc EXCEPT ![co] = to] /\ (pc[co] = "notify" => to = "exit")
      BY <2>1 DEF TryEc, SetEc, Shut, SetFlag, Notify, LockCloseEc
    <3> QED BY <3>1 DEF SndFlagged
  <2>2. CASE TestSend
    BY <2>2, <1>0 DEF TestSend, SndFlagged
  <2>3. CASE TestRecv \/ WakeSend \/ ShutWr \/ RecvFail \/ RecvReject
    <3>1. /\ pc["rcv"] \in {"test", "push", "shut_wr", "read"}
          /\ \E to \in {"onclose", "push", "shut_wr", "exit", "try_ec"} : pc' = [pc EXCEPT !["rcv"] = to]
      BY <2>3 DEF TestRecv, WakeSend, ShutWr, RecvFail, RecvReject
    <3> QED BY <3>1, <1>0
  <2>4. CASE \E c \in Closer : Shutdown(c) \/ CloserStep(c)
    BY <2>4 DEF Shutdown, CloserStep, ShutdownSetEc, ShutdownSetFlag, ShutdownBoth, ShutdownPush
  <2>5. CASE PeerFin \/ PeerRst \/ \E m \in Msg : TimerFires(m)
    BY <2>5 DEF PeerFin, PeerRst, TimerFires, control
  <2> QED BY <2>1, <2>2, <2>3, <2>4, <2>5
<1>4. MsgFrame
  <2>1. pc["snd"] = "relock" => pc'["snd"] = "relock"
    BY <1>0, <1>3
  <2>2. SndActive' => SndActive
    BY <1>0, <1>3 DEF SndActive
  <2>3. \A co \in Coroutine : pc[co] \in {"drain", "clear"} => pc'[co] = pc[co]
    BY <1>0, <1>3
  <2> QED BY <1>1, <1>2, <2>1, <2>2, <2>3 DEF MsgFrame
<1> QED BY <1>4, MsgFrameKeeps

-----------------------------------------------------------------------------
(* Calls of Send and SendNoDelay *)

\* The early returns: a call that goes on, or ends before it has a Msg.
LEMMA AcceptKeeps ==
  ASSUME Typing, MsgInv, NEW m \in Msg, NEW next \in {"push", "try", "push_token"},
         call[m] \notin {"returned", "half"}, Accept(m, next),
         UNCHANGED <<pc, msg_send_list, held, msg_chan, pushed, has_cb, send_half, pos, closed, settled>>
  PROVE  MsgInv'
<1> USE DEF MsgInv
<1>0. call \in [Msg -> CallPc] /\ cbs \in [Msg -> Seq(Ec)] /\ has_cb \in [Msg -> BOOLEAN]
  BY DEF Typing, TypeOK, ControlType, MsgType
<1>1. UNCHANGED <<Listed, InChan, InHand, Queued, SndActive>> /\ ToSet(pushed)' = ToSet(pushed)
  BY DEF Listed, InChan, InHand, Queued, SndActive
<1>2. ~has_cb[m] /\ cbs[m] = << >> /\ m \notin Queued /\ m \notin settled /\ pos[m] = 0
  BY DEF FreshCalls, NothingLost
<1> DEFINE ok == <<"ok">>
           shut == <<"shutdown">>
<1>3. \/ /\ Size[m] > 0 /\ cbs' = cbs /\ call' = [call EXCEPT ![m] = next]
      \/ /\ call' = [call EXCEPT ![m] = "returned"]
         /\ \/ Size[m] = 0 /\ cbs' = [cbs EXCEPT ![m] = ok]
            \/ cbs' = [cbs EXCEPT ![m] = shut]
  BY <1>2 DEF Accept, CallCb, GotoCall
<1>4. /\ ok # << >> /\ shut # << >> /\ ok \in Seq(Ec) /\ shut \in Seq(Ec) /\ Len(ok) = 1 /\ Len(shut) = 1
      /\ ToSet(ok) = {"ok"} /\ ToSet(shut) = {"shutdown"}
  BY OneCode DEF Ec
<1> HIDE DEF ok, shut
<1>5. FreshCalls'
  BY <1>0, <1>1, <1>2, <1>3 DEF FreshCalls
<1>6. CallbackOwed'
  <2>1. \A x \in Msg : x # m => UNCHANGED <<call[x], cbs[x], has_cb[x]>>
    BY <1>0, <1>3
  <2>2. ~has_cb'[m] /\ (call'[m] # "returned" \/ cbs'[m] # << >>)
    BY <1>0, <1>2, <1>3, <1>4
  <2>3. Len(cbs'[m]) <= 1
    <3>1. cbs'[m] = << >> \/ (cbs'[m] \in Seq(Ec) /\ Len(cbs'[m]) = 1)
      BY <1>0, <1>2, <1>3, <1>4
    <3>2. CASE cbs'[m] = << >>
      BY <3>2
    <3>3. CASE cbs'[m] \in Seq(Ec) /\ Len(cbs'[m]) = 1
      BY <3>3
    <3> QED BY <3>1, <3>2, <3>3
  <2> QED BY <2>1, <2>2, <2>3 DEF CallbackOwed
<1>7. OnePlace' /\ QueuedOwed' /\ BytesInv'
  BY <1>1 DEF OnePlace, QueuedOwed, BytesInv
<1>8. CallbackTellsTruth'
  BY <1>0, <1>2, <1>3, <1>4 DEF CallbackTellsTruth
<1>9. NothingLost'
  <2>1. \A x \in Msg : x # m => call'[x] = call[x] /\ cbs'[x] = cbs[x]
    BY <1>0, <1>3
  <2>2. call'[m] = "returned" => cbs'[m] # << >>
    BY <1>0, <1>3, <1>4
  <2>3. settled \subseteq Msg
    BY DEF Typing, TypeOK, CloseType
  <2> QED BY <1>1, <1>2, <2>1, <2>2, <2>3 DEF NothingLost
<1> QED BY <1>5, <1>6, <1>7, <1>8, <1>9

\* Send queues a message: it holds its SndCb, and none of it is on the wire.
LEMMA PushMsgKeeps ==
  ASSUME Typing, MsgInv, NEW m \in Msg, PushMsg(m)
  PROVE  MsgInv'
<1> USE DEF MsgInv
<1>0. /\ call \in [Msg -> CallPc] /\ has_cb \in [Msg -> BOOLEAN] /\ send_half \in [Msg -> BOOLEAN]
      /\ msg_chan \in Seq(Msg \cup {ShutdownMsg}) /\ pushed \in Seq(Msg) /\ settled \subseteq Msg
  BY DEF Typing, TypeOK, ControlType, MsgType, ChanType, CloseType
<1>1. /\ call[m] \in {"push", "push_token"} /\ call' = [call EXCEPT ![m] = "returned"]
      /\ has_cb' = [has_cb EXCEPT ![m] = TRUE] /\ send_half' = [send_half EXCEPT ![m] = FALSE]
      /\ UNCHANGED <<pc, msg_send_list, held, cbs, pos, closed, settled>>
      /\ msg_chan' = Append(msg_chan, m) /\ pushed' = Append(pushed, m)
  BY DEF PushMsg, NewMsg, GotoCall, byteVars, closeVars
<1>2. /\ ~has_cb[m] /\ cbs[m] = << >> /\ m \notin Queued /\ m \notin settled /\ pos[m] = 0
      /\ Size[m] > 0
  BY <1>1 DEF FreshCalls, NothingLost
<1>3. /\ Listed' = Listed /\ InHand' = InHand /\ InChan' = InChan \cup {m}
      /\ Queued' = Queued \cup {m} /\ ToSet(pushed') = ToSet(pushed) \cup {m}
      /\ Once(msg_chan', Msg) /\ SndActive' = SndActive
  <2>1. /\ ToSet(Append(msg_chan, m)) = ToSet(msg_chan) \cup {m}
        /\ Once(msg_chan, Msg) /\ (m \in Msg => m \notin ToSet(msg_chan))
               => Once(Append(msg_chan, m), Msg)
    BY <1>0, AppendQueue
  <2>2. ToSet(Append(pushed, m)) = ToSet(pushed) \cup {m}
    BY <1>0, AppendQueue
  <2>3. m \notin ToSet(msg_chan) /\ Once(msg_chan, Msg)
    BY <1>2 DEF Queued, InChan, OnePlace
  <2>4. Listed' = Listed /\ InHand' = InHand /\ InChan' = InChan \cup {m} /\ SndActive' = SndActive
    BY <1>1, <2>1 DEF Listed, InHand, InChan, SndActive
  <2> QED BY <1>1, <2>1, <2>2, <2>3, <2>4 DEF Queued
<1>4. FreshCalls'
  BY <1>0, <1>1, <1>2, <1>3 DEF FreshCalls
<1>5. CallbackOwed' /\ CallbackTellsTruth'
  BY <1>0, <1>1, <1>2 DEF CallbackOwed, CallbackTellsTruth
<1>6. OnePlace'
  BY <1>1, <1>2, <1>3 DEF OnePlace, Queued
<1>7. QueuedOwed'
  BY <1>0, <1>1, <1>3 DEF QueuedOwed, Queued, Listed, InChan, InHand
<1>8. BytesInv'
  BY <1>0, <1>1, <1>2, <1>3 DEF BytesInv, Queued
<1>9. NothingLost'
  BY <1>0, <1>1, <1>2, <1>3 DEF NothingLost
<1> QED BY <1>4, <1>5, <1>6, <1>7, <1>8, <1>9

\* SendNoDelay leaves the rest of a half-sent buffer at the head of the list.
LEMMA PushFrontKeeps ==
  ASSUME Typing, MsgInv, NEW m \in Msg, PushFront(m)
  PROVE  MsgInv'
<1> USE DEF MsgInv
<1>0. /\ call \in [Msg -> CallPc] /\ has_cb \in [Msg -> BOOLEAN] /\ send_half \in [Msg -> BOOLEAN]
      /\ msg_send_list \in Seq(Msg) /\ settled \subseteq Msg
  BY DEF Typing, TypeOK, ControlType, MsgType, SendType, CloseType
<1>1. /\ call[m] = "half" /\ call' = [call EXCEPT ![m] = "returned"]
      /\ has_cb' = [has_cb EXCEPT ![m] = TRUE] /\ send_half' = [send_half EXCEPT ![m] = TRUE]
      /\ UNCHANGED <<pc, msg_chan, pushed, held, cbs, pos, closed, settled>>
      /\ msg_send_list' = <<m>> \o msg_send_list
  BY DEF PushFront, NewMsg, GotoCall, byteVars, closeVars, chanVars
<1>2. /\ ~has_cb[m] /\ cbs[m] = << >> /\ m \notin Queued /\ m \notin settled
      /\ pos[m] > 0 /\ pos[m] < Size[m]
  BY <1>1 DEF FreshCalls, NothingLost
<1>3. /\ Listed' = Listed \cup {m} /\ InHand' = InHand /\ InChan' = InChan
      /\ Queued' = Queued \cup {m} /\ ToSet(pushed)' = ToSet(pushed)
      /\ Once(msg_send_list', Msg) /\ SndActive' = SndActive
  <2>1. /\ ToSet(<<m>> \o msg_send_list) = ToSet(msg_send_list) \cup {m}
        /\ Once(msg_send_list, Msg) /\ m \notin ToSet(msg_send_list)
               => Once(<<m>> \o msg_send_list, Msg)
    BY <1>0, PushFrontQueue
  <2>2. m \notin ToSet(msg_send_list) /\ Once(msg_send_list, Msg)
    BY <1>2 DEF Queued, Listed, OnePlace
  <2>3. Listed' = Listed \cup {m} /\ InHand' = InHand /\ InChan' = InChan /\ SndActive' = SndActive
    BY <1>1, <2>1 DEF Listed, InHand, InChan, SndActive
  <2> QED BY <1>1, <2>1, <2>2, <2>3 DEF Queued
<1>4. FreshCalls'
  BY <1>0, <1>1, <1>2, <1>3 DEF FreshCalls
<1>5. CallbackOwed' /\ CallbackTellsTruth'
  BY <1>0, <1>1, <1>2 DEF CallbackOwed, CallbackTellsTruth
<1>6. OnePlace'
  BY <1>1, <1>2, <1>3 DEF OnePlace, Queued
<1>7. QueuedOwed'
  BY <1>0, <1>1, <1>3 DEF QueuedOwed, Queued, Listed, InChan, InHand
<1>8. BytesInv'
  BY <1>0, <1>1, <1>2, <1>3 DEF BytesInv, Queued
<1>9. NothingLost'
  BY <1>0, <1>1, <1>2, <1>3 DEF NothingLost
<1> QED BY <1>4, <1>5, <1>6, <1>7, <1>8, <1>9

\* write_f on the caller's thread: nothing, a part or all of the buffer.
LEMMA DirectWriteKeeps ==
  ASSUME Typing, MsgInv, NEW m \in Msg, NEW n \in 0..Size[m], DirectWrite(m, n)
  PROVE  MsgInv'
<1> USE DEF MsgInv
<1>0. /\ call \in [Msg -> CallPc] /\ cbs \in [Msg -> Seq(Ec)] /\ pos \in [Msg -> Nat]
      /\ Size \in [Msg -> Nat] /\ settled \subseteq Msg
  BY SizeAssumption DEF Typing, TypeOK, ControlType, MsgType, ByteType, CloseType
<1>1. /\ call[m] = "token" /\ pos' = [pos EXCEPT ![m] = n]
      /\ UNCHANGED <<pc, msg_chan, pushed, msg_send_list, held, has_cb, send_half, closed, settled>>
  BY DEF DirectWrite, closeVars, chanVars
<1>2. ~has_cb[m] /\ cbs[m] = << >> /\ m \notin Queued /\ m \notin settled /\ Size[m] > 0
  BY <1>1 DEF FreshCalls, NothingLost
<1>3. UNCHANGED <<Listed, InChan, InHand, Queued, SndActive>> /\ ToSet(pushed)' = ToSet(pushed)
  BY <1>1 DEF Listed, InChan, InHand, Queued, SndActive
<1> DEFINE ok == <<"ok">>
<1>4. \/ n = 0 /\ call' = [call EXCEPT ![m] = "send"] /\ cbs' = cbs
      \/ n = Size[m] /\ call' = [call EXCEPT ![m] = "returned"] /\ cbs' = [cbs EXCEPT ![m] = ok]
      \/ n > 0 /\ n < Size[m] /\ call' = [call EXCEPT ![m] = "half"] /\ cbs' = cbs
  BY <1>0, <1>2 DEF DirectWrite, GotoCall, CallCb
<1>5. ok # << >> /\ ok \in Seq(Ec) /\ Len(ok) = 1 /\ ToSet(ok) = {"ok"} /\ ToSet(<< >>) = {}
  BY OneCode DEF Ec
<1> HIDE DEF ok
<1>6. FreshCalls'
  BY <1>0, <1>1, <1>2, <1>3, <1>4 DEF FreshCalls
<1>7. CallbackOwed'
  <2>1. \A x \in Msg : x # m => UNCHANGED <<call[x], cbs[x], has_cb[x]>>
    BY <1>0, <1>1, <1>4
  <2>2. ~has_cb'[m] /\ (call'[m] # "returned" \/ cbs'[m] # << >>)
    BY <1>0, <1>1, <1>2, <1>4, <1>5
  <2>3. Len(cbs'[m]) <= 1
    <3>1. cbs'[m] = << >> \/ (cbs'[m] \in Seq(Ec) /\ Len(cbs'[m]) = 1)
      BY <1>0, <1>1, <1>2, <1>4, <1>5
    <3>2. CASE cbs'[m] = << >>
      BY <3>2
    <3>3. CASE cbs'[m] \in Seq(Ec) /\ Len(cbs'[m]) = 1
      BY <3>3
    <3> QED BY <3>1, <3>2, <3>3
  <2> QED BY <2>1, <2>2, <2>3 DEF CallbackOwed
<1>8. OnePlace' /\ QueuedOwed'
  BY <1>1, <1>3 DEF OnePlace, QueuedOwed
<1>9. BytesInv'
  BY <1>0, <1>1, <1>2, <1>3 DEF BytesInv, Queued
<1>10. CallbackTellsTruth'
  BY <1>0, <1>1, <1>2, <1>4, <1>5 DEF CallbackTellsTruth
<1>11. NothingLost'
  <2>1. \A x \in Msg : x # m => call'[x] = call[x] /\ cbs'[x] = cbs[x]
    BY <1>0, <1>4
  <2>2. call'[m] = "returned" => cbs'[m] # << >>
    BY <1>0, <1>4, <1>5
  <2> QED BY <1>0, <1>1, <1>2, <1>3, <2>1, <2>2 DEF NothingLost
<1> QED BY <1>6, <1>7, <1>8, <1>9, <1>10, <1>11

\* Every step of a call keeps the invariant.
LEMMA CallKeeps ==
  ASSUME Typing, MsgInv, NEW m \in Msg, Send(m) \/ SendNoDelay(m) \/ CallStep(m)
  PROVE  MsgInv'
<1> USE DEF chanVars, sendVars, byteVars, closeVars, msgVars
<1>1. CASE Send(m)
  BY <1>1, AcceptKeeps DEF Send
<1>2. CASE SendNoDelay(m)
  BY <1>2, AcceptKeeps DEF SendNoDelay
<1>3. CASE SendFromNoDelay(m)
  BY <1>3, AcceptKeeps DEF SendFromNoDelay
<1>4. CASE TryToken(m)
  <2>1. /\ call[m] = "try" /\ (call' = [call EXCEPT ![m] = "token"] \/ call' = [call EXCEPT ![m] = "send"])
        /\ UNCHANGED <<pc, msg_chan, pushed, msg_send_list, held, has_cb, cbs, send_half, pos, closed,
                       settled>>
    BY <1>4 DEF TryToken, GotoCall
  <2>2. call \in [Msg -> CallPc]
    BY DEF Typing, TypeOK, ControlType
  <2>3. UNCHANGED <<Listed, InChan, InHand, Queued, SndActive>> /\ ToSet(pushed)' = ToSet(pushed)
    BY <2>1 DEF Listed, InChan, InHand, Queued, SndActive
  <2>4. FreshCalls' /\ CallbackOwed'
    BY <2>1, <2>2, <2>3 DEF MsgInv, FreshCalls, CallbackOwed
  <2>5. NothingLost'
    <3>1. settled \subseteq Msg
      BY DEF Typing, TypeOK, CloseType
    <3> QED BY <2>1, <2>2, <2>3, <3>1 DEF MsgInv, NothingLost
  <2>6. OnePlace' /\ QueuedOwed' /\ BytesInv' /\ CallbackTellsTruth'
    BY <2>1, <2>3 DEF MsgInv, OnePlace, QueuedOwed, BytesInv, CallbackTellsTruth
  <2> QED BY <2>4, <2>5, <2>6 DEF MsgInv
<1> QED BY <1>1, <1>2, <1>3, <1>4, PushMsgKeeps, PushFrontKeeps, DirectWriteKeeps DEF CallStep

-----------------------------------------------------------------------------
(* goSend and OnClose *)

\* The Msgs of S call the SndCb they hold, with ec; the others keep theirs.
Tells(S, ec) ==
    \A m \in Msg :
        /\ has_cb'[m] <=> has_cb[m] /\ m \notin S
        /\ cbs'[m] = IF m \in S /\ has_cb[m] THEN Append(cbs[m], ec) ELSE cbs[m]

\* Where OnClose has yet to look for a settled call.
ToBeTold(m) ==
    \/ (\E co \in Coroutine : pc[co] = "drain") /\ m \in Listed \cup InChan
    \/ (\E co \in Coroutine : pc[co] = "clear") /\ m \in Listed

\* Msg::Done tells what it should; without it nobody is told.
LEMMA DoneTells ==
  ASSUME Typing
  PROVE  /\ \A S, ec : Done(S, ec) => Tells(S, ec)
         /\ UNCHANGED <<has_cb, cbs>> => Tells({}, "shutdown")
  BY DEF Typing, TypeOK, MsgType, Done, Tells

\* A SndCb that is called had not been called.
LEMMA TellsOnce ==
  ASSUME Typing, MsgInv, NEW S, NEW ec \in Ec, Tells(S, ec), NEW m \in Msg
  PROVE  /\ m \in S /\ has_cb[m] => call[m] = "returned" /\ cbs[m] = << >> /\ cbs'[m] = <<ec>>
         /\ ~(m \in S /\ has_cb[m]) => cbs'[m] = cbs[m]
         /\ Len(cbs'[m]) <= 1
<1>1. m \in S /\ has_cb[m] => call[m] = "returned" /\ cbs[m] = << >> /\ cbs'[m] = <<ec>>
  <2> SUFFICES ASSUME m \in S, has_cb[m] PROVE call[m] = "returned" /\ cbs[m] = << >> /\ cbs'[m] = <<ec>>
    OBVIOUS
  <2>1. call[m] = "returned" /\ cbs[m] = << >>
    BY DEF MsgInv, FreshCalls, CallbackOwed
  <2>2. cbs'[m] = Append(cbs[m], ec)
    BY DEF Tells
  <2> QED BY <2>1, <2>2, OneCode
<1>2. ~(m \in S /\ has_cb[m]) => cbs'[m] = cbs[m]
  BY DEF Tells
<1>3. Len(cbs'[m]) <= 1
  <2>1. CASE cbs'[m] = <<ec>>
    BY <2>1
  <2>2. CASE cbs'[m] = cbs[m]
    BY <2>2 DEF MsgInv, CallbackOwed
  <2> QED BY <1>1, <1>2, <2>1, <2>2
<1> QED BY <1>1, <1>2, <1>3

\* A step that moves messages on, tells some of them (S), and loses no other.
LEMMA SettleKeeps ==
  ASSUME Typing, MsgInv, NEW S, NEW ec \in Ec, Tells(S, ec),
         UNCHANGED <<call, pushed, pos, send_half, closed, settled>>,
         InChan' \cup InHand' \subseteq InChan \cup InHand,
         Queued' \subseteq Queued, Queued \subseteq Queued' \cup S,
         SndActive' => SndActive /\ Queued' \cap S = {},
         OnePlace',
         \A m \in Msg \cap S : has_cb[m] => ec = "shutdown" \/ (ec = "timeout" /\ pos[m] = 0),
         \A m \in settled \ S : closed /\ ToBeTold(m) => ToBeTold(m)'
  PROVE  MsgInv'
<1> USE DEF MsgInv
<1>0. Queued \subseteq Msg /\ settled \subseteq Msg
  <2>1. Listed \subseteq Msg
    BY ToSetMember DEF Typing, TypeOK, SendType, Listed
  <2> QED BY <2>1 DEF Queued, InChan, InHand, Typing, TypeOK, CloseType
<1>1. \A m \in Msg :
         /\ m \in S /\ has_cb[m] => call[m] = "returned" /\ cbs[m] = << >> /\ cbs'[m] = <<ec>>
         /\ ~(m \in S /\ has_cb[m]) => cbs'[m] = cbs[m]
         /\ Len(cbs'[m]) <= 1
         /\ has_cb'[m] <=> has_cb[m] /\ m \notin S
  BY TellsOnce DEF Tells
<1>2. <<ec>> # << >> /\ ToSet(<<ec>>) = {ec} /\ ToSet(<< >>) = {}
  BY OneCode
<1>3. FreshCalls'
  BY <1>1 DEF FreshCalls
<1>4. CallbackOwed'
  <2>1. ASSUME NEW m \in Msg, call[m] = "returned" PROVE has_cb'[m] <=> cbs'[m] = << >>
    BY <1>1, <1>2, <2>1 DEF CallbackOwed
  <2> QED BY <1>1, <2>1 DEF CallbackOwed
<1>5. QueuedOwed'
  BY <1>0, <1>1 DEF QueuedOwed
<1>6. BytesInv'
  <2> SUFFICES ASSUME NEW m \in Msg
               PROVE  /\ pos[m] <= Size[m]
                      /\ m \in InChan' \cup InHand' => pos[m] = 0
                      /\ m \in Listed' /\ ~send_half[m] => pos[m] = 0
                      /\ SndActive' /\ m \in Queued' => pos[m] < Size[m]
    BY DEF BytesInv
  <2>1. Listed' \subseteq Queued
    BY DEF Queued
  <2> QED BY <2>1 DEF BytesInv, Queued
<1>7. CallbackTellsTruth'
  <2> SUFFICES ASSUME NEW m \in Msg
               PROVE  /\ "ok" \in ToSet(cbs'[m]) => pos[m] = Size[m]
                      /\ "timeout" \in ToSet(cbs'[m]) => pos[m] = 0
    BY DEF CallbackTellsTruth
  <2>1. CASE m \in S /\ has_cb[m]
    BY <1>1, <1>2, <2>1
  <2>2. CASE ~(m \in S /\ has_cb[m])
    BY <1>1, <2>2 DEF CallbackTellsTruth
  <2> QED BY <2>1, <2>2
<1>8. NothingLost'
  <2>1. ASSUME NEW m \in Msg, call[m] = "returned", cbs'[m] = << >>
        PROVE  cbs[m] = << >> /\ m \notin S
    BY <1>1, <1>2, <2>1 DEF CallbackOwed
  <2>2. ~closed => \A m \in Msg : call[m] = "returned" /\ cbs'[m] = << >> => m \in Queued'
    BY <2>1 DEF NothingLost
  <2>3. closed => \A m \in settled : cbs'[m] = << >> => ToBeTold(m)'
    BY <1>0, <2>1 DEF NothingLost, ToBeTold
  <2>4. \A m \in settled : call[m] = "returned"
    BY DEF NothingLost
  <2> QED BY <2>2, <2>3, <2>4 DEF NothingLost, ToBeTold
<1> QED BY <1>3, <1>4, <1>5, <1>6, <1>7, <1>8

\* While goSend is active OnClose has not begun.
LEMMA ActiveNotClosed ==
  ASSUME Typing, SndActive
  PROVE  ~closed
  BY DEF Typing, CloseInv, SndActive

\* goSend looks at the message it took: it is told of its timeout, or listed.
LEMMA TakeKeeps ==
  ASSUME Typing, MsgInv, NEW x \in Msg \cup {ShutdownMsg}, Take(x),
         UNCHANGED <<call, pushed, pos, closed, settled>>, pc["snd"] \in {"pop", "relock"},
         x \in Msg => x \in InChan \cup InHand,
         InChan' = (InChan \cup InHand) \ {x}, held' = ShutdownMsg,
         Once(msg_chan', Msg)
  PROVE  MsgInv'
<1> USE DEF MsgInv
<1>0. /\ pc \in [Coroutine -> CoPc] /\ "snd" \in Coroutine /\ msg_send_list \in Seq(Msg)
      /\ ShutdownMsg \notin Msg
  BY ShutdownMsgAssumption DEF Typing, TypeOK, ControlType, SendType, Coroutine
<1>1. SndActive /\ SndActive' /\ pc'["snd"] # "relock"
  BY <1>0 DEF Take, Goto, SndActive, SndFlagged
<1>2. ~closed
  BY <1>1, ActiveNotClosed
<1>3. InHand' = {}
  BY <1>0 DEF InHand
<1>4. Listed \cap (InChan \cup InHand) = {} /\ Once(msg_send_list, Msg)
  BY DEF OnePlace
<1>5. CASE x = ShutdownMsg \/ timer[x] = "fired"
  <2>1. msg_send_list' = msg_send_list /\ Listed' = Listed /\ send_half' = send_half
    <3>1. CASE x = ShutdownMsg
      BY <1>0, <3>1 DEF Take, Listed, msgVars
    <3>2. CASE x # ShutdownMsg /\ timer[x] = "fired"
      BY <3>2 DEF Take, Listed
    <3> QED BY <1>5, <3>1, <3>2
  <2>2. \E ec \in {"timeout", "shutdown"} :
           Tells({x} \cap Msg, ec) /\ (x \in Msg => ec = "timeout")
    <3>1. CASE x = ShutdownMsg
      <4>1. UNCHANGED <<has_cb, cbs>> /\ {x} \cap Msg = {}
        BY <1>0, <3>1 DEF Take, msgVars
      <4>2. Tells({x} \cap Msg, "shutdown")
        BY <4>1, DoneTells
      <4> QED BY <1>0, <3>1, <4>2
    <3>2. CASE x # ShutdownMsg
      <4>1. Done({x}, "timeout") /\ {x} \cap Msg = {x}
        BY <1>5, <3>2 DEF Take
      <4>2. Tells({x} \cap Msg, "timeout")
        BY <4>1, DoneTells
      <4> QED BY <4>2
    <3> QED BY <3>1, <3>2
  <2> PICK ec \in {"timeout", "shutdown"} : Tells({x} \cap Msg, ec) /\ (x \in Msg => ec = "timeout")
    BY <2>2
  <2>3. x \in Msg => pos[x] = 0
    BY DEF BytesInv
  <2>4. OnePlace'
    BY <1>1, <1>3, <1>4, <2>1 DEF OnePlace
  <2>5. ec \in Ec /\ \A m \in Msg \cap ({x} \cap Msg) : ec = "timeout" /\ pos[m] = 0
    BY <2>3 DEF Ec
  <2>6. /\ Queued' \subseteq Queued /\ Queued \subseteq Queued' \cup ({x} \cap Msg)
        /\ Queued' \cap ({x} \cap Msg) = {} /\ InChan' \cup InHand' \subseteq InChan \cup InHand
    <3>1. InChan \cup InHand \subseteq Msg
      BY DEF InChan, InHand
    <3> QED BY <1>3, <1>4, <2>1, <3>1 DEF Queued
  <2> QED BY <1>1, <1>2, <2>1, <2>4, <2>5, <2>6, SettleKeeps
<1>6. CASE x # ShutdownMsg /\ timer[x] # "fired"
  <2>1. msg_send_list' = Append(msg_send_list, x) /\ UNCHANGED <<has_cb, cbs, send_half>>
    BY <1>6 DEF Take, msgVars
  <2>2. x \in Msg /\ x \notin ToSet(msg_send_list)
    BY <1>4, <1>6 DEF Listed
  <2>3. Listed' = Listed \cup {x} /\ Once(msg_send_list', Msg)
    BY <1>0, <1>4, <2>1, <2>2, AppendQueue DEF Listed
  <2>4. Tells({}, "shutdown") /\ "shutdown" \in Ec
    BY <2>1, DoneTells DEF Ec
  <2>5. OnePlace'
    BY <1>1, <1>3, <1>4, <2>3 DEF OnePlace
  <2>6. /\ Queued' \subseteq Queued /\ Queued \subseteq Queued' \cup {}
        /\ InChan' \cup InHand' \subseteq InChan \cup InHand
    BY <1>3, <2>2, <2>3 DEF Queued
  <2> QED BY <1>1, <1>2, <2>1, <2>4, <2>5, <2>6, SettleKeeps
<1> QED BY <1>5, <1>6

\* TryPop, the blocking pop, and the look at what it returned.
LEMMA PopKeeps ==
  ASSUME Typing, MsgInv, Pop \/ Wait \/ Relock
  PROVE  MsgInv'
<1>0. /\ pc \in [Coroutine -> CoPc] /\ "snd" \in Coroutine /\ ShutdownMsg \notin Msg
      /\ msg_chan \in Seq(Msg \cup {ShutdownMsg}) /\ held \in Msg \cup {ShutdownMsg}
  BY ShutdownMsgAssumption DEF Typing, TypeOK, ControlType, SendType, ChanType, Coroutine
<1>1. Once(msg_chan, Msg) /\ (pc["snd"] # "relock" => held = ShutdownMsg)
  BY DEF MsgInv, OnePlace
<1>2. msg_chan # << >> =>
         /\ ToSet(msg_chan) = ToSet(Tail(msg_chan)) \cup {Head(msg_chan)}
         /\ Head(msg_chan) \in Msg \cup {ShutdownMsg}
         /\ Once(Tail(msg_chan), Msg)
         /\ Head(msg_chan) \in Msg => Head(msg_chan) \notin ToSet(Tail(msg_chan))
  BY <1>0, <1>1, TailQueue
<1>3. CASE Pop
  <2>1. /\ UNCHANGED <<call, held, pushed, pos, closed, settled>> /\ pc["snd"] = "pop"
    BY <1>3 DEF Pop, byteVars, closeVars
  <2>2. CASE msg_chan # << >> /\ msg_chan' = Tail(msg_chan) /\ Take(Head(msg_chan))
    <3>1. held = ShutdownMsg /\ InHand = {}
      BY <1>0, <1>1, <2>1 DEF InHand
    <3>2. /\ Head(msg_chan) \in Msg => Head(msg_chan) \in InChan \cup InHand
          /\ InChan' = (InChan \cup InHand) \ {Head(msg_chan)}
      BY <1>0, <1>2, <2>2, <3>1 DEF InChan
    <3> QED BY <1>2, <2>1, <2>2, <3>1, <3>2, TakeKeeps
  <2>3. CASE /\ UNCHANGED <<msg_chan, msg_send_list, room, msg_shutdown, msgVars>>
             /\ Goto("snd", "build") \/ Goto("snd", "empty")
    <3>1. QuietLoop
      BY <1>3, <2>3 DEF QuietLoop, SndLoopStep, Pop
    <3>2. pc["snd"] # "relock" /\ pc'["snd"] # "relock"
      BY <1>0, <2>1, <2>3 DEF Goto
    <3> QED BY <3>1, <3>2, QuietLoopKeeps
  <2> QED BY <1>3, <2>2, <2>3 DEF Pop
<1>4. CASE Wait
  <2>1. /\ UNCHANGED <<call, msg_send_list, pushed, pos, has_cb, cbs, send_half, closed, settled>>
        /\ pc["snd"] = "wait" /\ pc' = [pc EXCEPT !["snd"] = "relock"]
        /\ msg_chan # << >> /\ held' = Head(msg_chan) /\ msg_chan' = Tail(msg_chan)
    BY <1>4 DEF Wait, Goto, byteVars, closeVars, msgVars
  <2>2. held = ShutdownMsg /\ InHand = {}
    BY <1>0, <1>1, <2>1 DEF InHand
  <2>3. Listed' = Listed /\ InChan' \cap InHand' = {} /\ InChan' \cup InHand' = InChan
    BY <1>0, <1>2, <2>1 DEF Listed, InChan, InHand
  <2>4. Listed \cap InChan = {} /\ Once(msg_send_list, Msg)
    BY DEF MsgInv, OnePlace
  <2>5. OnePlace'
    BY <1>0, <1>2, <2>1, <2>3, <2>4 DEF OnePlace
  <2>6. SndActive /\ SndActive'
    BY <1>0, <2>1 DEF SndActive, SndFlagged
  <2>7. ~closed
    BY <2>6, ActiveNotClosed
  <2>8. Queued' = Queued
    BY <2>2, <2>3 DEF Queued
  <2>9. Tells({}, "shutdown") /\ "shutdown" \in Ec
    BY <2>1, DoneTells DEF Ec
  <2> QED BY <2>1, <2>2, <2>3, <2>5, <2>6, <2>7, <2>8, <2>9, SettleKeeps
<1>5. CASE Relock
  <2>1. /\ UNCHANGED <<call, msg_chan, pushed, pos, closed, settled>>
        /\ pc["snd"] = "relock" /\ held' = ShutdownMsg /\ Take(held)
    BY <1>5 DEF Relock, byteVars, closeVars, chanVars
  <2>2. InChan \cap InHand = {}
    BY DEF MsgInv, OnePlace
  <2>3. /\ held \in Msg => held \in InChan \cup InHand
        /\ InChan' = (InChan \cup InHand) \ {held}
    BY <2>1, <2>2 DEF InChan, InHand
  <2> QED BY <1>0, <1>1, <2>1, <2>3, TakeKeeps
<1> QED BY <1>3, <1>4, <1>5

\* A message that is late leaves the list only if none of it is on the wire.
LEMMA BuildKeeps ==
  ASSUME Typing, MsgInv, Build
  PROVE  MsgInv'
<1>0. /\ pc \in [Coroutine -> CoPc] /\ "snd" \in Coroutine /\ msg_send_list \in Seq(Msg)
      /\ buffered \in Nat /\ Len(msg_send_list) \in Nat
  BY DEF Typing, TypeOK, ControlType, SendType, Coroutine
<1>1. /\ pc["snd"] = "build"
      /\ UNCHANGED <<call, closer, immediately, held, chanVars, byteVars, closeVars>>
  BY DEF Build
<1> DEFINE it == buffered + 1
           m == msg_send_list[it]
<1>2. CASE /\ it <= Len(msg_send_list) /\ Expired(m)
           /\ Done({m}, "timeout")
           /\ msg_send_list' = RemoveAt(msg_send_list, it)
           /\ UNCHANGED <<pc, send_half>>
  <2>1. it \in 1..Len(msg_send_list) /\ m \in Msg
    BY <1>0, <1>2
  <2>2. /\ ToSet(msg_send_list) = ToSet(msg_send_list') \cup {m}
        /\ Once(msg_send_list, Msg) => Once(msg_send_list', Msg) /\ (m \in Msg => m \notin ToSet(msg_send_list'))
    BY <1>0, <1>2, <2>1, RemoveAtQueue
  <2> HIDE DEF m, it
  <2>3. OnePlace /\ Once(msg_send_list, Msg)
    BY DEF MsgInv, OnePlace
  <2>4. Listed = Listed' \cup {m} /\ m \notin Listed' /\ Once(msg_send_list', Msg)
    BY <2>1, <2>2, <2>3 DEF Listed
  <2>5. InChan' = InChan /\ InHand' = InHand
    BY <1>1 DEF InChan, InHand, chanVars
  <2>6. OnePlace'
    BY <1>1, <1>2, <2>3, <2>4, <2>5 DEF OnePlace, chanVars
  <2>7. m \in Listed /\ pos[m] = 0
    BY <1>2, <2>1, <2>4 DEF MsgInv, BytesInv, Expired
  <2>8. SndActive /\ SndActive'
    BY <1>1, <1>2 DEF SndActive, SndFlagged
  <2>9. ~closed
    BY <2>8, ActiveNotClosed
  <2>10. Queued' \subseteq Queued /\ Queued \subseteq Queued' \cup {m} /\ Queued' \cap {m} = {}
    <3>1. m \notin InChan /\ m \notin InHand
      BY <2>3, <2>7 DEF OnePlace
    <3> QED BY <2>4, <2>5, <3>1 DEF Queued
  <2>11. Tells({m}, "timeout") /\ "timeout" \in Ec
    BY <1>2, DoneTells DEF Ec
  <2>12. UNCHANGED <<call, pushed, pos, send_half, closed, settled>>
    BY <1>1, <1>2 DEF chanVars, byteVars, closeVars
  <2> QED BY <2>5, <2>6, <2>7, <2>8, <2>9, <2>10, <2>11, <2>12, SettleKeeps
<1>3. CASE UNCHANGED <<msg_send_list, msgVars>> /\ (pc' = pc \/ Goto("snd", "write") \/ Goto("snd", "top"))
  <2>1. QuietLoop
    BY <1>1, <1>3 DEF QuietLoop, SndLoopStep, chanVars
  <2>2. pc["snd"] # "relock" /\ pc'["snd"] # "relock"
    BY <1>0, <1>1, <1>3 DEF Goto
  <2> QED BY <2>1, <2>2, QuietLoopKeeps
<1>4. ~(it > Len(msg_send_list)) => it <= Len(msg_send_list)
  BY <1>0
<1> QED BY <1>2, <1>3, <1>4 DEF Build, EndIteration

\* What a write does to the list and to the bytes: the first k messages are
\* sent, and r bytes of the next one, fewer than it has left.
LEMMA WriteMoves ==
  ASSUME Typing, MsgInv, NEW k \in 0..buffered, NEW r \in PartAfter(k), WriteSome(k, r)
  PROVE  LET S == Sent(k, r)
             next == msg_send_list[k + 1]
         IN /\ S \subseteq Listed /\ S \subseteq Msg /\ Listed' = Listed \ S
            /\ Once(msg_send_list', Msg)
            /\ r \in Nat
            /\ r > 0 => next \in Listed' /\ next \in Msg /\ pos[next] + r < Size[next]
            /\ \A m \in Msg : /\ m \in S => pos'[m] = Size[m]
                              /\ r > 0 /\ m = next => pos'[m] = pos[m] + r /\ send_half'[m]
                              /\ m \notin S /\ ~(r > 0 /\ m = next) =>
                                     pos'[m] = pos[m] /\ send_half'[m] = send_half[m]
<1> DEFINE S == Sent(k, r)
           next == msg_send_list[k + 1]
           rest == SubSeq(msg_send_list, k + 1, Len(msg_send_list))
<1>0. /\ msg_send_list \in Seq(Msg) /\ Len(msg_send_list) \in Nat /\ pos \in [Msg -> Nat]
      /\ Size \in [Msg -> Nat] /\ send_half \in [Msg -> BOOLEAN] /\ buffered \in Nat
  BY SizeAssumption DEF Typing, TypeOK, SendType, ByteType, MsgType
<1>1. pc["snd"] = "write" /\ buffered <= Len(msg_send_list) /\ k \in 0..Len(msg_send_list)
  BY <1>0 DEF WriteSome, Typing, SendInv
<1>2. S = {msg_send_list[i] : i \in 1..k} /\ msg_send_list' = rest
  BY DEF Sent, WriteSome, Unsent
<1>3. /\ rest \in Seq(Msg) /\ Len(rest) = Len(msg_send_list) - k
      /\ \A i \in 1..Len(rest) : rest[i] = msg_send_list[k + i]
      /\ \A y : y \in ToSet(msg_send_list) <=> y \in ToSet(rest) \/ \E i \in 1..k : y = msg_send_list[i]
      /\ Once(msg_send_list, Msg) =>
            Once(rest, Msg) /\ \A i \in 1..k : msg_send_list[i] \in Msg => msg_send_list[i] \notin ToSet(rest)
  <2>1. msg_send_list \in Seq(Msg) /\ k \in 0..Len(msg_send_list)
    BY <1>0, <1>1
  <2>2. /\ rest \in Seq(Msg) /\ Len(rest) = Len(msg_send_list) - k
        /\ \A i \in 1..Len(rest) : rest[i] = msg_send_list[k + i]
    BY <2>1, SuffixQueue
  <2>3. \A y : y \in ToSet(msg_send_list) <=> y \in ToSet(rest) \/ \E i \in 1..k : y = msg_send_list[i]
    BY <2>1, SuffixQueue
  <2>4. Once(msg_send_list, Msg) =>
           Once(rest, Msg) /\ \A i \in 1..k : msg_send_list[i] \in Msg => msg_send_list[i] \notin ToSet(rest)
    BY <2>1, SuffixQueue
  <2> QED BY <2>2, <2>3, <2>4
<1>4. \A i \in 1..k : msg_send_list[i] \in Msg
  BY <1>0, <1>1
<1>5. Once(msg_send_list, Msg)
  BY DEF MsgInv, OnePlace
<1>6. S \subseteq Listed /\ S \subseteq Msg /\ Listed' = Listed \ S /\ Once(msg_send_list', Msg)
  <2> HIDE DEF rest
  <2>1. S \cap ToSet(rest) = {}
    BY <1>2, <1>3, <1>4, <1>5
  <2> QED BY <1>2, <1>3, <1>4, <1>5, <2>1 DEF Listed
<1>7. r \in Nat /\ (r > 0 => k < buffered /\ next \in Msg /\ pos[next] + r < Size[next])
  <2>1. CASE k < buffered
    <3>1. next \in Msg
      BY <1>0, <1>1, <2>1
    <3>2. r \in 0..(Size[next] - pos[next] - 1)
      BY <2>1 DEF PartAfter
    <3>3. Size[next] \in Nat /\ pos[next] \in Nat
      BY <1>0, <3>1
    <3> QED BY <2>1, <3>1, <3>2, <3>3
  <2>2. CASE ~(k < buffered)
    BY <2>2 DEF PartAfter
  <2> QED BY <2>1, <2>2
<1>8. r > 0 => next \in Listed'
  <2> SUFFICES ASSUME r > 0 PROVE next \in ToSet(rest)
    BY <1>2 DEF Listed
  <2>1. 1 \in 1..Len(rest) /\ rest[1] = next
    BY <1>0, <1>1, <1>3, <1>7
  <2> HIDE DEF rest
  <2> QED BY <1>3, <2>1, ToSetMember
<1>9. ASSUME NEW m \in Msg
      PROVE  /\ m \in S => pos'[m] = Size[m]
             /\ r > 0 /\ m = next => pos'[m] = pos[m] + r /\ send_half'[m]
             /\ m \notin S /\ ~(r > 0 /\ m = next) => pos'[m] = pos[m] /\ send_half'[m] = send_half[m]
  <2>1. r > 0 => next \notin S
    BY <1>6, <1>8
  <2>2. pos'[m] = IF m \in S THEN Size[m] ELSE IF r > 0 /\ m = next THEN pos[m] + r ELSE pos[m]
    BY <1>2 DEF WriteSome
  <2>3. send_half'[m] = (send_half[m] \/ (r > 0 /\ m = next))
    BY DEF WriteSome
  <2> HIDE DEF S, next
  <2> QED BY <1>0, <2>1, <2>2, <2>3
<1> QED BY <1>6, <1>7, <1>8, <1>9

\* A write tells every message it completes, and only those.
LEMMA WriteKeeps ==
  ASSUME Typing, MsgInv, NEW k \in 0..buffered, NEW r \in PartAfter(k), WriteSome(k, r)
  PROVE  MsgInv'
<1> DEFINE S == Sent(k, r)
           next == msg_send_list[k + 1]
<1> USE DEF MsgInv
<1>0. /\ pos \in [Msg -> Nat] /\ Size \in [Msg -> Nat] /\ send_half \in [Msg -> BOOLEAN]
      /\ pc \in [Coroutine -> CoPc] /\ "snd" \in Coroutine /\ settled \subseteq Msg
  BY SizeAssumption DEF Typing, TypeOK, ByteType, MsgType, ControlType, Coroutine, CloseType
<1>1. /\ UNCHANGED <<call, held, msg_chan, pushed, closed, settled>>
      /\ pc["snd"] = "write" /\ pc' = [pc EXCEPT !["snd"] = "top"]
      /\ Done(S, "ok")
  BY DEF WriteSome, EndIteration, Goto, chanVars, closeVars
<1>2. /\ S \subseteq Listed /\ S \subseteq Msg /\ Listed' = Listed \ S
      /\ Once(msg_send_list', Msg)
      /\ r \in Nat
      /\ r > 0 => next \in Listed' /\ next \in Msg /\ pos[next] + r < Size[next]
      /\ \A m \in Msg : /\ m \in S => pos'[m] = Size[m]
                        /\ r > 0 /\ m = next => pos'[m] = pos[m] + r /\ send_half'[m]
                        /\ m \notin S /\ ~(r > 0 /\ m = next) =>
                               pos'[m] = pos[m] /\ send_half'[m] = send_half[m]
  BY WriteMoves
<1> HIDE DEF S, next
<1>3. SndActive /\ SndActive' /\ ~closed
  <2>1. SndActive /\ SndActive'
    BY <1>0, <1>1 DEF SndActive, SndFlagged
  <2> QED BY <2>1, ActiveNotClosed
<1>4. InChan' = InChan /\ InHand' = InHand /\ ToSet(pushed)' = ToSet(pushed)
  BY <1>1 DEF InChan, InHand
<1>5. Listed \cap (InChan \cup InHand) = {} /\ InChan \cap InHand = {} /\ Once(msg_chan, Msg)
      /\ held = ShutdownMsg
  BY <1>1 DEF OnePlace
<1>6. Queued' = Queued \ S
  BY <1>2, <1>4, <1>5 DEF Queued
<1>7. Tells(S, "ok") /\ "ok" \in Ec
  BY <1>1, DoneTells DEF Ec
<1>8. \A m \in Msg :
         /\ m \in S /\ has_cb[m] => call[m] = "returned" /\ cbs[m] = << >> /\ cbs'[m] = <<"ok">>
         /\ ~(m \in S /\ has_cb[m]) => cbs'[m] = cbs[m]
         /\ Len(cbs'[m]) <= 1
         /\ has_cb'[m] <=> has_cb[m] /\ m \notin S
  BY <1>7, TellsOnce DEF Tells
<1>9. <<"ok">> # << >> /\ ToSet(<<"ok">>) = {"ok"} /\ ToSet(<< >>) = {}
  BY <1>7, OneCode
<1>10. FreshCalls'
  <2> SUFFICES ASSUME NEW m \in Msg
               PROVE  /\ call[m] # "returned" =>
                            ~has_cb'[m] /\ cbs'[m] = << >> /\ m \notin Queued' /\ m \notin ToSet(pushed)
                      /\ call[m] \notin {"returned", "half"} => pos'[m] = 0
                      /\ call[m] = "half" => pos'[m] > 0 /\ pos'[m] < Size[m]
                      /\ call[m] \notin {"idle", "returned"} => Size[m] > 0
    BY <1>1, <1>4 DEF FreshCalls
  <2>1. call[m] # "returned" => m \notin Queued /\ pos'[m] = pos[m]
    BY <1>2 DEF FreshCalls, Queued
  <2> QED BY <1>6, <1>8, <2>1 DEF FreshCalls
<1>11. CallbackOwed'
  <2>1. ASSUME NEW m \in Msg, call[m] = "returned" PROVE has_cb'[m] <=> cbs'[m] = << >>
    BY <1>8, <1>9, <2>1 DEF CallbackOwed
  <2> QED BY <1>1, <1>8, <2>1 DEF CallbackOwed
<1>12. OnePlace'
  BY <1>1, <1>2, <1>4, <1>5 DEF OnePlace
<1>13. QueuedOwed'
  <2>1. Queued \subseteq Msg
    <3>1. Listed \subseteq Msg
      BY ToSetMember DEF Typing, TypeOK, SendType, Listed
    <3> QED BY <3>1 DEF Queued, InChan, InHand
  <2> QED BY <1>3, <1>6, <1>8, <2>1 DEF QueuedOwed
<1>14. BytesInv'
  <2> SUFFICES ASSUME NEW m \in Msg
               PROVE  /\ pos'[m] <= Size[m]
                      /\ m \in InChan \cup InHand => pos'[m] = 0
                      /\ m \in Listed' /\ ~send_half'[m] => pos'[m] = 0
                      /\ m \in Queued' => pos'[m] < Size[m]
    BY <1>4 DEF BytesInv
  <2>1. pos[m] \in Nat /\ Size[m] \in Nat
    BY <1>0
  <2>2. CASE m \in S
    BY <1>2, <1>5, <1>6, <2>1, <2>2
  <2>3. CASE r > 0 /\ m = next
    <3>1. pos'[m] = pos[m] + r /\ send_half'[m] /\ pos[m] + r < Size[m] /\ m \in Listed
      BY <1>2, <2>3
    <3> QED BY <1>2, <1>5, <2>1, <3>1
  <2>4. CASE m \notin S /\ ~(r > 0 /\ m = next)
    BY <1>2, <1>3, <1>6, <2>4 DEF BytesInv
  <2> QED BY <2>2, <2>3, <2>4
<1>15. CallbackTellsTruth'
  <2> SUFFICES ASSUME NEW m \in Msg
               PROVE  /\ "ok" \in ToSet(cbs'[m]) => pos'[m] = Size[m]
                      /\ "timeout" \in ToSet(cbs'[m]) => pos'[m] = 0
    BY DEF CallbackTellsTruth
  <2>1. CASE m \in S /\ has_cb[m]
    BY <1>2, <1>8, <1>9, <2>1
  <2>2. CASE ~(m \in S /\ has_cb[m]) /\ cbs[m] = << >>
    BY <1>8, <1>9, <2>2
  <2>3. CASE ~(m \in S /\ has_cb[m]) /\ cbs[m] # << >>
    <3>1. ~has_cb[m]
      BY <2>3 DEF FreshCalls, CallbackOwed
    <3>2. m \notin Listed
      BY <1>3, <3>1 DEF QueuedOwed, Queued
    <3>3. pos'[m] = pos[m] /\ cbs'[m] = cbs[m]
      BY <1>2, <1>8, <2>3, <3>2
    <3> QED BY <3>3 DEF CallbackTellsTruth
  <2> QED BY <2>1, <2>2, <2>3
<1>16. NothingLost'
  <2>1. ASSUME NEW m \in Msg, call[m] = "returned", cbs'[m] = << >>
        PROVE  m \in Queued'
    <3>1. cbs[m] = << >> /\ m \notin S
      BY <1>8, <1>9, <2>1 DEF CallbackOwed
    <3> QED BY <1>3, <1>6, <2>1, <3>1 DEF NothingLost
  <2> QED BY <1>1, <1>3, <2>1 DEF NothingLost
<1> QED BY <1>10, <1>11, <1>12, <1>13, <1>14, <1>15, <1>16

\* Every step of goSend's loop keeps the invariant.
LEMMA LoopKeepsMsg ==
  ASSUME Typing, MsgInv, SndLoopStep \/ Start
  PROVE  MsgInv'
<1>0. pc \in [Coroutine -> CoPc] /\ "snd" \in Coroutine
  BY DEF Typing, TypeOK, ControlType, Coroutine
<1> USE DEF Goto, EndIteration, sendVars, chanVars
<1>1. CASE Start \/ Top \/ Empty \/ WriteBlocked \/ WriteError \/ PollWritable \/ PollOther
  <2>1. UNCHANGED <<call, closer, immediately, msg_send_list, held, msg_chan, pushed, msgVars, byteVars>>
    BY <1>1 DEF Start, Top, Empty, WriteBlocked, WriteError, PollWritable, PollOther
  <2>2. pc["snd"] # "relock"
    BY <1>1 DEF Start, Top, Empty, WriteBlocked, WriteError, PollWritable, PollOther
  <2>3. Start \/ pc'["snd"] # "relock"
    BY <1>0, <1>1 DEF Top, Empty, WriteBlocked, WriteError, PollWritable, PollOther
  <2>4. QuietLoop
    BY <1>1, <2>1 DEF QuietLoop, SndLoopStep
  <2> QED BY <2>2, <2>3, <2>4, QuietLoopKeeps
<1>2. CASE Pop \/ Wait \/ Relock
  BY <1>2, PopKeeps
<1>3. CASE Build
  BY <1>3, BuildKeeps
<1>4. CASE WriteSteps
  BY <1>4, WriteKeeps DEF WriteSteps
<1> QED BY <1>1, <1>2, <1>3, <1>4 DEF SndLoopStep

\* OnClose begins: whatever is owed a SndCb is still in the list or the channel.
LEMMA OnCloseKeeps ==
  ASSUME Typing, MsgInv, NEW co \in Coroutine, OnClose(co)
  PROVE  MsgInv'
<1>0. /\ pc \in [Coroutine -> CoPc] /\ Coroutine = {"snd", "rcv"} /\ ShutdownMsg \notin Msg
      /\ closed \in BOOLEAN
  BY ShutdownMsgAssumption DEF Typing, TypeOK, ControlType, CloseType, Coroutine
<1>1. /\ pc[co] = "onclose" /\ \E to \in {"drain", "exit"} : pc' = [pc EXCEPT ![co] = to]
      /\ UNCHANGED <<call, msg_send_list, held, msg_chan, pushed, has_cb, cbs, send_half, pos>>
  BY DEF OnClose, Return, Goto, chanVars, msgVars, byteVars
<1>2. /\ UNCHANGED <<Listed, InChan, InHand, Queued>> /\ ToSet(pushed)' = ToSet(pushed)
      /\ SndActive' => SndActive /\ (pc["snd"] = "relock" => pc'["snd"] = "relock")
      /\ pc["snd"] = "relock" => pc'["snd"] = "relock"
  <2>1. UNCHANGED <<Listed, InChan, InHand, Queued>> /\ ToSet(pushed)' = ToSet(pushed)
    BY <1>1 DEF Listed, InChan, InHand, Queued
  <2>2. pc["snd"] = "relock" => pc'["snd"] = "relock"
    BY <1>0, <1>1
  <2>3. SndActive' => SndActive
    BY <1>0, <1>1 DEF SndActive, SndFlagged
  <2> QED BY <2>1, <2>2, <2>3
<1>3. CASE closed
  <2>1. UNCHANGED <<closed, settled>>
    BY <1>3 DEF OnClose, TryLockClosed
  <2>2. MsgFrame
    BY <1>0, <1>1, <1>2, <2>1 DEF MsgFrame
  <2> QED BY <2>2, MsgFrameKeeps
<1>4. CASE ~closed
  <2>1. settled' = {m \in Msg : call[m] = "returned"} /\ closed' /\ pc'[co] = "drain"
    BY <1>0, <1>4 DEF OnClose, TryLockClosed, Goto
  <2>2. pc["snd"] # "relock"
    <3>1. send_shutdown
      BY <1>0, <1>1 DEF Typing, CloseInv, SndFlagged
    <3> QED BY <3>1 DEF Typing, CloseInv, SndFlagged
  <2>3. InHand = {}
    BY <1>0, <2>2 DEF MsgInv, OnePlace, InHand
  <2>4. NothingLost'
    <3>1. ASSUME NEW m \in settled', cbs[m] = << >> PROVE m \in Listed \cup InChan
      BY <1>4, <2>1, <2>3, <3>1 DEF MsgInv, NothingLost, Queued
    <3> QED BY <1>1, <1>2, <2>1, <3>1 DEF NothingLost
  <2>5. FreshCalls' /\ CallbackOwed' /\ CallbackTellsTruth'
    BY <1>1, <1>2 DEF MsgInv, FreshCalls, CallbackOwed, CallbackTellsTruth
  <2>6. OnePlace' /\ QueuedOwed' /\ BytesInv'
    BY <1>1, <1>2 DEF MsgInv, OnePlace, QueuedOwed, BytesInv
  <2> QED BY <2>4, <2>5, <2>6 DEF MsgInv
<1> QED BY <1>3, <1>4

\* OnClose is alone in its steps, and goSend is out of its loop.
LEMMA AloneInOnClose ==
  ASSUME Typing, NEW co \in Coroutine, pc[co] \in Closing
  PROVE  /\ closed /\ ~SndActive /\ pc["snd"] # "relock"
         /\ \A other \in Coroutine : other # co => pc[other] \notin Closing
  BY DEF Typing, CloseInv, Coroutine, SndActive, SndFlagged, Closing

\* OnClose empties the channel and tells what it takes out.
LEMMA DrainKeeps ==
  ASSUME Typing, MsgInv, NEW co \in Coroutine, Drain(co)
  PROVE  MsgInv'
<1>0. /\ pc \in [Coroutine -> CoPc] /\ Coroutine = {"snd", "rcv"} /\ ShutdownMsg \notin Msg
      /\ msg_chan \in Seq(Msg \cup {ShutdownMsg})
  BY ShutdownMsgAssumption DEF Typing, TypeOK, ControlType, ChanType, Coroutine
<1>1. /\ pc[co] = "drain"
      /\ UNCHANGED <<call, msg_send_list, held, pushed, send_half, pos, closed, settled>>
  BY DEF Drain, sendVars, byteVars, closeVars, msgVars
<1>2. /\ closed /\ ~SndActive /\ pc["snd"] # "relock"
      /\ \A other \in Coroutine : other # co => pc[other] \notin Closing
  <2>1. pc[co] \in Closing
    BY <1>1 DEF Closing
  <2> QED BY <2>1, AloneInOnClose
<1>3. Listed' = Listed /\ InHand' = InHand
  BY <1>1 DEF Listed, InHand
<1>4. CASE msg_chan = << >>
  <2>1. UNCHANGED <<msg_chan, has_cb, cbs>> /\ pc' = [pc EXCEPT ![co] = "clear"]
    BY <1>4 DEF Drain, Goto, msgVars
  <2>2. InChan' = InChan /\ InChan = {}
    BY <1>4, <2>1, OneCode DEF InChan, Ec
  <2>3. Tells({}, "shutdown") /\ "shutdown" \in Ec
    BY <2>1, DoneTells DEF Ec
  <2>4. ~SndActive' /\ pc'["snd"] # "relock"
    BY <1>0, <1>2, <2>1 DEF SndActive, SndFlagged
  <2>5. OnePlace'
    BY <1>1, <1>2, <1>3, <2>1, <2>2, <2>4 DEF MsgInv, OnePlace
  <2>6. ASSUME NEW m, ToBeTold(m) PROVE ToBeTold(m)'
    <3>1. m \in Listed
      BY <2>2, <2>6 DEF ToBeTold
    <3>2. pc'[co] = "clear"
      BY <1>0, <2>1
    <3> QED BY <1>3, <3>1, <3>2 DEF ToBeTold
  <2>7. Queued' = Queued
    BY <1>3, <2>2 DEF Queued
  <2> QED BY <1>1, <1>3, <2>2, <2>3, <2>4, <2>5, <2>6, <2>7, SettleKeeps
<1>5. CASE msg_chan # << >>
  <2> DEFINE x == Head(msg_chan)
  <2>1. msg_chan' = Tail(msg_chan) /\ Done({x}, "shutdown") /\ pc' = pc
    BY <1>5 DEF Drain
  <2>2. /\ ToSet(msg_chan) = ToSet(Tail(msg_chan)) \cup {x}
        /\ x \in Msg \cup {ShutdownMsg}
        /\ Once(msg_chan, Msg) => Once(Tail(msg_chan), Msg)
        /\ Once(msg_chan, Msg) => (x \in Msg => x \notin ToSet(Tail(msg_chan)))
    BY <1>0, <1>5, TailQueue
  <2> HIDE DEF x
  <2>3. OnePlace /\ Once(msg_chan, Msg)
    BY DEF MsgInv, OnePlace
  <2>4. InChan' \subseteq InChan /\ InChan \subseteq InChan' \cup {x} /\ Once(msg_chan', Msg)
    BY <2>1, <2>2, <2>3 DEF InChan
  <2>5. OnePlace'
    BY <1>1, <1>3, <2>1, <2>3, <2>4 DEF OnePlace
  <2>6. Tells({x}, "shutdown") /\ "shutdown" \in Ec
    BY <2>1, DoneTells DEF Ec
  <2>7. ~SndActive'
    BY <1>2, <2>1 DEF SndActive
  <2>8. ASSUME NEW m, m # x, ToBeTold(m) PROVE ToBeTold(m)'
    BY <1>3, <2>1, <2>4, <2>8 DEF ToBeTold
  <2>9. Queued' \subseteq Queued /\ Queued \subseteq Queued' \cup {x}
    BY <1>3, <2>4 DEF Queued
  <2> QED BY <1>1, <1>3, <2>4, <2>5, <2>6, <2>7, <2>8, <2>9, SettleKeeps
<1> QED BY <1>4, <1>5

\* OnClose tells the messages of the list and then clears it.
LEMMA ClearKeeps ==
  ASSUME Typing, MsgInv, NEW co \in Coroutine, DoneAll(co) \/ Erase(co)
  PROVE  MsgInv'
<1>0. pc \in [Coroutine -> CoPc] /\ Coroutine = {"snd", "rcv"}
  BY DEF Typing, TypeOK, ControlType, Coroutine
<1>1. /\ pc[co] \in {"clear", "erase"}
      /\ \E to \in {"erase", "notify"} : pc' = [pc EXCEPT ![co] = to]
      /\ UNCHANGED <<call, msg_chan, held, pushed, send_half, pos, closed, settled>>
  BY DEF DoneAll, Erase, Goto, sendVars, chanVars, byteVars, closeVars, msgVars
<1>2. /\ closed /\ ~SndActive /\ pc["snd"] # "relock"
      /\ \A other \in Coroutine : other # co => pc[other] \notin Closing
  <2>1. pc[co] \in Closing
    BY <1>1 DEF Closing
  <2> QED BY <2>1, AloneInOnClose
<1>3. InChan' = InChan /\ InHand' = InHand /\ ToSet(pushed)' = ToSet(pushed)
  BY <1>1 DEF InChan, InHand
<1>4. ~SndActive' /\ pc'["snd"] # "relock"
  BY <1>0, <1>1, <1>2 DEF SndActive, SndFlagged
<1>5. \A other \in Coroutine : pc[other] # "drain" /\ (pc[other] = "clear" => other = co)
  BY <1>1, <1>2 DEF Closing
<1>6. CASE DoneAll(co)
  <2>1. msg_send_list' = msg_send_list /\ Done(Listed, "shutdown")
    BY <1>6 DEF DoneAll, sendVars, Listed
  <2>2. Tells(Listed, "shutdown") /\ "shutdown" \in Ec
    BY <2>1, DoneTells DEF Ec
  <2>3. Listed' = Listed /\ Queued' = Queued
    BY <1>3, <2>1 DEF Listed, Queued
  <2>4. OnePlace'
    BY <1>1, <1>2, <1>3, <1>4, <2>1, <2>3 DEF MsgInv, OnePlace
  <2>5. \A m \in settled \ Listed : ~ToBeTold(m)
    BY <1>5 DEF ToBeTold
  <2> QED BY <1>1, <1>3, <1>4, <2>2, <2>3, <2>4, <2>5, SettleKeeps
<1>7. CASE Erase(co)
  <2>1. msg_send_list' = << >> /\ UNCHANGED <<has_cb, cbs>> /\ pc[co] = "erase"
    BY <1>7 DEF Erase, msgVars
  <2>2. Listed' = {} /\ Queued' \subseteq Queued
    <3>1. Listed' = {}
      BY <2>1, OneCode DEF Listed, Ec
    <3> QED BY <1>3, <3>1 DEF Queued
  <2>3. FreshCalls' /\ CallbackOwed' /\ CallbackTellsTruth'
    BY <1>1, <1>3, <2>1, <2>2 DEF MsgInv, FreshCalls, CallbackOwed, CallbackTellsTruth
  <2>4. OnePlace'
    <3>1. Once(msg_send_list', Msg)
      BY <2>1 DEF Once
    <3> QED BY <1>1, <1>2, <1>3, <2>2, <3>1 DEF MsgInv, OnePlace
  <2>5. QueuedOwed' /\ BytesInv'
    BY <1>1, <1>3, <1>4, <2>2 DEF MsgInv, QueuedOwed, BytesInv
  <2>6. NothingLost'
    <3>1. \A m \in settled : cbs[m] # << >>
      BY <1>1, <1>2, <1>5, <2>1 DEF MsgInv, NothingLost
    <3> QED BY <1>1, <1>2, <2>1, <3>1 DEF MsgInv, NothingLost
  <2> QED BY <2>3, <2>4, <2>5, <2>6 DEF MsgInv
<1> QED BY <1>6, <1>7

\* Every step keeps the invariant about messages.
LEMMA MsgNext ==
  ASSUME Typing, MsgInv, [Next]_vars
  PROVE  MsgInv'
<1>1. CASE UNCHANGED vars
  <2>1. MsgFrame
    BY <1>1 DEF vars, control, sendVars, chanVars, msgVars, byteVars, closeVars, MsgFrame, InChan,
                SndActive
  <2> QED BY <2>1, MsgFrameKeeps
<1>2. CASE SndLoopStep \/ Start
  BY <1>2, LoopKeepsMsg
<1>3. CASE \E co \in Coroutine : CloseStep(co)
  <2> PICK co \in Coroutine : CloseStep(co)
    BY <1>3
  <2>1. CASE TryEc(co) \/ SetEc(co) \/ Shut(co) \/ SetFlag(co) \/ Notify(co)
    BY <2>1, ClosingFrame
  <2> QED BY <2>1, OnCloseKeeps, DrainKeeps, ClearKeeps DEF CloseStep
<1>4. CASE \/ TestSend \/ TestRecv \/ WakeSend \/ ShutWr \/ RecvFail \/ RecvReject
           \/ \E c \in Closer : Shutdown(c) \/ CloserStep(c)
           \/ PeerFin \/ PeerRst
           \/ \E m \in Msg : TimerFires(m)
  BY <1>4, ClosingFrame
<1>5. CASE \E m \in Msg : Send(m) \/ SendNoDelay(m) \/ CallStep(m)
  BY <1>5, CallKeeps
<1>6. CASE SndStep
  BY <1>2, <1>3, <1>4, <1>6 DEF SndStep, Coroutine
<1>7. CASE RcvStep
  BY <1>3, <1>4, <1>7 DEF RcvStep, Coroutine
<1> QED BY <1>1, <1>2, <1>4, <1>5, <1>6, <1>7 DEF Next

-----------------------------------------------------------------------------
(* Theorems *)

\* The invariant about messages holds in every reachable state.
THEOREM MessageInvariant == Spec => [](Typing /\ MsgInv)
<1>1. Typing /\ MsgInv /\ [Next]_vars => (Typing /\ MsgInv)'
  BY TypeNext, MsgNext
<1> QED BY TypeInit, MsgInit, <1>1, PTL DEF Spec

\* No SndCb is called twice: Msg::Done, the early returns of Send and
\* SendNoDelay and OnClose never meet on one call.
THEOREM CallbackOnce == Spec => []CallbackAtMostOnce
<1>1. Typing /\ MsgInv => CallbackAtMostOnce
  BY DEF MsgInv, CallbackOwed, CallbackAtMostOnce
<1> QED BY MessageInvariant, <1>1, PTL

\* A SndCb that reports success had all its bytes written, one that reports
\* ec_send_timeout none.
THEOREM CallbackTruth == Spec => []CallbackTellsTruth
<1>1. Typing /\ MsgInv => CallbackTellsTruth
  BY DEF MsgInv
<1> QED BY MessageInvariant, <1>1, PTL

\* By the time disconnect_cb_ is called, OnClose has found every message of a
\* call that had returned when it began.
THEOREM CallbackNotLost == Spec => []NoLostCallback
<1>1. Typing /\ MsgInv => NoLostCallback
  <2> SUFFICES ASSUME Typing, MsgInv, disc # << >>, NEW m \in settled, cbs[m] = << >>
               PROVE  FALSE
    BY DEF NoLostCallback
  <2>1. closed /\ \A co \in Coroutine : pc[co] \notin Closing
    BY DEF Typing, CloseInv
  <2> QED BY <2>1 DEF MsgInv, NothingLost, Closing
<1> QED BY MessageInvariant, <1>1, PTL

-----------------------------------------------------------------------------
(* A session keeps its contract *)

\* The outcome of a call, as the contract sees it.
Outcome == [m \in Msg |-> IF cbs[m] = << >> THEN "none" ELSE Last(cbs[m])]

\* The socket is closed by OnClose only.
OpenInv == sock.open \/ closed

RefineInv == Typing /\ MsgInv /\ OpenInv

\* Every step keeps the socket open unless it is OnClose's.
LEMMA OpenNext ==
  ASSUME Typing, OpenInv, [Next]_vars
  PROVE  OpenInv'
<1>0. CloseTyping /\ sock \in [rd : BOOLEAN, wr : BOOLEAN, open : BOOLEAN, fin : BOOLEAN, rst : BOOLEAN]
  BY DEF Typing, TypeOK, ControlType, CloseTyping, CloseType
<1>1. CASE UNCHANGED vars
  BY <1>1 DEF vars, closeVars, OpenInv
<1>2. CASE SndLoopStep \/ Start
  BY <1>0, <1>2, LoopMoves DEF closeVars, OpenInv
<1>3. ASSUME NEW co \in Coroutine, CloseStep(co)
      PROVE  OpenInv'
  <2>1. CASE OnClose(co)
    BY <1>0, <2>1 DEF OnClose, OpenInv
  <2>2. CASE Shut(co)
    BY <1>0, <2>2 DEF Shut, closeVars, OpenInv
  <2>3. CASE TryEc(co) \/ SetEc(co) \/ SetFlag(co) \/ Drain(co) \/ DoneAll(co) \/ Erase(co) \/ Notify(co)
    BY <2>3 DEF TryEc, SetEc, SetFlag, Drain, DoneAll, Erase, Notify, closeVars, OpenInv
  <2> QED BY <1>3, <2>1, <2>2, <2>3 DEF CloseStep
<1>4. CASE TestSend \/ TestRecv \/ WakeSend \/ ShutWr \/ RecvFail \/ RecvReject
  BY <1>0, <1>4 DEF TestSend, TestRecv, WakeSend, ShutWr, RecvFail, RecvReject, closeVars, OpenInv
<1>5. CASE \/ \E m \in Msg : Send(m) \/ SendNoDelay(m) \/ CallStep(m) \/ TimerFires(m)
           \/ \E c \in Closer : Shutdown(c) \/ CloserStep(c)
           \/ PeerFin \/ PeerRst
  BY <1>0, <1>5, OthersKeepAway DEF closeVars, OpenInv
<1>6. CASE SndStep
  BY <1>2, <1>3, <1>4, <1>6 DEF SndStep, Coroutine
<1>7. CASE RcvStep
  BY <1>3, <1>4, <1>7 DEF RcvStep, Coroutine
<1> QED BY <1>1, <1>2, <1>5, <1>6, <1>7 DEF Next

\* What the contract sees of a SndCb that is called, and of the others.
LEMMA OutcomeTold ==
  ASSUME Typing, MsgInv, NEW S, NEW ec \in Ec, Tells(S, ec)
  PROVE  \A m \in Msg : /\ m \in S /\ has_cb[m] => Outcome[m] = "none" /\ Outcome'[m] = ec
                        /\ ~(m \in S /\ has_cb[m]) => Outcome'[m] = Outcome[m]
<1> SUFFICES ASSUME NEW m \in Msg
             PROVE  /\ m \in S /\ has_cb[m] => Outcome[m] = "none" /\ Outcome'[m] = ec
                    /\ ~(m \in S /\ has_cb[m]) => Outcome'[m] = Outcome[m]
  OBVIOUS
<1>1. /\ m \in S /\ has_cb[m] => cbs[m] = << >> /\ cbs'[m] = <<ec>>
      /\ ~(m \in S /\ has_cb[m]) => cbs'[m] = cbs[m]
  BY TellsOnce
<1>2. <<ec>> # << >> /\ Last(<<ec>>) = ec
  BY OneCode DEF Last
<1> QED BY <1>1, <1>2 DEF Outcome

\* A step that the contract does not see.
LEMMA ContractStutter ==
  ASSUME UNCHANGED <<pos, cbs, disc>>, sock'.open = sock.open
  PROVE  UNCHANGED Contract!vars
  BY DEF Contract!vars

\* A step that writes, or tells of a timeout, while the socket is open.
LEMMA ContractTransmit ==
  ASSUME sock.open, sock'.open = sock.open, UNCHANGED disc,
         \A m \in Msg : /\ pos'[m] \in pos[m]..Size[m]
                        /\ Outcome[m] # "none" => pos'[m] = pos[m]
                        /\ \/ Outcome'[m] = Outcome[m]
                           \/ /\ Outcome[m] = "none"
                              /\ \/ Outcome'[m] = "ok" /\ pos'[m] = Size[m]
                                 \/ Outcome'[m] = "timeout" /\ pos'[m] = 0
  PROVE  Contract!Transmit
  BY DEF Contract!Transmit, Contract!BytesGrow, Contract!OutcomeFor, Outcome

\* A step that gives calls up.
LEMMA ContractGiveUp ==
  ASSUME UNCHANGED <<pos, disc>>, sock'.open = sock.open,
         \A m \in Msg : \/ Outcome'[m] = Outcome[m]
                        \/ /\ Outcome[m] = "none"
                           /\ \/ Outcome'[m] = "ok" /\ pos[m] = Size[m]
                              \/ Outcome'[m] = "shutdown"
  PROVE  Contract!GiveUp
  BY DEF Contract!GiveUp, Contract!OutcomeFor, Outcome

\* goSend drops messages whose time is over.
LEMMA TimeoutTransmits ==
  ASSUME RefineInv, NEW S, Done(S, "timeout"), UNCHANGED <<pos, disc, sock>>, ~closed,
         \A m \in Msg \cap S : pos[m] = 0
  PROVE  Contract!Transmit
<1>1. Tells(S, "timeout") /\ "timeout" \in Ec
  BY DoneTells DEF RefineInv, Ec
<1>2. \A m \in Msg : \/ Outcome'[m] = Outcome[m]
                     \/ Outcome[m] = "none" /\ Outcome'[m] = "timeout" /\ pos[m] = 0
  BY <1>1, OutcomeTold DEF RefineInv
<1>3. \A m \in Msg : pos[m] \in pos[m]..Size[m]
  BY SizeAssumption DEF RefineInv, MsgInv, BytesInv, Typing, TypeOK, ByteType
<1>4. sock.open
  BY DEF RefineInv, OpenInv
<1> QED BY <1>2, <1>3, <1>4, ContractTransmit

\* Steps of goSend's loop, as the contract sees them.
LEMMA LoopRefines ==
  ASSUME RefineInv, SndLoopStep \/ Start
  PROVE  [Contract!Next]_(Contract!vars)
<1>0. /\ CloseTyping /\ UNCHANGED <<closeVars, sock>>
      /\ pos \in [Msg -> Nat] /\ Size \in [Msg -> Nat] /\ ShutdownMsg \notin Msg
  <2>1. CloseTyping
    BY DEF RefineInv, Typing, TypeOK, ControlType, CloseTyping
  <2> QED BY <2>1, LoopMoves, SizeAssumption, ShutdownMsgAssumption
          DEF RefineInv, Typing, TypeOK, ByteType
<1>1. UNCHANGED <<disc, sock>> /\ sock'.open = sock.open
  BY <1>0 DEF closeVars
<1>2. pc["snd"] \in {"pop", "relock", "build", "write"} => SndActive /\ ~closed
  BY ActiveNotClosed DEF RefineInv, SndActive, SndFlagged
<1>3. CASE Start \/ Top \/ Empty \/ Wait \/ WriteBlocked \/ WriteError \/ PollWritable \/ PollOther
  <2>1. UNCHANGED <<pos, cbs>>
    BY <1>3 DEF Start, Top, Empty, Wait, WriteBlocked, WriteError, PollWritable, PollOther, msgVars,
                byteVars
  <2> QED BY <1>1, <2>1, ContractStutter
<1>4. ASSUME NEW x \in Msg \cup {ShutdownMsg}, Take(x), UNCHANGED byteVars, ~closed,
             x \in Msg => x \in InChan \cup InHand
      PROVE  [Contract!Next]_(Contract!vars)
  <2>1. CASE UNCHANGED cbs
    BY <1>1, <1>4, <2>1, ContractStutter DEF byteVars
  <2>2. CASE x # ShutdownMsg /\ Done({x}, "timeout")
    <3>1. pos[x] = 0
      BY <1>4, <2>2 DEF RefineInv, MsgInv, BytesInv
    <3>2. Contract!Transmit
      BY <1>1, <1>4, <2>2, <3>1, TimeoutTransmits DEF byteVars
    <3> QED BY <3>2 DEF Contract!Next
  <2> QED BY <1>4, <2>1, <2>2 DEF Take, msgVars
<1>5. CASE Pop
  <2>1. pc["snd"] = "pop" /\ UNCHANGED byteVars
    BY <1>5 DEF Pop
  <2>2. CASE msg_chan # << >> /\ Take(Head(msg_chan))
    <3>1. msg_chan \in Seq(Msg \cup {ShutdownMsg})
      BY DEF RefineInv, Typing, TypeOK, ChanType
    <3>2. Head(msg_chan) \in Msg \cup {ShutdownMsg} /\ Head(msg_chan) \in ToSet(msg_chan)
      BY <2>2, <3>1, TailQueue
    <3> QED BY <1>2, <1>4, <2>1, <2>2, <3>2 DEF InChan
  <2>3. CASE UNCHANGED msgVars
    BY <1>1, <2>1, <2>3, ContractStutter DEF byteVars, msgVars
  <2> QED BY <1>5, <2>2, <2>3 DEF Pop
<1>6. CASE Relock
  <2>1. pc["snd"] = "relock" /\ Take(held) /\ UNCHANGED byteVars
    BY <1>6 DEF Relock
  <2>2. held \in Msg \cup {ShutdownMsg} /\ (held \in Msg => held \in InHand)
    BY DEF RefineInv, Typing, TypeOK, SendType, InHand
  <2> QED BY <1>2, <1>4, <2>1, <2>2
<1>7. CASE Build
  <2> DEFINE it == buffered + 1
             m == msg_send_list[it]
  <2>1. pc["snd"] = "build" /\ UNCHANGED byteVars
    BY <1>7 DEF Build
  <2>2. CASE ~(it > Len(msg_send_list)) /\ Expired(m) /\ Done({m}, "timeout")
    <3>1. it \in 1..Len(msg_send_list) /\ msg_send_list \in Seq(Msg)
      BY <2>2 DEF RefineInv, Typing, TypeOK, SendType
    <3>2. m \in Listed /\ m \in Msg
      BY <3>1, ToSetMember DEF Listed
    <3>3. pos[m] = 0
      BY <2>2, <3>2 DEF RefineInv, MsgInv, BytesInv, Expired
    <3> HIDE DEF m, it
    <3>4. Contract!Transmit
      BY <1>1, <1>2, <2>1, <2>2, <3>3, TimeoutTransmits DEF byteVars
    <3> QED BY <3>4 DEF Contract!Next
  <2>3. CASE UNCHANGED msgVars
    BY <1>1, <2>1, <2>3, ContractStutter DEF byteVars, msgVars
  <2> QED BY <1>7, <2>2, <2>3 DEF Build
<1>8. CASE WriteSteps
  <2> PICK k \in 0..buffered : \E r \in PartAfter(k) : WriteSome(k, r)
    BY <1>8 DEF WriteSteps
  <2> PICK r \in PartAfter(k) : WriteSome(k, r)
    OBVIOUS
  <2> DEFINE S == Sent(k, r)
             next == msg_send_list[k + 1]
  <2>1. pc["snd"] = "write" /\ sock.open /\ Done(S, "ok")
    BY DEF WriteSome, CanWrite
  <2>2. /\ S \subseteq Listed /\ Listed' = Listed \ S /\ r \in Nat
        /\ r > 0 => next \in Listed' /\ next \in Msg /\ pos[next] + r < Size[next]
        /\ \A m \in Msg : /\ m \in S => pos'[m] = Size[m]
                          /\ r > 0 /\ m = next => pos'[m] = pos[m] + r
                          /\ m \notin S /\ ~(r > 0 /\ m = next) => pos'[m] = pos[m]
    BY WriteMoves DEF RefineInv
  <2> HIDE DEF S, next
  <2>3. Tells(S, "ok") /\ "ok" \in Ec
    BY <2>1, DoneTells DEF RefineInv, Ec
  <2>4. \A m \in Msg : /\ m \in S /\ has_cb[m] => Outcome[m] = "none" /\ Outcome'[m] = "ok"
                       /\ ~(m \in S /\ has_cb[m]) => Outcome'[m] = Outcome[m]
    BY <2>3, OutcomeTold DEF RefineInv
  <2>5. ASSUME NEW m \in Msg
        PROVE  /\ pos'[m] \in pos[m]..Size[m]
               /\ Outcome[m] # "none" => pos'[m] = pos[m]
               /\ \/ Outcome'[m] = Outcome[m]
                  \/ Outcome[m] = "none" /\ Outcome'[m] = "ok" /\ pos'[m] = Size[m]
    <3>1. pos[m] \in Nat /\ Size[m] \in Nat /\ pos[m] <= Size[m]
      BY <1>0 DEF RefineInv, MsgInv, BytesInv
    <3>2. pos'[m] \in pos[m]..Size[m]
      <4>1. CASE m \in S
        BY <2>2, <3>1, <4>1
      <4>2. CASE r > 0 /\ m = next
        BY <2>2, <3>1, <4>2
      <4>3. CASE m \notin S /\ ~(r > 0 /\ m = next)
        BY <2>2, <3>1, <4>3
      <4> QED BY <4>1, <4>2, <4>3
    <3>3. Outcome[m] # "none" => pos'[m] = pos[m]
      <4>1. m \in Listed => cbs[m] = << >>
        BY <1>2, <2>1 DEF RefineInv, MsgInv, QueuedOwed, Queued, FreshCalls, CallbackOwed
      <4>2. m \in Listed => Outcome[m] = "none"
        BY <4>1 DEF Outcome
      <4>3. m \notin Listed => m \notin S /\ ~(r > 0 /\ m = next)
        BY <2>2
      <4> QED BY <2>2, <4>2, <4>3
    <3> QED BY <2>2, <2>4, <3>2, <3>3
  <2>6. Contract!Transmit
    BY <1>1, <2>1, <2>5, ContractTransmit
  <2> QED BY <2>6 DEF Contract!Next
<1> QED BY <1>3, <1>5, <1>6, <1>7, <1>8 DEF SndLoopStep

\* Steps of the closing protocol, as the contract sees them.
LEMMA ClosingRefines ==
  ASSUME RefineInv, NEW co \in Coroutine, CloseStep(co)
  PROVE  [Contract!Next]_(Contract!vars)
<1>0. /\ sock \in [rd : BOOLEAN, wr : BOOLEAN, open : BOOLEAN, fin : BOOLEAN, rst : BOOLEAN]
      /\ disc \in Seq(Ec) /\ close_ec \in Ec
  BY DEF RefineInv, Typing, TypeOK, CloseType
<1>1. CASE OnClose(co)
  <2>1. UNCHANGED <<pos, cbs, disc>>
    BY <1>1 DEF OnClose, msgVars, byteVars
  <2>2. CASE closed
    <3>1. sock' = sock
      BY <1>1, <2>2 DEF OnClose, TryLockClosed
    <3> QED BY <2>1, <3>1, ContractStutter
  <2>3. CASE ~closed
    <3>1. sock.open /\ ~sock'.open
      BY <1>0, <1>1, <2>3 DEF OnClose, TryLockClosed, RefineInv, OpenInv
    <3>2. Contract!CloseSocket
      BY <2>1, <3>1 DEF Contract!CloseSocket
    <3> QED BY <3>2 DEF Contract!Next
  <2> QED BY <2>2, <2>3
<1>2. CASE Drain(co) \/ DoneAll(co)
  <2>1. UNCHANGED <<pos, disc>> /\ sock'.open = sock.open
    BY <1>2 DEF Drain, DoneAll, byteVars, closeVars
  <2>2. \E S : Tells(S, "shutdown")
    <3>1. UNCHANGED <<has_cb, cbs>> \/ \E S : Done(S, "shutdown")
      BY <1>2 DEF Drain, DoneAll, msgVars
    <3> QED BY <3>1, DoneTells DEF RefineInv
  <2> PICK S : Tells(S, "shutdown")
    BY <2>2
  <2>3. \A m \in Msg : Outcome'[m] = Outcome[m] \/ (Outcome[m] = "none" /\ Outcome'[m] = "shutdown")
    BY OutcomeTold DEF RefineInv, Ec
  <2>4. Contract!GiveUp
    BY <2>1, <2>3, ContractGiveUp
  <2> QED BY <2>4 DEF Contract!Next
<1>3. CASE Notify(co)
  <2>1. UNCHANGED <<pos, cbs, sock>> /\ disc' = Append(disc, close_ec)
    BY <1>3 DEF Notify, msgVars, byteVars
  <2>2. closed /\ disc = << >> /\ ~sock.open
    BY <1>3 DEF Notify, RefineInv, Typing, CloseInv, Closing
  <2>3. disc' # << >>
    BY <1>0, <2>1
  <2>4. Contract!Disconnect
    BY <2>1, <2>2, <2>3 DEF Contract!Disconnect
  <2> QED BY <2>4 DEF Contract!Next
<1>4. CASE TryEc(co) \/ SetEc(co) \/ Shut(co) \/ SetFlag(co) \/ Erase(co)
  <2>1. UNCHANGED <<pos, cbs, disc>>
    BY <1>4 DEF TryEc, SetEc, Shut, SetFlag, Erase, msgVars, byteVars, closeVars
  <2>2. sock'.open = sock.open
    BY <1>0, <1>4 DEF TryEc, SetEc, Shut, SetFlag, Erase
  <2> QED BY <2>1, <2>2, ContractStutter
<1> QED BY <1>1, <1>2, <1>3, <1>4 DEF CloseStep

\* Steps of a call, as the contract sees them.
LEMMA CallRefines ==
  ASSUME RefineInv, NEW m \in Msg, Send(m) \/ SendNoDelay(m) \/ CallStep(m), sock'.open = sock.open
  PROVE  [Contract!Next]_(Contract!vars)
<1>0. /\ cbs \in [Msg -> Seq(Ec)] /\ pos \in [Msg -> Nat] /\ Size \in [Msg -> Nat]
      /\ sock \in [rd : BOOLEAN, wr : BOOLEAN, open : BOOLEAN, fin : BOOLEAN, rst : BOOLEAN]
  BY SizeAssumption DEF RefineInv, Typing, TypeOK, MsgType, ByteType, CloseType
<1>1. call[m] # "returned" => cbs[m] = << >> /\ Outcome[m] = "none"
  BY DEF RefineInv, MsgInv, FreshCalls, Outcome
<1>2. call[m] \notin {"returned", "half"} => pos[m] = 0
  BY DEF RefineInv, MsgInv, FreshCalls
<1>3. ASSUME NEW ec \in Ec, CallCb(m, ec), cbs[m] = << >>
      PROVE  /\ Outcome'[m] = ec
             /\ \A x \in Msg : x # m => Outcome'[x] = Outcome[x]
  <2>1. cbs' = [cbs EXCEPT ![m] = Append(<< >>, ec)]
    BY <1>3 DEF CallCb
  <2> DEFINE one == <<ec>>
  <2>2. Append(<< >>, ec) = one /\ one # << >> /\ Last(one) = ec
    BY OneCode DEF Last
  <2> HIDE DEF one
  <2> QED BY <1>0, <2>1, <2>2 DEF Outcome
<1>4. CASE Send(m) \/ SendNoDelay(m) \/ SendFromNoDelay(m)
  <2>1. /\ call[m] \notin {"returned", "half"} /\ UNCHANGED <<pos, disc>>
        /\ \E next \in CallPc : Accept(m, next)
    BY <1>4 DEF Send, SendNoDelay, SendFromNoDelay, byteVars, closeVars, CallPc
  <2>2. CASE UNCHANGED cbs
    BY <2>1, <2>2, ContractStutter
  <2>3. CASE (Size[m] = 0 /\ CallCb(m, "ok")) \/ CallCb(m, "shutdown")
    <3>1. \E ec \in {"ok", "shutdown"} : CallCb(m, ec) /\ (ec = "ok" => Size[m] = 0)
      BY <2>3
    <3> PICK ec \in {"ok", "shutdown"} : CallCb(m, ec) /\ (ec = "ok" => Size[m] = 0)
      BY <3>1
    <3>2. ec \in Ec
      BY DEF Ec
    <3>3. Outcome'[m] = ec /\ \A x \in Msg : x # m => Outcome'[x] = Outcome[x]
      BY <1>1, <1>3, <2>1, <3>2
    <3>4. Contract!GiveUp
      BY <1>1, <1>2, <2>1, <3>3, ContractGiveUp
    <3> QED BY <3>4 DEF Contract!Next
  <2> QED BY <2>1, <2>2, <2>3 DEF Accept
<1>5. CASE TryToken(m) \/ PushMsg(m) \/ PushFront(m)
  <2>1. UNCHANGED <<pos, cbs, disc>>
    BY <1>5 DEF TryToken, PushMsg, PushFront, NewMsg, msgVars, byteVars, closeVars
  <2> QED BY <2>1, ContractStutter
<1>6. ASSUME NEW n \in 0..Size[m], DirectWrite(m, n)
      PROVE  [Contract!Next]_(Contract!vars)
  <2>1. /\ call[m] = "token" /\ pos' = [pos EXCEPT ![m] = n] /\ UNCHANGED disc
        /\ n > 0 => sock.open
        /\ \/ UNCHANGED cbs
           \/ n = Size[m] /\ CallCb(m, "ok")
    BY <1>6 DEF DirectWrite, CanWrite, closeVars
  <2>2. pos[m] = 0 /\ cbs[m] = << >> /\ Outcome[m] = "none" /\ Size[m] > 0
    BY <1>1, <1>2, <2>1 DEF RefineInv, MsgInv, FreshCalls
  <2>3. CASE n = 0
    <3>1. pos' = pos /\ cbs' = cbs
      BY <1>0, <2>1, <2>2, <2>3
    <3> QED BY <2>1, <3>1, ContractStutter
  <2>4. CASE n > 0
    <3>1. /\ \A x \in Msg : x # m => Outcome'[x] = Outcome[x] /\ pos'[x] = pos[x]
          /\ Outcome'[m] = "none" \/ (Outcome'[m] = "ok" /\ n = Size[m])
      <4>1. CASE UNCHANGED cbs
        BY <1>0, <2>1, <2>2, <4>1 DEF Outcome
      <4>2. CASE n = Size[m] /\ CallCb(m, "ok")
        BY <1>0, <1>3, <2>1, <2>2, <4>2 DEF Ec
      <4> QED BY <2>1, <4>1, <4>2
    <3>2. \A x \in Msg : pos[x] \in Nat /\ pos[x] <= Size[x] /\ Size[x] \in Nat
      BY <1>0 DEF RefineInv, MsgInv, BytesInv
    <3>3. pos'[m] = n /\ n \in pos[m]..Size[m]
      BY <1>0, <2>1, <2>2, <2>4
    <3>4. \A x \in Msg : /\ pos'[x] \in pos[x]..Size[x]
                         /\ Outcome[x] # "none" => pos'[x] = pos[x]
                         /\ \/ Outcome'[x] = Outcome[x]
                            \/ Outcome[x] = "none" /\ Outcome'[x] = "ok" /\ pos'[x] = Size[x]
      BY <2>2, <3>1, <3>2, <3>3
    <3>5. Contract!Transmit
      BY <2>1, <2>4, <3>4, ContractTransmit
    <3> QED BY <3>5 DEF Contract!Next
  <2> QED BY <1>0, <2>3, <2>4
<1> QED BY <1>4, <1>5, <1>6 DEF CallStep

\* Every step of a session is a step its contract allows, or invisible to it.
LEMMA ContractStep ==
  ASSUME RefineInv, [Next]_vars
  PROVE  [Contract!Next]_(Contract!vars)
<1>0. /\ CloseTyping
      /\ sock \in [rd : BOOLEAN, wr : BOOLEAN, open : BOOLEAN, fin : BOOLEAN, rst : BOOLEAN]
  BY DEF RefineInv, Typing, TypeOK, ControlType, CloseTyping, CloseType
<1>1. CASE UNCHANGED vars
  BY <1>1, ContractStutter DEF vars, closeVars, msgVars, byteVars
<1>2. CASE SndLoopStep \/ Start
  BY <1>2, LoopRefines
<1>3. CASE \E co \in Coroutine : CloseStep(co)
  BY <1>3, ClosingRefines
<1>4. CASE TestSend \/ TestRecv \/ WakeSend \/ ShutWr \/ RecvFail \/ RecvReject
  <2>1. UNCHANGED <<pos, cbs, disc>> /\ sock'.open = sock.open
    BY <1>0, <1>4 DEF TestSend, TestRecv, WakeSend, ShutWr, RecvFail, RecvReject, msgVars, byteVars,
                      closeVars
  <2> QED BY <2>1, ContractStutter
<1>5. CASE \E m \in Msg : Send(m) \/ SendNoDelay(m) \/ CallStep(m)
  <2>1. sock'.open = sock.open
    BY <1>0, <1>5, OthersKeepAway
  <2> QED BY <1>5, <2>1, CallRefines
<1>6. CASE \/ \E m \in Msg : TimerFires(m)
           \/ \E c \in Closer : Shutdown(c) \/ CloserStep(c)
           \/ PeerFin \/ PeerRst
  <2>1. UNCHANGED disc /\ sock'.open = sock.open
    BY <1>0, <1>6, OthersKeepAway DEF closeVars
  <2>2. UNCHANGED <<pos, cbs>>
    BY <1>6 DEF TimerFires, Shutdown, CloserStep, ShutdownSetEc, ShutdownSetFlag, ShutdownBoth,
                ShutdownPush, PeerFin, PeerRst, msgVars, byteVars
  <2> QED BY <2>1, <2>2, ContractStutter
<1>7. CASE SndStep
  BY <1>2, <1>3, <1>4, <1>7 DEF SndStep, Coroutine
<1>8. CASE RcvStep
  BY <1>3, <1>4, <1>8 DEF RcvStep, Coroutine
<1> QED BY <1>1, <1>2, <1>5, <1>6, <1>7, <1>8 DEF Next

\* The contract's initial state, and the state before the socket is closed.
LEMMA ContractInit == Init => RefineInv /\ Contract!Init
<1> SUFFICES ASSUME Init PROVE RefineInv /\ Contract!Init
  OBVIOUS
<1>1. RefineInv
  BY TypeInit, MsgInit DEF RefineInv, OpenInv, Init
<1>2. pos = [m \in Msg |-> 0] /\ sock.open /\ disc = << >> /\ \A m \in Msg : cbs[m] = << >>
  BY DEF Init
<1>3. [m \in Msg |-> IF cbs[m] = << >> THEN "none" ELSE Last(cbs[m])] = [m \in Msg |-> "none"]
  BY <1>2
<1> QED BY <1>1, <1>2, <1>3 DEF Contract!Init

\* The detailed session, with its coroutines, queues, timers and flags, does
\* nothing but what SessionContract allows: bytes of a call are only added
\* while the socket is open and its SndCb is owed, each SndCb is called once
\* and tells the truth, and disconnect_cb_ comes once, after the close.
THEOREM SessionKeepsContract == Spec => RefinesContract
<1>1. Init => RefineInv /\ Contract!Init
  BY ContractInit
<1>2. RefineInv /\ [Next]_vars => RefineInv'
  BY TypeNext, MsgNext, OpenNext DEF RefineInv
<1>3. RefineInv /\ [Next]_vars => [Contract!Next]_(Contract!vars)
  BY ContractStep
<1> QED BY <1>1, <1>2, <1>3, PTL DEF Spec, RefinesContract, Contract!Spec
=============================================================================
