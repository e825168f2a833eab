--------------------------- MODULE UdpPointProofs ---------------------------
(***************************************************************************)
(* Proofs about UdpPoint, for any finite set of goStart, Connect and Send  *)
(* calls and any set of Shutdown calls.                                    *)
(***************************************************************************)
EXTENDS UdpPoint, FiniteSetTheorems, TLAPS

\* The receive coroutines that have ended.
Ended == {u \in User : loop[u] = "end"}

\* A receive coroutine exists only for a call whose goStart has made it: goStart
\* makes one coroutine, so no call restarts a loop that has ended.
LoopStarted == \A u \in User : loop[u] # "off" => user[u] \in {"use", "done"}

PointInv == TypeOK /\ LoopStarted /\ DisconnectAfterRecv

\* A loop that ends is counted once.
LEMMA OneMoreEnded ==
  ASSUME loop \in [User -> {"off", "recv", "test", "push", "end"}], NEW u \in User,
         loop[u] # "end", loop' = [loop EXCEPT ![u] = "end"]
  PROVE  /\ Cardinality(Ended) \in Nat
         /\ Cardinality(Ended') = Cardinality(Ended) + 1
<1>1. IsFiniteSet(Ended)
  BY UserAssumption, FS_Subset DEF Ended
<1>2. Ended' = Ended \cup {u} /\ u \notin Ended
  BY DEF Ended
<1> QED BY <1>1, <1>2, FS_AddElement, FS_CardinalityType

\* Steps that end no loop leave the count alone.
LEMMA SameEnded ==
  ASSUME loop \in [User -> {"off", "recv", "test", "push", "end"}],
         NEW u \in User, NEW where \in {"recv", "test", "push"},
         loop[u] # "end", loop' = [loop EXCEPT ![u] = where]
  PROVE  Ended' = Ended
  BY DEF Ended

\* The state that Init leaves.
LEMMA PointInit == Init => PointInv
<1> SUFFICES ASSUME Init PROVE PointInv
  OBVIOUS
<1>1. {u \in User : loop[u] = "end"} = {}
  BY DEF Init
<1>2. DisconnectAfterRecv
  BY <1>1, FS_EmptySet DEF Init, DisconnectAfterRecv
<1>3. TypeOK
  <2>1. /\ user \in [User -> {"idle", "start", "open", "init", "go", "use", "done"}]
        /\ result \in [User -> {"none", "ok", "estab", "error"}]
    BY DEF Init
  <2>2. /\ loop \in [User -> {"off", "recv", "test", "push", "end"}]
        /\ closer \in [Closer -> {"idle", "set", "close", "wait", "done"}]
    BY DEF Init
  <2>3. init \in BOOLEAN /\ shutdown \in BOOLEAN /\ socket \in {"none", "open", "closed"}
    BY DEF Init
  <2>4. chan \in 0..1 /\ connected \in Nat /\ disc \in Nat
    BY DEF Init
  <2> QED BY <2>1, <2>2, <2>3, <2>4 DEF Init, TypeOK
<1>4. LoopStarted
  BY DEF Init, LoopStarted
<1> QED BY <1>2, <1>3, <1>4 DEF PointInv

\* Steps of goStart, Connect and Send.
LEMMA UserKeeps ==
  ASSUME PointInv, NEW u \in User, TestInit(u) \/ goStart(u) \/ UserStep(u)
  PROVE  PointInv'
<1> USE DEF PointInv, TypeOK, LoopStarted, GotoUser, Return, flagVars, cbVars
<1>1. ASSUME UNCHANGED <<loop, disc, chan>> PROVE DisconnectAfterRecv'
  BY <1>1 DEF DisconnectAfterRecv
<1>2. CASE TestInit(u)
  BY <1>1, <1>2 DEF TestInit
<1>3. CASE goStart(u)
  BY <1>1, <1>3 DEF goStart
<1>4. CASE OpenSocket(u)
  BY <1>1, <1>4 DEF OpenSocket
<1>5. CASE SetInit(u)
  BY <1>1, <1>5 DEF SetInit
<1>6. CASE Go(u)
  <2>1. loop[u] # "end" /\ loop' = [loop EXCEPT ![u] = "recv"]
    BY <1>6 DEF Go, GotoLoop
  <2>2. Ended' = Ended
    BY <2>1, SameEnded
  <2>3. DisconnectAfterRecv'
    BY <1>6, <2>2 DEF Go, DisconnectAfterRecv, Ended
  <2> QED BY <1>6, <2>1, <2>3 DEF Go
<1>7. CASE Use(u)
  <2>1. connected' \in Nat
    BY <1>7 DEF Use
  <2> QED BY <1>1, <1>7, <2>1 DEF Use
<1> QED BY <1>2, <1>3, <1>4, <1>5, <1>6, <1>7 DEF UserStep

\* Steps of DoRecv.
LEMMA LoopKeeps ==
  ASSUME PointInv, NEW u \in User, LoopStep(u)
  PROVE  PointInv'
<1> USE DEF PointInv, TypeOK, LoopStarted, GotoLoop, flagVars, userVars, cbVars
<1>1. CASE Recv(u) \/ TestShutdown(u)
  <2>1. loop[u] # "end" /\ \E where \in {"recv", "test", "push"} : loop' = [loop EXCEPT ![u] = where]
    BY <1>1 DEF Recv, TestShutdown
  <2>2. Ended' = Ended
    BY <2>1, SameEnded
  <2>3. DisconnectAfterRecv'
    BY <1>1, <2>2 DEF Recv, TestShutdown, DisconnectAfterRecv, Ended
  <2> QED BY <1>1, <2>1, <2>3 DEF Recv, TestShutdown
<1>2. CASE Push(u)
  <2>1. loop[u] # "end" /\ loop' = [loop EXCEPT ![u] = "end"]
    BY <1>2 DEF Push
  <2>2. Cardinality(Ended) \in Nat /\ Cardinality(Ended') = Cardinality(Ended) + 1
    BY <2>1, OneMoreEnded
  <2>3. disc + chan = Cardinality(Ended) /\ disc' = disc /\ chan' = chan + 1 /\ chan' \in 0..1
    BY <1>2 DEF Push, DisconnectAfterRecv, Ended
  <2>4. DisconnectAfterRecv'
    BY <2>2, <2>3 DEF DisconnectAfterRecv, Ended
  <2> QED BY <1>2, <2>1, <2>3, <2>4 DEF Push
<1> QED BY <1>1, <1>2 DEF LoopStep

\* Steps of Shutdown: what WaitRecv takes from the channel it counts in disc.
LEMMA CloserKeeps ==
  ASSUME PointInv, NEW k \in Closer, Shutdown(k) \/ CloserStep(k)
  PROVE  PointInv'
<1> USE DEF PointInv, TypeOK, LoopStarted, GotoCloser, flagVars, userVars, cbVars
<1>1. CASE Shutdown(k) \/ SetShutdown(k) \/ CloseSocket(k)
  <2>1. UNCHANGED <<loop, disc, chan>>
    BY <1>1 DEF Shutdown, SetShutdown, CloseSocket
  <2>2. DisconnectAfterRecv'
    BY <2>1 DEF DisconnectAfterRecv
  <2> QED BY <1>1, <2>2 DEF Shutdown, SetShutdown, CloseSocket
<1>2. CASE WaitRecv(k)
  <2>1. disc' + chan' = disc + chan /\ chan' \in 0..1 /\ disc' \in Nat
    BY <1>2 DEF WaitRecv
  <2>2. DisconnectAfterRecv'
    BY <1>2, <2>1 DEF WaitRecv, DisconnectAfterRecv
  <2> QED BY <1>2, <2>1, <2>2 DEF WaitRecv
<1> QED BY <1>1, <1>2 DEF CloserStep

\* Every step keeps the invariant.
LEMMA PointNext == PointInv /\ [Next]_vars => PointInv'
<1> SUFFICES ASSUME PointInv, [Next]_vars PROVE PointInv'
  OBVIOUS
<1>1. CASE UNCHANGED vars
  BY <1>1 DEF vars, flagVars, userVars, cbVars, PointInv, TypeOK, LoopStarted, DisconnectAfterRecv
<1> QED BY <1>1, UserKeeps, LoopKeeps, CloserKeeps DEF Next

\* The variables of a UdpPoint keep their types; recv_shutdown_channel_ never
\* holds more than its capacity of one.
THEOREM PointTypes == Spec => []TypeOK
<1>1. PointInv => TypeOK
  BY DEF PointInv
<1> QED BY PointInit, PointNext, <1>1, PTL DEF Spec

\* Shutdown calls disconnect_cb_ at most once for every receive coroutine that
\* has ended, however many goStart and Shutdown calls race each other.
THEOREM PointDisconnects == Spec => []DisconnectAfterRecv
<1>1. PointInv => DisconnectAfterRecv
  BY DEF PointInv
<1> QED BY PointInit, PointNext, <1>1, PTL DEF Spec
=============================================================================
