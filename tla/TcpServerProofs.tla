--------------------------- MODULE TcpServerProofs ---------------------------
(***************************************************************************)
(* Proofs about TcpServer, for any finite set of connections, any number   *)
(* of Shutdown calls and any max_connection_.                              *)
(***************************************************************************)
EXTENDS TcpServer, FiniteSetTheorems, TLAPS

\* sessions_ is finite, so that its size is a number.
LEMMA SessionsFinite ==
  ASSUME TypeOK
  PROVE  IsFiniteSet(sessions) /\ Cardinality(sessions) \in Nat
<1>1. IsFiniteSet(sessions)
  BY ConnAssumption, FS_Subset DEF TypeOK
<1> QED BY <1>1, FS_CardinalityType

\* The invariant holds before the server is started.
LEMMA ServerInit == Init => Inv
<1> SUFFICES ASSUME Init PROVE Inv
  OBVIOUS
<1>1. TypeOK
  BY DEF Init, TypeOK, ConnState
<1>2. Cardinality(sessions) <= MaxConnection
  BY FS_EmptySet, MaxConnectionAssumption DEF Init
<1>3. ServerInv
  BY <1>2, NamesAssumption DEF Init, ServerInv
<1> QED BY <1>1, <1>3 DEF Inv

\* The steps of goStart and the accept loop: sessions and the lock are left alone.
LEMMA AcceptKeeps ==
  ASSUME Inv, goStartBeforeFork \/ goStartAfterFork \/ AcceptStep
  PROVE  Inv'
<1> USE DEF Inv, TypeOK, sessionVars
<1>1. CASE goStartBeforeFork \/ goStartAfterFork \/ BeforeAspect \/ AcceptError \/ AfterError
  <2>1. UNCHANGED <<conn, sessions, told, ended, sessions_mutex, shutdown, closer>>
    BY <1>1 DEF goStartBeforeFork, goStartAfterFork, BeforeAspect, AcceptError, AfterError
  <2>2. TypeOK'
    BY <1>1, <2>1 DEF goStartBeforeFork, goStartAfterFork, BeforeAspect, AcceptError, AfterError
  <2>3. accepted' = accepted \/ accepted' = None
    BY <1>1 DEF goStartBeforeFork, goStartAfterFork, BeforeAspect, AcceptError, AfterError
  <2>4. ServerInv'
    BY <2>1, <2>3 DEF ServerInv
  <2> QED BY <2>2, <2>4
<1>2. ASSUME NEW c \in Conn, AcceptOk(c)
      PROVE  Inv'
  <2>1. TypeOK'
    BY <1>2 DEF AcceptOk, GotoConn, ConnState
  <2>2. ServerInv'
    BY <1>2 DEF AcceptOk, GotoConn, ServerInv
  <2> QED BY <2>1, <2>2
<1>3. CASE AfterAccept
  <2>1. TypeOK' /\ accepted \in Conn
    BY <1>3 DEF AfterAccept, GotoConn, ConnState
  <2>2. conn' = [conn EXCEPT ![accepted] = "handshake"]
    BY <1>3 DEF AfterAccept, GotoConn
  <2>3. conn[accepted] = "accepted"
    BY <1>3 DEF ServerInv, AfterAccept
  <2>4. ServerInv'
    BY <1>3, <2>1, <2>2, <2>3 DEF AfterAccept, ServerInv
  <2> QED BY <2>1, <2>4
<1> QED BY <1>1, <1>2, <1>3 DEF AcceptStep

\* The steps of a connection's coroutine and of its session.
LEMMA ConnKeeps ==
  ASSUME Inv, NEW c \in Conn, ConnStep(c) \/ ConnectionEnds(c)
  PROVE  Inv'
<1> USE DEF Inv, TypeOK, serverVars
<1>0. IsFiniteSet(sessions) /\ Cardinality(sessions) \in Nat
  BY SessionsFinite
<1>1. CASE Handshake(c)
  BY <1>1, NamesAssumption DEF Handshake, GotoConn, ConnState, ServerInv
<1>2. CASE LockSessions(c)
  <2>1. TypeOK'
    BY <1>2 DEF LockSessions, GotoConn, ConnState
  <2>2. ServerInv'
    BY <1>2, NamesAssumption DEF LockSessions, GotoConn, ServerInv
  <2> QED BY <2>1, <2>2
<1>3. CASE Check(c)
  <2>1. TypeOK'
    BY <1>3 DEF Check, GotoConn, ConnState
  <2>2. sessions_mutex = c /\ c \notin sessions
    BY <1>3 DEF Check, ServerInv
  <2>3. CASE Refused
    <3>1. conn' = [conn EXCEPT ![c] = "gone"] /\ sessions_mutex' = None /\ told' = told \cup {c}
      BY <1>3, <2>3 DEF Check, GotoConn
    <3>2. UNCHANGED <<accepted, sessions, shutdown, closer>>
      BY <1>3 DEF Check
    <3>3. accepted # c
      BY <1>3, NamesAssumption DEF Check, ServerInv
    <3> QED BY <2>1, <2>2, <3>1, <3>2, <3>3, NamesAssumption DEF ServerInv
  <2>4. CASE ~Refused
    <3>1. ~shutdown /\ Cardinality(sessions) < MaxConnection
      BY <1>0, <2>4, MaxConnectionAssumption DEF Refused
    <3> QED BY <1>3, <2>1, <2>2, <2>4, <3>1, NamesAssumption DEF Check, GotoConn, ServerInv
  <2> QED BY <2>1, <2>3, <2>4
<1>4. CASE Insert(c)
  <2>1. TypeOK'
    BY <1>4 DEF Insert, GotoConn, ConnState
  <2>2. sessions_mutex = c /\ c \notin sessions /\ Cardinality(sessions) < MaxConnection
    BY <1>4 DEF Insert, ServerInv
  <2>3. Cardinality(sessions') <= MaxConnection
    <3>1. Cardinality(sessions') = Cardinality(sessions) + 1
      BY <1>0, <1>4, <2>2, FS_AddElement DEF Insert
    <3> QED BY <1>0, <2>2, <3>1, MaxConnectionAssumption
  <2>4. \A d \in Conn : d # c => conn[d] \notin {"check", "insert"}
    BY <2>2 DEF ServerInv
  <2>5. \A k \in Closer : closer[k] # "done"
    BY <1>4 DEF Insert, ServerInv
  <2>6. ServerInv'
    BY <1>4, <2>1, <2>2, <2>3, <2>4, <2>5, NamesAssumption DEF Insert, GotoConn, ServerInv
  <2> QED BY <2>1, <2>6
<1>5. CASE StartSession(c) \/ SessionCloses(c) \/ OnSessionClose(c)
  BY <1>5 DEF StartSession, SessionCloses, OnSessionClose, GotoConn, ConnState, ServerInv
<1>6. CASE Erase(c)
  <2>1. TypeOK'
    BY <1>6 DEF Erase, GotoConn, ConnState
  <2>2. Cardinality(sessions') <= MaxConnection
    <3>1. Cardinality(sessions') <= Cardinality(sessions) /\ Cardinality(sessions') \in Nat
      BY <1>0, <1>6, FS_Subset, FS_CardinalityType DEF Erase
    <3> QED BY <1>0, <3>1, MaxConnectionAssumption DEF ServerInv
  <2>3. \A d \in Conn : conn[d] \notin {"check", "insert"}
    BY <1>6, NamesAssumption DEF Erase, ServerInv
  <2>4. ServerInv'
    BY <1>6, <2>1, <2>2, <2>3 DEF Erase, GotoConn, ServerInv
  <2> QED BY <2>1, <2>4
<1>7. CASE ConnectionEnds(c)
  BY <1>7 DEF ConnectionEnds, ServerInv
<1> QED BY <1>1, <1>2, <1>3, <1>4, <1>5, <1>6, <1>7 DEF ConnStep

\* The steps of Shutdown.
LEMMA ShutdownKeeps ==
  ASSUME Inv, NEW k \in Closer, ShutdownSetFlag(k) \/ CloserStep(k)
  PROVE  Inv'
<1> USE DEF Inv, TypeOK, serverVars, sessionVars, GotoCloser
<1>1. CASE ShutdownSetFlag(k)
  BY <1>1 DEF ShutdownSetFlag, ServerInv
<1>2. CASE ShutdownAcceptor(k)
  BY <1>2 DEF ShutdownAcceptor, ServerInv
<1>3. CASE ShutdownLock(k)
  <2>1. TypeOK'
    BY <1>3 DEF ShutdownLock
  <2>2. ServerInv'
    BY <1>3, NamesAssumption DEF ShutdownLock, ServerInv
  <2> QED BY <2>1, <2>2
<1>4. ASSUME NEW c \in Conn, ShutdownSession(k, c)
      PROVE  Inv'
  BY <1>4 DEF ShutdownSession, ServerInv
<1>5. CASE ShutdownReturn(k)
  <2>1. TypeOK'
    BY <1>5 DEF ShutdownReturn
  <2>2. sessions_mutex = k /\ \A c \in Conn : conn[c] \notin {"check", "insert"}
    BY <1>5, NamesAssumption DEF ShutdownReturn, ServerInv
  <2>3. ServerInv'
    BY <1>5, <2>1, <2>2, NamesAssumption DEF ShutdownReturn, ServerInv
  <2> QED BY <2>1, <2>3
<1> QED BY <1>1, <1>2, <1>3, <1>4, <1>5 DEF CloserStep

\* The invariant holds in every reachable state.
THEOREM ServerInvariant == Spec => []Inv
<1>1. Inv /\ [Next]_vars => Inv'
  <2> SUFFICES ASSUME Inv, [Next]_vars PROVE Inv'
    OBVIOUS
  <2>1. CASE UNCHANGED vars
    BY <2>1 DEF vars, serverVars, sessionVars, Inv, TypeOK, ServerInv
  <2>2. CASE Next
    BY <2>2, AcceptKeeps, ConnKeeps, ShutdownKeeps DEF Next
  <2> QED BY <2>1, <2>2
<1> QED BY ServerInit, <1>1, PTL DEF Spec

\* The server never has more sessions than SetMaxConnection allows.
THEOREM MaxConnectionKept == Spec => []WithinMaxConnection
<1>1. Inv => WithinMaxConnection
  BY DEF Inv, ServerInv, WithinMaxConnection
<1> QED BY ServerInvariant, <1>1, PTL

\* No session is registered behind the back of a Shutdown call.
THEOREM NoSessionForgotten == Spec => []NoOrphan
<1>1. Inv => NoOrphan
  BY DEF Inv, ServerInv, NoOrphan
<1> QED BY ServerInvariant, <1>1, PTL
=============================================================================
