---------------------------- MODULE ClientProofs ----------------------------
(***************************************************************************)
(* Proofs about Client, for any number of Connect, Send and Shutdown calls.*)
(***************************************************************************)
EXTENDS Client, TLAPS

\* The invariant holds for a new client.
LEMMA ClientInit == Init => Inv
<1> SUFFICES ASSUME Init PROVE Inv
  OBVIOUS
<1>1. TypeOK
  BY DEF Init, TypeOK
<1>2. \A c \in Caller : ~Up(c)
  BY DEF Init, Up
<1>3. ClientInv
  BY <1>2, NoneAssumption DEF Init, ClientInv, UserInv, HasTarget, Reachable, RefusedOnlyWhenDown, ShutdownNotLost
<1> QED BY <1>1, <1>3 DEF Inv

\* Past the test of IsEstab no session is up.
LEMMA NotEstab ==
  ASSUME Inv, ~IsEstab
  PROVE  \A d \in Caller : ~Up(d)
BY NoneAssumption DEF Inv, ClientInv, Reachable, IsEstab, HasSession, Up

\* The steps of Connect that leave the sessions alone.
LEMMA ConnectKeeps ==
  ASSUME Inv, NEW c \in Caller,
         TryLock(c) \/ TestEstab(c) \/ CreateClient(c) \/ Dial(c)
  PROVE  Inv'
<1> USE DEF sessionVars, userVars
<1>1. UNCHANGED <<sess, session, locked, close_ec, down, user, op, target, answer, live>>
  BY DEF TryLock, TestEstab, CreateClient, Dial
<1>2. \A d \in Caller : Up(d)' = Up(d)
  BY <1>1 DEF Up
<1>3. TypeOK'
  <2>1. CASE TryLock(c)
    BY <1>1, <2>1 DEF TryLock, GotoCall, Inv, TypeOK
  <2>2. CASE TestEstab(c)
    BY <1>1, <2>2 DEF TestEstab, Return, GotoCall, Inv, TypeOK
  <2>3. CASE CreateClient(c)
    BY <1>1, <2>3 DEF CreateClient, Return, GotoCall, Inv, TypeOK
  <2>4. CASE Dial(c)
    BY <1>1, <2>4 DEF Dial, Return, GotoCall, Inv, TypeOK
  <2> QED BY <2>1, <2>2, <2>3, <2>4
<1>4. Reachable'
  <2>1. CASE CreateClient(c)
    <3>1. \A d \in Caller : ~Up(d)
      BY <2>1 DEF CreateClient, Inv, ClientInv
    <3> QED BY <1>2, <3>1 DEF Reachable
  <2>2. CASE ~CreateClient(c)
    BY <1>1, <1>2, <2>2 DEF TryLock, TestEstab, Dial, Inv, ClientInv, Reachable
  <2> QED BY <2>1, <2>2
<1>5. RefusedOnlyWhenDown'
  <2>1. \A u \in User : live[u] \subseteq Caller
    BY DEF Inv, TypeOK
  <2> QED BY <1>1, <1>2, <2>1 DEF Inv, ClientInv, RefusedOnlyWhenDown
<1>6. \A u \in User : user'[u] \in HasTarget => \A d \in live'[u] : Up(d)' => target'[u] = d
  <2>1. \A u \in User : live[u] \subseteq Caller
    BY DEF Inv, TypeOK
  <2> QED BY <1>1, <1>2, <2>1 DEF Inv, ClientInv
<1>7. \A d \in Caller : call'[d] \notin {"idle", "done"} <=> connect_mtx' = d
  <2>1. call[c] # "idle" => connect_mtx = c
    BY DEF TestEstab, CreateClient, Dial, TryLock, Inv, ClientInv
  <2> QED BY <2>1, NoneAssumption DEF TryLock, TestEstab, CreateClient, Dial, Return, GotoCall, Inv, ClientInv, TypeOK
<1>8. \A d \in Caller : call'[d] \in {"url", "dial", "make"} => \A e \in Caller : ~Up(e)'
  <2>1. CASE TestEstab(c)
    BY <1>2, <2>1, NotEstab DEF TestEstab, Return, GotoCall, Inv, ClientInv, TypeOK
  <2>2. CASE ~TestEstab(c)
    BY <1>2, <2>2 DEF TryLock, CreateClient, Dial, Return, GotoCall, Inv, ClientInv, TypeOK
  <2> QED BY <2>1, <2>2
<1>9. \A d \in Caller : call'[d] \in {"dial", "make"} => impl' = d
  <2>1. CASE CreateClient(c)
    BY <2>1, <1>7 DEF CreateClient, Return, GotoCall, Inv, ClientInv, TypeOK
  <2>2. CASE ~CreateClient(c)
    BY <2>2 DEF TryLock, TestEstab, Dial, Return, GotoCall, Inv, ClientInv, TypeOK
  <2> QED BY <2>1, <2>2
<1>10. \A d \in Caller : call'[d] # "done" => session'[d] = "none"
  BY <1>1 DEF TryLock, TestEstab, CreateClient, Dial, Return, GotoCall, Inv, ClientInv, TypeOK
<1>11. \A u \in User : \A d \in live'[u] : session'[d] # "none"
  BY <1>1 DEF Inv, ClientInv
<1>12. impl # None => impl' # None
  BY NoneAssumption DEF TryLock, TestEstab, CreateClient, Dial
<1>13. UserInv'
  BY <1>1, <1>12 DEF Inv, ClientInv, UserInv
<1>14. ShutdownNotLost'
  <2>1. \A u \in User : live[u] \subseteq Caller
    BY DEF Inv, TypeOK
  <2> QED BY <1>1, <1>2, <2>1 DEF Inv, ClientInv, ShutdownNotLost
<1>15. \A d \in Caller : call'[d] = "make" \/ session'[d] # "none" => proto'[d] = "tcp"
  BY <1>1 DEF TryLock, TestEstab, CreateClient, Dial, Return, GotoCall, Inv, ClientInv, TypeOK
<1> QED BY <1>3, <1>4, <1>5, <1>6, <1>7, <1>8, <1>9, <1>10, <1>11, <1>13, <1>14, <1>15 DEF Inv, ClientInv

\* The session is made under the lock, when no other one is up.
LEMMA MakeKeeps ==
  ASSUME Inv, NEW c \in Caller, MakeSession(c)
  PROVE  Inv'
<1> USE DEF userVars
<1>1. TypeOK'
  BY DEF MakeSession, Return, GotoCall, GotoSession, Inv, TypeOK
<1>2. session[c] = "none" /\ impl = c /\ connect_mtx = c /\ \A d \in Caller : ~Up(d)
  BY DEF MakeSession, Inv, ClientInv
<1>3. \A d \in Caller : d # c => ~Up(d)'
  BY <1>2 DEF MakeSession, GotoSession, Up, Inv, TypeOK
<1>4. \A u \in User : \A d \in live'[u] : d \in Caller /\ d # c
  BY <1>2 DEF MakeSession, Inv, ClientInv, TypeOK
<1>5. Reachable'
  BY <1>2, <1>3 DEF MakeSession, Reachable
<1>6. RefusedOnlyWhenDown'
  BY <1>3, <1>4 DEF RefusedOnlyWhenDown
<1>7. \A d \in Caller : d # c => call'[d] \in {"idle", "done"}
  BY <1>2 DEF MakeSession, Return, GotoCall, Inv, ClientInv, TypeOK
<1>8. call'[c] = "done" /\ connect_mtx' = None
  BY DEF MakeSession, Return, GotoCall, Inv, TypeOK
<1>9. \A d \in Caller : d # c => call'[d] = call[d] /\ session'[d] = session[d]
  BY DEF MakeSession, Return, GotoCall, GotoSession, Inv, TypeOK
<1>10. \A u \in User : \A d \in live'[u] : session'[d] # "none"
  BY <1>4, <1>9 DEF MakeSession, Inv, ClientInv
<1>11. UserInv'
  BY DEF MakeSession, Inv, ClientInv, UserInv
<1>12. ShutdownNotLost'
  BY <1>3, <1>4 DEF ShutdownNotLost
<1>13. \A d \in Caller : call'[d] = "make" \/ session'[d] # "none" => proto'[d] = "tcp"
  BY <1>7, <1>8, <1>9 DEF MakeSession, Inv, ClientInv
<1> QED BY <1>1, <1>3, <1>4, <1>5, <1>6, <1>7, <1>8, <1>9, <1>10, <1>11, <1>12, <1>13, NoneAssumption
        DEF Inv, ClientInv

\* The steps of a session and of TcpSession::Shutdown: sessions only go down.
LEMMA SessionKeeps ==
  ASSUME Inv, TypeOK',
         UNCHANGED <<connectVars, op, target, answer, live>>,
         \A c \in Caller : Up(c)' => Up(c) /\ (c \in sess => c \in sess'),
         \A c \in Caller : (session'[c] = "none") <=> (session[c] = "none"),
         \A u \in User : user'[u] \in HasTarget => user[u] \in HasTarget,
         UserInv', ShutdownNotLost'
  PROVE  Inv'
<1> USE DEF connectVars
<1>1. \A u \in User : live[u] \subseteq Caller
  BY DEF Inv, TypeOK
<1>2. Reachable'
  BY DEF Inv, ClientInv, Reachable
<1>3. RefusedOnlyWhenDown'
  BY <1>1 DEF Inv, ClientInv, RefusedOnlyWhenDown
<1>4. \A u \in User : user'[u] \in HasTarget => \A c \in live'[u] : Up(c)' => target'[u] = c
  BY <1>1 DEF Inv, ClientInv
<1>5. \A u \in User : \A c \in live'[u] : session'[c] # "none"
  BY <1>1 DEF Inv, ClientInv
<1> QED BY <1>2, <1>3, <1>4, <1>5 DEF Inv, ClientInv

\* Send and Shutdown find the session that was up when they began.
LEMMA UserKeeps ==
  ASSUME Inv, NEW u \in User, TestImpl(u) \/ ReadImpl(u) \/ GetSession(u)
  PROVE  Inv'
<1> USE DEF connectVars, sessionVars
<1>1. UNCHANGED <<connect_mtx, call, result, proto, impl, sess, session, locked, close_ec, down, op>>
  BY DEF TestImpl, ReadImpl, GetSession
<1>2. \A c \in Caller : Up(c)' = Up(c)
  BY <1>1 DEF Up
<1>3. TypeOK'
  <2>1. CASE TestImpl(u)
    BY <1>1, <2>1 DEF TestImpl, Answer, GotoUser, Inv, TypeOK
  <2>2. CASE ReadImpl(u)
    BY <1>1, <2>2 DEF ReadImpl, GotoUser, Inv, TypeOK
  <2>3. CASE GetSession(u)
    BY <1>1, <2>3 DEF GetSession, Answer, GotoUser, Inv, TypeOK
  <2> QED BY <2>1, <2>2, <2>3
<1>4. Reachable'
  BY <1>1, <1>2 DEF Inv, ClientInv, Reachable
<1>5. \A v \in User : v # u => /\ user'[v] = user[v] /\ target'[v] = target[v]
                                /\ live'[v] = live[v] /\ answer'[v] = answer[v]
  BY DEF TestImpl, ReadImpl, GetSession, Answer, GotoUser, Inv, TypeOK
<1>6. live'[u] \subseteq Caller
  BY <1>3 DEF TypeOK
<1>7. \A c \in live'[u] : session'[c] # "none"
  <2>1. CASE TestImpl(u)
    BY <1>1, <2>1 DEF TestImpl, Up, Inv, TypeOK
  <2>2. CASE ~TestImpl(u)
    BY <1>1, <2>2 DEF ReadImpl, GetSession, Inv, ClientInv
  <2> QED BY <2>1, <2>2
<1>8. user'[u] \in HasTarget => \A c \in live'[u] : Up(c)' => target'[u] = c
  <2>1. CASE ReadImpl(u)
    BY <1>2, <1>6, <2>1 DEF ReadImpl, Inv, ClientInv, Reachable, TypeOK
  <2>2. CASE TestImpl(u)
    BY <2>2 DEF TestImpl, Answer, GotoUser, Inv, TypeOK, HasTarget
  <2>3. CASE GetSession(u)
    BY <1>2, <1>6, <2>3 DEF GetSession, Inv, ClientInv, HasTarget
  <2> QED BY <2>1, <2>2, <2>3
<1>9. answer'[u] = "nobody" => \A c \in live'[u] : ~Up(c)'
  <2>1. CASE TestImpl(u)
    <3>1. CASE impl = None
      BY <1>2, <1>6, <3>1, NoneAssumption DEF Inv, ClientInv, Reachable
    <3>2. CASE impl # None
      BY <2>1, <3>2 DEF TestImpl, Inv, ClientInv, UserInv
    <3> QED BY <3>1, <3>2
  <2>2. CASE ReadImpl(u)
    BY <2>2 DEF ReadImpl, Inv, ClientInv, UserInv
  <2>3. CASE GetSession(u)
    <3>1. live'[u] = live[u] /\ live[u] \subseteq Caller /\ answer[u] # "nobody"
      BY <1>6, <2>3 DEF GetSession, Inv, ClientInv, UserInv
    <3>2. \A c \in live[u] : Up(c) => target[u] = c /\ HasSession(target[u])
      BY <2>3, <3>1 DEF GetSession, Inv, ClientInv, HasTarget, Reachable, HasSession
    <3>3. answer'[u] = "nobody" => ~HasSession(target[u])
      BY <2>3, <3>1 DEF GetSession, Answer, Inv, TypeOK
    <3> QED BY <1>2, <3>1, <3>2, <3>3
  <2> QED BY <2>1, <2>2, <2>3
<1>10. RefusedOnlyWhenDown'
  <2>1. \A v \in User : live[v] \subseteq Caller
    BY DEF Inv, TypeOK
  <2> QED BY <1>2, <1>5, <1>9, <2>1 DEF Inv, ClientInv, RefusedOnlyWhenDown
<1>11. \A v \in User : user'[v] \in HasTarget => \A c \in live'[v] : Up(c)' => target'[v] = c
  <2>1. \A v \in User : live[v] \subseteq Caller
    BY DEF Inv, TypeOK
  <2> QED BY <1>2, <1>5, <1>8, <2>1 DEF Inv, ClientInv
<1>12. \A v \in User : \A c \in live'[v] : session'[c] # "none"
  BY <1>1, <1>5, <1>7 DEF Inv, ClientInv
<1>13. UserInv'
  <2>1. CASE TestImpl(u)
    BY <1>1, <1>5, <2>1 DEF TestImpl, Answer, GotoUser, Inv, ClientInv, UserInv, HasTarget, TypeOK
  <2>2. CASE ReadImpl(u)
    BY <1>1, <1>5, <2>2 DEF ReadImpl, GotoUser, Inv, ClientInv, UserInv, HasTarget, TypeOK
  <2>3. CASE GetSession(u)
    BY <1>1, <1>5, <2>3 DEF GetSession, Answer, GotoUser, Inv, ClientInv, UserInv, HasTarget, TypeOK
  <2> QED BY <2>1, <2>2, <2>3
<1>14. op[u] = "Shutdown" /\ user'[u] = "done" => \A c \in live'[u] : ~Up(c)'
  <2>1. CASE TestImpl(u)
    <3>1. CASE impl = None
      BY <1>2, <1>6, <3>1, NoneAssumption DEF Inv, ClientInv, Reachable
    <3>2. CASE impl # None
      BY <2>1, <3>2 DEF TestImpl, GotoUser, Inv, TypeOK
    <3> QED BY <3>1, <3>2
  <2>2. CASE ReadImpl(u)
    BY <2>2 DEF ReadImpl, GotoUser, Inv, TypeOK
  <2>3. CASE GetSession(u)
    <3>1. live'[u] = live[u] /\ live[u] \subseteq Caller
      BY <1>6, <2>3 DEF GetSession
    <3>2. \A c \in live[u] : Up(c) => target[u] = c /\ HasSession(target[u])
      BY <2>3, <3>1 DEF GetSession, Inv, ClientInv, HasTarget, Reachable, HasSession
    <3>3. \A c \in live[u] : Up(c) => proto[c] = "tcp"
      BY <3>1 DEF Inv, ClientInv
    <3>4. op[u] = "Shutdown" /\ user'[u] = "done" =>
             ~HasSession(target[u]) \/ proto[target[u]] = "udp"
      BY <2>3 DEF GetSession, GotoUser, Inv, TypeOK
    <3> QED BY <1>2, <3>1, <3>2, <3>3, <3>4
  <2> QED BY <2>1, <2>2, <2>3
<1>15. ShutdownNotLost'
  <2>1. \A v \in User : live[v] \subseteq Caller
    BY DEF Inv, TypeOK
  <2> QED BY <1>1, <1>2, <1>5, <1>14, <2>1 DEF Inv, ClientInv, ShutdownNotLost
<1> QED BY <1>1, <1>2, <1>3, <1>4, <1>10, <1>11, <1>12, <1>13, <1>15 DEF Inv, ClientInv

\* Every step keeps the invariant.
LEMMA ClientNext ==
  ASSUME Inv, [Next]_vars
  PROVE  Inv'
<1> USE DEF connectVars, sessionVars, userVars
<1>1. CASE UNCHANGED vars
  BY <1>1 DEF vars, Inv, TypeOK, ClientInv, UserInv, Reachable, RefusedOnlyWhenDown, ShutdownNotLost, Up
<1>2. ASSUME NEW c \in Caller, TryLock(c) \/ ConnectStep(c)
      PROVE  Inv'
  BY <1>2, ConnectKeeps, MakeKeeps DEF ConnectStep
<1>3. ASSUME NEW c \in Caller, SessionStep(c) \/ PeerEnds(c)
      PROVE  Inv'
  <2>1. TypeOK'
    BY <1>3 DEF SessionStep, StartSession, PeerEnds, SessionCloses, OnSessionClose, Reset,
                GotoSession, Inv, TypeOK
  <2>2. UNCHANGED <<connectVars, user, op, target, answer, live>>
    BY <1>3 DEF SessionStep, StartSession, PeerEnds, SessionCloses, OnSessionClose, Reset
  <2>3. \A d \in Caller : Up(d)' => Up(d) /\ (d \in sess => d \in sess')
    BY <1>3 DEF SessionStep, StartSession, PeerEnds, SessionCloses, OnSessionClose, Reset,
                GotoSession, Up, Inv, TypeOK
  <2>4. \A d \in Caller : (session'[d] = "none") <=> (session[d] = "none")
    BY <1>3 DEF SessionStep, StartSession, PeerEnds, SessionCloses, OnSessionClose, Reset,
                GotoSession, Inv, TypeOK
  <2>5. UserInv'
    BY <2>2 DEF Inv, ClientInv, UserInv
  <2>6. down \subseteq down' /\ \A u \in User : live[u] \subseteq Caller
    BY <1>3 DEF SessionStep, StartSession, PeerEnds, SessionCloses, OnSessionClose, Reset, Inv, TypeOK
  <2>7. ShutdownNotLost'
    BY <2>2, <2>3, <2>6 DEF Inv, ClientInv, ShutdownNotLost
  <2> QED BY <2>1, <2>2, <2>3, <2>4, <2>5, <2>7, SessionKeeps
<1>4. ASSUME NEW u \in User, TestImpl(u) \/ ReadImpl(u) \/ GetSession(u)
      PROVE  Inv'
  BY <1>4, UserKeeps
<1>5. ASSUME NEW u \in User, LockCloseEc(u) \/ SetCloseEc(u) \/ ShutdownSession(u)
      PROVE  Inv'
  <2>0. target[u] \in Caller
    BY <1>5 DEF LockCloseEc, SetCloseEc, ShutdownSession, Inv, ClientInv, UserInv, HasTarget, TypeOK
  <2>1. TypeOK'
    BY <1>5, <2>0 DEF LockCloseEc, SetCloseEc, ShutdownSession, GotoUser, Inv, TypeOK
  <2>2. UNCHANGED <<connectVars, sess, session, op, target, answer, live>>
    BY <1>5 DEF LockCloseEc, SetCloseEc, ShutdownSession
  <2>3. \A d \in Caller : Up(d)' => Up(d)
    BY <1>5, <2>2 DEF LockCloseEc, SetCloseEc, ShutdownSession, Up
  <2>4. \A v \in User : user'[v] \in HasTarget => user[v] \in HasTarget
    BY <1>5 DEF LockCloseEc, SetCloseEc, ShutdownSession, GotoUser, Inv, TypeOK, HasTarget
  <2>5. UserInv'
    BY <1>5, <2>2 DEF LockCloseEc, SetCloseEc, ShutdownSession, GotoUser,
                      Inv, ClientInv, UserInv, HasTarget, TypeOK
  <2>6. down \subseteq down' /\ \A v \in User : live[v] \subseteq Caller
    BY <1>5 DEF LockCloseEc, SetCloseEc, ShutdownSession, Inv, TypeOK
  <2>7. \A v \in User : user'[v] = "done" =>
           user[v] = "done" \/ (v = u /\ user[u] = "shut" /\ target[u] \in down')
    BY <1>5 DEF LockCloseEc, SetCloseEc, ShutdownSession, GotoUser, Inv, TypeOK
  <2>8. user[u] = "shut" => \A d \in live[u] : Up(d) => target[u] = d
    BY DEF Inv, ClientInv, HasTarget
  <2>9. ShutdownNotLost'
    BY <2>2, <2>3, <2>6, <2>7, <2>8 DEF Inv, ClientInv, ShutdownNotLost
  <2> QED BY <2>1, <2>2, <2>3, <2>4, <2>5, <2>9, SessionKeeps
<1> QED BY <1>1, <1>2, <1>3, <1>4, <1>5 DEF Next, UserStep

\* The invariant of the client holds in every reachable state.
THEOREM ClientInvariant == Spec => []Inv
BY ClientInit, ClientNext, PTL DEF Spec

\* Connect never replaces a session that is up: impl_ leads to it until its
\* close_ec_ is set.
THEOREM SessionReachable == Spec => []Reachable
<1>1. Inv => Reachable
  BY DEF Inv, ClientInv
<1> QED BY ClientInvariant, <1>1, PTL

\* A Send that begins while a session is up, and stays up, is handed to it.
THEOREM SendNotRefused == Spec => []RefusedOnlyWhenDown
<1>1. Inv => RefusedOnlyWhenDown
  BY DEF Inv, ClientInv
<1> QED BY ClientInvariant, <1>1, PTL

\* A Shutdown that begins while a session is up takes it down.
THEOREM ShutdownReaches == Spec => []ShutdownNotLost
<1>1. Inv => ShutdownNotLost
  BY DEF Inv, ClientInv
<1> QED BY ClientInvariant, <1>1, PTL
=============================================================================
