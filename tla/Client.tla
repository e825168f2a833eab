------------------------------- MODULE Client -------------------------------
(***************************************************************************)
(* The Client facade of libgonet/network.cpp with the TcpClient and, as    *)
(* far as the facade sees it, the UdpPoint it creates: calls of Connect,   *)
(* Send and Shutdown by any thread, and the end of sessions.               *)
(*                                                                         *)
(* Every Connect call that gets so far creates one client object and at    *)
(* most one session, so both are named by the call.  A session is the part *)
(* of TcpSession the client sees: close_ec_, which IsEstab reads, and the  *)
(* one call of its disconnect callback.                                    *)
(***************************************************************************)
EXTENDS Integers

CONSTANTS
    Caller,   \* calls of Connect
    User,     \* calls of Send and Shutdown
    Proto,    \* protocols the urls name, of "tcp" and "udp"
    None      \* no call

ASSUME ProtoAssumption == Proto \subseteq {"tcp", "udp"}
ASSUME NoneAssumption == None \notin Caller

VARIABLES
    connect_mtx,   \* who holds Client::connect_mtx_, or None
    call, result,  \* where each Connect call is, and what it returned
    proto,         \* the protocol of the call's url
    impl,          \* impl_: the call whose client object it is, or None
    sess,          \* the calls whose TcpClient has its sess_
    session,       \* the session each call has made
    locked,        \* sessions whose close_ec_mutex_ is locked
    close_ec,      \* sessions whose close_ec_ is set
    down,          \* sessions that end: shut down, or lost by the peer
    user, op,      \* where each user's call is, and which one it is
    target,        \* the impl_ the user's call has read
    answer,        \* who was given the Send: "session", "nobody", or "none" yet
    live           \* history: the sessions that were up when the call began

connectVars == <<connect_mtx, call, result, proto, impl>>
sessionVars == <<sess, session, locked, close_ec, down>>
userVars == <<user, op, target, answer, live>>
vars == <<connectVars, sessionVars, userVars>>

Init ==
    /\ connect_mtx = None /\ impl = None
    /\ call = [c \in Caller |-> "idle"]
    /\ result = [c \in Caller |-> "none"]
    /\ proto \in [Caller -> Proto]
    /\ session = [c \in Caller |-> "none"]
    /\ sess = {} /\ locked = {} /\ close_ec = {} /\ down = {}
    /\ user = [u \in User |-> "idle"]
    /\ op \in [User -> {"Send", "Shutdown"}]
    /\ target = [u \in User |-> None]
    /\ answer = [u \in User |-> "none"]
    /\ live = [u \in User |-> {}]

GotoCall(c, where) == call' = [call EXCEPT ![c] = where]
GotoUser(u, where) == user' = [user EXCEPT ![u] = where]
GotoSession(c, where) == session' = [session EXCEPT ![c] = where]

\* A session is up: it exists, runs or is about to, and has no close_ec_.
Up(c) == session[c] \in {"made", "running"} /\ c \notin close_ec

\* impl_->GetSession() finds a session: a udp point always makes one.
HasSession(c) == proto[c] = "udp" \/ c \in sess

\* Mutant: the test of close_ec_ is inverted.
IsEstabMutant ==
    impl # None /\ HasSession(impl) /\ (proto[impl] = "udp" \/ impl \in close_ec)

\* impl_ && impl_->GetSession()->IsEstab(); a udp session always says yes.
IsEstab ==
    impl # None /\ HasSession(impl) /\ (proto[impl] = "udp" \/ impl \notin close_ec)

-----------------------------------------------------------------------------
(* Client::Connect *)

\* The call returns, and unlocks connect_mtx_.
Return(c, ec) ==
    /\ GotoCall(c, "done")
    /\ result' = [result EXCEPT ![c] = ec]
    /\ connect_mtx' = None

\* Mutant: the lock is not taken.
TryLockMutant(c) ==
    /\ call[c] = "idle"
    /\ GotoCall(c, "test")
    /\ UNCHANGED <<connect_mtx, result, proto, impl, sessionVars, userVars>>

\* try_lock, or ec_connecting.
TryLock(c) ==
    /\ call[c] = "idle"
    /\ \/ /\ connect_mtx = None
          /\ connect_mtx' = c /\ GotoCall(c, "test") /\ UNCHANGED result
       \/ /\ connect_mtx # None
          /\ GotoCall(c, "done") /\ result' = [result EXCEPT ![c] = "connecting"]
          /\ UNCHANGED connect_mtx
    /\ UNCHANGED <<proto, impl, sessionVars, userVars>>

TestEstab(c) ==
    /\ call[c] = "test"
    /\ \/ IsEstab /\ Return(c, "estab")
       \/ ~IsEstab /\ GotoCall(c, "url") /\ UNCHANGED <<result, connect_mtx>>
    /\ UNCHANGED <<proto, impl, sessionVars, userVars>>

\* The url is wrong or its protocol not supported, or a client object is
\* created, replacing impl_, and linked to the options.
CreateClient(c) ==
    /\ call[c] = "url"
    /\ \/ Return(c, "url") /\ UNCHANGED impl
       \/ impl' = c /\ GotoCall(c, "dial") /\ UNCHANGED <<result, connect_mtx>>
    /\ UNCHANGED <<proto, sessionVars, userVars>>

\* TcpClient::Connect or UdpPoint::Connect: connect and handshake.
Dial(c) ==
    /\ call[c] = "dial"
    /\ \/ Return(c, "error")
       \/ proto[c] = "udp" /\ Return(c, "ok")
       \/ proto[c] = "tcp" /\ GotoCall(c, "make") /\ UNCHANGED <<result, connect_mtx>>
    /\ UNCHANGED <<proto, impl, sessionVars, userVars>>

\* TcpClient::Connect: the session is made and a coroutine is to start it.
MakeSession(c) ==
    /\ call[c] = "make"
    /\ sess' = sess \cup {c}
    /\ GotoSession(c, "made")
    /\ Return(c, "ok")
    /\ UNCHANGED <<proto, impl, locked, close_ec, down, userVars>>

-----------------------------------------------------------------------------
(* The session, as the client sees it *)

StartSession(c) ==
    /\ session[c] = "made"
    /\ GotoSession(c, "running")
    /\ UNCHANGED <<connectVars, sess, locked, close_ec, down, userVars>>

\* The peer closes the connection or it breaks; SetCloseEc writes the code
\* unless a Shutdown call has locked close_ec_mutex_.
PeerEnds(c) ==
    /\ session[c] = "running" /\ c \notin down
    /\ down' = down \cup {c}
    /\ locked' = locked \cup {c}
    /\ close_ec' = IF c \in locked THEN close_ec ELSE close_ec \cup {c}
    /\ UNCHANGED <<connectVars, sess, session, userVars>>

SessionCloses(c) ==
    /\ session[c] = "running" /\ c \in down
    /\ GotoSession(c, "on_close")
    /\ UNCHANGED <<connectVars, sess, locked, close_ec, down, userVars>>

\* TcpClient::OnSessionClose: disconnect_cb_.
OnSessionClose(c) ==
    /\ session[c] = "on_close"
    /\ GotoSession(c, "reset")
    /\ UNCHANGED <<connectVars, sess, locked, close_ec, down, userVars>>

\* Mutant: sess_ is kept.
ResetMutant(c) ==
    /\ session[c] = "reset"
    /\ GotoSession(c, "gone")
    /\ UNCHANGED <<connectVars, sess, locked, close_ec, down, userVars>>

\* TcpClient::OnSessionClose: sess_.reset().
Reset(c) ==
    /\ session[c] = "reset"
    /\ sess' = sess \ {c}
    /\ GotoSession(c, "gone")
    /\ UNCHANGED <<connectVars, locked, close_ec, down, userVars>>

-----------------------------------------------------------------------------
(* Client::Send, Client::SendNoDelay and Client::Shutdown *)

\* The call is done with; a Send was handed to a session or answered
\* ec_shutdown because there is nobody to send to.
Answer(u, who) ==
    /\ GotoUser(u, "done")
    /\ answer' = IF op[u] = "Send" THEN [answer EXCEPT ![u] = who] ELSE answer

\* The test of impl_.
TestImpl(u) ==
    /\ user[u] = "idle"
    /\ live' = [live EXCEPT ![u] = {c \in Caller : Up(c)}]
    /\ \/ impl = None /\ Answer(u, "nobody")
       \/ impl # None /\ GotoUser(u, "read") /\ UNCHANGED answer
    /\ UNCHANGED <<connectVars, sessionVars, op, target>>

\* impl_ is read again; Connect may have replaced it since the test.
ReadImpl(u) ==
    /\ user[u] = "read"
    /\ target' = [target EXCEPT ![u] = impl]
    /\ GotoUser(u, "get")
    /\ UNCHANGED <<connectVars, sessionVars, op, answer, live>>

\* impl_->GetSession(): a session, or the FakeSession, which answers
\* ec_shutdown.  Shutdown of a udp session does nothing.
GetSession(u) ==
    /\ user[u] = "get"
    /\ LET c == target[u] IN
       \/ ~HasSession(c) /\ Answer(u, "nobody")
       \/ HasSession(c) /\ (op[u] = "Send" \/ proto[c] = "udp") /\ Answer(u, "session")
       \/ HasSession(c) /\ op[u] = "Shutdown" /\ proto[c] = "tcp"
             /\ GotoUser(u, "lock_ec") /\ UNCHANGED answer
    /\ UNCHANGED <<connectVars, sessionVars, op, target, live>>

\* Mutant: a call that finds the lock taken leaves the rest to its owner.
LockCloseEcMutant(u) ==
    /\ user[u] = "lock_ec"
    /\ GotoUser(u, IF target[u] \in locked THEN "done" ELSE "set_ec")
    /\ locked' = locked \cup {target[u]}
    /\ UNCHANGED <<connectVars, sess, session, close_ec, down, op, target, answer, live>>

\* TcpSession::Shutdown: SetCloseEc in two steps, then the session goes down.
LockCloseEc(u) ==
    /\ user[u] = "lock_ec"
    /\ GotoUser(u, IF target[u] \in locked THEN "shut" ELSE "set_ec")
    /\ locked' = locked \cup {target[u]}
    /\ UNCHANGED <<connectVars, sess, session, close_ec, down, op, target, answer, live>>

SetCloseEc(u) ==
    /\ user[u] = "set_ec"
    /\ close_ec' = close_ec \cup {target[u]}
    /\ GotoUser(u, "shut")
    /\ UNCHANGED <<connectVars, sess, session, locked, down, op, target, answer, live>>

ShutdownSession(u) ==
    /\ user[u] = "shut"
    /\ down' = down \cup {target[u]}
    /\ GotoUser(u, "done")
    /\ UNCHANGED <<connectVars, sess, session, locked, close_ec, op, target, answer, live>>

-----------------------------------------------------------------------------

ConnectStep(c) == TestEstab(c) \/ CreateClient(c) \/ Dial(c) \/ MakeSession(c)
SessionStep(c) == StartSession(c) \/ SessionCloses(c) \/ OnSessionClose(c) \/ Reset(c)
UserStep(u) ==
    ReadImpl(u) \/ GetSession(u) \/ LockCloseEc(u) \/ SetCloseEc(u) \/ ShutdownSession(u)

Next ==
    \/ \E c \in Caller : TryLock(c) \/ ConnectStep(c) \/ SessionStep(c) \/ PeerEnds(c)
    \/ \E u \in User : TestImpl(u) \/ UserStep(u)

Spec == Init /\ [][Next]_vars

\* Every call that has begun and every coroutine that can run goes on.
Fairness ==
    /\ \A c \in Caller : WF_vars(ConnectStep(c)) /\ WF_vars(SessionStep(c))
    /\ \A u \in User : WF_vars(UserStep(u))

FairSpec == Spec /\ Fairness

-----------------------------------------------------------------------------
(* Properties *)

TypeOK ==
    /\ connect_mtx \in Caller \cup {None} /\ impl \in Caller \cup {None}
    /\ call \in [Caller -> {"idle", "test", "url", "dial", "make", "done"}]
    /\ result \in [Caller -> {"none", "connecting", "estab", "url", "error", "ok"}]
    /\ proto \in [Caller -> Proto]
    /\ session \in [Caller -> {"none", "made", "running", "on_close", "reset", "gone"}]
    /\ sess \in SUBSET Caller /\ locked \in SUBSET Caller
    /\ close_ec \in SUBSET Caller /\ down \in SUBSET Caller
    /\ user \in [User -> {"idle", "read", "get", "lock_ec", "set_ec", "shut", "done"}]
    /\ op \in [User -> {"Send", "Shutdown"}]
    /\ target \in [User -> Caller \cup {None}]
    /\ answer \in [User -> {"none", "session", "nobody"}]
    /\ live \in [User -> SUBSET Caller]

\* A session that is up is the one impl_ leads to: Connect never replaces it,
\* so that there is at most one and Shutdown and the destructor can reach it.
Reachable == \A c \in Caller : Up(c) => impl = c /\ c \in sess

\* Client::Send answers ec_shutdown by itself only if no session has been up
\* since the call began.
RefusedOnlyWhenDown ==
    \A u \in User : answer[u] = "nobody" => \A c \in live[u] : ~Up(c)

\* A Shutdown call that begins while a session is up does not return before that
\* session goes down, whichever impl_ it reads and whoever else shuts down. (One
\* that begins while Connect is dialling finds no session, and is lost.)
ShutdownNotLost ==
    \A u \in User : op[u] = "Shutdown" /\ user[u] = "done" =>
        \A c \in live[u] : Up(c) => c \in down

\* TcpClient and TcpSession point at each other; when the session has ended
\* OnSessionClose breaks the cycle, so that both can be freed.
CycleBroken == \A c \in Caller : c \in down ~> c \notin sess

-----------------------------------------------------------------------------
(* Inductive invariant *)

\* Where a user's call has read impl_ and not returned.
HasTarget == {"get", "lock_ec", "set_ec", "shut"}

\* A user's call that has got past the test of impl_ has a client object.
UserInv ==
    \A u \in User :
        /\ answer[u] # "none" => user[u] = "done"
        /\ user[u] = "read" => impl # None
        /\ user[u] \in HasTarget => target[u] # None

\* The calls past TryLock hold connect_mtx_; past the test they know that no
\* session is up; a client object that dials is impl_; and a user's call that
\* has read impl_ has that of the session that was up when it began.
ClientInv ==
    /\ \A c \in Caller : call[c] \notin {"idle", "done"} <=> connect_mtx = c
    /\ \A c \in Caller : call[c] \in {"url", "dial", "make"} => \A d \in Caller : ~Up(d)
    /\ \A c \in Caller : call[c] \in {"dial", "make"} => impl = c
    /\ \A c \in Caller : call[c] # "done" => session[c] = "none"
    /\ \A c \in Caller : call[c] = "make" \/ session[c] # "none" => proto[c] = "tcp"
    /\ \A u \in User : \A c \in live[u] : session[c] # "none"
    /\ \A u \in User : user[u] \in HasTarget => \A c \in live[u] : Up(c) => target[u] = c
    /\ UserInv
    /\ Reachable
    /\ RefusedOnlyWhenDown
    /\ ShutdownNotLost

Inv == TypeOK /\ ClientInv
=============================================================================
