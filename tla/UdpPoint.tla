------------------------------ MODULE UdpPoint ------------------------------
(***************************************************************************)
(* UdpPoint of libgonet/udp_detail.cpp, the udp server and client: users   *)
(* that call goStart, Connect or Send, calls of Shutdown, and the receive  *)
(* coroutines (DoRecv), which Shutdown waits for on recv_shutdown_channel_.*)
(* init_ and shutdown_ are tested and set in separate steps, as in the     *)
(* code.                                                                   *)
(***************************************************************************)
EXTENDS Integers, FiniteSets

CONSTANTS
    User,     \* calls of goStart, Connect and Send
    Op,       \* which of the three the calls are
    Closer    \* calls of Shutdown

ASSUME UserAssumption == IsFiniteSet(User)
ASSUME OpAssumption == Op \subseteq {"goStart", "Connect", "Send"}

VARIABLES
    init, shutdown,   \* init_, shutdown_
    socket,           \* socket_: "none", "open" or "closed"
    user, op,         \* where each user's call is, and which one it is
    result,           \* what the call returned: "none", "ok", "estab", "error"
    loop,             \* the DoRecv coroutine that the user's goStart made
    closer,           \* where each Shutdown call is
    chan,             \* elements in recv_shutdown_channel_, whose capacity is 1
    connected, disc   \* calls of connect_cb_ and of disconnect_cb_

flagVars == <<init, shutdown, socket>>
userVars == <<user, op, result>>
cbVars == <<connected, disc>>
vars == <<flagVars, userVars, loop, closer, chan, cbVars>>

Init ==
    /\ init = FALSE /\ shutdown = FALSE /\ socket = "none"
    /\ user = [u \in User |-> "idle"]
    /\ op \in [User -> Op]
    /\ result = [u \in User |-> "none"]
    /\ loop = [u \in User |-> "off"]
    /\ closer = [k \in Closer |-> "idle"]
    /\ chan = 0 /\ connected = 0 /\ disc = 0

GotoUser(u, where) == user' = [user EXCEPT ![u] = where]
GotoLoop(u, where) == loop' = [loop EXCEPT ![u] = where]
GotoCloser(k, where) == closer' = [closer EXCEPT ![k] = where]

\* The call returns.
Return(u, ec) == GotoUser(u, "done") /\ result' = [result EXCEPT ![u] = ec]

-----------------------------------------------------------------------------
(* goStart, Connect, Send *)

\* Connect and Send test init_, and call goStart if the point is not started.
TestInit(u) ==
    /\ user[u] = "idle" /\ op[u] # "goStart"
    /\ GotoUser(u, IF init THEN "use" ELSE "start")
    /\ UNCHANGED <<flagVars, op, result, loop, closer, chan, cbVars>>

\* goStart, called by the user or by Connect or Send, tests init_ and refuses
\* to start the point twice.
goStart(u) ==
    /\ \/ user[u] = "idle" /\ op[u] = "goStart"
       \/ user[u] = "start"
    /\ \/ ~init /\ GotoUser(u, "open") /\ UNCHANGED result
       \/ init /\ Return(u, "estab")
    /\ UNCHANGED <<flagVars, op, loop, closer, chan, cbVars>>

\* socket_.reset(new udp::socket(...)), which can throw.
OpenSocket(u) ==
    /\ user[u] = "open"
    /\ \/ socket' = "open" /\ GotoUser(u, "init") /\ UNCHANGED result
       \/ Return(u, "error") /\ UNCHANGED socket
    /\ UNCHANGED <<init, shutdown, op, loop, closer, chan, cbVars>>

SetInit(u) ==
    /\ user[u] = "init"
    /\ init' = TRUE
    /\ GotoUser(u, "go")
    /\ UNCHANGED <<shutdown, socket, op, result, loop, closer, chan, cbVars>>

\* The receive coroutine is started, and goStart returns to its caller.
Go(u) ==
    /\ user[u] = "go"
    /\ GotoLoop(u, "recv")
    /\ \/ op[u] = "goStart" /\ Return(u, "ok")
       \/ op[u] # "goStart" /\ GotoUser(u, "use") /\ UNCHANGED result
    /\ UNCHANGED <<flagVars, op, closer, chan, cbVars>>

\* The socket's connect and connect_cb_, or send; a closed socket is an error.
Use(u) ==
    /\ user[u] = "use"
    /\ \/ /\ socket = "open" /\ Return(u, "ok")
          /\ connected' = connected + (IF op[u] = "Connect" THEN 1 ELSE 0)
       \/ Return(u, "error") /\ UNCHANGED connected
    /\ UNCHANGED <<flagVars, op, loop, closer, chan, disc>>

-----------------------------------------------------------------------------
(* DoRecv *)

\* recvfrom returns a packet, which receive_cb_ is given, or an error.
Recv(u) ==
    /\ loop[u] = "recv"
    /\ GotoLoop(u, "test")
    /\ UNCHANGED <<flagVars, userVars, closer, chan, cbVars>>

\* Mutant: the loop ends without a word to Shutdown.
TestShutdownMutant(u) ==
    /\ loop[u] = "test"
    /\ GotoLoop(u, IF shutdown THEN "end" ELSE "recv")
    /\ UNCHANGED <<flagVars, userVars, closer, chan, cbVars>>

TestShutdown(u) ==
    /\ loop[u] = "test"
    /\ GotoLoop(u, IF shutdown THEN "push" ELSE "recv")
    /\ UNCHANGED <<flagVars, userVars, closer, chan, cbVars>>

\* Mutant: DoRecv does not wait for a place in the channel.
PushMutant(u) ==
    /\ loop[u] = "push"
    /\ chan' = chan + 1
    /\ GotoLoop(u, "end")
    /\ UNCHANGED <<flagVars, userVars, closer, cbVars>>

\* recv_shutdown_channel_ << nullptr, which waits while the channel is full.
Push(u) ==
    /\ loop[u] = "push" /\ chan < 1
    /\ chan' = chan + 1
    /\ GotoLoop(u, "end")
    /\ UNCHANGED <<flagVars, userVars, closer, cbVars>>

-----------------------------------------------------------------------------
(* Shutdown *)

\* The two early returns; the flags are tested before shutdown_ is set.
Shutdown(k) ==
    /\ closer[k] = "idle"
    /\ GotoCloser(k, IF init /\ ~shutdown THEN "set" ELSE "done")
    /\ UNCHANGED <<flagVars, userVars, loop, chan, cbVars>>

SetShutdown(k) ==
    /\ closer[k] = "set"
    /\ shutdown' = TRUE
    /\ GotoCloser(k, "close")
    /\ UNCHANGED <<init, socket, userVars, loop, chan, cbVars>>

CloseSocket(k) ==
    /\ closer[k] = "close"
    /\ socket' = "closed"
    /\ GotoCloser(k, "wait")
    /\ UNCHANGED <<init, shutdown, userVars, loop, chan, cbVars>>

\* Mutant: Shutdown does not wait for DoRecv.
WaitRecvMutant(k) ==
    /\ closer[k] = "wait"
    /\ disc' = disc + 1
    /\ GotoCloser(k, "done")
    /\ UNCHANGED <<flagVars, userVars, loop, chan, connected>>

\* recv_shutdown_channel_ >> nullptr, then disconnect_cb_.
WaitRecv(k) ==
    /\ closer[k] = "wait" /\ chan > 0
    /\ chan' = chan - 1
    /\ disc' = disc + 1
    /\ GotoCloser(k, "done")
    /\ UNCHANGED <<flagVars, userVars, loop, connected>>

-----------------------------------------------------------------------------

UserStep(u) == (user[u] = "start" /\ goStart(u)) \/ OpenSocket(u) \/ SetInit(u) \/ Go(u) \/ Use(u)
LoopStep(u) == Recv(u) \/ TestShutdown(u) \/ Push(u)
CloserStep(k) == SetShutdown(k) \/ CloseSocket(k) \/ WaitRecv(k)

Next ==
    \/ \E u \in User : TestInit(u) \/ goStart(u) \/ UserStep(u) \/ LoopStep(u)
    \/ \E k \in Closer : Shutdown(k) \/ CloserStep(k)

Spec == Init /\ [][Next]_vars

\* Whoever can run does; recvfrom returns once the socket is closed.
Fairness ==
    /\ \A u \in User : /\ WF_vars(UserStep(u))
                       /\ WF_vars(LoopStep(u) /\ (loop[u] = "recv" => socket = "closed"))
    /\ \A k \in Closer : WF_vars(CloserStep(k))

FairSpec == Spec /\ Fairness

-----------------------------------------------------------------------------
(* Properties *)

TypeOK ==
    /\ init \in BOOLEAN /\ shutdown \in BOOLEAN
    /\ socket \in {"none", "open", "closed"}
    /\ user \in [User -> {"idle", "start", "open", "init", "go", "use", "done"}]
    /\ op \in [User -> Op]
    /\ result \in [User -> {"none", "ok", "estab", "error"}]
    /\ loop \in [User -> {"off", "recv", "test", "push", "end"}]
    /\ closer \in [Closer -> {"idle", "set", "close", "wait", "done"}]
    /\ chan \in 0..1 /\ connected \in Nat /\ disc \in Nat

\* disconnect_cb_ is called only after a receive coroutine has ended: each call
\* of it and each element of the channel stands for one that has.
DisconnectAfterRecv == disc + chan = Cardinality({u \in User : loop[u] = "end"})

\* The calls of goStart that are past their test and whose coroutine is or will
\* be started.
Started == {u \in User : user[u] \in {"init", "go"} \/ loop[u] # "off"}

\* Each Shutdown call that is past its tests returns, and has called
\* disconnect_cb_, unless the last word of every receive coroutine went to another
\* Shutdown call, or a second goStart that raced the first is still about to
\* replace the socket.
ShutdownReturns ==
    \A k \in Closer :
        closer[k] = "set" /\ (\A u \in User : user[u] # "open")
            ~> closer[k] = "done" \/ (disc > 0 /\ disc = Cardinality(Started))
=============================================================================
