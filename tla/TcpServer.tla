------------------------------ MODULE TcpServer ------------------------------
(***************************************************************************)
(* TcpServer of libgonet/tcp_detail.cpp: the accept loop, one coroutine    *)
(* per accepted connection that registers a session, Shutdown called by    *)
(* any thread, and OnSessionClose.  A session is the part of TcpSession    *)
(* the server sees: it is started, it may be told to shut down, it calls   *)
(* its disconnect callback once (CloseOnce of TcpSession).                 *)
(***************************************************************************)
EXTENDS Integers, FiniteSets

CONSTANTS
    Conn,            \* connections that peers open
    Closer,          \* calls of Shutdown
    MaxConnection,   \* opt_.max_connection_
    None             \* neither a connection nor a Shutdown call

ASSUME ConnAssumption == IsFiniteSet(Conn)
ASSUME MaxConnectionAssumption == MaxConnection \in Nat
ASSUME NamesAssumption == None \notin Conn \cup Closer /\ Conn \cap Closer = {}

VARIABLES
    start,           \* goStart: "idle", "opened" (before fork), "started", "failed"
    accept,          \* the accept loop: "off", "before", "accept", "after", "end"
    accepted,        \* the connection accept returned, or None
    acceptor,        \* the listening socket: "none", "listening", "shut", "closed"
    conn,            \* the coroutine and session of each connection
    sessions,        \* sessions_
    sessions_mutex,  \* who holds sessions_mutex_, or None
    shutdown,        \* shutdown_
    closer,          \* where each Shutdown call is
    told,            \* sessions on which TcpSession::Shutdown was called
    ended            \* sessions whose connection is gone

serverVars == <<start, accept, accepted, acceptor>>
sessionVars == <<conn, sessions, told, ended>>
vars == <<serverVars, sessionVars, sessions_mutex, shutdown, closer>>

\* A connection waits in the backlog, its coroutine shakes hands, checks the
\* limits under the lock, sets the session's options and starts it, and the
\* session runs until OnSessionClose calls disconnect_cb_ and erases it.
ConnState == {"peer", "accepted", "handshake", "lock", "check", "insert", "setup", "running",
              "on_close", "erase", "gone"}

Init ==
    /\ start = "idle" /\ accept = "off" /\ accepted = None /\ acceptor = "none"
    /\ conn = [c \in Conn |-> "peer"]
    /\ sessions = {} /\ sessions_mutex = None /\ shutdown = FALSE
    /\ closer = [k \in Closer |-> "idle"]
    /\ told = {} /\ ended = {}

GotoConn(c, where) == conn' = [conn EXCEPT ![c] = where]
GotoCloser(k, where) == closer' = [closer EXCEPT ![k] = where]

-----------------------------------------------------------------------------
(* goStart and the accept loop *)

\* Open, bind and listen, or fail with the error's code.
goStartBeforeFork ==
    /\ start = "idle"
    /\ \/ start' = "opened" /\ acceptor' = "listening"
       \/ start' = "failed" /\ UNCHANGED acceptor
    /\ UNCHANGED <<accept, accepted, sessionVars, sessions_mutex, shutdown, closer>>

goStartAfterFork ==
    /\ start = "opened"
    /\ start' = "started" /\ accept' = "before"
    /\ UNCHANGED <<accepted, acceptor, sessionVars, sessions_mutex, shutdown, closer>>

\* The accept aspect's before_aspect.
BeforeAspect ==
    /\ accept = "before"
    /\ accept' = "accept"
    /\ UNCHANGED <<start, accepted, acceptor, sessionVars, sessions_mutex, shutdown, closer>>

\* accept returns a connection.
AcceptOk(c) ==
    /\ accept = "accept" /\ acceptor = "listening"
    /\ conn[c] = "peer"
    /\ GotoConn(c, "accepted")
    /\ accepted' = c /\ accept' = "after"
    /\ UNCHANGED <<start, acceptor, sessions, told, ended, sessions_mutex, shutdown, closer>>

\* accept fails: on a socket that is shut down, or for lack of resources.
AcceptError ==
    /\ accept = "accept"
    /\ accepted' = None /\ accept' = "after"
    /\ UNCHANGED <<start, acceptor, sessionVars, sessions_mutex, shutdown, closer>>

\* Mutant: an accept error does not end the loop.
AfterErrorMutant ==
    /\ accept = "after" /\ accepted = None
    /\ accept' = "before" /\ UNCHANGED acceptor
    /\ UNCHANGED <<start, accepted, sessionVars, sessions_mutex, shutdown, closer>>

\* after_aspect, and the error ends the loop if the server is shut down.
AfterError ==
    /\ accept = "after" /\ accepted = None
    /\ \/ shutdown /\ acceptor' = "closed" /\ accept' = "end"
       \/ ~shutdown /\ accept' = "before" /\ UNCHANGED acceptor
    /\ UNCHANGED <<start, accepted, sessionVars, sessions_mutex, shutdown, closer>>

\* after_aspect, and a coroutine is started for the connection.
AfterAccept ==
    /\ accept = "after" /\ accepted # None
    /\ GotoConn(accepted, "handshake")
    /\ accepted' = None /\ accept' = "before"
    /\ UNCHANGED <<start, acceptor, sessions, told, ended, sessions_mutex, shutdown, closer>>

-----------------------------------------------------------------------------
(* The coroutine of a connection *)

\* The handshake (none for tcp) fails, or the session is made.
Handshake(c) ==
    /\ conn[c] = "handshake"
    /\ GotoConn(c, "lock") \/ GotoConn(c, "gone")
    /\ UNCHANGED <<serverVars, sessions, told, ended, sessions_mutex, shutdown, closer>>

\* Mutant: the lock is not taken.
LockSessionsMutant(c) ==
    /\ conn[c] = "lock"
    /\ GotoConn(c, "check")
    /\ UNCHANGED <<serverVars, sessions, told, ended, sessions_mutex, shutdown, closer>>

LockSessions(c) ==
    /\ conn[c] = "lock" /\ sessions_mutex = None
    /\ sessions_mutex' = c
    /\ GotoConn(c, "check")
    /\ UNCHANGED <<serverVars, sessions, told, ended, shutdown, closer>>

\* Mutant: the limit is passed by one.
RefusedLateMutant == shutdown \/ Cardinality(sessions) > MaxConnection

\* Mutant: shutdown_ is not looked at under the lock.
RefusedBlindMutant == Cardinality(sessions) >= MaxConnection

\* Why a session is not registered.
Refused == shutdown \/ Cardinality(sessions) >= MaxConnection

\* Under the lock: refuse the connection, which shuts its session down and
\* drops it, or go on.
Check(c) ==
    /\ conn[c] = "check"
    /\ \/ /\ Refused
          /\ GotoConn(c, "gone") /\ told' = told \cup {c} /\ sessions_mutex' = None
       \/ /\ ~Refused
          /\ GotoConn(c, "insert") /\ UNCHANGED <<told, sessions_mutex>>
    /\ UNCHANGED <<serverVars, sessions, ended, shutdown, closer>>

\* Still under the lock: register the session, and unlock.
Insert(c) ==
    /\ conn[c] = "insert"
    /\ sessions' = sessions \cup {c}
    /\ sessions_mutex' = None
    /\ GotoConn(c, "setup")
    /\ UNCHANGED <<serverVars, told, ended, shutdown, closer>>

\* The session's options are set and goStart is called.
StartSession(c) ==
    /\ conn[c] = "setup"
    /\ GotoConn(c, "running")
    /\ UNCHANGED <<serverVars, sessions, told, ended, sessions_mutex, shutdown, closer>>

-----------------------------------------------------------------------------
(* The session, as the server sees it *)

\* The peer closes the connection, or it breaks.
ConnectionEnds(c) ==
    /\ conn[c] \notin {"peer", "gone"} /\ c \notin ended
    /\ ended' = ended \cup {c}
    /\ UNCHANGED <<serverVars, conn, sessions, told, sessions_mutex, shutdown, closer>>

\* A session whose connection is gone, or that was told to shut down, closes.
SessionCloses(c) ==
    /\ conn[c] = "running" /\ c \in ended \cup told
    /\ GotoConn(c, "on_close")
    /\ UNCHANGED <<serverVars, sessions, told, ended, sessions_mutex, shutdown, closer>>

\* OnSessionClose: disconnect_cb_, without the lock.
OnSessionClose(c) ==
    /\ conn[c] = "on_close"
    /\ GotoConn(c, "erase")
    /\ UNCHANGED <<serverVars, sessions, told, ended, sessions_mutex, shutdown, closer>>

\* Mutant: the session stays in sessions_.
EraseMutant(c) ==
    /\ conn[c] = "erase" /\ sessions_mutex = None
    /\ GotoConn(c, "gone")
    /\ UNCHANGED <<serverVars, sessions, told, ended, sessions_mutex, shutdown, closer>>

\* OnSessionClose: sessions_.erase(id), which takes the lock for this one step.
Erase(c) ==
    /\ conn[c] = "erase" /\ sessions_mutex = None
    /\ sessions' = sessions \ {c}
    /\ GotoConn(c, "gone")
    /\ UNCHANGED <<serverVars, told, ended, sessions_mutex, shutdown, closer>>

-----------------------------------------------------------------------------
(* Shutdown *)

ShutdownSetFlag(k) ==
    /\ closer[k] = "idle"
    /\ shutdown' = TRUE
    /\ GotoCloser(k, "acceptor")
    /\ UNCHANGED <<serverVars, sessionVars, sessions_mutex>>

\* The listening socket, if there is one, is shut down.
ShutdownAcceptor(k) ==
    /\ closer[k] = "acceptor"
    /\ acceptor' = IF acceptor = "listening" THEN "shut" ELSE acceptor
    /\ GotoCloser(k, "lock")
    /\ UNCHANGED <<start, accept, accepted, sessionVars, sessions_mutex, shutdown>>

ShutdownLock(k) ==
    /\ closer[k] = "lock" /\ sessions_mutex = None
    /\ sessions_mutex' = k
    /\ GotoCloser(k, "each")
    /\ UNCHANGED <<serverVars, sessionVars, shutdown>>

\* Under the lock, TcpSession::Shutdown on one more session.
ShutdownSession(k, c) ==
    /\ closer[k] = "each" /\ c \in sessions \ told
    /\ told' = told \cup {c}
    /\ UNCHANGED <<serverVars, conn, sessions, ended, sessions_mutex, shutdown, closer>>

\* All sessions have been told; the lock is released.
ShutdownReturn(k) ==
    /\ closer[k] = "each" /\ sessions \subseteq told
    /\ sessions_mutex' = None
    /\ GotoCloser(k, "done")
    /\ UNCHANGED <<serverVars, sessionVars, shutdown>>

-----------------------------------------------------------------------------

AcceptStep ==
    \/ BeforeAspect \/ AcceptError \/ AfterError \/ AfterAccept
    \/ \E c \in Conn : AcceptOk(c)

ConnStep(c) ==
    \/ Handshake(c) \/ LockSessions(c) \/ Check(c) \/ Insert(c)
    \/ StartSession(c) \/ SessionCloses(c) \/ OnSessionClose(c) \/ Erase(c)

CloserStep(k) ==
    \/ ShutdownAcceptor(k) \/ ShutdownLock(k) \/ ShutdownReturn(k)
    \/ \E c \in Conn : ShutdownSession(k, c)

Next ==
    \/ goStartBeforeFork \/ goStartAfterFork
    \/ AcceptStep
    \/ \E c \in Conn : ConnStep(c) \/ ConnectionEnds(c)
    \/ \E k \in Closer : ShutdownSetFlag(k) \/ CloserStep(k)

Spec == Init /\ [][Next]_vars

\* Coroutines and callers that can run do run.  accept waits for a connection
\* unless its socket is shut down; sessions_mutex_ is granted fairly.
Fairness ==
    /\ WF_vars(goStartAfterFork)
    /\ WF_vars(AcceptStep /\ (accept = "accept" => acceptor = "shut"))
    /\ \A c \in Conn : WF_vars(ConnStep(c)) /\ SF_vars(LockSessions(c)) /\ SF_vars(Erase(c))
    /\ \A k \in Closer : WF_vars(CloserStep(k)) /\ SF_vars(ShutdownLock(k))

FairSpec == Spec /\ Fairness

-----------------------------------------------------------------------------
(* Properties *)

TypeOK ==
    /\ start \in {"idle", "opened", "started", "failed"}
    /\ accept \in {"off", "before", "accept", "after", "end"}
    /\ accepted \in Conn \cup {None}
    /\ acceptor \in {"none", "listening", "shut", "closed"}
    /\ conn \in [Conn -> ConnState]
    /\ sessions \in SUBSET Conn
    /\ sessions_mutex \in Conn \cup Closer \cup {None}
    /\ shutdown \in BOOLEAN
    /\ closer \in [Closer -> {"idle", "acceptor", "lock", "each", "done"}]
    /\ told \in SUBSET Conn
    /\ ended \in SUBSET Conn

\* SetMaxConnection is never exceeded, however many handshakes run at once.
WithinMaxConnection == Cardinality(sessions) <= MaxConnection

\* A connection whose handshake races Shutdown is not forgotten: once a
\* Shutdown call has returned, every registered session was told to stop.
NoOrphan == (\E k \in Closer : closer[k] = "done") => sessions \subseteq told

\* The place of a session whose connection is gone becomes free again.
PlaceFreed == \A c \in Conn : (c \in sessions /\ c \in ended) ~> c \notin sessions

\* After Shutdown of a listening server its accept loop ends and closes the
\* listening socket, and the server runs out of sessions.
ShutdownCompletes ==
    \A k \in Closer : (closer[k] = "done" /\ acceptor = "shut")
                          ~> (accept = "end" /\ acceptor = "closed" /\ sessions = {})

-----------------------------------------------------------------------------
(* Inductive invariant *)

\* sessions_mutex_ excludes; between the test of the limits and the insertion
\* no one changes sessions_; and a Shutdown call that has come to its loop
\* under the lock finds no registration in progress.
ServerInv ==
    /\ accepted # None => conn[accepted] = "accepted"
    /\ \A c \in Conn : conn[c] \in {"check", "insert"} <=> sessions_mutex = c
    /\ \A k \in Closer : closer[k] = "each" <=> sessions_mutex = k
    /\ \A k \in Closer : closer[k] # "idle" => shutdown
    /\ Cardinality(sessions) <= MaxConnection
    /\ \A c \in Conn : conn[c] = "insert" => Cardinality(sessions) < MaxConnection
    /\ \A c \in Conn : c \in sessions => conn[c] \in {"setup", "running", "on_close", "erase"}
    /\ \A k \in Closer : closer[k] = "done" =>
           sessions \subseteq told /\ \A c \in Conn : conn[c] # "insert"

Inv == TypeOK /\ ServerInv
=============================================================================
