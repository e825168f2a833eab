-------------------------- MODULE SessionContract --------------------------
(***************************************************************************)
(* What a TcpSession promises the caller of Send and SendNoDelay about     *)
(* bytes, send callbacks and the disconnect callback, with no word about   *)
(* coroutines, queues, timers or flags.                                    *)
(***************************************************************************)
EXTENDS Integers

CONSTANTS Msg,   \* the calls of Send and SendNoDelay
          Size   \* the length of each call's buffer

VARIABLES
    wrote,         \* how many bytes of each call are on the connection
    outcome,       \* what each call's SndCb was told, or "none"
    socketClosed,  \* close() has been called on the socket
    ended          \* disconnect_cb_ has been called

vars == <<wrote, outcome, socketClosed, ended>>

Init ==
    /\ wrote = [m \in Msg |-> 0]
    /\ outcome = [m \in Msg |-> "none"]
    /\ socketClosed = FALSE
    /\ ended = FALSE

\* Bytes are only added, never more than the buffer has, never for a call whose
\* SndCb has been called.
BytesGrow ==
    \A m \in Msg : /\ wrote'[m] \in wrote[m]..Size[m]
                   /\ outcome[m] # "none" => wrote'[m] = wrote[m]

\* A SndCb is called once: with no error when all bytes are out, with a timeout
\* when none is, or because the session is shut down.
OutcomeFor(m) ==
    \/ outcome'[m] = outcome[m]
    \/ /\ outcome[m] = "none"
       /\ \/ outcome'[m] = "ok" /\ wrote'[m] = Size[m]
          \/ outcome'[m] = "timeout" /\ wrote'[m] = 0
          \/ outcome'[m] = "shutdown"

\* A step of the session: one write may complete several calls.
Transmit ==
    /\ ~socketClosed
    /\ BytesGrow
    /\ \A m \in Msg : OutcomeFor(m)
    /\ UNCHANGED <<socketClosed, ended>>

\* Calls that are given up, before or after the socket is closed.
GiveUp ==
    /\ \A m \in Msg : outcome'[m] = outcome[m] \/ (OutcomeFor(m) /\ outcome'[m] # "timeout")
    /\ UNCHANGED <<wrote, socketClosed, ended>>

CloseSocket ==
    /\ ~socketClosed /\ socketClosed' = TRUE
    /\ UNCHANGED <<wrote, outcome, ended>>

Disconnect ==
    /\ socketClosed /\ ~ended /\ ended' = TRUE
    /\ UNCHANGED <<wrote, outcome, socketClosed>>

Next == Transmit \/ GiveUp \/ CloseSocket \/ Disconnect

Spec == Init /\ [][Next]_vars
=============================================================================
